-------------------------- MODULE MCResourceTemplate --------------------------
(* Small instances of ResourceTemplateController for TLC.                   *)
EXTENDS ResourceTemplateController, TLC

CONSTANTS a, b,      \* two targets
          c1, c2,    \* two contents
          bad, torn  \* a patch that cannot be applied, one that cannot be rendered

P(ref, content) == [ref |-> ref, content |-> content]

\* Good lists: none, one, two patches, a change of content and of order.
GoodLists == { <<>>, <<P(a, c1)>>, <<P(b, c2)>>, <<P(b, c1), P(a, c2)>> }
\* Lists that cannot be rendered, name a target twice or fail half-way, too.
OddLists == { <<>>, <<P(a, c1)>>, <<P(b, c1), P(a, c2)>>,
              <<P(a, torn)>>, <<P(a, c1), P(a, c2)>>, <<P(a, c1), P(b, bad)>> }
\* Two, one, and a list that fails half-way, for liveness.
MixedLists == { <<P(b, c1), P(a, c2)>>, <<P(a, c1)>>, <<P(a, c1), P(b, bad)>> }
=============================================================================
