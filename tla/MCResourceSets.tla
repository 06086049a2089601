----------------------------- MODULE MCResourceSets -----------------------------
(* Small instances of ResourceSets for TLC.                                 *)
EXTENDS ResourceSets, TLC

CONSTANTS dep, svc,       \* two kinds
          image, port,    \* a key that lists ask for, one that users write
          c1, c2,         \* two commits
          v1, v2          \* two values

R(kind, data) == [kind |-> kind, data |-> data]
D(i, p) == (image :> i) @@ (port :> p)

\* One resource or two; the image follows the head commit or does not.
FollowHead == <<R(dep, D(HeadOfPR, None))>>
TwoKinds == <<R(svc, D(v1, None)), R(dep, D(v2, None))>>
Lists == {FollowHead, TwoKinds}
StartLists == {TwoKinds}
Writes == {<<dep, port, v2>>, <<svc, image, v2>>}
Budget(edits, events, others, touches, faults) ==
  [edits |-> edits, events |-> events, others |-> others, touches |-> touches,
   faults |-> faults]
SmallBudgets ==
  {Budget(1, 2, 0, 0, 0), Budget(1, 1, 1, 0, 0), Budget(0, 1, 1, 0, 1),
   Budget(1, 1, 0, 1, 0), Budget(0, 1, 1, 1, 0), Budget(0, 1, 0, 1, 1),
   Budget(0, 2, 0, 1, 0), Budget(0, 3, 0, 0, 0)}
\* The deployment is copied from an existing one.
CopyDeployment == [k \in Kinds |-> IF k = dep THEN D(v1, v1) ELSE D(None, None)]
=============================================================================
