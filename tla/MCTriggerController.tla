-------------------------- MODULE MCTriggerController -------------------------
(* Small instances of TriggerController for TLC.                             *)
EXTENDS TriggerController, TLC

CONSTANTS t1, t2, n1, n2, e1, e2, p1, p2

In(t, action, event) == [triggers |-> <<t>>, action |-> action, event |-> event]

\* Each template name belongs to one trigger.
PrivateNames == t1 :> (e1 :> n1 @@ e2 :> n2)
PrivateInputs == {In(t1, "apply", e1), In(t1, "apply", e2), In(t1, "delete", e1)}

\* Two triggers whose resourceName templates render to the same name.
SharedNames == t1 :> (e1 :> n1) @@ t2 :> (e1 :> n1)
SharedInputs == {In(t1, "apply", e1), In(t2, "apply", e1)}

AllP1 == {[t \in Triggers |-> p1]}
=============================================================================
