---------------------------- MODULE TemplateStore -----------------------------
(***************************************************************************)
(* What the webhook promises about ResourceTemplates, whatever requests    *)
(* run at the same time: a request is refused without any effect, or it is *)
(* accepted with a whole plan of operations, which are then performed in   *)
(* order, each at most once and each in one piece. An accepted request may *)
(* break off between two operations, never inside one.                     *)
(*                                                                         *)
(* "apply" is create-or-replace. Only when the template was there and has  *)
(* been removed by somebody else during the operation may it stay absent.  *)
(***************************************************************************)
EXTENDS Naturals, Sequences

CONSTANTS Requests, Names, NoTemplate,
          Plans   \* the plans a request may be accepted with

VARIABLES templates,  \* what each name holds
          plan,       \* the operations of each accepted request
          at,         \* the operation a request is at; 0: not accepted yet
          seen,       \* the apply a request is at has seen its template exist
          answer      \* what the client was told

vars == <<templates, plan, at, seen, answer>>

Init ==
  /\ templates = [n \in Names |-> NoTemplate]
  /\ plan = [r \in Requests |-> <<>>]
  /\ at = [r \in Requests |-> 0]
  /\ seen = [r \in Requests |-> FALSE]
  /\ answer = [r \in Requests |-> "none"]

Running(r) == answer[r] = "none" /\ at[r] \in DOMAIN plan[r]
Op(r) == plan[r][at[r]]
Present(n) == templates[n] # NoTemplate

Refuse(r) ==
  /\ answer[r] = "none" /\ at[r] = 0
  /\ answer' = [answer EXCEPT ![r] = "refused"]
  /\ UNCHANGED <<templates, plan, at, seen>>

Accept(r) ==
  /\ answer[r] = "none" /\ at[r] = 0
  /\ plan' \in [Requests -> Plans]
  /\ \A q \in Requests \ {r} : plan'[q] = plan[q]
  /\ at' = [at EXCEPT ![r] = 1]
  /\ UNCHANGED <<templates, seen, answer>>

\* The effect of an operation on the name it is for.
Effect(op, old) ==
  CASE op.kind = "create" -> IF old = NoTemplate THEN op.value ELSE old
    [] op.kind = "update" -> IF old = NoTemplate THEN old ELSE op.value
    [] op.kind = "apply"  -> op.value
    [] op.kind = "delete" -> NoTemplate

Move(r) ==
  /\ at' = [at EXCEPT ![r] = @ + 1]
  /\ seen' = [seen EXCEPT ![r] = FALSE]
  /\ UNCHANGED <<plan, answer>>

Perform(r) ==
  /\ Running(r)
  /\ templates' = [templates EXCEPT ![Op(r).name] = Effect(Op(r), @)]
  /\ Move(r)

See(r) ==
  /\ Running(r) /\ Op(r).kind = "apply"
  /\ Present(Op(r).name)
  /\ seen' = [seen EXCEPT ![r] = TRUE]
  /\ UNCHANGED <<templates, plan, at, answer>>

\* The template an apply has seen was removed before it could be replaced.
Miss(r) ==
  /\ Running(r) /\ seen[r]
  /\ ~Present(Op(r).name)
  /\ UNCHANGED templates
  /\ Move(r)

Complete(r) ==
  /\ answer[r] = "none" /\ at[r] = Len(plan[r]) + 1
  /\ answer' = [answer EXCEPT ![r] = "ok"]
  /\ UNCHANGED <<templates, plan, at, seen>>

\* A failed call, or the end of the process.
BreakOff(r) ==
  /\ answer[r] = "none"
  /\ answer' = [answer EXCEPT ![r] = "broken"]
  /\ seen' = [seen EXCEPT ![r] = FALSE]
  /\ UNCHANGED <<templates, plan, at>>

\* The process dies: all its requests break off at once.
Die ==
  /\ answer' = [r \in Requests |-> IF answer[r] = "none" THEN "broken" ELSE answer[r]]
  /\ seen' = [r \in Requests |-> FALSE]
  /\ UNCHANGED <<templates, plan, at>>

\* The garbage collector or a user removes a template.
Remove(n) ==
  /\ Present(n)
  /\ templates' = [templates EXCEPT ![n] = NoTemplate]
  /\ UNCHANGED <<plan, at, seen, answer>>

Step(r) ==
  \/ Refuse(r) \/ Accept(r)
  \/ Perform(r) \/ See(r) \/ Miss(r)
  \/ Complete(r) \/ BreakOff(r)

Next ==
  \/ \E r \in Requests : Step(r)
  \/ Die
  \/ \E n \in Names : Remove(n)

\* Every request is answered.
Fairness == \A r \in Requests : WF_vars(Step(r))

Spec == Init /\ [][Next]_vars /\ Fairness
=============================================================================
