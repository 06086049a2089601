-------------------------- MODULE WebhookServerProofs --------------------------
(***************************************************************************)
(* Theorems about WebhookServer, for any requests: it is type correct, and *)
(* what a return of RunServer says about the server.                       *)
(***************************************************************************)
EXTENDS WebhookServer, TLAPS

\* Every reachable state of the two goroutines, the listener and the requests is
\* well typed (server.go:26).
THEOREM ServerTypeCorrect == Spec => []TypeOK
<1>1. Init => TypeOK
  BY DEF Init, TypeOK
<1>2. TypeOK /\ [Next]_vars => TypeOK'
  <2> SUFFICES ASSUME TypeOK, [Next]_vars PROVE TypeOK'
    OBVIOUS
  <2>1. CASE Cancel \/ UNCHANGED vars
    BY <2>1 DEF Cancel, vars, TypeOK
  <2>2. CASE Serve \/ AcceptFails
    BY <2>2 DEF Serve, Listen, ListenFails, AcceptFails, ServerClosed, IdleConnsClosed,
      ServeReturns, TypeOK
  <2>3. CASE Shutdown
    BY <2>3 DEF Shutdown, BeginShutdown, FinishShutdown, TypeOK
  <2>4. CASE Exit \/ \E r \in Requests : Accept(r) \/ Answer(r)
    BY <2>4 DEF Exit, Accept, Answer, TypeOK
  <2> QED
    BY <2>1, <2>2, <2>3, <2>4 DEF Next
<1> QED
  BY <1>1, <1>2, PTL DEF Spec

-----------------------------------------------------------------------------
(* What a return says                                                      *)

\* No request is under way, and none was cut off.
AllAnswered == \A r \in Requests : conn[r] \in {"none", "answered"}

\* Only Shutdown closes a listener that works, and only after the context is cancelled.
CloserInv ==
  /\ listener = "shutdown" <=> closer # "waiting"
  /\ closer # "waiting" => ctx = "cancelled"

\* What waits has failed; a request is lost only after RunServer has returned.
WaitInv ==
  /\ main = "waiting" => err \in {"listen error", "accept error"}
  /\ main # "returned" => result = "none" /\ \A r \in Requests : conn[r] # "lost"

\* Shutdown does not say that it has drained while a request is under way, and
\* nothing comes after that.
DrainInv == closer = "drained" => Active = {}

ReturnInv == CloserInv /\ WaitInv /\ DrainInv /\ NilAfterFailure

\* What the goroutine of ListenAndServe does keeps it: it returns nil only after
\* having waited, and what Shutdown has drained is all answered by then.
LEMMA ServeKeepsReturn ==
  ASSUME TypeOK, ReturnInv, Serve \/ AcceptFails
  PROVE  ReturnInv'
<1> USE DEF ReturnInv, CloserInv, WaitInv, DrainInv, NilAfterFailure, Closed, Active
<1>1. CASE Listen
  BY <1>1 DEF Listen
<1>2. CASE ListenFails
  BY <1>2 DEF ListenFails, ServeReturns, ReportsError
<1>3. CASE ServerClosed
  BY <1>3 DEF ServerClosed, ServeReturns, ReportsError
<1>4. CASE IdleConnsClosed
  <2>1. \A r \in Requests : conn[r] \in {"none", "active", "answered"}
    BY <1>4 DEF IdleConnsClosed, TypeOK
  <2>2. closer = "drained" => AllAnswered
    BY <2>1 DEF AllAnswered
  <2> QED
    BY <1>4, <2>2 DEF IdleConnsClosed, AllAnswered
<1>5. CASE AcceptFails
  BY <1>5 DEF AcceptFails, ServeReturns, ReportsError
<1> QED
  BY <1>1, <1>2, <1>3, <1>4, <1>5 DEF Serve

\* No step of any of the actors breaks it.
LEMMA NextKeepsReturn == TypeOK /\ ReturnInv /\ [Next]_vars => ReturnInv'
<1> SUFFICES ASSUME TypeOK, ReturnInv, [Next]_vars PROVE ReturnInv'
  OBVIOUS
<1> USE DEF ReturnInv, CloserInv, WaitInv, DrainInv, NilAfterFailure, Closed, Active
<1>1. CASE Cancel \/ UNCHANGED vars
  BY <1>1 DEF Cancel, vars
<1>2. CASE Shutdown
  BY <1>2 DEF Shutdown, BeginShutdown, FinishShutdown
\* A request comes only before the shutdown has begun.
<1>3. ASSUME NEW r \in Requests, Accept(r) PROVE ReturnInv'
  BY <1>3 DEF Accept, TypeOK
<1>4. ASSUME NEW r \in Requests, Answer(r) PROVE ReturnInv'
  BY <1>4 DEF Answer, TypeOK
\* The process ends with requests under way: Shutdown has not drained them.
<1>5. CASE Exit
  BY <1>5 DEF Exit, TypeOK
<1> QED
  BY <1>1, <1>2, <1>3, <1>4, <1>5, ServeKeepsReturn DEF Next

\* server.go:60-64, the condition of which is the reverse of what its message says:
\* RunServer does not return before it is cancelled; a nil says that the server could
\* not listen or had stopped to accept, and that the shutdown was waited for, with
\* every request answered unless it ran out of time, whatever order the goroutines
\* and the requests run in.
THEOREM NilHidesFailure == Spec => []NilAfterFailure
<1>1. Init => ReturnInv
  BY DEF Init, ReturnInv, CloserInv, WaitInv, DrainInv, NilAfterFailure
<1>2. ReturnInv => NilAfterFailure
  BY DEF ReturnInv
<1> QED
  BY <1>1, <1>2, NextKeepsReturn, ServerTypeCorrect, PTL DEF Spec
=============================================================================
