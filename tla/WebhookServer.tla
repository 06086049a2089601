---------------------------- MODULE WebhookServer -----------------------------
(***************************************************************************)
(* RunServer (internal/httputil/server.go): the goroutine that serves HTTP *)
(* and the goroutine that shuts the server down when the manager's context *)
(* is cancelled. http.Server is modelled from how RunServer uses it:       *)
(* ListenAndServe returns ErrServerClosed as soon as Shutdown is CALLED,   *)
(* and any other error when it cannot listen, or can no longer accept      *)
(* after having served; Shutdown itself returns when the active requests   *)
(* are answered or its own context has expired.                            *)
(***************************************************************************)
EXTENDS Naturals

CONSTANT Requests

VARIABLES
  ctx,      \* the manager's context: "live" or "cancelled"
  listener, \* "new", "listening", "broken" or "shutdown"
  main,     \* RunServer: "start", "serving", "waiting" or "returned"
  err,      \* what ListenAndServe returned
  result,   \* what RunServer returned
  closer,   \* the shutdown goroutine: "waiting", "draining", and how Shutdown
            \* ended: "drained" or "expired"
  conn      \* the requests: "none", "active", "answered" or "lost"

vars == <<ctx, listener, main, err, result, closer, conn>>

Active == {r \in Requests : conn[r] = "active"}

\* idleConnsClosed is closed.
Closed == closer \in {"drained", "expired"}

Init ==
  /\ ctx = "live" /\ listener = "new"
  /\ main = "start" /\ err = "none" /\ result = "none"
  /\ closer = "waiting"
  /\ conn = [r \in Requests |-> "none"]

\* SIGTERM, or another runnable of the manager has failed.
Cancel ==
  /\ ctx = "live"
  /\ ctx' = "cancelled"
  /\ UNCHANGED <<listener, main, err, result, closer, conn>>

-----------------------------------------------------------------------------
(* The goroutine of ListenAndServe                                         *)

\* err != nil && errors.Is(err, http.ErrServerClosed)
ReportsError(e) == e = "ErrServerClosed"

MutServeReturns(e) == err' = e /\ main' = "returned" /\ result' = e
\* ListenAndServe has returned e.
ServeReturns(e) ==
  /\ err' = e
  /\ IF ReportsError(e)
     THEN main' = "returned" /\ result' = "failed to start the server"
     ELSE main' = "waiting" /\ UNCHANGED result

Listen ==
  /\ main = "start" /\ listener = "new"
  /\ listener' = "listening"
  /\ main' = "serving"
  /\ UNCHANGED <<ctx, err, result, closer, conn>>

\* The address is taken, or not allowed.
ListenFails ==
  /\ main = "start" /\ listener = "new"
  /\ ServeReturns("listen error")
  /\ UNCHANGED <<ctx, listener, closer, conn>>

\* Accept fails for good: the listener is closed, the connections stay open.
AcceptFails ==
  /\ main = "serving" /\ listener = "listening"
  /\ listener' = "broken"
  /\ ServeReturns("accept error")
  /\ UNCHANGED <<ctx, closer, conn>>

ServerClosed ==
  /\ main \in {"start", "serving"} /\ listener = "shutdown"
  /\ ServeReturns("ErrServerClosed")
  /\ UNCHANGED <<ctx, listener, closer, conn>>

MutIdleConnsClosed ==
  /\ main = "waiting" /\ closer # "waiting"
  /\ main' = "returned" /\ result' = "nil"
  /\ UNCHANGED <<ctx, listener, err, closer, conn>>
IdleConnsClosed ==
  /\ main = "waiting" /\ Closed
  /\ main' = "returned" /\ result' = "nil"
  /\ UNCHANGED <<ctx, listener, err, closer, conn>>

-----------------------------------------------------------------------------
(* The goroutine of Shutdown                                               *)

BeginShutdown ==
  /\ closer = "waiting" /\ ctx = "cancelled"
  /\ listener' = "shutdown"
  /\ closer' = "draining"
  /\ UNCHANGED <<ctx, main, err, result, conn>>

MutFinishShutdown ==
  /\ closer = "draining"
  /\ Active = {} /\ closer' = "drained"
  /\ UNCHANGED <<ctx, listener, main, err, result, conn>>
\* Drained, or out of time: the channel is closed either way.
FinishShutdown ==
  /\ closer = "draining"
  /\ \/ Active = {} /\ closer' = "drained"
     \/ closer' = "expired"
  /\ UNCHANGED <<ctx, listener, main, err, result, conn>>

-----------------------------------------------------------------------------
(* Clients, handlers and the process                                       *)

\* A request comes over a new connection or one that is open, and until the
\* shutdown begins also when only those that are open are left.
Accept(r) ==
  /\ \/ listener = "listening"
     \/ listener = "broken" /\ \E q \in Requests : conn[q] # "none"
  /\ conn[r] = "none"
  /\ conn' = [conn EXCEPT ![r] = "active"]
  /\ UNCHANGED <<ctx, listener, main, err, result, closer>>

Answer(r) ==
  /\ conn[r] = "active"
  /\ conn' = [conn EXCEPT ![r] = "answered"]
  /\ UNCHANGED <<ctx, listener, main, err, result, closer>>

\* The manager's last runnable has returned: the process ends.
Exit ==
  /\ main = "returned" /\ Active # {}
  /\ conn' = [r \in Requests |-> IF conn[r] = "active" THEN "lost" ELSE conn[r]]
  /\ UNCHANGED <<ctx, listener, main, err, result, closer>>

Serve == Listen \/ ListenFails \/ ServerClosed \/ IdleConnsClosed
Shutdown == BeginShutdown \/ FinishShutdown

Next ==
  \/ Cancel \/ Serve \/ AcceptFails \/ Shutdown \/ Exit
  \/ \E r \in Requests : Accept(r) \/ Answer(r)

\* Both goroutines run; FinishShutdown is bound to come because of its timeout.
\* Nothing makes a handler answer, Accept fail, or the context be cancelled.
Spec == Init /\ [][Next]_vars /\ WF_vars(Serve) /\ WF_vars(Shutdown)

TypeOK ==
  /\ ctx \in {"live", "cancelled"}
  /\ listener \in {"new", "listening", "broken", "shutdown"}
  /\ main \in {"start", "serving", "waiting", "returned"}
  /\ err \in {"none", "listen error", "accept error", "ErrServerClosed"}
  /\ result \in {"none", "nil", "failed to start the server"}
  /\ closer \in {"waiting", "draining", "drained", "expired"}
  /\ conn \in [Requests -> {"none", "active", "answered", "lost"}]

-----------------------------------------------------------------------------
\* server.go:60 reports the error of a server that was closed and drops every other
\* one, so that what RunServer returns is not what it says. It never returns before
\* the context is cancelled, even if it could not listen or has stopped to accept;
\* nil means that this has happened, and is the only return that has waited: if
\* Shutdown has not run out of time, whatever was served is answered by then, and
\* the process cuts nothing off.
NilAfterFailure ==
  main = "returned" =>
    /\ ctx = "cancelled"
    /\ result = "nil" =>
         /\ err \in {"listen error", "accept error"}
         /\ Closed
         /\ closer = "drained" => \A r \in Requests : conn[r] \in {"none", "answered"}

\* A cancelled context ends RunServer, whatever state it finds the server in
\* and even if requests hang (server.go:42-66).
CancelledReturns == ctx = "cancelled" ~> main = "returned"

\* RunServer waits for idleConnsClosed (server.go:64): the process does not cut
\* a request off while Shutdown, which has its own timeout (server.go:51, "Error
\* from closing listeners, or context timeout"), still lets requests finish.
DrainsBeforeReturn == [][Exit => Closed]_vars
=============================================================================
