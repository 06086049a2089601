----------------------------- MODULE MCHttpHandler -----------------------------
(* Two requests to one HTTPWebhook of one or two triggers, on names they may *)
(* share.                                                                    *)
EXTENDS HttpHandler, TLC

CONSTANTS t1, t2, n1, n2, e1, e2, p1, p2, h1

\* t1 names its template after the event, t2 always uses n2, so that two
\* triggers of one request can want the same template.
MCNameOf == t1 :> (e1 :> n1 @@ e2 :> n2) @@ t2 :> (e1 :> n2 @@ e2 :> BadName)

OnlyT1 == t1 :> p1 @@ t2 :> NoTrigger
MCInitialTriggers == {[t \in Triggers |-> p1], OnlyT1}

HookSpec(ts, action, rejects, guarded) ==
  [triggers |-> ts, action |-> action, rejects |-> rejects, guarded |-> guarded]
Single == HookSpec(<<t1>>, "", {}, FALSE)
Both == HookSpec(<<t1, t2>>, "apply", {}, FALSE)
ByEvent == HookSpec(<<t2, t1>>, "by event", {}, FALSE)
Guarded == HookSpec(<<t1>>, "", {e1}, TRUE)
Odder == HookSpec(<<t1>>, "by body", {}, FALSE)
MCHookSpecs == {Single, Both, ByEvent, Odder, Guarded}
MCRenderedAction ==
  "by event" :> (e1 :> "delete" @@ e2 :> "none") @@ "by body" :> (e1 :> "apply" @@ e2 :> Unrendered)

Post(action, event, token) ==
  [path |-> "http", wellFormed |-> TRUE, hook |-> h1,
   action |-> action, event |-> event, token |-> token]
Good == {Post(action, e1, 1) : action \in {"create", "update", "apply", "delete"}}
Second == Post("apply", e2, 1)
Odd == {Post("none", e1, 1), [Second EXCEPT !.wellFormed = FALSE], [Second EXCEPT !.path = "other"]}
WrongToken == Post("apply", e2, 2)
MCBodies == Good \cup Odd \cup {Second, WrongToken}

Start(ts, spec, s, b1, b2) ==
  [triggers |-> ts, hooks |-> h1 :> spec, secret |-> s, body |-> 1 :> b1 @@ 2 :> b2]
AllTriggers == [t \in Triggers |-> p1]
MCScenarios ==
  {Start(AllTriggers, spec, 1, b, Post("apply", e1, 1)) : spec \in {Single, Both}, b \in Good}
    \cup {Start(AllTriggers, Single, 1, Post("delete", e1, 1), b) : b \in Good}
    \cup {Start(AllTriggers, spec, 1, Second, Post("apply", e1, 1)) : spec \in {Both, ByEvent, Odder}}
    \cup {Start(AllTriggers, Both, 1, b, Post("apply", e1, 1)) : b \in Odd}
    \cup {Start(AllTriggers, Guarded, s, b, Post("apply", e1, 1)) :
            s \in {1, NoSecret}, b \in {Second, WrongToken}}
    \cup {Start(OnlyT1, spec, 1, Second, Post("apply", e1, 1)) : spec \in {Both, NoHook}}

MCNoOptions == [triggers |-> <<>>, action |-> "none", event |-> e1]
MCInputs == {Options(h, b) : h \in MCHookSpecs, b \in MCBodies} \cup {MCNoOptions}
=============================================================================
