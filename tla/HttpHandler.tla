----------------------------- MODULE HttpHandler ------------------------------
(***************************************************************************)
(* POST /webhooks/http from the request to the response                    *)
(* (internal/webhook/http/handler.go): routing, the checks that come       *)
(* before the triggers, TriggerHandler.Handle, and what the client is told *)
(* (internal/webhook/hookutil/handler.go, internal/httputil/handler.go and *)
(* the Recovery middleware of internal/webhook/server.go).                 *)
(*                                                                         *)
(* It extends TriggerHandler: a request's options are set when it has      *)
(* passed the checks, and then it runs Handle beside the other requests.   *)
(* HTTPWebhooks come from the informer's cache, as Triggers do. A request  *)
(* that is turned away is "refused", one that a failed call ends "broken". *)
(***************************************************************************)
EXTENDS TriggerHandler

CONSTANTS
  Hooks,         \* HTTPWebhooks
  HookSpecs,     \* what an HTTPWebhook may hold
  NoHook,        \* an HTTPWebhook that does not exist
  Bodies,        \* requests as they come in
  Scenarios,     \* what is there at the start and what is sent
  Tokens,        \* values of a secret
  NoSecret,      \* a secret, or a key of it, that does not exist
  RenderedAction, \* RenderedAction[a][e]: spec.action a rendered for the event e
  NoOptions,     \* input of a request that has not passed the checks
  MaxTroubles    \* bound: edits, failed calls and crashes together

ASSUME HookSpecsAssumption ==
  \A h \in HookSpecs : h.triggers \in Seq(Triggers) /\ h.rejects \subseteq Events
ASSUME BodiesAssumption == \A b \in Bodies : b.hook \in Hooks /\ b.event \in Events
ASSUME ScenariosAssumption ==
  \A s \in Scenarios :
    /\ s.triggers \in InitialTriggers
    /\ s.hooks \in [Hooks -> HookSpecs \cup {NoHook}]
    /\ s.secret \in Tokens \cup {NoSecret}
    /\ s.body \in [Requests -> Bodies]
ASSUME NoOptionsAssumption == NoOptions \in Inputs
ASSUME MaxTroublesAssumption == MaxTroubles \in Nat

VARIABLES
  hooks,     \* the HTTPWebhooks in the API server
  hookCache, \* the webhook's copies of them
  secret,    \* the value of the secret key that hooks refer to
  body,      \* the HTTP request
  stage,     \* "get", "check", "handle"
  hook,      \* the HTTPWebhook the request has read
  status,    \* the response: 0 before it, 1 if the connection is cut
  alone      \* nobody else changed a template while the request ran Handle

http == <<hooks, hookCache, secret, body, stage, hook, status>>
handler == <<triggers, cached, templates, input, pc, rendered, at, bounds>>
httpVars == <<vars, http, alone>>

Troubles == edits + faults + crashes

HttpTypeOK ==
  /\ TypeOK
  /\ hooks \in [Hooks -> HookSpecs \cup {NoHook}]
  /\ hookCache \in [Hooks -> HookSpecs \cup {NoHook}]
  /\ secret \in Tokens \cup {NoSecret}
  /\ body \in [Requests -> Bodies]
  /\ stage \in [Requests -> {"get", "check", "handle"}]
  /\ hook \in [Requests -> HookSpecs \cup {NoHook}]
  /\ status \in [Requests -> {0, 1, 200, 400, 403, 404, 500}]
  /\ alone \in [Requests -> BOOLEAN]
  /\ \A r \in Requests :
       /\ stage[r] # "handle" => input[r] = NoOptions /\ pc[r] = "render"
       /\ (answer[r] = "ok") = (status[r] = 200)
       /\ (answer[r] = "none") = (status[r] = 0)

-----------------------------------------------------------------------------
HttpInit ==
  /\ \E s \in Scenarios :
       triggers = s.triggers /\ hooks = s.hooks /\ secret = s.secret /\ body = s.body
  /\ input = [r \in Requests |-> NoOptions]
  /\ Init
  /\ hookCache = hooks
  /\ stage = [r \in Requests |-> "get"]
  /\ hook = [r \in Requests |-> NoHook]
  /\ status = [r \in Requests |-> 0]
  /\ alone = [r \in Requests |-> TRUE]

\* What an error of a handler becomes: a httputil.Response or one of the errors
\* that hookutil.NewHandler knows is written with its status; any other panics
\* and Recovery writes 500.
Respond(r, code) ==
  /\ Answer(r, IF code = 500 THEN "broken" ELSE "refused")
  /\ status' = [status EXCEPT ![r] = code]

\* parseBody and, for what is not a POST to this path, the router's last route.
NotFound(r) ==
  /\ stage[r] = "get" /\ body[r].path = "other"
  /\ Respond(r, 404)
  /\ UNCHANGED <<handler, hooks, hookCache, secret, body, stage, hook>>

MutBadBody(r) == ~body[r].wellFormed
BadBody(r) ==
  \/ ~body[r].wellFormed \* content type, JSON, namespace or name
  \/ ~IsActionValid(body[r].action)

ParseFails(r) ==
  /\ stage[r] = "get" /\ body[r].path = "http" /\ BadBody(r)
  /\ Respond(r, 400)
  /\ UNCHANGED <<handler, hooks, hookCache, secret, body, stage, hook>>

Parsed(r) == Running(r) /\ stage[r] = "get" /\ body[r].path = "http" /\ ~BadBody(r)

HookNotFound(r) ==
  /\ Parsed(r)
  /\ hookCache[body[r].hook] = NoHook
  /\ Respond(r, 400)
  /\ UNCHANGED <<handler, hooks, hookCache, secret, body, stage, hook>>

GetHook(r) ==
  /\ Parsed(r)
  /\ hookCache[body[r].hook] # NoHook
  /\ hook' = [hook EXCEPT ![r] = hookCache[body[r].hook]]
  /\ stage' = [stage EXCEPT ![r] = "check"]
  /\ UNCHANGED <<handler, answer, hooks, hookCache, secret, body, status>>

\* validateSecretToken, then ValidateJSONSchema of the hook's own schema.
TokenFits(r) == ~hook[r].guarded \/ (secret # NoSecret /\ secret = body[r].token)

Forbidden(r) ==
  /\ stage[r] = "check" /\ ~TokenFits(r)
  /\ Respond(r, 403)
  /\ UNCHANGED <<handler, hooks, hookCache, secret, body, stage, hook>>

Rejected(r) ==
  /\ stage[r] = "check" /\ TokenFits(r)
  /\ body[r].event \in hook[r].rejects
  /\ Respond(r, 400)
  /\ UNCHANGED <<handler, hooks, hookCache, secret, body, stage, hook>>

\* What RenderedAction has for an action template that does not render.
Unrendered == "unrendered"

\* renderAction: the hook's action, or the request's if the hook has none.
ActionOf(h, b) ==
  IF h.action = "" THEN b.action
  ELSE IF h.action \in DOMAIN RenderedAction THEN RenderedAction[h.action][b.event]
  ELSE h.action

Options(h, b) == [triggers |-> h.triggers, action |-> ActionOf(h, b), event |-> b.event]

ASSUME OptionsAssumption == \A h \in HookSpecs, b \in Bodies : Options(h, b) \in Inputs

StartTriggers(r) ==
  /\ Running(r) /\ stage[r] = "check" /\ TokenFits(r)
  /\ body[r].event \notin hook[r].rejects
  /\ input' = [input EXCEPT ![r] = Options(hook[r], body[r])]
  /\ stage' = [stage EXCEPT ![r] = "handle"]
  /\ UNCHANGED <<triggers, cached, templates, pc, rendered, at, bounds, answer,
                 hooks, hookCache, secret, body, hook, status>>

\* The response to what TriggerHandler.Handle returns. An action that renders to
\* an unknown one is ErrInvalidAction, a resourceName that renders to no name a
\* ValidationErrors; one that does not render is any other error.
Responses(r, ans) ==
  CASE ans = "none"    -> {0}
    [] ans = "ok"      -> {200}
    [] ans = "refused" ->
         IF input[r].action = Unrendered THEN {500}
         ELSE IF IsActionValid(input[r].action) /\ Rendering(r)
                   /\ NameOf[Todo(r)][input[r].event] = BadName THEN {400, 500}
         ELSE {400}

HandleTriggers(r) ==
  /\ stage[r] = "handle"
  /\ Handle(r)
  /\ \E code \in Responses(r, answer'[r]) : status' = [status EXCEPT ![r] = code]
  /\ UNCHANGED <<hooks, hookCache, secret, body, stage, hook>>

\* Any call fails: the cached Gets of hook and secret, or one of Handle's. The
\* error panics and Recovery answers.
MutAnyCallFails(r) ==
  /\ stage[r] = "get" => body[r].path = "http" /\ ~BadBody(r)
  /\ CallFails(r)
  /\ UNCHANGED <<hooks, hookCache, secret, body, stage, hook, status>>
AnyCallFails(r) ==
  /\ stage[r] = "get" => body[r].path = "http" /\ ~BadBody(r)
  /\ CallFails(r)
  /\ status' = [status EXCEPT ![r] = 500]
  /\ UNCHANGED <<hooks, hookCache, secret, body, stage, hook>>

HttpStep(r) ==
  \/ NotFound(r) \/ ParseFails(r) \/ HookNotFound(r) \/ GetHook(r)
  \/ Forbidden(r) \/ Rejected(r) \/ StartTriggers(r) \/ HandleTriggers(r)

-----------------------------------------------------------------------------
(* The rest of the cluster                                                 *)

\* The process ends: connections are cut.
HttpCrash ==
  /\ Crash
  /\ status' = [r \in Requests |-> IF Running(r) THEN 1 ELSE status[r]]
  /\ UNCHANGED <<hooks, hookCache, secret, body, stage, hook>>

EditHook(h, spec) ==
  /\ edits < MaxEdits
  /\ hooks[h] \notin {spec, NoHook}
  /\ hooks' = [hooks EXCEPT ![h] = spec]
  /\ edits' = edits + 1
  /\ UNCHANGED <<triggers, cached, templates, request, faults, crashes,
                 hookCache, secret, body, stage, hook, status>>

SyncHook(h) ==
  /\ hookCache[h] # hooks[h]
  /\ hookCache' = [hookCache EXCEPT ![h] = hooks[h]]
  /\ UNCHANGED <<vars, hooks, secret, body, stage, hook, status>>

Elsewhere ==
  /\ \/ \E t \in Triggers :
          Sync(t) \/ \E p \in Patches \cup {NoTrigger} : EditTrigger(t, p)
     \/ \E n \in Names : GarbageCollect(n)
  /\ UNCHANGED http

Alone(who) ==
  alone' = [r \in Requests |->
              alone[r] /\ (Running(r) /\ stage[r] = "handle" /\ r \notin who
                            => templates' = templates)]

HttpNext ==
  \/ \E r \in Requests : (HttpStep(r) \/ AnyCallFails(r)) /\ Alone({r})
  \/ /\ \/ HttpCrash
        \/ Elsewhere
        \/ \E h \in Hooks : SyncHook(h) \/ \E spec \in HookSpecs \cup {NoHook} : EditHook(h, spec)
     /\ Alone({})

Bounded == Troubles' <= MaxTroubles

HttpSpec ==
  HttpInit /\ [][HttpNext /\ Bounded]_httpVars
    /\ \A r \in Requests : WF_httpVars(HttpStep(r) /\ Alone({r}))

-----------------------------------------------------------------------------
(* What the client may rely on                                             *)

\* What makes a request one that cannot be carried out.
BadRequest(b) ==
  LET h == hooks[b.hook]
  IN  \/ b.path = "other"
      \/ ~b.wellFormed \/ b.action \notin ActionNames
      \/ h = NoHook
      \/ h.guarded /\ (secret = NoSecret \/ b.token # secret)
      \/ b.event \in h.rejects
      \/ ActionOf(h, b) \notin ActionNames
      \/ \E i \in DOMAIN h.triggers :
           LET t == h.triggers[i]
           IN  triggers[t] = NoTrigger \/ <<t, b.event>> \in Invalid
                 \/ NameOf[t][b.event] = BadName

\* While nothing is edited a request is turned away exactly if it cannot be
\* carried out, and then whatever triggers come before the one at fault: the
\* checks of http/handler.go:142 and hookutil/trigger.go:67 are the ones that
\* website/docs/http-webhook.mdx:105 lists.
RefusesExactlyBad ==
  edits = 0 => \A r \in Requests :
    /\ status[r] \in {400, 403, 404} => BadRequest(body[r])
    /\ status[r] = 200 => ~BadRequest(body[r])

\* What the last of the request's templates for a name is to be.
Agrees(action, value, tmpl) ==
  LET same == /\ tmpl # NoTemplate
              /\ [trigger |-> tmpl.trigger, patches |-> tmpl.patches, event |-> tmpl.event] = value
  IN  CASE action = "delete" -> tmpl = NoTemplate
        [] action = "create" -> tmpl # NoTemplate
        [] action = "update" -> tmpl = NoTemplate \/ same
        [] action = "apply"  -> same
Shows(r, i) ==
  Agrees(input[r].action, rendered[r][i].value, templates[rendered[r][i].name])
IsLast(r, i) == \A j \in DOMAIN rendered[r] : j > i => rendered[r][j].name # rendered[r][i].name

\* A request answered 200 while nobody else touched a template has done all
\* that its hook asks for, also after an earlier attempt broke off in the
\* middle: an apply shows every trigger's template, a delete leaves none
\* (http/handler.go:183).
OkIsDone ==
  [][\A r \in Requests : status[r] = 0 /\ status'[r] = 200 /\ alone[r] =>
       /\ Len(rendered[r]) = Len(hook[r].triggers)
       /\ input[r].action = ActionOf(hook[r], body[r])
       /\ \A i \in DOMAIN rendered[r] : IsLast(r, i) => Shows(r, i)]_httpVars
=============================================================================
