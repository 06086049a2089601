-------------------------- MODULE HttpHandlerProofs ---------------------------
(***************************************************************************)
(* Theorems about HttpHandler, for all values of its constants: it is type *)
(* correct, implements TemplateStore, turns away exactly the requests that *)
(* cannot be carried out, and what it answers with 200 is done.            *)
(***************************************************************************)
EXTENDS HttpHandler, TriggerHandlerProofs

\* What a request knows at each stage.
RequestOf(r) ==
  /\ stage[r] # "get" => hook[r] \in HookSpecs
  /\ stage[r] # "handle" => rendered[r] = <<>>
  /\ stage[r] = "handle" => input[r] = Options(hook[r], body[r])
  /\ Len(rendered[r]) <= Len(input[r].triggers)
  /\ pc[r] # "render" => Len(rendered[r]) = Len(input[r].triggers)
  /\ answer[r] = "ok" => pc[r] # "render"
RequestInv == \A r \in Requests : RequestOf(r)

HttpInv == HttpTypeOK /\ PlanInv /\ RequestInv /\ edits \in Nat

-----------------------------------------------------------------------------
(* The kinds of steps                                                      *)

\* A request is turned away before it reaches Handle.
TurnsAway(r) ==
  NotFound(r) \/ ParseFails(r) \/ HookNotFound(r) \/ Forbidden(r) \/ Rejected(r)

LEMMA TurnedAway ==
  ASSUME HttpTypeOK, NEW r \in Requests, TurnsAway(r)
  PROVE  /\ Running(r) /\ stage[r] # "handle" /\ pc[r] = "render"
         /\ answer' = [answer EXCEPT ![r] = "refused"]
         /\ status' = [status EXCEPT ![r] = status'[r]] /\ status'[r] \in {400, 403, 404}
         /\ UNCHANGED <<handler, hooks, hookCache, secret, body, stage, hook>>
<1>1. stage[r] # "handle"
  BY DEF TurnsAway, NotFound, ParseFails, HookNotFound, Parsed, Forbidden, Rejected
<1>2. \E code \in {400, 403, 404} : Respond(r, code)
  BY DEF TurnsAway, NotFound, ParseFails, HookNotFound, Forbidden, Rejected
<1>3. UNCHANGED <<handler, hooks, hookCache, secret, body, stage, hook>>
  BY DEF TurnsAway, NotFound, ParseFails, HookNotFound, Forbidden, Rejected
<1>4. PICK code : code \in {400, 403, 404} /\ Respond(r, code)
  BY <1>2
<1>5. /\ Running(r) /\ answer' = [answer EXCEPT ![r] = "refused"]
      /\ status' = [status EXCEPT ![r] = code]
  <2>1. (IF code = 500 THEN "broken" ELSE "refused") = "refused"
    BY <1>4
  <2>2. Answer(r, "refused") /\ status' = [status EXCEPT ![r] = code]
    BY <1>4, <2>1 DEF Respond
  <2>3. QED
    BY <2>2 DEF Answer
<1>6. pc[r] = "render"
  BY <1>1 DEF HttpTypeOK
<1>7. status' = [status EXCEPT ![r] = status'[r]] /\ status'[r] \in {400, 403, 404}
  BY <1>4, <1>5 DEF HttpTypeOK
<1>8. QED
  BY <1>1, <1>3, <1>5, <1>6, <1>7

\* A step of the request's own, of Handle, of the cluster, or the end of the
\* process is a step of TriggerHandler.
HandleStep(r) == HandleTriggers(r) \/ AnyCallFails(r)
ClusterStep == HttpCrash \/ Elsewhere

LEMMA IsNext ==
  ASSUME (\E r \in Requests : HandleStep(r)) \/ ClusterStep
  PROVE  Next
BY DEF HandleStep, ClusterStep, HandleTriggers, AnyCallFails, HttpCrash, Elsewhere, Next

HookEdit == \E h \in Hooks : SyncHook(h) \/ \E spec \in HookSpecs \cup {NoHook} : EditHook(h, spec)

LEMMA HttpCases ==
  ASSUME HttpNext
  PROVE  \/ \E r \in Requests :
              /\ Alone({r})
              /\ TurnsAway(r) \/ GetHook(r) \/ StartTriggers(r) \/ HandleStep(r)
         \/ Alone({}) /\ (ClusterStep \/ HookEdit)
BY DEF HttpNext, HttpStep, TurnsAway, HandleStep, ClusterStep, HookEdit

-----------------------------------------------------------------------------
(* Type correctness                                                        *)

LEMMA HttpInitInv == HttpInit => HttpInv
<1> SUFFICES ASSUME HttpInit PROVE HttpInv
  OBVIOUS
<1>1. TypeOK /\ PlanInv
  BY InitType, InitPlan DEF HttpInit
<1>2. HttpTypeOK
  <2>1. PICK s \in Scenarios :
          triggers = s.triggers /\ hooks = s.hooks /\ secret = s.secret /\ body = s.body
    BY DEF HttpInit
  <2>2. /\ hooks \in [Hooks -> HookSpecs \cup {NoHook}] /\ secret \in Tokens \cup {NoSecret}
        /\ body \in [Requests -> Bodies]
    BY <2>1, ScenariosAssumption
  <2>3. QED
    BY <1>1, <2>2 DEF HttpInit, Init, HttpTypeOK
<1>3. Len(NoOptions.triggers) \in Nat
  BY NoOptionsAssumption, InputsAssumption
<1>4. RequestInv
  <2>1. \A r \in Requests : stage[r] = "get" /\ pc[r] = "render" /\ answer[r] = "none"
    BY DEF HttpInit, Init
  <2>2. \A r \in Requests : rendered[r] = <<>> /\ input[r] = NoOptions
    BY DEF HttpInit, Init
  <2>3. ASSUME NEW r \in Requests PROVE Len(rendered[r]) <= Len(input[r].triggers)
    <3>1. Len(rendered[r]) = 0
      BY <2>2
    <3>2. QED
      BY <1>3, <2>2, <3>1
  <2>4. QED
    BY <2>1, <2>2, <2>3 DEF RequestInv, RequestOf
<1>5. QED
  BY <1>1, <1>2, <1>4 DEF HttpInv, Init, HttpInit

\* Whoever writes alone, it stays a function to Booleans.
LEMMA AloneType ==
  ASSUME alone \in [Requests -> BOOLEAN], NEW who, Alone(who)
  PROVE  alone' \in [Requests -> BOOLEAN]
BY DEF Alone

LEMMA HandlerType ==
  ASSUME HttpInv, [HttpNext]_httpVars
  PROVE  TypeOK' /\ PlanInv'
<1>1. TypeOK /\ PlanInv
  BY DEF HttpInv, HttpTypeOK
<1>2. ASSUME NEW r \in Requests, TurnsAway(r) PROVE TypeOK' /\ PlanInv'
  <2>1. /\ answer' = [answer EXCEPT ![r] = "refused"]
        /\ UNCHANGED <<triggers, cached, templates, input, pc, rendered, at>>
    BY <1>2, TurnedAway DEF HttpInv, handler
  <2>2. QED
    BY <1>1, <2>1 DEF TypeOK, PlanInv
<1>3. ASSUME NEW r \in Requests, StartTriggers(r) PROVE TypeOK' /\ PlanInv'
  <2>1. hook[r] \in HookSpecs /\ body[r] \in Bodies
    BY <1>3 DEF StartTriggers, HttpInv, RequestInv, RequestOf, HttpTypeOK
  <2>2. Options(hook[r], body[r]) \in Inputs
    BY <2>1, OptionsAssumption
  <2>3. input' = [input EXCEPT ![r] = Options(hook[r], body[r])] /\ pc[r] = "render"
    BY <1>3 DEF StartTriggers, HttpInv, HttpTypeOK
  <2>4. UNCHANGED <<triggers, cached, templates, pc, rendered, at, answer>>
    BY <1>3 DEF StartTriggers
  <2>5. TypeOK'
    BY <1>1, <2>2, <2>3, <2>4 DEF TypeOK
  <2>6. PlanInv'
    BY <1>1, <2>3, <2>4 DEF TypeOK, PlanInv
  <2>7. QED
    BY <2>5, <2>6
<1>4. CASE UNCHANGED <<triggers, cached, templates, request>>
  BY <1>1, <1>4 DEF TypeOK, PlanInv, request
<1>5. CASE Next
  BY <1>1, <1>5, NextType, NextPlan
<1>6. ASSUME NEW r \in Requests, GetHook(r) PROVE TypeOK' /\ PlanInv'
  BY <1>4, <1>6 DEF GetHook, handler, request
<1>7. CASE HookEdit
  BY <1>4, <1>7 DEF HookEdit, SyncHook, EditHook, vars
<1>8. CASE UNCHANGED httpVars
  BY <1>4, <1>8 DEF httpVars, vars
<1>9. QED
  BY <1>2, <1>3, <1>5, <1>6, <1>7, <1>8, HttpCases, IsNext

\* What the response says and what Handle returned agree.
LEMMA ResponseType ==
  ASSUME NEW r \in Requests, NEW ans \in {"none", "ok", "refused", "broken"},
         NEW code \in Responses(r, ans), ans # "broken"
  PROVE  /\ code \in {0, 200, 400, 500}
         /\ (ans = "ok") = (code = 200)
         /\ (ans = "none") = (code = 0)
         /\ ans = "refused" => code \in {400, 500}
BY DEF Responses

\* Handle itself never breaks off: only a call that fails does that.
LEMMA HandleAnswers ==
  ASSUME TypeOK, NEW r \in Requests, Handle(r)
  PROVE  /\ Running(r)
         /\ answer'[r] \in {"none", "ok", "refused"}
         /\ \A q \in Requests \ {r} : answer'[q] = answer[q]
         /\ answer' \in [Requests -> {"none", "ok", "refused", "broken"}]
<1>1. Running(r)
  BY DEF Handle, RenderFails, RenderTrigger, Rendering, StartHandling, CreateFree, AlreadyExists,
     PatchSpec, NotExist, Delete, Finish, Answer, Patching, Calling
<1>2. \/ UNCHANGED answer
      \/ answer' = [answer EXCEPT ![r] = "refused"]
      \/ answer' = [answer EXCEPT ![r] = "ok"]
  BY DEF Handle, RenderFails, RenderTrigger, StartHandling, CreateFree, AlreadyExists,
     PatchSpec, NotExist, Delete, Finish, Answer
<1>3. QED
  BY <1>1, <1>2 DEF Running, TypeOK

HttpData ==
  /\ hooks \in [Hooks -> HookSpecs \cup {NoHook}]
  /\ hookCache \in [Hooks -> HookSpecs \cup {NoHook}]
  /\ secret \in Tokens \cup {NoSecret}
  /\ body \in [Requests -> Bodies]
  /\ stage \in [Requests -> {"get", "check", "handle"}]
  /\ hook \in [Requests -> HookSpecs \cup {NoHook}]
  /\ alone \in [Requests -> BOOLEAN]

StatusFits ==
  /\ status \in [Requests -> {0, 1, 200, 400, 403, 404, 500}]
  /\ \A r \in Requests :
       /\ (answer[r] = "ok") = (status[r] = 200)
       /\ (answer[r] = "none") = (status[r] = 0)

LEMMA StatusType ==
  ASSUME HttpInv, [HttpNext]_httpVars
  PROVE  StatusFits'
<1>1. /\ TypeOK /\ StatusFits
      /\ \A r \in Requests : (answer[r] = "none") = Running(r)
  BY DEF HttpInv, HttpTypeOK, StatusFits, Running
<1>2. ASSUME NEW r \in Requests, TurnsAway(r) PROVE StatusFits'
  <2>1. status' = [status EXCEPT ![r] = status'[r]] /\ status'[r] \in {400, 403, 404}
    BY <1>2, TurnedAway DEF HttpInv
  <2>2. answer' = [answer EXCEPT ![r] = "refused"]
    BY <1>2, TurnedAway DEF HttpInv
  <2>3. PICK code : code = status'[r]
    OBVIOUS
  <2>4. status' = [status EXCEPT ![r] = code] /\ code \in {400, 403, 404}
    BY <2>1, <2>3
  <2>5. QED
    BY <1>1, <2>2, <2>4 DEF StatusFits, TypeOK
<1>3. ASSUME NEW r \in Requests, HandleTriggers(r) PROVE StatusFits'
  <2>1. PICK code \in Responses(r, answer'[r]) : status' = [status EXCEPT ![r] = code]
    BY <1>3 DEF HandleTriggers
  <2>2. /\ answer'[r] \in {"none", "ok", "refused"}
        /\ \A q \in Requests \ {r} : answer'[q] = answer[q]
    BY <1>1, <1>3, HandleAnswers DEF HandleTriggers
  <2>3. /\ code \in {0, 200, 400, 500}
        /\ (answer'[r] = "ok") = (code = 200)
        /\ (answer'[r] = "none") = (code = 0)
    BY <2>1, <2>2, ResponseType
  <2>4. QED
    BY <1>1, <2>1, <2>2, <2>3 DEF StatusFits
<1>4. ASSUME NEW r \in Requests, AnyCallFails(r) PROVE StatusFits'
  <2>1. /\ status' = [status EXCEPT ![r] = 500]
        /\ answer' = [answer EXCEPT ![r] = "broken"]
    BY <1>4 DEF AnyCallFails, CallFails, Answer
  <2>2. QED
    BY <1>1, <2>1 DEF StatusFits, TypeOK
<1>5. CASE HttpCrash
  <2>1. /\ status' = [r \in Requests |-> IF Running(r) THEN 1 ELSE status[r]]
        /\ answer' = [r \in Requests |-> IF Running(r) THEN "broken" ELSE answer[r]]
    BY <1>5 DEF HttpCrash, Crash
  <2>2. QED
    BY <1>1, <2>1 DEF StatusFits
<1>6. CASE UNCHANGED <<answer, status>>
  BY <1>1, <1>6 DEF StatusFits
<1>7. ASSUME NEW r \in Requests, GetHook(r) \/ StartTriggers(r) PROVE StatusFits'
  BY <1>6, <1>7 DEF GetHook, StartTriggers
<1>8. CASE Elsewhere \/ HookEdit
  <2>1. UNCHANGED <<answer, status>>
    BY <1>8 DEF Elsewhere, HookEdit, SyncHook, EditHook, http, vars, request, Sync, EditTrigger,
       GarbageCollect
  <2>2. QED
    BY <1>6, <2>1
<1>9. CASE UNCHANGED httpVars
  BY <1>6, <1>9 DEF httpVars, vars, request, http
<1>10. QED
  BY <1>2, <1>3, <1>4, <1>5, <1>7, <1>8, <1>9, HttpCases DEF HandleStep, ClusterStep

\* What no request changes, and where requests are.
LEMMA DataType ==
  ASSUME HttpInv, [HttpNext]_httpVars
  PROVE  HttpData' /\ edits' \in Nat
<1>1. HttpData /\ edits \in Nat
  BY DEF HttpInv, HttpTypeOK, HttpData
<1>2. alone' \in [Requests -> BOOLEAN]
  <2>1. ASSUME NEW who, Alone(who) PROVE alone' \in [Requests -> BOOLEAN]
    BY <1>1, <2>1, AloneType DEF HttpData
  <2>2. CASE UNCHANGED httpVars
    BY <1>1, <2>2 DEF httpVars, HttpData
  <2>3. QED
    BY <2>1, <2>2, HttpCases
<1>3. CASE UNCHANGED <<hooks, hookCache, secret, body, stage, hook, edits>>
  BY <1>1, <1>2, <1>3 DEF HttpData
<1>4. ASSUME NEW r \in Requests, TurnsAway(r) PROVE HttpData' /\ edits' \in Nat
  BY <1>3, <1>4, TurnedAway DEF HttpInv, handler, bounds
<1>5. ASSUME NEW r \in Requests, HandleTriggers(r) PROVE HttpData' /\ edits' \in Nat
  <2>1. UNCHANGED edits
    BY <1>5 DEF HandleTriggers, Handle, RenderFails, RenderTrigger, StartHandling, CreateFree,
       AlreadyExists, PatchSpec, NotExist, Delete, Finish, bounds
  <2>2. QED
    BY <1>3, <1>5, <2>1 DEF HandleTriggers
<1>6. ASSUME NEW r \in Requests, AnyCallFails(r) PROVE HttpData' /\ edits' \in Nat
  BY <1>3, <1>6 DEF AnyCallFails, CallFails
<1>7. ASSUME NEW r \in Requests, GetHook(r) PROVE HttpData' /\ edits' \in Nat
  <2>1. hookCache[body[r].hook] \in HookSpecs
    BY <1>1, <1>7, BodiesAssumption DEF GetHook, HttpData
  <2>2. QED
    BY <1>1, <1>2, <1>7, <2>1 DEF GetHook, HttpData, handler, bounds
<1>8. ASSUME NEW r \in Requests, StartTriggers(r) PROVE HttpData' /\ edits' \in Nat
  BY <1>1, <1>2, <1>8 DEF StartTriggers, HttpData, bounds
<1>9. CASE HttpCrash
  BY <1>3, <1>9 DEF HttpCrash, Crash
<1>10. CASE Elsewhere
  BY <1>1, <1>2, <1>10 DEF Elsewhere, http, Sync, EditTrigger, GarbageCollect, bounds, HttpData
<1>11. ASSUME NEW h \in Hooks, SyncHook(h) PROVE HttpData' /\ edits' \in Nat
  BY <1>1, <1>2, <1>11 DEF SyncHook, HttpData, vars, bounds
<1>12. ASSUME NEW h \in Hooks, NEW spec \in HookSpecs \cup {NoHook}, EditHook(h, spec)
       PROVE  HttpData' /\ edits' \in Nat
  BY <1>1, <1>2, <1>12 DEF EditHook, HttpData
<1>13. CASE UNCHANGED httpVars
  BY <1>3, <1>13 DEF httpVars, vars, bounds, http
<1>14. QED
  BY <1>4, <1>5, <1>6, <1>7, <1>8, <1>9, <1>10, <1>11, <1>12, <1>13, HttpCases
  DEF HandleStep, ClusterStep, HookEdit

\* A step of Handle adds to what is rendered while there is something to render.
LEMMA HandleRenders ==
  ASSUME TypeOK, NEW r \in Requests, Handle(r)
  PROVE  /\ input' = input
         /\ \A q \in Requests \ {r} :
              rendered'[q] = rendered[q] /\ pc'[q] = pc[q] /\ at'[q] = at[q]
         /\ Len(rendered'[r]) = Len(rendered[r]) \/ (Rendering(r) /\ Len(rendered'[r]) = Len(rendered[r]) + 1)
         /\ pc'[r] # "render" /\ pc[r] = "render" =>
              ~Rendering(r) /\ Len(rendered'[r]) = Len(rendered[r])
         /\ pc[r] # "render" => pc'[r] # "render" /\ Len(rendered'[r]) = Len(rendered[r])
         /\ answer'[r] = "ok" => pc'[r] # "render"
<1>1. CASE RenderTrigger(r)
  <2>1. PICK new : rendered' = [rendered EXCEPT ![r] = Append(@, new)] /\ new \in Rendered
    BY <1>1, RenderedType DEF RenderTrigger
  <2>2. rendered[r] \in Seq(Rendered)
    BY DEF TypeOK
  <2>3. Len(rendered'[r]) = Len(rendered[r]) + 1
    BY <2>1, <2>2 DEF TypeOK
  <2>4. \A q \in Requests \ {r} : rendered'[q] = rendered[q]
    BY <2>1 DEF TypeOK
  <2>5. /\ Rendering(r) /\ pc[r] = "render" /\ answer'[r] = "none"
        /\ UNCHANGED <<input, pc, at>>
    BY <1>1 DEF RenderTrigger, Rendering, Running
  <2>6. QED
    BY <2>3, <2>4, <2>5
<1>2. CASE StartHandling(r)
  BY <1>2 DEF StartHandling, Running, TypeOK
<1>3. CASE RenderFails(r)
  BY <1>3 DEF RenderFails, Answer, TypeOK
<1>4. CASE Finish(r)
  BY <1>4 DEF Finish, Answer, TypeOK
<1>5. CASE CreateFree(r) \/ AlreadyExists(r) \/ PatchSpec(r) \/ NotExist(r) \/ Delete(r)
  <2>1. UNCHANGED <<input, rendered, answer>> /\ Running(r) /\ pc[r] # "render"
    BY <1>5 DEF CreateFree, AlreadyExists, PatchSpec, NotExist, Delete, Patching, Calling
  <2>2. pc' = [pc EXCEPT ![r] = "call"] \/ pc' = [pc EXCEPT ![r] = "patch"]
    BY <1>5 DEF CreateFree, AlreadyExists, PatchSpec, NotExist, Delete, Advance
  <2>3. \A q \in Requests \ {r} : at'[q] = at[q]
    BY <1>5 DEF CreateFree, AlreadyExists, PatchSpec, NotExist, Delete, Advance, TypeOK
  <2>4. QED
    BY <2>1, <2>2, <2>3 DEF TypeOK
<1>6. QED
  BY <1>1, <1>2, <1>3, <1>4, <1>5 DEF Handle
\* What a request knows carries over when it does not move.
LEMMA RequestKeeps ==
  ASSUME HttpInv, NEW q \in Requests,
         stage'[q] = stage[q], hook'[q] = hook[q], input'[q] = input[q],
         rendered'[q] = rendered[q], pc'[q] = pc[q], answer'[q] = "ok" => answer[q] = "ok",
         UNCHANGED body
  PROVE  RequestOf(q)'
BY DEF HttpInv, RequestInv, RequestOf, Options, ActionOf

LEMMA RequestNext ==
  ASSUME HttpInv, [HttpNext]_httpVars
  PROVE  RequestInv'
<1>1. HttpTypeOK /\ TypeOK /\ RequestInv
  BY DEF HttpInv, HttpTypeOK
<1>2. ASSUME NEW r \in Requests, TurnsAway(r), NEW q \in Requests PROVE RequestOf(q)'
  <2>1. answer' = [answer EXCEPT ![r] = "refused"]
    BY <1>1, <1>2, TurnedAway
  <2>2. UNCHANGED <<stage, hook, input, rendered, pc, body>>
    BY <1>1, <1>2, TurnedAway DEF handler
  <2>3. answer'[q] = "ok" => answer[q] = "ok"
    BY <1>1, <2>1 DEF TypeOK
  <2>4. QED
    BY <2>2, <2>3, RequestKeeps
<1>3. ASSUME NEW r \in Requests, GetHook(r), NEW q \in Requests PROVE RequestOf(q)'
  <2>1. UNCHANGED <<input, rendered, pc, answer, body>>
    BY <1>3 DEF GetHook, handler
  <2>2. CASE q = r
    <3>1. hookCache[body[r].hook] \in HookSpecs
      BY <1>1, <1>3, BodiesAssumption DEF GetHook, HttpTypeOK
    <3>2. stage'[r] = "check" /\ hook'[r] \in HookSpecs /\ stage[r] = "get"
      BY <1>1, <1>3, <3>1 DEF GetHook, Parsed, HttpTypeOK
    <3>3. QED
      BY <1>1, <2>1, <2>2, <3>2 DEF RequestInv, RequestOf
  <2>3. CASE q # r
    BY <1>1, <1>3, <2>1, <2>3, RequestKeeps DEF GetHook, HttpTypeOK
  <2>4. QED
    BY <2>2, <2>3
<1>4. ASSUME NEW r \in Requests, StartTriggers(r), NEW q \in Requests PROVE RequestOf(q)'
  <2>1. UNCHANGED <<hook, rendered, pc, answer, body>>
    BY <1>4 DEF StartTriggers
  <2>2. CASE q = r
    <3>1. /\ input'[r] = Options(hook[r], body[r])
          /\ stage'[r] = "handle" /\ stage[r] = "check"
      BY <1>1, <1>4 DEF StartTriggers, HttpTypeOK, TypeOK
    <3>2. rendered[r] = <<>> /\ pc[r] = "render" /\ answer[r] # "ok" /\ hook[r] \in HookSpecs
      BY <1>1, <1>4, <3>1 DEF RequestInv, RequestOf, HttpTypeOK, StartTriggers, Running
    <3>3. Options(hook'[r], body'[r]) = Options(hook[r], body[r])
      BY <2>1
    <3>4. Len(Options(hook[r], body[r]).triggers) \in Nat
      BY <1>1, <3>2, OptionsAssumption, InputsAssumption DEF HttpTypeOK
    <3>5. Len(rendered[r]) <= Len(input'[r].triggers)
      BY <3>1, <3>2, <3>4
    <3>6. QED
      BY <2>1, <2>2, <3>1, <3>2, <3>3, <3>5 DEF RequestOf
  <2>3. CASE q # r
    BY <1>1, <1>4, <2>1, <2>3, RequestKeeps DEF StartTriggers, HttpTypeOK, TypeOK
  <2>4. QED
    BY <2>2, <2>3
<1>5. ASSUME NEW r \in Requests, HandleTriggers(r), NEW q \in Requests PROVE RequestOf(q)'
  <2>1. Handle(r) /\ stage[r] = "handle" /\ UNCHANGED <<stage, hook, body>>
    BY <1>5 DEF HandleTriggers
  <2>2. input' = input
    BY <1>1, <2>1, HandleRenders
  <2>3. CASE q # r
    BY <1>1, <2>1, <2>2, <2>3, HandleRenders, HandleAnswers, RequestKeeps
  <2>4. CASE q = r
    <3>1. /\ stage'[r] = "handle" /\ hook'[r] \in HookSpecs
          /\ input'[r] = Options(hook'[r], body'[r])
      BY <1>1, <2>1, <2>2 DEF RequestInv, RequestOf, Options, ActionOf
    <3>2. /\ Len(rendered[r]) \in Nat /\ Len(rendered'[r]) \in Nat
          /\ Len(input[r].triggers) \in Nat
      <4>1. rendered[r] \in Seq(Rendered) /\ input[r] \in Inputs
        BY <1>1 DEF TypeOK
      <4>2. rendered'[r] \in Seq(Rendered)
        BY <1>5, HandlerType DEF HttpNext, HttpStep, TypeOK
      <4>3. QED
        BY <4>1, <4>2, InputsAssumption
    <3>3. Len(rendered'[r]) <= Len(input'[r].triggers)
      BY <1>1, <2>1, <2>2, <3>2, HandleRenders DEF RequestInv, RequestOf, Rendering
    <3>4. pc'[r] # "render" => Len(rendered'[r]) = Len(input'[r].triggers)
      BY <1>1, <2>1, <2>2, <3>2, HandleRenders, HandleAnswers DEF RequestInv, RequestOf, Rendering
    <3>5. answer'[r] = "ok" => pc'[r] # "render"
      BY <1>1, <2>1, HandleRenders
    <3>6. QED
      BY <2>4, <3>1, <3>3, <3>4, <3>5 DEF RequestOf
  <2>5. QED
    BY <2>3, <2>4
<1>6. ASSUME NEW r \in Requests, AnyCallFails(r), NEW q \in Requests PROVE RequestOf(q)'
  <2>1. answer'[q] = "ok" => answer[q] = "ok"
    BY <1>1, <1>6 DEF AnyCallFails, CallFails, Answer, TypeOK
  <2>2. UNCHANGED <<stage, hook, input, rendered, pc, body>>
    BY <1>6 DEF AnyCallFails, CallFails, Answer
  <2>3. QED
    BY <2>1, <2>2, RequestKeeps
<1>7. ASSUME HttpCrash, NEW q \in Requests PROVE RequestOf(q)'
  <2>1. answer'[q] = "ok" => answer[q] = "ok"
    BY <1>7 DEF HttpCrash, Crash
  <2>2. UNCHANGED <<stage, hook, input, rendered, pc, body>>
    BY <1>7 DEF HttpCrash, Crash
  <2>3. QED
    BY <2>1, <2>2, RequestKeeps
<1>8. ASSUME UNCHANGED <<stage, hook, request, body>>, NEW q \in Requests PROVE RequestOf(q)'
  BY <1>8, RequestKeeps DEF request
<1>9. ASSUME Elsewhere \/ HookEdit \/ UNCHANGED httpVars
      PROVE  UNCHANGED <<stage, hook, request, body>>
  BY <1>9 DEF Elsewhere, HookEdit, SyncHook, EditHook, http, vars, httpVars, Sync, EditTrigger,
     GarbageCollect
<1>10. \A q \in Requests : RequestOf(q)'
  BY <1>2, <1>3, <1>4, <1>5, <1>6, <1>7, <1>8, <1>9, HttpCases DEF HandleStep, ClusterStep
<1>11. QED
  BY <1>10 DEF RequestInv, RequestOf
\* A request has options only once it has passed the checks.
LEMMA OptionsType ==
  ASSUME HttpInv, [HttpNext]_httpVars, NEW q \in Requests, stage'[q] # "handle"
  PROVE  input'[q] = NoOptions /\ pc'[q] = "render"
<1>1. HttpTypeOK /\ TypeOK
  BY DEF HttpInv, HttpTypeOK
<1>2. CASE stage'[q] = stage[q] /\ input'[q] = input[q] /\ pc'[q] = pc[q]
  BY <1>1, <1>2 DEF HttpTypeOK
<1>3. ASSUME NEW r \in Requests, TurnsAway(r)
      PROVE  input'[q] = NoOptions /\ pc'[q] = "render"
  BY <1>1, <1>2, <1>3, TurnedAway DEF handler
<1>4. ASSUME NEW r \in Requests, GetHook(r)
      PROVE  input'[q] = NoOptions /\ pc'[q] = "render"
  <2>1. stage[q] # "handle"
    BY <1>1, <1>4 DEF GetHook, Parsed, HttpTypeOK
  <2>2. QED
    BY <1>1, <1>4, <2>1 DEF GetHook, handler, HttpTypeOK
<1>5. ASSUME NEW r \in Requests, StartTriggers(r)
      PROVE  input'[q] = NoOptions /\ pc'[q] = "render"
  <2>1. q # r
    BY <1>1, <1>5 DEF StartTriggers, HttpTypeOK
  <2>2. QED
    BY <1>1, <1>2, <1>5, <2>1 DEF StartTriggers, HttpTypeOK, TypeOK
<1>6. ASSUME NEW r \in Requests, HandleTriggers(r)
      PROVE  input'[q] = NoOptions /\ pc'[q] = "render"
  BY <1>1, <1>2, <1>6, HandleRenders DEF HandleTriggers
<1>7. ASSUME NEW r \in Requests, AnyCallFails(r)
      PROVE  input'[q] = NoOptions /\ pc'[q] = "render"
  BY <1>2, <1>7 DEF AnyCallFails, CallFails, Answer
<1>8. CASE ClusterStep \/ HookEdit \/ UNCHANGED httpVars
  BY <1>2, <1>8 DEF ClusterStep, HttpCrash, Crash, Elsewhere, HookEdit, SyncHook, EditHook,
     http, vars, httpVars, request, Sync, EditTrigger, GarbageCollect
<1>9. QED
  BY <1>3, <1>4, <1>5, <1>6, <1>7, <1>8, HttpCases DEF HandleStep

LEMMA HttpNextInv == HttpInv /\ [HttpNext]_httpVars => HttpInv'
<1> SUFFICES ASSUME HttpInv, [HttpNext]_httpVars PROVE HttpInv'
  OBVIOUS
<1>1. TypeOK' /\ PlanInv'
  BY HandlerType
<1>2. StatusFits' /\ HttpData' /\ (edits \in Nat)'
  BY StatusType, DataType
<1>3. \A q \in Requests : (stage[q] # "handle" => input[q] = NoOptions /\ pc[q] = "render")'
  BY OptionsType
<1>4. HttpTypeOK'
  BY <1>1, <1>2, <1>3 DEF HttpTypeOK, StatusFits, HttpData
<1>5. QED
  BY <1>1, <1>2, <1>4, RequestNext DEF HttpInv

LEMMA AlwaysHttpInv == HttpSpec => []HttpInv
<1>1. HttpInv /\ [HttpNext /\ Bounded]_httpVars => HttpInv'
  BY HttpNextInv
<1>2. QED
  BY <1>1, HttpInitInv, PTL DEF HttpSpec

\* Every reachable state is well typed; in particular the response fits what
\* Handle returned, and a request that has not passed the checks of
\* http/handler.go has no options and has rendered nothing.
THEOREM HttpTypeCorrect == HttpSpec => []HttpTypeOK
<1>1. HttpInv => HttpTypeOK
  BY DEF HttpInv
<1>2. QED
  BY <1>1, AlwaysHttpInv, PTL

-----------------------------------------------------------------------------
(* Implementation of the promise                                           *)

LEMMA HttpNextImplements ==
  ASSUME HttpInv, [HttpNext]_httpVars
  PROVE  [Store!Next]_(Store!vars)
<1>1. TypeOK /\ PlanInv
  BY DEF HttpInv, HttpTypeOK
<1>2. ASSUME NEW r \in Requests, TurnsAway(r) PROVE Store!Refuse(r)
  <2>1. /\ Running(r) /\ pc[r] = "render" /\ answer' = [answer EXCEPT ![r] = "refused"]
        /\ UNCHANGED <<templates, input, pc, rendered, at>>
    BY <1>2, TurnedAway DEF HttpInv, handler
  <2>2. UNCHANGED <<values, plan, place>>
    BY <1>1, <2>1, ValueKept, AnswerKept
  <2>3. UNCHANGED seen
    BY <1>1, <2>1 DEF seen, Running, TypeOK
  <2>4. place[r] = 0 /\ answer[r] = "none"
    BY <2>1 DEF place, Planned, Running
  <2>5. QED
    BY <2>1, <2>2, <2>3, <2>4 DEF Store!Refuse
<1>3. ASSUME NEW r \in Requests, StartTriggers(r) PROVE UNCHANGED Store!vars
  <2>1. /\ pc[r] = "render" /\ \A q \in Requests \ {r} : input'[q] = input[q]
        /\ UNCHANGED <<templates, pc, rendered, at, answer>>
    BY <1>1, <1>3 DEF StartTriggers, HttpInv, HttpTypeOK, TypeOK
  <2>2. \A q \in Requests : Planned(q)' = Planned(q) /\ Running(q)' = Running(q)
    BY <2>1 DEF Planned, Running
  <2>3. \A q \in Requests : Planned(q) => input'[q] = input[q]
    BY <2>1 DEF Planned
  <2>4. UNCHANGED <<plan, place, seen>>
    BY <2>1, <2>2, <2>3 DEF plan, place, seen
  <2>5. QED
    BY <2>1, <2>4, ValueKept DEF Store!vars
<1>4. ASSUME UNCHANGED <<templates, request>> PROVE UNCHANGED Store!vars
  BY <1>4, ValueKept, RequestKept DEF Store!vars
<1>5. CASE Next
  BY <1>1, <1>5, NextImplements
<1>6. ASSUME NEW r \in Requests, GetHook(r) PROVE UNCHANGED Store!vars
  <2>1. UNCHANGED <<templates, request>>
    BY <1>6 DEF GetHook, handler, request
  <2>2. QED
    BY <1>4, <2>1
<1>7. CASE HookEdit \/ UNCHANGED httpVars
  BY <1>4, <1>7 DEF HookEdit, SyncHook, EditHook, vars, httpVars, Store!vars
<1>8. ASSUME NEW r \in Requests, Store!Refuse(r) PROVE Store!Next
  BY <1>8 DEF Store!Next, Store!Step
<1>9. QED
  BY <1>2, <1>3, <1>5, <1>6, <1>7, <1>8, HttpCases, IsNext

\* The handler as a whole implements the promise, liveness apart: routing, the
\* token, the schema and the action never let a request write a template that
\* TemplateStore does not allow (http/handler.go:142).
THEOREM HttpKeepsPromise == HttpSpec => Store!Init /\ [][Store!Next]_(Store!vars)
<1>1. HttpInit => Store!Init
  BY HttpInitInv, InitImplements DEF HttpInit, HttpInv, HttpTypeOK
<1>2. HttpInv /\ [HttpNext /\ Bounded]_httpVars => [Store!Next]_(Store!vars)
  BY HttpNextImplements
<1>3. QED
  BY <1>1, <1>2, AlwaysHttpInv, PTL DEF HttpSpec
-----------------------------------------------------------------------------
(* What a step means to one request                                        *)

\* The request stays where it is; if it goes on and nobody interfered with it,
\* the templates are as they were.
Stays(q) ==
  /\ stage'[q] = stage[q] /\ hook'[q] = hook[q] /\ input'[q] = input[q]
  /\ pc'[q] = pc[q] /\ rendered'[q] = rendered[q] /\ at'[q] = at[q]
  /\ answer'[q] = "none" => answer[q] = "none"
  /\ alone'[q] /\ answer'[q] = "none" /\ stage[q] = "handle" => alone[q] /\ templates' = templates

LEMMA StepOf ==
  ASSUME HttpInv, [HttpNext]_httpVars, NEW q \in Requests
  PROVE  \/ GetHook(q) /\ UNCHANGED <<templates, hooks, hookCache, secret, body>>
         \/ StartTriggers(q) /\ UNCHANGED templates
         \/ HandleTriggers(q) /\ (alone'[q] => alone[q])
         \/ Stays(q)
<1>1. HttpTypeOK /\ TypeOK
  BY DEF HttpInv, HttpTypeOK
<1>2. ASSUME NEW r \in Requests, TurnsAway(r), Alone({r}) PROVE Stays(q)
  <2>1. answer' = [answer EXCEPT ![r] = "refused"]
    BY <1>1, <1>2, TurnedAway
  <2>2. UNCHANGED <<templates, stage, hook, input, rendered, at, pc>>
    BY <1>1, <1>2, TurnedAway DEF handler
  <2>3. answer'[q] = "none" => answer[q] = "none"
    BY <1>1, <2>1 DEF TypeOK
  <2>4. alone'[q] => alone[q]
    BY <1>2 DEF Alone
  <2>5. QED
    BY <2>2, <2>3, <2>4 DEF Stays
<1>3. ASSUME NEW r \in Requests, GetHook(r), Alone({r}), q # r PROVE Stays(q)
  BY <1>1, <1>3 DEF GetHook, handler, Stays, Alone, HttpTypeOK
<1>4. ASSUME NEW r \in Requests, StartTriggers(r), Alone({r}), q # r PROVE Stays(q)
  BY <1>1, <1>4 DEF StartTriggers, Stays, Alone, HttpTypeOK, TypeOK
<1>5. ASSUME NEW r \in Requests, HandleTriggers(r), Alone({r}), q # r PROVE Stays(q)
  <2>1. Handle(r) /\ UNCHANGED <<stage, hook>>
    BY <1>5 DEF HandleTriggers
  <2>2. /\ input' = input /\ rendered'[q] = rendered[q] /\ pc'[q] = pc[q] /\ at'[q] = at[q]
        /\ answer'[q] = answer[q]
    BY <1>1, <1>5, <2>1, HandleRenders, HandleAnswers
  <2>3. QED
    BY <1>5, <2>1, <2>2 DEF Stays, Alone, Running
<1>6. ASSUME NEW r \in Requests, AnyCallFails(r), Alone({r}) PROVE Stays(q)
  <2>1. UNCHANGED <<templates, stage, hook, input, rendered, at, pc>>
    BY <1>6 DEF AnyCallFails, CallFails, Answer
  <2>2. answer'[q] = "none" => answer[q] = "none"
    BY <1>1, <1>6 DEF AnyCallFails, CallFails, Answer, TypeOK
  <2>3. QED
    BY <1>6, <2>1, <2>2 DEF Stays, Alone
<1>7. ASSUME HttpCrash, Alone({}) PROVE Stays(q)
  <2>1. UNCHANGED <<templates, stage, hook, input, rendered, at, pc>>
    BY <1>7 DEF HttpCrash, Crash
  <2>2. answer'[q] # "none"
    BY <1>7 DEF HttpCrash, Crash, Running
  <2>3. QED
    BY <2>1, <2>2 DEF Stays
<1>8. ASSUME Elsewhere \/ HookEdit, Alone({}) PROVE Stays(q)
  <2>1. UNCHANGED <<stage, hook, request>>
    BY <1>8 DEF Elsewhere, HookEdit, SyncHook, EditHook, http, vars, Sync, EditTrigger,
       GarbageCollect
  <2>2. QED
    BY <1>8, <2>1 DEF Stays, Alone, Running, request
<1>9. CASE UNCHANGED httpVars
  BY <1>9 DEF httpVars, vars, request, http, Stays
<1>10. ASSUME Alone({q}) PROVE alone'[q] => alone[q]
  BY <1>10 DEF Alone
<1>11. QED
  BY <1>2, <1>3, <1>4, <1>5, <1>6, <1>7, <1>8, <1>9, <1>10, HttpCases
  DEF HandleStep, ClusterStep, GetHook, StartTriggers, handler

-----------------------------------------------------------------------------
(* What is answered with 200 is done                                       *)

\* Nothing after operation i and before the request's place has i's name.
LastSoFar(r, i) ==
  \A j \in DOMAIN rendered[r] :
    i < j /\ j < at[r] => rendered[r][j].name # rendered[r][i].name

DoneOf(r) ==
  alone[r] /\ Running(r) /\ stage[r] = "handle" =>
    /\ \A i \in DOMAIN rendered[r] : i < at[r] /\ LastSoFar(r, i) => Shows(r, i)
    /\ pc[r] = "patch" => templates[This(r).name] # NoTemplate
DoneInv == \A r \in Requests : DoneOf(r)

\* An operation on the request's current name.
LEMMA WritesShow ==
  ASSUME HttpInv, NEW r \in Requests, Running(r),
         at[r] \in DOMAIN rendered[r], pc[r] # "render",
         NEW new \in Template \cup {NoTemplate},
         templates' = [templates EXCEPT ![This(r).name] = new],
         at' = [at EXCEPT ![r] = @ + 1], UNCHANGED <<input, rendered>>,
         \A i \in DOMAIN rendered[r] : i < at[r] /\ LastSoFar(r, i) => Shows(r, i),
         \A i : i = at[r] => Shows(r, i)'
  PROVE  \A i \in DOMAIN rendered[r] : i < at'[r] /\ LastSoFar(r, i)' => Shows(r, i)'
<1>1. /\ at[r] \in Nat /\ at'[r] = at[r] + 1
      /\ rendered[r] \in Seq(Rendered) /\ templates \in [Names -> Template \cup {NoTemplate}]
  BY DEF HttpInv, HttpTypeOK, TypeOK
<1> SUFFICES ASSUME NEW i \in DOMAIN rendered[r], i < at'[r], LastSoFar(r, i)'
             PROVE  Shows(r, i)'
  OBVIOUS
<1>2. i \in Nat /\ i <= at[r]
  BY <1>1
<1>3. CASE i = at[r]
  BY <1>3
<1>4. CASE i < at[r]
  <2>1. rendered[r][at[r]].name # rendered[r][i].name
    BY <1>1, <1>2, <1>4 DEF LastSoFar
  <2>2. LastSoFar(r, i)
    BY <1>1, <1>2, <1>4 DEF LastSoFar
  <2>3. Shows(r, i)
    BY <1>4, <2>2
  <2>4. templates'[rendered[r][i].name] = templates[rendered[r][i].name]
    BY <1>1, <2>1 DEF This, Rendered
  <2>5. QED
    BY <2>3, <2>4 DEF Shows
<1>5. QED
  BY <1>1, <1>2, <1>3, <1>4
\* What an operation leaves under its name is what is asked for.
LEMMA OwnedAgrees ==
  ASSUME NEW value \in Value, NEW owner \in Triggers, NEW action \in {"create", "update", "apply"}
  PROVE  Agrees(action, value, WithOwner(value, owner))
<1>1. WithOwner(value, owner) # NoTemplate
  BY WithOwnerType, NoTemplateAssumption
<1>2. [trigger |-> WithOwner(value, owner).trigger, patches |-> WithOwner(value, owner).patches,
       event |-> WithOwner(value, owner).event] = value
  BY DEF WithOwner, Value
<1>3. QED
  BY <1>1, <1>2 DEF Agrees

\* Each operation that moves the request on.
LEMMA MoveShows ==
  ASSUME HttpInv, NEW r \in Requests, Running(r), pc[r] # "render",
         at[r] \in DOMAIN rendered[r],
         NEW new \in Template \cup {NoTemplate},
         templates' = [templates EXCEPT ![This(r).name] = new],
         Advance(r), UNCHANGED <<input, rendered>>,
         Agrees(input[r].action, This(r).value, new),
         \A i \in DOMAIN rendered[r] : i < at[r] /\ LastSoFar(r, i) => Shows(r, i)
  PROVE  DoneOf(r)'
<1>1. TypeOK
  BY DEF HttpInv, HttpTypeOK
<1>2. This(r).name \in Names
  BY <1>1, ThisType
<1>3. pc'[r] = "call" /\ at' = [at EXCEPT ![r] = @ + 1]
  BY <1>1 DEF Advance, TypeOK
<1>4. templates'[This(r).name] = new
  BY <1>1, <1>2 DEF TypeOK
<1>5. \A i : i = at[r] => Shows(r, i)'
  BY <1>4 DEF Shows, This
<1>6. \A i \in DOMAIN rendered[r] : i < at'[r] /\ LastSoFar(r, i)' => Shows(r, i)'
  BY <1>3, <1>5, WritesShow
<1>7. QED
  BY <1>3, <1>6 DEF DoneOf

LEMMA HandleDone ==
  ASSUME HttpInv, NEW r \in Requests, DoneOf(r), HandleTriggers(r), alone'[r] => alone[r]
  PROVE  DoneOf(r)'
<1> SUFFICES ASSUME alone'[r], answer'[r] = "none" PROVE DoneOf(r)'
  BY DEF DoneOf, Running
<1>1. TypeOK /\ PlanInv /\ Handle(r) /\ stage[r] = "handle" /\ alone[r]
  BY DEF HttpInv, HttpTypeOK, HandleTriggers
<1>2. Running(r)
  BY <1>1, HandleAnswers
<1>3. /\ \A i \in DOMAIN rendered[r] : i < at[r] /\ LastSoFar(r, i) => Shows(r, i)
      /\ pc[r] = "patch" => templates[This(r).name] # NoTemplate
  BY <1>1, <1>2 DEF DoneOf
<1>4. CASE RenderFails(r) \/ Finish(r)
  BY <1>1, <1>4 DEF RenderFails, Finish, Answer, TypeOK
<1>5. CASE RenderTrigger(r) \/ StartHandling(r)
  <2>1. at'[r] = 1 /\ pc'[r] # "patch"
    BY <1>1, <1>5 DEF RenderTrigger, StartHandling, Rendering, PlanInv, TypeOK
  <2>2. rendered'[r] \in Seq(Rendered)
    BY <1>5, <1>1, HandleType DEF TypeOK
  <2>3. QED
    BY <2>1, <2>2 DEF DoneOf
<1>6. CASE CreateFree(r)
  <2>1. /\ pc[r] # "render" /\ at[r] \in DOMAIN rendered[r]
        /\ input[r].action \in {"create", "apply"}
        /\ Advance(r) /\ UNCHANGED <<input, rendered>>
    BY <1>6 DEF CreateFree, Calling
  <2>2. This(r).value \in Value /\ This(r).value.trigger \in Triggers
    BY <1>1, <2>1, ThisType
  <2>3. PICK new : new = WithOwner(This(r).value, This(r).value.trigger)
    OBVIOUS
  <2>4. new \in Template /\ Agrees(input[r].action, This(r).value, new)
    BY <2>1, <2>2, <2>3, OwnedAgrees, WithOwnerType
  <2>5. templates' = [templates EXCEPT ![This(r).name] = new]
    BY <1>6, <2>3 DEF CreateFree
  <2>6. QED
    BY <1>2, <1>3, <2>1, <2>4, <2>5, MoveShows
<1>7. CASE PatchSpec(r)
  <2>1. /\ pc[r] # "render" /\ at[r] \in DOMAIN rendered[r]
        /\ input[r].action \in {"update", "apply"}
        /\ templates[This(r).name] # NoTemplate
        /\ Advance(r) /\ UNCHANGED <<input, rendered>>
    BY <1>1, <1>7 DEF PatchSpec, Patching, Calling, PlanInv
  <2>2. This(r).name \in Names /\ This(r).value \in Value
    BY <1>1, <2>1, ThisType
  <2>3. templates[This(r).name].owner \in Triggers
    BY <1>1, <2>1, <2>2 DEF TypeOK, Template
  <2>4. PICK new : new = WithOwner(This(r).value, templates[This(r).name].owner)
    OBVIOUS
  <2>5. new \in Template /\ Agrees(input[r].action, This(r).value, new)
    BY <2>1, <2>2, <2>3, <2>4, OwnedAgrees, WithOwnerType
  <2>6. templates' = [templates EXCEPT ![This(r).name] = new]
    BY <1>7, <2>4 DEF PatchSpec
  <2>7. QED
    BY <1>2, <1>3, <2>1, <2>5, <2>6, MoveShows
<1>8. CASE Delete(r)
  <2>1. /\ pc[r] # "render" /\ at[r] \in DOMAIN rendered[r]
        /\ input[r].action = "delete"
        /\ templates' = [templates EXCEPT ![This(r).name] = NoTemplate]
        /\ Advance(r) /\ UNCHANGED <<input, rendered>>
    BY <1>8 DEF Delete, Calling
  <2>2. Agrees(input[r].action, This(r).value, NoTemplate)
    BY <2>1 DEF Agrees
  <2>3. QED
    BY <1>2, <1>3, <2>1, <2>2, MoveShows
\* An operation that finds what it does not need to write.
<1>9. ASSUME pc[r] # "render", at[r] \in DOMAIN rendered[r], Advance(r),
             UNCHANGED <<templates, input, rendered>>,
             Agrees(input[r].action, This(r).value, templates[This(r).name])
      PROVE  DoneOf(r)'
  <2>1. PICK new : new = templates[This(r).name]
    OBVIOUS
  <2>2. This(r).name \in Names
    BY <1>1, <1>9, ThisType
  <2>3. new \in Template \cup {NoTemplate} /\ templates' = [templates EXCEPT ![This(r).name] = new]
    BY <1>1, <1>9, <2>1, <2>2 DEF TypeOK
  <2>4. Agrees(input[r].action, This(r).value, new)
    BY <1>9, <2>1
  <2>5. QED
    BY <1>2, <1>3, <1>9, <2>3, <2>4, MoveShows
<1>10. CASE NotExist(r)
  <2>1. /\ pc[r] = "call" /\ input[r].action = "update" /\ at[r] \in DOMAIN rendered[r]
        /\ templates[This(r).name] = NoTemplate
        /\ Advance(r) /\ UNCHANGED <<templates, input, rendered>>
    BY <1>3, <1>10 DEF NotExist, Patching, Calling
  <2>2. Agrees(input[r].action, This(r).value, templates[This(r).name])
    BY <2>1 DEF Agrees
  <2>3. QED
    BY <1>9, <2>1, <2>2
<1>11. CASE AlreadyExists(r)
  <2>1. /\ pc[r] = "call" /\ input[r].action \in {"create", "apply"} /\ at[r] \in DOMAIN rendered[r]
        /\ templates[This(r).name] # NoTemplate
        /\ UNCHANGED <<templates, input, rendered>>
    BY <1>11 DEF AlreadyExists, Calling
  <2>2. CASE input[r].action = "create"
    <3>1. Agrees(input[r].action, This(r).value, templates[This(r).name]) /\ Advance(r)
      BY <1>11, <2>1, <2>2 DEF Agrees, AlreadyExists
    <3>2. QED
      BY <1>9, <2>1, <3>1
  <2>3. CASE input[r].action = "apply"
    <3>1. UNCHANGED at
      BY <1>11, <2>3 DEF AlreadyExists
    <3>2. QED
      BY <1>3, <2>1, <3>1 DEF DoneOf, LastSoFar, Shows, This
  <2>4. QED
    BY <2>1, <2>2, <2>3
<1>12. QED
  BY <1>1, <1>4, <1>5, <1>6, <1>7, <1>8, <1>10, <1>11 DEF Handle

LEMMA DoneNext ==
  ASSUME HttpInv, DoneInv, [HttpNext]_httpVars
  PROVE  DoneInv'
<1> SUFFICES ASSUME NEW q \in Requests PROVE DoneOf(q)'
  BY DEF DoneInv
<1>1. DoneOf(q) /\ TypeOK /\ PlanInv
  BY DEF DoneInv, HttpInv, HttpTypeOK
<1>2. CASE GetHook(q)
  BY <1>2 DEF GetHook, DoneOf, Parsed, HttpInv, HttpTypeOK
<1>3. CASE StartTriggers(q)
  <2>1. pc'[q] = "render" /\ at'[q] = 1 /\ rendered'[q] \in Seq(Rendered)
    BY <1>1, <1>3 DEF StartTriggers, HttpInv, HttpTypeOK, PlanInv, TypeOK
  <2>2. QED
    BY <2>1 DEF DoneOf
<1>4. CASE HandleTriggers(q) /\ (alone'[q] => alone[q])
  BY <1>1, <1>4, HandleDone
<1>5. CASE Stays(q)
  BY <1>1, <1>5 DEF Stays, DoneOf, Running, LastSoFar, Shows, This
<1>6. QED
  BY <1>2, <1>3, <1>4, <1>5, StepOf

\* Only Finish answers "ok", and only to its own request.
LEMMA FinishesOk ==
  ASSUME TypeOK, NEW r \in Requests, Handle(r), Running(r), answer'[r] = "ok"
  PROVE  Finish(r)
BY DEF Handle, RenderFails, RenderTrigger, StartHandling, CreateFree, AlreadyExists,
   PatchSpec, NotExist, Delete, Answer, TypeOK, Running

LEMMA AnswersOk ==
  ASSUME HttpInv, [HttpNext]_httpVars, NEW r \in Requests, Running(r), answer'[r] = "ok"
  PROVE  HandleTriggers(r)
<1>1. HttpTypeOK /\ TypeOK
  BY DEF HttpInv, HttpTypeOK
<1>2. ASSUME NEW q \in Requests, TurnsAway(q) PROVE FALSE
  <2>1. answer' = [answer EXCEPT ![q] = "refused"]
    BY <1>1, <1>2, TurnedAway
  <2>2. QED
    BY <1>1, <2>1 DEF TypeOK, Running
<1>3. ASSUME NEW q \in Requests, HandleTriggers(q) PROVE q = r
  BY <1>1, <1>3, HandleAnswers DEF HandleTriggers, Running
<1>4. ASSUME NEW q \in Requests, AnyCallFails(q) PROVE FALSE
  BY <1>1, <1>4 DEF AnyCallFails, CallFails, Answer, TypeOK, Running
<1>5. CASE HttpCrash
  BY <1>5 DEF HttpCrash, Crash, Running
<1>6. ASSUME UNCHANGED answer PROVE FALSE
  BY <1>6 DEF Running
<1>7. ASSUME NEW q \in Requests, GetHook(q) \/ StartTriggers(q) PROVE FALSE
  BY <1>6, <1>7 DEF GetHook, StartTriggers
<1>8. CASE Elsewhere \/ HookEdit \/ UNCHANGED httpVars
  BY <1>6, <1>8 DEF Elsewhere, HookEdit, SyncHook, EditHook, http, vars, httpVars, request, Sync,
     EditTrigger, GarbageCollect
<1>9. QED
  BY <1>2, <1>3, <1>4, <1>5, <1>7, <1>8, HttpCases DEF HandleStep, ClusterStep

LEMMA AnswersDone ==
  ASSUME HttpInv, DoneInv, [HttpNext]_httpVars, NEW r \in Requests,
         status[r] = 0, status'[r] = 200, alone[r]
  PROVE  /\ Len(rendered[r]) = Len(hook[r].triggers)
         /\ input[r].action = ActionOf(hook[r], body[r])
         /\ \A i \in DOMAIN rendered[r] : IsLast(r, i) => Shows(r, i)
<1>1. TypeOK /\ HttpTypeOK /\ RequestOf(r) /\ DoneOf(r)
  BY DEF HttpInv, HttpTypeOK, RequestInv, DoneInv
<1>2. Running(r) /\ answer'[r] = "ok"
  <2>1. (answer[r] = "none") = (status[r] = 0)
    BY <1>1 DEF HttpTypeOK
  <2>2. (answer'[r] = "ok") = (status'[r] = 200)
    BY StatusType DEF StatusFits
  <2>3. QED
    BY <2>1, <2>2 DEF Running
<1>3. HandleTriggers(r)
  BY <1>2, AnswersOk
<1>4. Finish(r) /\ stage[r] = "handle"
  BY <1>1, <1>2, <1>3, FinishesOk DEF HandleTriggers
<1>5. pc[r] = "call" /\ at[r] \notin DOMAIN rendered[r]
  BY <1>4 DEF Finish
<1>6. at[r] = Len(rendered[r]) + 1 /\ rendered[r] \in Seq(Rendered)
  BY <1>1, <1>5 DEF TypeOK
<1>7. input[r] = Options(hook[r], body[r]) /\ Len(rendered[r]) = Len(input[r].triggers)
  BY <1>1, <1>4, <1>5 DEF RequestOf
<1>8. ASSUME NEW i \in DOMAIN rendered[r], IsLast(r, i) PROVE Shows(r, i)
  <2>1. i < at[r]
    BY <1>6
  <2>2. LastSoFar(r, i)
    BY <1>8 DEF LastSoFar, IsLast
  <2>3. QED
    BY <1>1, <1>2, <1>4, <2>1, <2>2 DEF DoneOf
<1>9. QED
  BY <1>7, <1>8 DEF Options

\* A request that is answered 200 while nobody else touched a template has done
\* all that its hook asks for, for any number of triggers and of concurrent
\* requests (http/handler.go:183).
THEOREM OkMeansDone == HttpSpec => OkIsDone
<1>1. HttpInit => DoneInv
  BY DEF HttpInit, DoneInv, DoneOf
<1>2. HttpInv /\ DoneInv /\ [HttpNext /\ Bounded]_httpVars => DoneInv'
  BY DoneNext
<1>3. HttpInv /\ DoneInv /\ [HttpNext /\ Bounded]_httpVars =>
        [\A r \in Requests : status[r] = 0 /\ status'[r] = 200 /\ alone[r] =>
           /\ Len(rendered[r]) = Len(hook[r].triggers)
           /\ input[r].action = ActionOf(hook[r], body[r])
           /\ \A i \in DOMAIN rendered[r] : IsLast(r, i) => Shows(r, i)]_httpVars
  BY AnswersDone
<1>4. QED
  BY <1>1, <1>2, <1>3, AlwaysHttpInv, PTL DEF HttpSpec, OkIsDone
-----------------------------------------------------------------------------
(* What is turned away cannot be carried out                               *)

Renders(t, e) == triggers[t] # NoTrigger /\ <<t, e>> \notin Invalid /\ NameOf[t][e] # BadName

\* What a request has been through, while nothing has been edited.
FreshOf(r) ==
  /\ stage[r] # "get" =>
       body[r].path # "other" /\ ~BadBody(r) /\ hook[r] = hooks[body[r].hook] /\ hook[r] # NoHook
  /\ stage[r] = "handle" => TokenFits(r) /\ body[r].event \notin hook[r].rejects
  /\ \A i \in DOMAIN rendered[r] : Renders(input[r].triggers[i], input[r].event)
  /\ status[r] \in {400, 403, 404} => BadRequest(body[r])
FreshInv ==
  edits = 0 => cached = triggers /\ hookCache = hooks /\ \A r \in Requests : FreshOf(r)

\* While nothing is edited, nothing that a request depends on changes.
LEMMA Unedited ==
  ASSUME HttpInv, FreshInv, [HttpNext]_httpVars, edits' = 0
  PROVE  /\ edits = 0
         /\ UNCHANGED <<triggers, cached, hooks, hookCache, secret, body>>
         /\ ~HookEdit
<1>1. HttpTypeOK /\ TypeOK /\ edits \in Nat
  BY DEF HttpInv, HttpTypeOK
<1>2. ASSUME NEW r \in Requests, TurnsAway(r) \/ GetHook(r)
      PROVE  UNCHANGED <<edits, triggers, cached, hooks, hookCache, secret, body>> /\ ~HookEdit
  <2>1. UNCHANGED <<edits, triggers, cached, hooks, hookCache, secret, body>>
    BY <1>1, <1>2, TurnedAway DEF GetHook, handler, bounds
  <2>2. QED
    BY <1>1, <2>1 DEF HookEdit, SyncHook, EditHook, HttpTypeOK
<1>3. ASSUME NEW r \in Requests, StartTriggers(r)
      PROVE  UNCHANGED <<edits, triggers, cached, hooks, hookCache, secret, body>> /\ ~HookEdit
  BY <1>1, <1>3 DEF StartTriggers, bounds, HookEdit, SyncHook, EditHook, HttpTypeOK
<1>4. ASSUME NEW r \in Requests, HandleStep(r)
      PROVE  UNCHANGED <<edits, triggers, cached, hooks, hookCache, secret, body>> /\ ~HookEdit
  <2>1. UNCHANGED <<edits, triggers, cached, hooks, hookCache, secret, body>>
    BY <1>4 DEF HandleStep, HandleTriggers, AnyCallFails, CallFails, Handle, RenderFails,
       RenderTrigger, StartHandling, CreateFree, AlreadyExists, PatchSpec, NotExist, Delete,
       Finish, bounds
  <2>2. QED
    BY <1>1, <2>1 DEF HookEdit, SyncHook, EditHook, HttpTypeOK
<1>5. CASE HttpCrash
  <2>1. UNCHANGED <<edits, triggers, cached, hooks, hookCache, secret, body>>
    BY <1>5 DEF HttpCrash, Crash
  <2>2. QED
    BY <1>1, <2>1, <1>5 DEF FreshInv, HookEdit, SyncHook, EditHook, HttpTypeOK
<1>6. CASE Elsewhere
  <2>1. UNCHANGED <<edits, triggers, cached, hooks, hookCache, secret, body>>
    BY <1>1, <1>6 DEF Elsewhere, FreshInv, http, Sync, EditTrigger, GarbageCollect, bounds
  <2>2. QED
    BY <1>1, <2>1 DEF FreshInv, HookEdit, SyncHook, EditHook, HttpTypeOK
<1>7. CASE HookEdit
  BY <1>1, <1>7 DEF FreshInv, HookEdit, SyncHook, EditHook, vars, bounds
<1>8. CASE UNCHANGED httpVars
  <2>1. UNCHANGED <<edits, triggers, cached, hooks, hookCache, secret, body>>
    BY <1>8 DEF httpVars, vars, bounds, http
  <2>2. QED
    BY <1>1, <2>1 DEF FreshInv, HookEdit, SyncHook, EditHook, HttpTypeOK
<1>9. QED
  BY <1>1, <1>2, <1>3, <1>4, <1>5, <1>6, <1>7, <1>8, HttpCases DEF ClusterStep
\* Who writes a response that turns a request away.
LEMMA Refusals ==
  ASSUME HttpInv, [HttpNext]_httpVars, NEW q \in Requests, status'[q] \in {400, 403, 404}
  PROVE  \/ status'[q] = status[q]
         \/ TurnsAway(q)
         \/ RenderFails(q) /\ stage[q] = "handle"
<1>1. HttpTypeOK /\ TypeOK
  BY DEF HttpInv, HttpTypeOK
<1>2. ASSUME NEW r \in Requests, TurnsAway(r), q # r PROVE status'[q] = status[q]
  <2>1. status' = [status EXCEPT ![r] = status'[r]]
    BY <1>1, <1>2, TurnedAway
  <2>2. PICK code : code = status'[r]
    OBVIOUS
  <2>3. status' = [status EXCEPT ![r] = code]
    BY <2>1, <2>2
  <2>4. QED
    BY <1>1, <1>2, <2>3 DEF HttpTypeOK
<1>3. ASSUME NEW r \in Requests, HandleTriggers(r), q # r PROVE status'[q] = status[q]
  <2>1. PICK code : status' = [status EXCEPT ![r] = code]
    BY <1>3 DEF HandleTriggers
  <2>2. QED
    BY <1>1, <1>3, <2>1 DEF HttpTypeOK
<1>4. CASE HandleTriggers(q)
  <2>1. PICK code \in Responses(q, answer'[q]) : status' = [status EXCEPT ![q] = code]
    BY <1>4 DEF HandleTriggers
  <2>2. /\ Handle(q) /\ stage[q] = "handle" /\ Running(q)
        /\ answer'[q] \in {"none", "ok", "refused"}
    BY <1>1, <1>4, HandleAnswers DEF HandleTriggers
  <2>3. code = status'[q]
    BY <1>1, <2>1 DEF HttpTypeOK
  <2>4. answer'[q] = "refused"
    BY <2>1, <2>2, <2>3, ResponseType
  <2>5. RenderFails(q)
    BY <1>1, <2>2, <2>4 DEF Handle, RenderTrigger, StartHandling, CreateFree, AlreadyExists,
       PatchSpec, NotExist, Delete, Finish, Answer, TypeOK, Running
  <2>6. QED
    BY <2>2, <2>5
<1>5. ASSUME NEW r \in Requests, AnyCallFails(r) PROVE status'[q] = status[q]
  BY <1>1, <1>5 DEF AnyCallFails, HttpTypeOK
<1>6. CASE HttpCrash
  BY <1>6 DEF HttpCrash
<1>7. CASE UNCHANGED status
  BY <1>7
<1>8. ASSUME NEW r \in Requests, GetHook(r) \/ StartTriggers(r) PROVE UNCHANGED status
  BY <1>8 DEF GetHook, StartTriggers
<1>9. ASSUME Elsewhere \/ HookEdit \/ UNCHANGED httpVars PROVE UNCHANGED status
  BY <1>9 DEF Elsewhere, HookEdit, SyncHook, EditHook, http, httpVars
<1>10. QED
  BY <1>2, <1>3, <1>4, <1>5, <1>6, <1>7, <1>8, <1>9, HttpCases DEF HandleStep, ClusterStep

\* A request's faults are those of the cluster.
LEMMA SameFaults ==
  ASSUME UNCHANGED <<triggers, hooks, secret, body>>, NEW q \in Requests
  PROVE  BadRequest(body[q])' <=> BadRequest(body[q])
BY Zenon DEF BadRequest, ActionOf

\* Each check that turns a request away finds one of its faults.
LEMMA TurnedAwayIsBad ==
  ASSUME HttpInv, FreshInv, edits = 0, NEW r \in Requests,
         TurnsAway(r) \/ (RenderFails(r) /\ stage[r] = "handle")
  PROVE  BadRequest(body[r])
<1>1. /\ HttpTypeOK /\ TypeOK /\ RequestOf(r) /\ FreshOf(r)
      /\ cached = triggers /\ hookCache = hooks
  BY DEF HttpInv, HttpTypeOK, RequestInv, FreshInv
<1>2. CASE NotFound(r)
  BY <1>2 DEF NotFound, BadRequest
<1>3. CASE ParseFails(r)
  BY <1>3 DEF ParseFails, BadBody, IsActionValid, BadRequest
<1>4. CASE HookNotFound(r)
  BY <1>1, <1>4 DEF HookNotFound, BadRequest
<1>5. CASE Forbidden(r)
  BY <1>1, <1>5 DEF Forbidden, FreshOf, TokenFits, BadRequest
<1>6. CASE Rejected(r)
  BY <1>1, <1>6 DEF Rejected, FreshOf, BadRequest
<1>7. CASE RenderFails(r) /\ stage[r] = "handle"
  <2>1. /\ hook[r] = hooks[body[r].hook] /\ hook[r] \in HookSpecs
        /\ input[r] = Options(hook[r], body[r])
    BY <1>1, <1>7 DEF FreshOf, RequestOf
  <2>2. CASE ~IsActionValid(input[r].action)
    BY <2>1, <2>2 DEF IsActionValid, Options, BadRequest
  <2>3. CASE Rendering(r) /\ ~CanRender(r)
    <3>1. PICK i : i = Len(rendered[r]) + 1
      OBVIOUS
    <3>2. rendered[r] \in Seq(Rendered) /\ hook[r].triggers \in Seq(Triggers)
      BY <1>1, <2>1, HookSpecsAssumption DEF TypeOK
    <3>3. i \in DOMAIN hook[r].triggers /\ Todo(r) = hook[r].triggers[i]
      BY <2>1, <2>3, <3>1, <3>2 DEF Rendering, Options, Todo
    <3>4. ~Renders(hook[r].triggers[i], body[r].event)
      BY <1>1, <2>1, <2>3, <3>3 DEF CanRender, Renders, Options
    <3>5. QED
      BY <2>1, <3>3, <3>4 DEF Renders, BadRequest
  <2>4. QED
    BY <1>7, <2>2, <2>3 DEF RenderFails
<1>8. QED
  BY <1>2, <1>3, <1>4, <1>5, <1>6, <1>7 DEF TurnsAway

\* What has been rendered so far can be rendered.
LEMMA RendersNext ==
  ASSUME HttpInv, FreshInv, edits = 0, NEW r \in Requests, HandleTriggers(r)
  PROVE  /\ input' = input
         /\ \A i \in DOMAIN rendered'[r] : Renders(input[r].triggers[i], input[r].event)
<1>1. TypeOK /\ FreshOf(r) /\ cached = triggers /\ Handle(r)
  BY DEF HttpInv, HttpTypeOK, FreshInv, HandleTriggers
<1>2. input' = input
  BY <1>1, HandleRenders
<1>3. CASE rendered'[r] = rendered[r]
  BY <1>1, <1>2, <1>3 DEF FreshOf
<1>4. CASE RenderTrigger(r)
  <2>1. PICK new : rendered' = [rendered EXCEPT ![r] = Append(@, new)] /\ new \in Rendered
    BY <1>1, <1>4, RenderedType DEF RenderTrigger
  <2>2. rendered[r] \in Seq(Rendered) /\ rendered'[r] = Append(rendered[r], new)
    BY <1>1, <2>1 DEF TypeOK
  <2>3. ASSUME NEW i \in DOMAIN rendered'[r]
        PROVE  Renders(input[r].triggers[i], input[r].event)
    <3>1. CASE i \in DOMAIN rendered[r]
      BY <1>1, <3>1 DEF FreshOf
    <3>2. CASE i = Len(rendered[r]) + 1
      BY <1>1, <1>4, <3>2 DEF RenderTrigger, CanRender, Todo, Renders
    <3>3. QED
      BY <2>1, <2>2, <3>1, <3>2
  <2>4. QED
    BY <1>2, <2>3
<1>5. CASE \/ RenderFails(r) \/ StartHandling(r) \/ CreateFree(r) \/ AlreadyExists(r)
           \/ PatchSpec(r) \/ NotExist(r) \/ Delete(r) \/ Finish(r)
  BY <1>3, <1>5 DEF RenderFails, StartHandling, CreateFree, AlreadyExists, PatchSpec, NotExist,
     Delete, Finish
<1>6. QED
  BY <1>1, <1>4, <1>5 DEF Handle

LEMMA FreshNext ==
  ASSUME HttpInv, FreshInv, [HttpNext]_httpVars
  PROVE  FreshInv'
<1> SUFFICES ASSUME edits' = 0 PROVE (cached = triggers /\ hookCache = hooks /\ \A r \in Requests : FreshOf(r))'
  BY DEF FreshInv
<1>1. edits = 0 /\ UNCHANGED <<triggers, cached, hooks, hookCache, secret, body>>
  BY Unedited
<1>2. cached' = triggers' /\ hookCache' = hooks'
  BY <1>1 DEF FreshInv
<1>3. ASSUME NEW q \in Requests PROVE FreshOf(q)'
  <2>1. HttpTypeOK /\ TypeOK /\ FreshOf(q) /\ hookCache = hooks /\ RequestOf(q)
    BY <1>1 DEF HttpInv, HttpTypeOK, FreshInv, RequestInv
  <2>2. (status[q] \in {400, 403, 404} => BadRequest(body[q]))'
    <3> SUFFICES ASSUME status'[q] \in {400, 403, 404} PROVE BadRequest(body[q])'
      OBVIOUS
    <3>1. BadRequest(body[q])
      BY <1>1, <2>1, Refusals, TurnedAwayIsBad DEF FreshOf
    <3>2. QED
      BY <1>1, <3>1, SameFaults
  <2> DEFINE Checked == /\ stage[q] # "get" => /\ body[q].path # "other" /\ ~BadBody(q)
                                              /\ hook[q] = hooks[body[q].hook] /\ hook[q] # NoHook
                        /\ stage[q] = "handle" => TokenFits(q) /\ body[q].event \notin hook[q].rejects
                        /\ \A i \in DOMAIN rendered[q] :
                             Renders(input[q].triggers[i], input[q].event)
  <2>3. CASE GetHook(q)
    <3>1. /\ body[q].path # "other" /\ ~BadBody(q) /\ stage'[q] = "check"
          /\ hook'[q] = hooks[body[q].hook] /\ hooks[body[q].hook] # NoHook
          /\ rendered'[q] = <<>>
      BY <2>1, <2>3 DEF GetHook, Parsed, HttpTypeOK, RequestOf, handler
    <3>2. Checked'
      BY <1>1, <3>1 DEF BadBody
    <3>3. QED
      BY <2>2, <3>2 DEF FreshOf
  <2>4. CASE StartTriggers(q)
    <3>1. /\ stage[q] = "check" /\ TokenFits(q) /\ body[q].event \notin hook[q].rejects
          /\ hook' = hook /\ rendered'[q] = <<>>
      BY <2>1, <2>4 DEF StartTriggers, RequestOf
    <3>2. Checked'
      BY <1>1, <2>1, <3>1 DEF BadBody, TokenFits, FreshOf
    <3>3. QED
      BY <2>2, <3>2 DEF FreshOf
  <2>5. CASE HandleTriggers(q)
    <3>1. stage' = stage /\ hook' = hook /\ input' = input
      BY <1>1, <2>5, RendersNext DEF HandleTriggers
    <3>2. (\A i \in DOMAIN rendered[q] : Renders(input[q].triggers[i], input[q].event))'
      BY <1>1, <2>5, <3>1, RendersNext DEF Renders
    <3>3. Checked'
      BY <1>1, <2>1, <3>1, <3>2 DEF BadBody, TokenFits, FreshOf
    <3>4. QED
      BY <2>2, <3>3 DEF FreshOf
  <2>6. CASE Stays(q)
    <3>1. Checked'
      BY <1>1, <2>1, <2>6 DEF Stays, BadBody, TokenFits, FreshOf, Renders
    <3>2. QED
      BY <2>2, <3>1 DEF FreshOf
  <2>7. QED
    BY <2>3, <2>4, <2>5, <2>6, StepOf
<1>4. QED
  BY <1>2, <1>3

LEMMA OkIsGood ==
  ASSUME HttpInv, FreshInv, edits = 0, NEW r \in Requests, status[r] = 200
  PROVE  ~BadRequest(body[r])
<1>1. HttpTypeOK /\ TypeOK /\ PlanInv /\ RequestOf(r) /\ FreshOf(r)
  BY DEF HttpInv, HttpTypeOK, RequestInv, FreshInv
<1>2. answer[r] = "ok"
  BY <1>1 DEF HttpTypeOK
<1>3. pc[r] # "render" /\ stage[r] = "handle"
  BY <1>1, <1>2 DEF RequestOf, HttpTypeOK
<1>4. /\ hook[r] = hooks[body[r].hook] /\ hook[r] # NoHook /\ hook[r] \in HookSpecs
      /\ input[r] = Options(hook[r], body[r])
      /\ body[r].path # "other" /\ ~BadBody(r)
      /\ TokenFits(r) /\ body[r].event \notin hook[r].rejects
  BY <1>1, <1>3 DEF FreshOf, RequestOf
<1>5. ActionOf(hook[r], body[r]) \in ActionNames
  BY <1>1, <1>3, <1>4 DEF PlanInv, IsActionValid, Options
<1>6. \A i \in DOMAIN hook[r].triggers : Renders(hook[r].triggers[i], body[r].event)
  <2>1. rendered[r] \in Seq(Rendered) /\ hook[r].triggers \in Seq(Triggers)
    BY <1>1, <1>4, HookSpecsAssumption DEF TypeOK
  <2>2. Len(rendered[r]) = Len(hook[r].triggers)
    BY <1>1, <1>3, <1>4 DEF RequestOf, Options
  <2>3. DOMAIN rendered[r] = DOMAIN hook[r].triggers
    BY <2>1, <2>2
  <2>4. QED
    BY <1>1, <1>4, <2>3 DEF FreshOf, Options
<1>7. /\ body[r].wellFormed /\ body[r].action \in ActionNames
      /\ ~(hook[r].guarded /\ (secret = NoSecret \/ body[r].token # secret))
  BY <1>4 DEF BadBody, IsActionValid, TokenFits
<1> DEFINE h == hooks[body[r].hook]
           b == body[r]
<1>8. /\ b.path # "other" /\ b.wellFormed /\ b.action \in ActionNames /\ h # NoHook
      /\ ~(h.guarded /\ (secret = NoSecret \/ b.token # secret))
      /\ b.event \notin h.rejects /\ ActionOf(h, b) \in ActionNames
  BY <1>4, <1>5, <1>7
<1>9. h = hook[r]
  BY <1>4
<1>10. ASSUME NEW i \in DOMAIN h.triggers PROVE Renders(h.triggers[i], b.event)
  BY <1>6, <1>9
<1>11. QED
  BY <1>8, <1>10, Zenon DEF BadRequest, Renders

\* While nothing is edited a request is turned away exactly if it cannot be
\* carried out, for any hooks, triggers and requests (http/handler.go:142 and
\* hookutil/trigger.go:67).
THEOREM RefusalsAreRight == HttpSpec => []RefusesExactlyBad
<1>1. HttpInit => FreshInv
  BY DEF HttpInit, Init, FreshInv, FreshOf
<1>2. HttpInv /\ FreshInv /\ [HttpNext /\ Bounded]_httpVars => FreshInv'
  BY FreshNext
<1>3. HttpInv /\ FreshInv => RefusesExactlyBad
  BY OkIsGood DEF RefusesExactlyBad, FreshInv, FreshOf
<1>4. QED
  BY <1>1, <1>2, <1>3, AlwaysHttpInv, PTL DEF HttpSpec
=============================================================================
