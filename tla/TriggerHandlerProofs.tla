------------------------- MODULE TriggerHandlerProofs -------------------------
(***************************************************************************)
(* Theorems about TriggerHandler, for all values of its constants: it is   *)
(* type correct, and each of its steps is a step of TemplateStore or none. *)
(***************************************************************************)
EXTENDS TriggerHandler, TLAPS

\* Where a request is: it has not moved while it renders, it has a valid action
\* when it is past that, and only an apply that has a template to write patches.
PlanInv ==
  \A r \in Requests :
    /\ pc[r] = "render" => at[r] = 1
    /\ pc[r] # "render" => IsActionValid(input[r].action)
    /\ pc[r] = "patch" => input[r].action = "apply" /\ at[r] \in DOMAIN rendered[r]

-----------------------------------------------------------------------------
(* Type correctness                                                        *)

\* The next trigger of a request is a Trigger.
LEMMA TodoType ==
  ASSUME TypeOK, NEW r \in Requests, Rendering(r)
  PROVE  Todo(r) \in Triggers /\ input[r].event \in Events
<1>1. input[r].triggers \in Seq(Triggers) /\ input[r].event \in Events
  BY InputsAssumption DEF TypeOK
<1>2. Len(rendered[r]) \in Nat
  BY DEF TypeOK
<1>3. Len(rendered[r]) + 1 \in 1 .. Len(input[r].triggers)
  BY <1>1, <1>2 DEF Rendering
<1>4. QED
  BY <1>1, <1>3 DEF Todo

\* What renderTrigger appends is a rendered template.
LEMMA RenderedType ==
  ASSUME TypeOK, NEW r \in Requests, Rendering(r), CanRender(r)
  PROVE  [name |-> NameOf[Todo(r)][input[r].event],
          value |-> [trigger |-> Todo(r), patches |-> cached[Todo(r)], event |-> input[r].event]]
           \in Rendered
<1>1. Todo(r) \in Triggers /\ input[r].event \in Events
  BY TodoType
<1>2. NameOf[Todo(r)][input[r].event] \in Names
  BY <1>1, NamesAssumption DEF CanRender
<1>3. cached[Todo(r)] \in Patches
  BY <1>1 DEF TypeOK, CanRender
<1>4. QED
  BY <1>1, <1>2, <1>3 DEF Rendered, Value

\* The element that a request is at is a rendered template.
LEMMA ThisType ==
  ASSUME TypeOK, NEW r \in Requests, at[r] \in DOMAIN rendered[r]
  PROVE  /\ This(r) \in Rendered
         /\ This(r).name \in Names /\ This(r).value \in Value
         /\ This(r).value.trigger \in Triggers
<1>1. rendered[r] \in Seq(Rendered)
  BY DEF TypeOK
<1>2. This(r) \in Rendered
  BY <1>1 DEF This
<1>3. QED
  BY <1>2 DEF Rendered, Value

\* Moving on keeps a request within its list.
LEMMA AdvanceType ==
  ASSUME TypeOK, NEW r \in Requests, at[r] \in DOMAIN rendered[r],
         Advance(r), UNCHANGED rendered
  PROVE  /\ pc' \in [Requests -> {"render", "call", "patch"}]
         /\ at' \in [Requests -> Nat]
         /\ \A q \in Requests : at'[q] \in 1 .. Len(rendered'[q]) + 1
<1>1. at[r] \in 1 .. Len(rendered[r]) /\ Len(rendered[r]) \in Nat
  BY DEF TypeOK
<1>2. at' = [at EXCEPT ![r] = @ + 1] /\ at \in [Requests -> Nat]
  BY DEF Advance, TypeOK
<1>3. pc' \in [Requests -> {"render", "call", "patch"}]
  BY DEF Advance, TypeOK
<1>4. at'[r] \in 1 .. Len(rendered[r]) + 1
  BY <1>1, <1>2
<1>5. ASSUME NEW q \in Requests PROVE at'[q] \in 1 .. Len(rendered'[q]) + 1
  <2>1. CASE q = r
    BY <1>4, <2>1
  <2>2. CASE q # r
    BY <1>2, <2>2 DEF TypeOK
  <2>3. QED
    BY <2>1, <2>2
<1>6. at' \in [Requests -> Nat]
  BY <1>1, <1>2
<1>7. QED
  BY <1>3, <1>5, <1>6

\* A template with an owner is one.
LEMMA WithOwnerType ==
  ASSUME NEW value \in Value, NEW owner \in Triggers
  PROVE  WithOwner(value, owner) \in Template
BY DEF WithOwner, Value, Template

\* Initially everything is well typed.
LEMMA InitType == Init => TypeOK
<1> SUFFICES ASSUME Init PROVE TypeOK
  OBVIOUS
<1>1. triggers \in [Triggers -> Patches \cup {NoTrigger}] /\ cached = triggers
  BY TriggersAssumption DEF Init
<1>2. rendered \in [Requests -> Seq(Rendered)] /\ at \in [Requests -> Nat]
  BY DEF Init
<1>3. ASSUME NEW r \in Requests PROVE at[r] \in 1 .. Len(rendered[r]) + 1
  <2>1. at[r] = 1 /\ rendered[r] = <<>>
    BY DEF Init
  <2>2. QED
    BY <2>1
<1>4. QED
  BY <1>1, <1>2, <1>3 DEF Init, TypeOK

\* The rest of the cluster keeps the state well typed.
LEMMA ClusterType ==
  ASSUME TypeOK,
         \/ \E t \in Triggers :
              \/ \E p \in Patches \cup {NoTrigger} : EditTrigger(t, p)
              \/ Sync(t)
         \/ \E n \in Names : GarbageCollect(n)
  PROVE  TypeOK'
<1>1. ASSUME NEW t \in Triggers, NEW p \in Patches \cup {NoTrigger}, EditTrigger(t, p)
      PROVE  TypeOK'
  BY <1>1 DEF EditTrigger, TypeOK, request
<1>2. ASSUME NEW t \in Triggers, Sync(t) PROVE TypeOK'
  BY <1>2 DEF Sync, TypeOK, request, bounds
<1>3. ASSUME NEW n \in Names, GarbageCollect(n) PROVE TypeOK'
  BY <1>3 DEF GarbageCollect, TypeOK, request, bounds
<1>4. QED
  BY <1>1, <1>2, <1>3

\* A request's steps keep the state well typed.
LEMMA HandleType ==
  ASSUME TypeOK, PlanInv, NEW r \in Requests, Handle(r)
  PROVE  TypeOK'
<1>1. CASE RenderFails(r)
  BY <1>1 DEF RenderFails, Answer, TypeOK, bounds
<1>2. CASE RenderTrigger(r)
  <2> DEFINE new == [name |-> NameOf[Todo(r)][input[r].event],
                     value |-> [trigger |-> Todo(r), patches |-> cached[Todo(r)],
                                event |-> input[r].event]]
  <2>1. new \in Rendered
    BY <1>2, RenderedType DEF RenderTrigger
  <2> HIDE DEF new
  <2>2. rendered' = [rendered EXCEPT ![r] = Append(@, new)]
    BY <1>2 DEF RenderTrigger, new
  <2>3. rendered[r] \in Seq(Rendered) /\ Append(rendered[r], new) \in Seq(Rendered)
    BY <2>1 DEF TypeOK
  <2>4. rendered' \in [Requests -> Seq(Rendered)]
    BY <2>2, <2>3 DEF TypeOK
  <2>5. \A q \in Requests : at[q] \in 1 .. Len(rendered'[q]) + 1
    <3>1. Len(rendered'[r]) = Len(rendered[r]) + 1 /\ Len(rendered[r]) \in Nat
      BY <2>1, <2>2, <2>3 DEF TypeOK
    <3>2. at[r] \in 1 .. Len(rendered[r]) + 1
      BY DEF TypeOK
    <3>3. at[r] \in 1 .. Len(rendered'[r]) + 1
      BY <3>1, <3>2
    <3>4. \A q \in Requests \ {r} : rendered'[q] = rendered[q]
      BY <2>2 DEF TypeOK
    <3>5. QED
      BY <3>3, <3>4 DEF TypeOK
  <2>6. QED
    BY <1>2, <2>4, <2>5 DEF RenderTrigger, TypeOK, bounds
<1>3. CASE StartHandling(r)
  BY <1>3 DEF StartHandling, TypeOK, bounds
<1>4. CASE CreateFree(r)
  <2>1. at[r] \in DOMAIN rendered[r] /\ Advance(r) /\ UNCHANGED rendered
    BY <1>4 DEF CreateFree, Calling
  <2>2. WithOwner(This(r).value, This(r).value.trigger) \in Template /\ This(r).name \in Names
    BY <2>1, ThisType, WithOwnerType
  <2>3. templates' \in [Names -> Template \cup {NoTemplate}]
    BY <1>4, <2>2 DEF CreateFree, TypeOK
  <2>4. QED
    BY <1>4, <2>1, <2>3, AdvanceType DEF CreateFree, TypeOK, bounds
<1>5. CASE AlreadyExists(r)
  <2>1. at[r] \in DOMAIN rendered[r] /\ UNCHANGED rendered
    BY <1>5 DEF AlreadyExists, Calling
  <2>2. CASE Advance(r)
    BY <1>5, <2>1, <2>2, AdvanceType DEF AlreadyExists, TypeOK, bounds
  <2>3. CASE pc' = [pc EXCEPT ![r] = "patch"] /\ UNCHANGED at
    BY <1>5, <2>3 DEF AlreadyExists, TypeOK, bounds
  <2>4. QED
    BY <1>5, <2>2, <2>3 DEF AlreadyExists
<1>6. CASE PatchSpec(r)
  <2>1. at[r] \in DOMAIN rendered[r] /\ Advance(r) /\ UNCHANGED rendered
    BY <1>6 DEF PatchSpec, Patching, Calling, PlanInv
  <2>2. This(r).value \in Value /\ This(r).name \in Names
    BY <2>1, ThisType
  <2>3. templates[This(r).name].owner \in Triggers
    BY <1>6, <2>2 DEF PatchSpec, TypeOK, Template
  <2>4. WithOwner(This(r).value, templates[This(r).name].owner) \in Template
    BY <2>2, <2>3, WithOwnerType
  <2>5. templates' \in [Names -> Template \cup {NoTemplate}]
    BY <1>6, <2>2, <2>4 DEF PatchSpec, TypeOK
  <2>6. QED
    BY <1>6, <2>1, <2>5, AdvanceType DEF PatchSpec, TypeOK, bounds
<1>7. CASE NotExist(r)
  <2>1. at[r] \in DOMAIN rendered[r] /\ Advance(r) /\ UNCHANGED rendered
    BY <1>7 DEF NotExist, Patching, Calling, PlanInv
  <2>2. QED
    BY <1>7, <2>1, AdvanceType DEF NotExist, TypeOK, bounds
<1>8. CASE Delete(r)
  <2>1. at[r] \in DOMAIN rendered[r] /\ Advance(r) /\ UNCHANGED rendered
    BY <1>8 DEF Delete, Calling
  <2>2. This(r).name \in Names
    BY <2>1, ThisType
  <2>3. templates' \in [Names -> Template \cup {NoTemplate}]
    BY <1>8, <2>2 DEF Delete, TypeOK
  <2>4. QED
    BY <1>8, <2>1, <2>3, AdvanceType DEF Delete, TypeOK, bounds
<1>9. CASE Finish(r)
  BY <1>9 DEF Finish, Answer, TypeOK, bounds
<1>10. QED
  BY <1>1, <1>2, <1>3, <1>4, <1>5, <1>6, <1>7, <1>8, <1>9 DEF Handle

\* Every step keeps the state well typed.
LEMMA NextType == TypeOK /\ PlanInv /\ [Next]_vars => TypeOK'
<1> SUFFICES ASSUME TypeOK, PlanInv, [Next]_vars PROVE TypeOK'
  OBVIOUS
<1>1. ASSUME NEW r \in Requests, CallFails(r) PROVE TypeOK'
  BY <1>1 DEF CallFails, Answer, TypeOK
<1>2. CASE Crash
  BY <1>2 DEF Crash, TypeOK
<1>3. CASE UNCHANGED vars
  BY <1>3 DEF vars, TypeOK, request, bounds
<1>4. QED
  BY <1>1, <1>2, <1>3, HandleType, ClusterType DEF Next

-----------------------------------------------------------------------------
(* Where a request is in its plan                                          *)

LEMMA InitPlan == Init => PlanInv
BY DEF Init, PlanInv

LEMMA NextPlan == TypeOK /\ PlanInv /\ [Next]_vars => PlanInv'
<1> SUFFICES ASSUME TypeOK, PlanInv, [Next]_vars PROVE PlanInv'
  OBVIOUS
<1>1. ASSUME NEW r \in Requests, Handle(r) PROVE PlanInv'
  <2>1. CASE RenderFails(r)
    BY <2>1 DEF RenderFails, Answer, PlanInv
  <2>2. CASE RenderTrigger(r)
    BY <2>2 DEF RenderTrigger, Rendering, PlanInv, TypeOK
  <2>3. CASE StartHandling(r)
    BY <2>3 DEF StartHandling, PlanInv, TypeOK
  <2>4. CASE AlreadyExists(r)
    BY <2>4 DEF AlreadyExists, Calling, Advance, PlanInv, TypeOK
  <2>5. CASE CreateFree(r) \/ PatchSpec(r) \/ NotExist(r) \/ Delete(r)
    BY <2>5 DEF CreateFree, PatchSpec, NotExist, Delete, Patching, Calling, Advance, PlanInv, TypeOK
  <2>6. CASE Finish(r)
    BY <2>6 DEF Finish, Answer, PlanInv
  <2>7. QED
    BY <1>1, <2>1, <2>2, <2>3, <2>4, <2>5, <2>6 DEF Handle
<1>2. CASE UNCHANGED <<input, pc, rendered, at>>
  BY <1>2 DEF PlanInv
<1>3. QED
  BY <1>1, <1>2 DEF Next, vars, request, CallFails, Answer, Crash, EditTrigger, Sync, GarbageCollect

\* Every reachable state of the requests and of what they write is well typed,
\* and each request is where its plan says (hookutil/trigger.go:67).
THEOREM TypeCorrect == Spec => [](TypeOK /\ PlanInv)
<1>1. Init => TypeOK /\ PlanInv
  BY InitType, InitPlan
<1>2. (TypeOK /\ PlanInv) /\ [Next]_vars => (TypeOK /\ PlanInv)'
  BY NextType, NextPlan
<1>3. QED
  BY <1>1, <1>2, PTL DEF Spec

-----------------------------------------------------------------------------
(* Every step is one of TemplateStore's, or none                           *)

\* A name holds a value exactly when it holds a template.
LEMMA ValuePresent ==
  ASSUME TypeOK, NEW n \in Names
  PROVE  /\ values[n] = NoTemplate <=> templates[n] = NoTemplate
         /\ values[n] \in Value \cup {NoTemplate}
<1>1. templates[n] # NoTemplate => templates[n] \in Template
  BY DEF TypeOK
<1>2. templates[n] # NoTemplate =>
        [trigger |-> templates[n].trigger, patches |-> templates[n].patches,
         event |-> templates[n].event] \in Value
  BY <1>1 DEF Template, Value
<1>3. QED
  BY <1>2, NoTemplateAssumption DEF values

\* Writing a template is writing its value.
LEMMA ValueWritten ==
  ASSUME TypeOK, NEW n \in Names, NEW value \in Value, NEW owner \in Triggers,
         templates' = [templates EXCEPT ![n] = WithOwner(value, owner)]
  PROVE  values' = [values EXCEPT ![n] = value]
<1>1. WithOwner(value, owner) # NoTemplate
  BY WithOwnerType, NoTemplateAssumption
<1>2. [trigger |-> WithOwner(value, owner).trigger, patches |-> WithOwner(value, owner).patches,
       event |-> WithOwner(value, owner).event] = value
  BY DEF WithOwner, Value
<1>3. templates'[n] = WithOwner(value, owner)
  BY DEF TypeOK
<1>4. \A m \in Names \ {n} : templates'[m] = templates[m]
  BY DEF TypeOK
<1>5. QED
  BY <1>1, <1>2, <1>3, <1>4 DEF values

\* Removing a template is removing its value.
LEMMA ValueRemoved ==
  ASSUME TypeOK, NEW n \in Names, templates' = [templates EXCEPT ![n] = NoTemplate]
  PROVE  values' = [values EXCEPT ![n] = NoTemplate]
BY DEF TypeOK, values

\* Templates that stay, stay.
LEMMA ValueKept == UNCHANGED templates => UNCHANGED values
BY DEF values

\* Where the abstract request is, for a request past its rendering.
LEMMA OpOfThis ==
  ASSUME TypeOK, PlanInv, NEW r \in Requests,
         Running(r), pc[r] # "render", at[r] \in DOMAIN rendered[r]
  PROVE  /\ Store!Running(r)
         /\ Store!Op(r) = [kind |-> input[r].action, name |-> This(r).name,
                           value |-> This(r).value]
         /\ place[r] = at[r]
<1>1. place[r] = at[r]
  BY DEF place, Planned
<1>2. plan[r] = [i \in DOMAIN rendered[r] |->
                   [kind |-> input[r].action, name |-> rendered[r][i].name,
                    value |-> rendered[r][i].value]]
  BY DEF plan, Planned
<1>3. QED
  BY <1>1, <1>2 DEF Store!Running, Store!Op, Running, This

\* The operations of a rendered list.
Operations(action, list) ==
  [i \in DOMAIN list |-> [kind |-> action, name |-> list[i].name, value |-> list[i].value]]

LEMMA OperationsType ==
  ASSUME NEW action \in ActionNames, NEW list \in Seq(Rendered)
  PROVE  /\ Operations(action, list) \in Seq([kind : ActionNames, name : Names, value : Value])
         /\ Len(Operations(action, list)) = Len(list)
<1> DEFINE Ops == [kind : ActionNames, name : Names, value : Value]
<1>1. DOMAIN list = 1 .. Len(list) /\ Len(list) \in Nat
  OBVIOUS
<1>2. ASSUME NEW i \in 1 .. Len(list)
      PROVE  [kind |-> action, name |-> list[i].name, value |-> list[i].value] \in Ops
  <2>1. list[i] \in Rendered
    BY <1>1, <1>2
  <2>2. QED
    BY <2>1 DEF Rendered
<1>3. Operations(action, list) \in [1 .. Len(list) -> Ops]
  BY <1>1, <1>2 DEF Operations
<1> HIDE DEF Ops
<1>4. Operations(action, list) \in Seq(Ops)
  BY <1>1, <1>3
<1>5. DOMAIN Operations(action, list) = 1 .. Len(list)
  BY <1>1 DEF Operations
<1>6. QED
  BY <1>1, <1>4, <1>5 DEF Ops

\* The loop of Handle moves on to the next operation.
LEMMA AdvanceMoves ==
  ASSUME TypeOK, NEW r \in Requests, pc[r] # "render",
         Advance(r), UNCHANGED <<input, rendered, answer>>
  PROVE  Store!Move(r)
<1>1. pc' = [pc EXCEPT ![r] = "call"] /\ at' = [at EXCEPT ![r] = @ + 1]
  BY DEF Advance
<1>2. \A q \in Requests : Planned(q)' = Planned(q)
  BY <1>1 DEF Planned, TypeOK
<1>3. UNCHANGED plan
  BY <1>2 DEF plan
<1>4. place' = [place EXCEPT ![r] = @ + 1]
  BY <1>1, <1>2 DEF place, Planned, TypeOK
<1>5. seen' = [seen EXCEPT ![r] = FALSE]
  <2>1. \A q \in Requests : Running(q)' = Running(q)
    BY DEF Running
  <2>2. \A q \in Requests : seen'[q] = [seen EXCEPT ![r] = FALSE][q]
    BY <1>1, <2>1 DEF seen, TypeOK
  <2>3. QED
    BY <2>2 DEF seen
<1>6. QED
  BY <1>3, <1>4, <1>5 DEF Store!Move

\* A request that stays where it is keeps its place in the abstract store.
LEMMA RequestKept ==
  UNCHANGED request => UNCHANGED <<plan, place, seen, answer>>
<1> SUFFICES ASSUME UNCHANGED request PROVE UNCHANGED <<plan, place, seen, answer>>
  OBVIOUS
<1>1. UNCHANGED <<input, pc, rendered, at, answer>>
  BY DEF request
<1>2. \A r \in Requests : Planned(r)' = Planned(r) /\ Running(r)' = Running(r)
  BY <1>1 DEF Planned, Running
<1>3. QED
  BY <1>1, <1>2 DEF plan, place, seen

\* A request that ends without moving keeps its plan and its place.
LEMMA AnswerKept ==
  ASSUME TypeOK, UNCHANGED <<input, pc, rendered, at>>
  PROVE  UNCHANGED <<plan, place>>
<1>1. \A r \in Requests : Planned(r)' = Planned(r)
  BY DEF Planned
<1>2. QED
  BY <1>1 DEF plan, place

\* A request that is refused, accepted or answered.
LEMMA RefuseStep ==
  ASSUME TypeOK, PlanInv, NEW r \in Requests, RenderFails(r)
  PROVE  Store!Refuse(r)
<1>1. Running(r) /\ pc[r] = "render" /\ answer' = [answer EXCEPT ![r] = "refused"]
  BY DEF RenderFails, Answer
<1>2. UNCHANGED <<templates, input, pc, rendered, at>>
  BY DEF RenderFails, Answer
<1>3. UNCHANGED <<values, plan, place>>
  BY <1>2, ValueKept, AnswerKept
<1>4. UNCHANGED seen
  BY <1>1, <1>2 DEF seen, Running, TypeOK
<1>5. place[r] = 0 /\ answer[r] = "none"
  BY <1>1 DEF place, Planned, Running
<1>6. QED
  BY <1>1, <1>3, <1>4, <1>5 DEF Store!Refuse

LEMMA RenderStep ==
  ASSUME TypeOK, NEW r \in Requests, RenderTrigger(r)
  PROVE  UNCHANGED Store!vars
<1>1. pc[r] = "render" /\ UNCHANGED <<templates, input, pc, at, answer>>
  BY DEF RenderTrigger, Rendering
<1>2. \A q \in Requests : Planned(q) => rendered'[q] = rendered[q]
  BY <1>1 DEF RenderTrigger, Planned, TypeOK
<1>3. \A q \in Requests : Planned(q)' = Planned(q) /\ Running(q)' = Running(q)
  BY <1>1 DEF Planned, Running
<1>4. UNCHANGED <<plan, place, seen>>
  BY <1>1, <1>2, <1>3 DEF plan, place, seen
<1>5. QED
  BY <1>1, <1>4, ValueKept DEF Store!vars

LEMMA AcceptStep ==
  ASSUME TypeOK, PlanInv, NEW r \in Requests, StartHandling(r)
  PROVE  Store!Accept(r)
<1>1. /\ Running(r) /\ pc[r] = "render" /\ pc' = [pc EXCEPT ![r] = "call"]
      /\ IsActionValid(input[r].action)
      /\ UNCHANGED <<templates, input, rendered, at, answer>>
  BY DEF StartHandling
<1>2. place[r] = 0 /\ answer[r] = "none"
  BY <1>1 DEF place, Planned, Running
<1>3. \A q \in Requests \ {r} : Planned(q)' = Planned(q)
  BY <1>1 DEF Planned, TypeOK
<1>4. Planned(r)' /\ at[r] = 1
  BY <1>1 DEF Planned, TypeOK, PlanInv
<1>5. place' = [place EXCEPT ![r] = 1]
  BY <1>1, <1>3, <1>4 DEF place, TypeOK
<1>6. plan' \in [Requests -> Seq([kind : ActionNames, name : Names, value : Value])]
  <2>1. ASSUME NEW q \in Requests
        PROVE  plan'[q] \in Seq([kind : ActionNames, name : Names, value : Value])
    <3>1. CASE ~Planned(q)'
      BY <3>1 DEF plan
    <3>2. CASE Planned(q)'
      <4>1. input'[q].action \in ActionNames
        BY <1>1, <1>3, <3>2 DEF Planned, PlanInv, IsActionValid
      <4>2. rendered'[q] \in Seq(Rendered)
        BY <1>1 DEF TypeOK
      <4>3. plan'[q] = Operations(input'[q].action, rendered'[q])
        BY <3>2 DEF plan, Operations
      <4>4. QED
        BY <4>1, <4>2, <4>3, OperationsType
    <3>3. QED
      BY <3>1, <3>2
  <2>2. QED
    BY <2>1 DEF plan
<1>7. \A q \in Requests \ {r} : plan'[q] = plan[q]
  BY <1>1, <1>3 DEF plan
<1>8. UNCHANGED seen
  <2>1. \A q \in Requests : Running(q)' = Running(q)
    BY <1>1 DEF Running
  <2>2. QED
    BY <1>1, <2>1 DEF seen, TypeOK
<1>9. UNCHANGED <<values, answer>>
  BY <1>1, ValueKept
<1>10. QED
  BY <1>2, <1>5, <1>6, <1>7, <1>8, <1>9 DEF Store!Accept

LEMMA CompleteStep ==
  ASSUME TypeOK, PlanInv, NEW r \in Requests, Finish(r)
  PROVE  Store!Complete(r)
<1>1. /\ Running(r) /\ pc[r] = "call" /\ at[r] \notin DOMAIN rendered[r]
      /\ answer' = [answer EXCEPT ![r] = "ok"]
      /\ UNCHANGED <<templates, input, pc, rendered, at>>
  BY DEF Finish, Answer
<1>2. rendered[r] \in Seq(Rendered) /\ at[r] \in 1 .. Len(rendered[r]) + 1
  BY DEF TypeOK
<1>3. at[r] = Len(rendered[r]) + 1
  BY <1>1, <1>2
<1>4. place[r] = at[r] /\ plan[r] = Operations(input[r].action, rendered[r])
  BY <1>1 DEF plan, place, Planned, Operations
<1>5. Len(plan[r]) = Len(rendered[r])
  <2>1. input[r].action \in ActionNames
    BY <1>1 DEF PlanInv, IsActionValid
  <2>2. QED
    BY <1>2, <1>4, <2>1, OperationsType
<1>6. UNCHANGED <<values, plan, place>>
  BY <1>1, ValueKept, AnswerKept
<1>7. UNCHANGED seen
  BY <1>1 DEF seen, Running, TypeOK
<1>8. QED
  BY <1>1, <1>3, <1>4, <1>5, <1>6, <1>7 DEF Store!Complete, Running

LEMMA BreakStep ==
  ASSUME TypeOK, NEW r \in Requests, CallFails(r)
  PROVE  Store!BreakOff(r)
<1>1. /\ Running(r) /\ answer' = [answer EXCEPT ![r] = "broken"]
      /\ UNCHANGED <<templates, input, pc, rendered, at>>
  BY DEF CallFails, Answer
<1>2. UNCHANGED <<values, plan, place>>
  BY <1>1, ValueKept, AnswerKept
<1>3. seen' = [seen EXCEPT ![r] = FALSE]
  BY <1>1 DEF seen, Running, TypeOK
<1>4. QED
  BY <1>1, <1>2, <1>3 DEF Store!BreakOff, Running

LEMMA DieStep ==
  ASSUME TypeOK, Crash
  PROVE  Store!Die
<1>1. /\ answer' = [r \in Requests |-> IF Running(r) THEN "broken" ELSE answer[r]]
      /\ UNCHANGED <<templates, input, pc, rendered, at>>
  BY DEF Crash
<1>2. UNCHANGED <<values, plan, place>>
  BY <1>1, ValueKept, AnswerKept
<1>3. seen' = [r \in Requests |-> FALSE]
  BY <1>1 DEF seen, Running, TypeOK
<1>4. QED
  BY <1>1, <1>2, <1>3 DEF Store!Die, Running

\* A request that calls the API server.
LEMMA CreateStep ==
  ASSUME TypeOK, PlanInv, NEW r \in Requests, CreateFree(r)
  PROVE  Store!Perform(r)
<1>1. /\ Running(r) /\ pc[r] # "render" /\ at[r] \in DOMAIN rendered[r]
      /\ input[r].action \in {"create", "apply"}
      /\ templates[This(r).name] = NoTemplate
      /\ templates' = [templates EXCEPT ![This(r).name] =
                         WithOwner(This(r).value, This(r).value.trigger)]
      /\ Advance(r) /\ UNCHANGED <<input, rendered, answer>>
  BY DEF CreateFree, Calling
<1>2. /\ This(r).name \in Names /\ This(r).value \in Value
      /\ This(r).value.trigger \in Triggers
  BY <1>1, ThisType
<1>3. values' = [values EXCEPT ![This(r).name] = This(r).value]
  BY <1>1, <1>2, ValueWritten
<1>4. values[This(r).name] = NoTemplate
  BY <1>1, <1>2, ValuePresent
<1>5. /\ Store!Running(r) /\ Store!Op(r).name = This(r).name
      /\ Store!Op(r).kind = input[r].action /\ Store!Op(r).value = This(r).value
  BY <1>1, OpOfThis
<1>6. Store!Effect(Store!Op(r), NoTemplate) = This(r).value
  BY <1>1, <1>5 DEF Store!Effect
<1>7. Store!Move(r)
  BY <1>1, AdvanceMoves
<1>8. QED
  BY <1>3, <1>4, <1>5, <1>6, <1>7 DEF Store!Perform

LEMMA ExistsStep ==
  ASSUME TypeOK, PlanInv, NEW r \in Requests, AlreadyExists(r)
  PROVE  Store!Perform(r) \/ Store!See(r)
<1>1. /\ Running(r) /\ pc[r] = "call" /\ at[r] \in DOMAIN rendered[r]
      /\ input[r].action \in {"create", "apply"}
      /\ templates[This(r).name] # NoTemplate
      /\ UNCHANGED <<templates, input, rendered, answer>>
  BY DEF AlreadyExists, Calling
<1>2. This(r).name \in Names
  BY <1>1, ThisType
<1>3. values[This(r).name] # NoTemplate /\ UNCHANGED values
  BY <1>1, <1>2, ValuePresent, ValueKept
<1>4. /\ Store!Running(r) /\ Store!Op(r).name = This(r).name
      /\ Store!Op(r).kind = input[r].action
  BY <1>1, OpOfThis
<1>5. CASE input[r].action = "create"
  <2>1. Store!Effect(Store!Op(r), values[This(r).name]) = values[This(r).name]
    BY <1>3, <1>4, <1>5 DEF Store!Effect
  <2>2. values' = [values EXCEPT ![This(r).name] = values[This(r).name]]
    BY <1>2, <1>3 DEF values
  <2>3. Store!Move(r)
    BY <1>1, <1>5, AdvanceMoves DEF AlreadyExists
  <2>4. QED
    BY <1>4, <2>1, <2>2, <2>3 DEF Store!Perform
<1>6. CASE input[r].action = "apply"
  <2>1. pc' = [pc EXCEPT ![r] = "patch"] /\ UNCHANGED at
    BY <1>6 DEF AlreadyExists
  <2>2. \A q \in Requests : Planned(q)' = Planned(q)
    BY <1>1, <2>1 DEF Planned, TypeOK
  <2>3. UNCHANGED <<plan, place>>
    BY <1>1, <2>1, <2>2 DEF plan, place
  <2>4. seen' = [seen EXCEPT ![r] = TRUE]
    <3>1. \A q \in Requests : Running(q)' = Running(q)
      BY <1>1 DEF Running
    <3>2. \A q \in Requests : seen'[q] = [seen EXCEPT ![r] = TRUE][q]
      BY <1>1, <2>1, <3>1 DEF seen, TypeOK
    <3>3. QED
      BY <3>2 DEF seen
  <2>5. QED
    BY <1>1, <1>3, <1>4, <1>6, <2>3, <2>4 DEF Store!See, Store!Present
<1>7. QED
  BY <1>1, <1>5, <1>6

LEMMA PatchStep ==
  ASSUME TypeOK, PlanInv, NEW r \in Requests, PatchSpec(r)
  PROVE  Store!Perform(r)
<1>1. /\ Running(r) /\ pc[r] # "render" /\ at[r] \in DOMAIN rendered[r]
      /\ input[r].action \in {"update", "apply"}
      /\ templates[This(r).name] # NoTemplate
      /\ templates' = [templates EXCEPT ![This(r).name] =
                         WithOwner(This(r).value, @.owner)]
      /\ Advance(r) /\ UNCHANGED <<input, rendered, answer>>
  BY DEF PatchSpec, Patching, Calling, PlanInv
<1>2. This(r).name \in Names /\ This(r).value \in Value
  BY <1>1, ThisType
<1>3. templates[This(r).name].owner \in Triggers
  BY <1>1, <1>2 DEF TypeOK, Template
<1>4. templates' = [templates EXCEPT ![This(r).name] =
                      WithOwner(This(r).value, templates[This(r).name].owner)]
  BY <1>1
<1>5. values' = [values EXCEPT ![This(r).name] = This(r).value]
  BY <1>2, <1>3, <1>4, ValueWritten
<1>6. values[This(r).name] # NoTemplate
  BY <1>1, <1>2, ValuePresent
<1>7. /\ Store!Running(r) /\ Store!Op(r).name = This(r).name
      /\ Store!Op(r).kind = input[r].action /\ Store!Op(r).value = This(r).value
  BY <1>1, OpOfThis
<1>8. Store!Effect(Store!Op(r), values[This(r).name]) = This(r).value
  BY <1>1, <1>6, <1>7 DEF Store!Effect
<1>9. Store!Move(r)
  BY <1>1, AdvanceMoves
<1>10. QED
  BY <1>5, <1>7, <1>8, <1>9 DEF Store!Perform

LEMMA NotExistStep ==
  ASSUME TypeOK, PlanInv, NEW r \in Requests, NotExist(r)
  PROVE  Store!Perform(r) \/ Store!Miss(r)
<1>1. /\ Running(r) /\ pc[r] # "render" /\ at[r] \in DOMAIN rendered[r]
      /\ pc[r] = "patch" \/ input[r].action = "update"
      /\ templates[This(r).name] = NoTemplate
      /\ Advance(r) /\ UNCHANGED <<templates, input, rendered, answer>>
  BY DEF NotExist, Patching, Calling, PlanInv
<1>2. This(r).name \in Names
  BY <1>1, ThisType
<1>3. values[This(r).name] = NoTemplate /\ UNCHANGED values
  BY <1>1, <1>2, ValuePresent, ValueKept
<1>4. /\ Store!Running(r) /\ Store!Op(r).name = This(r).name
      /\ Store!Op(r).kind = input[r].action
  BY <1>1, OpOfThis
<1>5. Store!Move(r)
  BY <1>1, AdvanceMoves
<1>6. CASE pc[r] = "patch"
  <2>1. seen[r]
    BY <1>1, <1>6 DEF seen
  <2>2. QED
    BY <1>3, <1>4, <1>5, <2>1 DEF Store!Miss, Store!Present
<1>7. CASE input[r].action = "update"
  <2>1. Store!Effect(Store!Op(r), values[This(r).name]) = values[This(r).name]
    BY <1>3, <1>4, <1>7 DEF Store!Effect
  <2>2. values' = [values EXCEPT ![This(r).name] = values[This(r).name]]
    BY <1>2, <1>3 DEF values
  <2>3. QED
    BY <1>4, <1>5, <2>1, <2>2 DEF Store!Perform
<1>8. QED
  BY <1>1, <1>6, <1>7

LEMMA DeleteStep ==
  ASSUME TypeOK, PlanInv, NEW r \in Requests, Delete(r)
  PROVE  Store!Perform(r)
<1>1. /\ Running(r) /\ pc[r] # "render" /\ at[r] \in DOMAIN rendered[r]
      /\ input[r].action = "delete"
      /\ templates' = [templates EXCEPT ![This(r).name] = NoTemplate]
      /\ Advance(r) /\ UNCHANGED <<input, rendered, answer>>
  BY DEF Delete, Calling
<1>2. This(r).name \in Names
  BY <1>1, ThisType
<1>3. values' = [values EXCEPT ![This(r).name] = NoTemplate]
  BY <1>1, <1>2, ValueRemoved
<1>4. /\ Store!Running(r) /\ Store!Op(r).name = This(r).name
      /\ Store!Op(r).kind = input[r].action
  BY <1>1, OpOfThis
<1>5. Store!Effect(Store!Op(r), values[This(r).name]) = NoTemplate
  BY <1>1, <1>4 DEF Store!Effect
<1>6. Store!Move(r)
  BY <1>1, AdvanceMoves
<1>7. QED
  BY <1>3, <1>4, <1>5, <1>6 DEF Store!Perform

\* The initial states agree, and every step is a step of the store or a stutter.
LEMMA InitImplements == TypeOK /\ Init => Store!Init
<1> SUFFICES ASSUME TypeOK, Init PROVE Store!Init
  OBVIOUS
<1>1. \A r \in Requests : ~Planned(r) /\ pc[r] # "patch"
  BY DEF Init, Planned
<1>2. plan = [r \in Requests |-> <<>>] /\ place = [r \in Requests |-> 0]
  BY <1>1 DEF plan, place
<1>3. seen = [r \in Requests |-> FALSE]
  BY <1>1 DEF seen
<1>4. values = [n \in Names |-> NoTemplate]
  BY DEF Init, values
<1>5. QED
  BY <1>2, <1>3, <1>4 DEF Init, Store!Init

LEMMA NextImplements ==
  TypeOK /\ PlanInv /\ [Next]_vars => [Store!Next]_(Store!vars)
<1> SUFFICES ASSUME TypeOK, PlanInv, [Next]_vars PROVE [Store!Next]_(Store!vars)
  OBVIOUS
<1>1. ASSUME NEW r \in Requests, Handle(r) PROVE Store!Step(r) \/ UNCHANGED Store!vars
  BY <1>1, RefuseStep, RenderStep, AcceptStep, CreateStep, ExistsStep, PatchStep,
     NotExistStep, DeleteStep, CompleteStep
  DEF Handle, Store!Step
<1>2. ASSUME NEW r \in Requests, CallFails(r) PROVE Store!Step(r)
  BY <1>2, BreakStep DEF Store!Step
<1>3. CASE Crash
  BY <1>3, DieStep DEF Store!Next
<1>4. ASSUME NEW n \in Names, GarbageCollect(n) PROVE Store!Remove(n)
  <2>1. values[n] # NoTemplate
    BY <1>4, ValuePresent DEF GarbageCollect
  <2>2. values' = [values EXCEPT ![n] = NoTemplate]
    BY <1>4, ValueRemoved DEF GarbageCollect
  <2>3. QED
    BY <1>4, <2>1, <2>2, RequestKept DEF GarbageCollect, Store!Remove, Store!Present
<1>5. CASE UNCHANGED <<templates, request>>
  BY <1>5, ValueKept, RequestKept DEF Store!vars
<1>6. QED
  BY <1>1, <1>2, <1>3, <1>4, <1>5 DEF Next, Store!Next, EditTrigger, Sync, vars

\* Handle (hookutil/trigger.go:67) implements the promise, liveness apart: what
\* it does to the templates is what TemplateStore allows, for any number of
\* requests, triggers and names.
THEOREM SafelyKeepsPromise == Spec => Store!Init /\ [][Store!Next]_(Store!vars)
<1>1. Init => Store!Init
  BY InitType, InitImplements
<1>2. TypeOK /\ PlanInv /\ [Next]_vars => [Store!Next]_(Store!vars)
  BY NextImplements
<1>3. QED
  BY <1>1, <1>2, TypeCorrect, PTL DEF Spec
-----------------------------------------------------------------------------
(* Templates of one trigger                                                *)

\* No two triggers render to the same name.
NoSharedNames ==
  \A s, t \in Triggers : \A d, e \in Events :
    NameOf[s][d] # BadName /\ NameOf[s][d] = NameOf[t][e] => s = t

\* The name of a template is one that its trigger renders to.
NamedBy(n, t) == n # BadName /\ \E e \in Events : NameOf[t][e] = n

\* A template is owned by the trigger that it refers to; by NoSharedNames
\* no other trigger can ever write it.
OwnInv ==
  /\ \A n \in Names : templates[n] # NoTemplate =>
       templates[n].owner = templates[n].trigger /\ NamedBy(n, templates[n].trigger)
  /\ \A r \in Requests : \A i \in DOMAIN rendered[r] :
       NamedBy(rendered[r][i].name, rendered[r][i].value.trigger)

LEMMA InitOwn == Init => OwnInv
BY DEF Init, OwnInv

\* A step that writes the template of a request leaves owner and trigger the same.
LEMMA OwnWritten ==
  ASSUME NoSharedNames, TypeOK, OwnInv, NEW r \in Requests, at[r] \in DOMAIN rendered[r],
         NEW owner \in Triggers,
         \/ owner = This(r).value.trigger
         \/ templates[This(r).name] # NoTemplate /\ owner = templates[This(r).name].owner,
         templates' = [templates EXCEPT ![This(r).name] = WithOwner(This(r).value, owner)],
         UNCHANGED rendered
  PROVE  OwnInv'
<1> DEFINE m == This(r).name
           t == This(r).value.trigger
<1>1. m \in Names /\ t \in Triggers /\ This(r).value \in Value
  BY ThisType
<1>2. NamedBy(m, t)
  BY DEF OwnInv, This
<1>3. owner = t
  <2>1. CASE templates[m] # NoTemplate /\ owner = templates[m].owner
    <3>1. owner = templates[m].trigger /\ NamedBy(m, owner)
      BY <1>1, <2>1 DEF OwnInv
    <3> QED
      BY <1>1, <1>2, <3>1 DEF NoSharedNames, NamedBy
  <2> QED
    BY <2>1
<1>4. templates'[m] = WithOwner(This(r).value, t) /\ \A n \in Names \ {m} : templates'[n] = templates[n]
  BY <1>1, <1>3 DEF TypeOK
<1>5. templates'[m].owner = t /\ templates'[m].trigger = t
  BY <1>4 DEF WithOwner
<1>6. \A n \in Names : templates'[n] # NoTemplate =>
        templates'[n].owner = templates'[n].trigger /\ NamedBy(n, templates'[n].trigger)
  BY <1>2, <1>4, <1>5 DEF OwnInv
<1> QED
  BY <1>6 DEF OwnInv, NamedBy

\* A step that writes no template and renders none.
LEMMA OwnKept == OwnInv /\ UNCHANGED <<templates, rendered>> => OwnInv'
BY DEF OwnInv, NamedBy

LEMMA OwnRemoved ==
  ASSUME TypeOK, OwnInv, NEW n \in Names, UNCHANGED rendered,
         templates' = [templates EXCEPT ![n] = NoTemplate]
  PROVE  OwnInv'
<1>1. \A m \in Names : templates'[m] # NoTemplate => templates'[m] = templates[m] /\ templates[m] # NoTemplate
  BY DEF TypeOK
<1>2. \A m, t : NamedBy(m, t)' <=> NamedBy(m, t)
  BY DEF NamedBy
<1>3. \A m \in Names : templates'[m] # NoTemplate =>
        templates'[m].owner = templates'[m].trigger /\ NamedBy(m, templates'[m].trigger)
  BY <1>1 DEF OwnInv
<1> QED
  BY <1>2, <1>3 DEF OwnInv

LEMMA OwnRendered ==
  ASSUME TypeOK, OwnInv, NEW r \in Requests, RenderTrigger(r)
  PROVE  OwnInv'
<1> DEFINE x == [name |-> NameOf[Todo(r)][input[r].event],
                 value |-> [trigger |-> Todo(r), patches |-> cached[Todo(r)], event |-> input[r].event]]
<1>1. Todo(r) \in Triggers /\ input[r].event \in Events /\ NameOf[Todo(r)][input[r].event] # BadName
  BY TodoType DEF RenderTrigger, CanRender
<1>2. NamedBy(x.name, x.value.trigger)
  BY <1>1 DEF NamedBy
<1>3. rendered' = [rendered EXCEPT ![r] = Append(@, x)] /\ UNCHANGED templates
  BY DEF RenderTrigger
<1>4. ASSUME NEW q \in Requests, NEW i \in DOMAIN rendered'[q]
      PROVE  NamedBy(rendered'[q][i].name, rendered'[q][i].value.trigger)
  <2>1. rendered[q] \in Seq(Rendered)
    BY DEF TypeOK
  <2>2. \/ i \in DOMAIN rendered[q] /\ rendered'[q][i] = rendered[q][i]
        \/ rendered'[q][i] = x
    BY <1>3, <1>4, <2>1 DEF TypeOK
  <2> QED
    BY <1>2, <2>2 DEF OwnInv
<1> QED
  <2>1. \A n \in Names : templates[n] # NoTemplate =>
          templates[n].owner = templates[n].trigger /\ NamedBy(n, templates[n].trigger)
    BY DEF OwnInv
  <2>2. \A n \in Names : templates'[n] # NoTemplate =>
          templates'[n].owner = templates'[n].trigger /\ NamedBy(n, templates'[n].trigger)
    BY <1>3, <2>1
  <2>3. \A n, t : NamedBy(n, t)' <=> NamedBy(n, t)
    BY DEF NamedBy
  <2> QED
    BY <1>4, <2>2, <2>3 DEF OwnInv

LEMMA NextOwn == NoSharedNames /\ TypeOK /\ PlanInv /\ OwnInv /\ [Next]_vars => OwnInv'
<1> SUFFICES ASSUME NoSharedNames, TypeOK, PlanInv, OwnInv, [Next]_vars PROVE OwnInv'
  OBVIOUS
<1>1. ASSUME NEW r \in Requests, Handle(r) PROVE OwnInv'
  <2>1. CASE RenderFails(r) \/ StartHandling(r) \/ AlreadyExists(r) \/ NotExist(r) \/ Finish(r)
    BY <2>1, OwnKept DEF RenderFails, StartHandling, AlreadyExists, NotExist, Finish
  <2>2. CASE RenderTrigger(r)
    BY <2>2, OwnRendered
  <2>3. CASE CreateFree(r)
    <3>1. at[r] \in DOMAIN rendered[r]
      BY <2>3 DEF CreateFree, Calling
    <3>2. This(r).value.trigger \in Triggers
      BY <3>1, ThisType
    <3> QED
      BY <2>3, <3>1, <3>2, OwnWritten DEF CreateFree
  <2>4. CASE PatchSpec(r)
    <3>1. at[r] \in DOMAIN rendered[r]
      BY <2>4 DEF PatchSpec, Patching, Calling, PlanInv
    <3>2. This(r).name \in Names /\ templates[This(r).name] \in Template
      BY <2>4, <3>1, ThisType DEF PatchSpec, TypeOK
    <3>3. templates[This(r).name].owner \in Triggers
      BY <3>2 DEF Template
    <3>4. templates' = [templates EXCEPT ![This(r).name] =
                          WithOwner(This(r).value, templates[This(r).name].owner)]
      BY <2>4, <3>2 DEF PatchSpec
    <3> QED
      BY <2>4, <3>1, <3>3, <3>4, OwnWritten DEF PatchSpec
  <2>5. CASE Delete(r)
    <3>1. at[r] \in DOMAIN rendered[r]
      BY <2>5 DEF Delete, Calling
    <3> QED
      BY <2>5, <3>1, ThisType, OwnRemoved DEF Delete
  <2> QED
    BY <1>1, <2>1, <2>2, <2>3, <2>4, <2>5 DEF Handle
<1>2. ASSUME NEW r \in Requests, CallFails(r) PROVE OwnInv'
  BY <1>2, OwnKept DEF CallFails
<1>3. CASE Crash
  BY <1>3, OwnKept DEF Crash
<1>4. ASSUME NEW t \in Triggers, NEW p \in Patches \cup {NoTrigger}, EditTrigger(t, p) PROVE OwnInv'
  BY <1>4, OwnKept DEF EditTrigger, request
<1>5. ASSUME NEW t \in Triggers, Sync(t) PROVE OwnInv'
  BY <1>5, OwnKept DEF Sync, request
<1>6. ASSUME NEW n \in Names, GarbageCollect(n) PROVE OwnInv'
  BY <1>6, OwnRemoved DEF GarbageCollect, request
<1>7. CASE UNCHANGED vars
  BY <1>7, OwnKept DEF vars, request
<1> QED
  BY <1>1, <1>2, <1>3, <1>4, <1>5, <1>6, <1>7 DEF Next
=============================================================================
