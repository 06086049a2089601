---------------------------- MODULE TriggerHandler ----------------------------
(***************************************************************************)
(* The webhook's TriggerHandler (internal/webhook/hookutil/trigger.go) and *)
(* the requests that run it concurrently, one goroutine each. A request    *)
(* reads its Triggers from the informer's cache, renders every one of them *)
(* into the ResourceTemplate it asks for, and only then calls the API      *)
(* server, one call a step. An apply is two calls: a Create and, if the    *)
(* name is taken, a Patch of /spec.                                        *)
(*                                                                         *)
(* A template's spec is the triple of what it was rendered from: the       *)
(* trigger, that trigger's patches, and the event.                         *)
(***************************************************************************)
EXTENDS Naturals, Sequences

CONSTANTS
  Requests,     \* HTTP requests that reach Handle
  Inputs,       \* what a request carries: its hook's triggers, action, event
  Triggers, Names, Events,
  Patches,      \* values of a Trigger's spec.patches
  InitialTriggers, \* what the Triggers may hold at the start
  NoTrigger, NoTemplate,
  NameOf,       \* NameOf[t][e]: the rendered spec.resourceName
  BadName,      \* a rendered name that is no DNS subdomain
  Invalid,      \* pairs of a trigger and an event its schema rejects
  MaxEdits,     \* bound: changes of Triggers
  MaxFaults,    \* bound: failed API calls
  MaxCrashes    \* bound: ends of the webhook process

ActionNames == {"create", "update", "apply", "delete"}

ASSUME InputsAssumption ==
  \A in \in Inputs : in.triggers \in Seq(Triggers) /\ in.event \in Events

ASSUME TriggersAssumption == InitialTriggers \subseteq [Triggers -> Patches \cup {NoTrigger}]

ASSUME NamesAssumption ==
  \A t \in Triggers, e \in Events : NameOf[t][e] \in Names \cup {BadName}

ASSUME BoundsAssumption == {MaxEdits, MaxFaults, MaxCrashes} \subseteq Nat

Value == [trigger : Triggers, patches : Patches, event : Events]
Rendered == [name : Names, value : Value]
Template == [owner : Triggers, trigger : Triggers, patches : Patches, event : Events]

ASSUME NoTemplateAssumption == NoTemplate \notin Value \cup Template

VARIABLES
  triggers,   \* the Triggers in the API server
  cached,     \* the webhook's copies of them
  templates,  \* the ResourceTemplates in the API server
  input,      \* the request's options
  pc,         \* where the request's Handle is
  rendered,   \* the templates rendered so far
  at,         \* the trigger being handled
  answer,     \* what Handle returned; "none" while it runs
  edits, faults, crashes

request == <<input, pc, rendered, at, answer>>
bounds == <<edits, faults, crashes>>
vars == <<triggers, cached, templates, request, bounds>>

IsActionValid(action) == action \in ActionNames

Running(r) == answer[r] = "none"

-----------------------------------------------------------------------------
Init ==
  /\ triggers \in InitialTriggers
  /\ cached = triggers
  /\ templates = [n \in Names |-> NoTemplate]
  /\ input \in [Requests -> Inputs]
  /\ pc = [r \in Requests |-> "render"]
  /\ rendered = [r \in Requests |-> <<>>]
  /\ at = [r \in Requests |-> 1]
  /\ answer = [r \in Requests |-> "none"]
  /\ edits = 0 /\ faults = 0 /\ crashes = 0

-----------------------------------------------------------------------------
(* The rest of the cluster                                                 *)

EditTrigger(t, p) ==
  /\ edits < MaxEdits
  /\ triggers[t] # p
  /\ triggers[t] # NoTrigger
  /\ triggers' = [triggers EXCEPT ![t] = p]
  /\ edits' = edits + 1
  /\ UNCHANGED <<cached, templates, request, faults, crashes>>

Sync(t) ==
  /\ cached[t] # triggers[t]
  /\ cached' = [cached EXCEPT ![t] = triggers[t]]
  /\ UNCHANGED <<triggers, templates, request, bounds>>

\* A template goes with the trigger that is its controller.
GarbageCollect(n) ==
  /\ templates[n] # NoTemplate
  /\ triggers[templates[n].owner] = NoTrigger
  /\ templates' = [templates EXCEPT ![n] = NoTemplate]
  /\ UNCHANGED <<triggers, cached, request, bounds>>

-----------------------------------------------------------------------------
(* Handle                                                                  *)

Answer(r, what) ==
  /\ Running(r)
  /\ answer' = [answer EXCEPT ![r] = what]
  /\ UNCHANGED pc

\* renderTrigger for the next trigger of the list.
Todo(r) == input[r].triggers[Len(rendered[r]) + 1]
Rendering(r) == Running(r) /\ pc[r] = "render" /\ Len(rendered[r]) < Len(input[r].triggers)
CanRender(r) ==
  LET t == Todo(r)
      e == input[r].event
  IN  /\ cached[t] # NoTrigger
      /\ <<t, e>> \notin Invalid
      /\ NameOf[t][e] # BadName

\* An invalid action, an unknown trigger, an event its schema rejects or a bad
\* name: Handle returns before the first write.
RenderFails(r) ==
  /\ pc[r] = "render"
  /\ \/ ~IsActionValid(input[r].action)
     \/ Rendering(r) /\ ~CanRender(r)
  /\ Answer(r, "refused")
  /\ UNCHANGED <<triggers, cached, templates, input, rendered, at, bounds>>

RenderTrigger(r) ==
  /\ Rendering(r) /\ CanRender(r)
  /\ IsActionValid(input[r].action)
  /\ LET t == Todo(r)
         e == input[r].event
     IN  rendered' = [rendered EXCEPT ![r] = Append(@,
           [name |-> NameOf[t][e],
            value |-> [trigger |-> t, patches |-> cached[t], event |-> e]])]
  /\ UNCHANGED <<triggers, cached, templates, input, pc, at, answer, bounds>>

StartHandling(r) ==
  /\ Running(r) /\ pc[r] = "render" /\ ~Rendering(r)
  /\ IsActionValid(input[r].action)
  /\ pc' = [pc EXCEPT ![r] = "call"]
  /\ UNCHANGED <<triggers, cached, templates, input, rendered, at, answer, bounds>>

\* handleTrigger for the next rendered template.
This(r) == rendered[r][at[r]]
Calling(r, action) ==
  /\ Running(r) /\ pc[r] = "call" /\ at[r] \in DOMAIN rendered[r]
  /\ input[r].action = action

Advance(r) ==
  /\ pc' = [pc EXCEPT ![r] = "call"]
  /\ at' = [at EXCEPT ![r] = @ + 1]

WithOwner(value, owner) ==
  [owner |-> owner, trigger |-> value.trigger, patches |-> value.patches, event |-> value.event]

\* createResource, for create and as the first half of apply.
CreateFree(r) ==
  /\ Calling(r, "create") \/ Calling(r, "apply")
  /\ templates[This(r).name] = NoTemplate
  /\ templates' = [templates EXCEPT ![This(r).name] =
                     WithOwner(This(r).value, This(r).value.trigger)]
  /\ Advance(r)
  /\ UNCHANGED <<triggers, cached, input, rendered, answer, bounds>>

MutAlreadyExists(r) ==
  /\ Calling(r, "create") \/ Calling(r, "apply")
  /\ templates[This(r).name] # NoTemplate
  /\ Advance(r)
  /\ UNCHANGED <<triggers, cached, templates, input, rendered, answer, bounds>>
AlreadyExists(r) ==
  /\ Calling(r, "create") \/ Calling(r, "apply")
  /\ templates[This(r).name] # NoTemplate
  /\ IF input[r].action = "create"
     THEN Advance(r)
     ELSE pc' = [pc EXCEPT ![r] = "patch"] /\ UNCHANGED at
  /\ UNCHANGED <<triggers, cached, templates, input, rendered, answer, bounds>>

\* updateResource, for update and as the second half of apply: /spec is
\* replaced as a whole, the owner references stay.
Patching(r) == (Running(r) /\ pc[r] = "patch") \/ Calling(r, "update")

MutPatchSpec(r) ==
  /\ Patching(r)
  /\ templates[This(r).name] # NoTemplate
  /\ templates' = [templates EXCEPT ![This(r).name] =
                     [@ EXCEPT !.event = This(r).value.event]]
  /\ Advance(r)
  /\ UNCHANGED <<triggers, cached, input, rendered, answer, bounds>>
PatchSpec(r) ==
  /\ Patching(r)
  /\ templates[This(r).name] # NoTemplate
  /\ templates' = [templates EXCEPT ![This(r).name] =
                     WithOwner(This(r).value, @.owner)]
  /\ Advance(r)
  /\ UNCHANGED <<triggers, cached, input, rendered, answer, bounds>>

NotExist(r) ==
  /\ Patching(r)
  /\ templates[This(r).name] = NoTemplate
  /\ Advance(r)
  /\ UNCHANGED <<triggers, cached, templates, input, rendered, answer, bounds>>

\* deleteResource: a NotFound is no error.
Delete(r) ==
  /\ Calling(r, "delete")
  /\ templates' = [templates EXCEPT ![This(r).name] = NoTemplate]
  /\ Advance(r)
  /\ UNCHANGED <<triggers, cached, input, rendered, answer, bounds>>

Finish(r) ==
  /\ pc[r] = "call" /\ at[r] \notin DOMAIN rendered[r]
  /\ Answer(r, "ok")
  /\ UNCHANGED <<triggers, cached, templates, input, rendered, at, bounds>>

\* Any call may fail: the triggers that follow are not handled.
CallFails(r) ==
  /\ Running(r)
  /\ faults < MaxFaults
  /\ faults' = faults + 1
  /\ Answer(r, "broken")
  /\ UNCHANGED <<triggers, cached, templates, input, rendered, at, edits, crashes>>

\* The process ends in the middle of its requests.
Crash ==
  /\ crashes < MaxCrashes
  /\ crashes' = crashes + 1
  /\ answer' = [r \in Requests |-> IF Running(r) THEN "broken" ELSE answer[r]]
  /\ UNCHANGED <<triggers, cached, templates, input, pc, rendered, at, edits, faults>>

-----------------------------------------------------------------------------
Handle(r) ==
  \/ RenderFails(r) \/ RenderTrigger(r) \/ StartHandling(r)
  \/ CreateFree(r) \/ AlreadyExists(r) \/ PatchSpec(r) \/ NotExist(r) \/ Delete(r)
  \/ Finish(r)

Next ==
  \/ \E r \in Requests : Handle(r) \/ CallFails(r)
  \/ Crash
  \/ \E t \in Triggers :
       \/ \E p \in Patches \cup {NoTrigger} : EditTrigger(t, p)
       \/ Sync(t)
  \/ \E n \in Names : GarbageCollect(n)

\* Each request's goroutine keeps running.
Fairness == \A r \in Requests : WF_vars(Handle(r))

Spec == Init /\ [][Next]_vars /\ Fairness

TypeOK ==
  /\ triggers \in [Triggers -> Patches \cup {NoTrigger}]
  /\ cached \in [Triggers -> Patches \cup {NoTrigger}]
  /\ templates \in [Names -> Template \cup {NoTemplate}]
  /\ input \in [Requests -> Inputs]
  /\ pc \in [Requests -> {"render", "call", "patch"}]
  /\ rendered \in [Requests -> Seq(Rendered)]
  /\ answer \in [Requests -> {"none", "ok", "refused", "broken"}]
  /\ at \in [Requests -> Nat]
  /\ \A r \in Requests : at[r] \in 1 .. Len(rendered[r]) + 1

-----------------------------------------------------------------------------
(* Implementation of the promise                                           *)

Planned(r) == pc[r] # "render"

\* A template without its owner, a rendered list as operations, and the place in it.
values ==
  [n \in Names |->
     IF templates[n] = NoTemplate THEN NoTemplate
     ELSE [trigger |-> templates[n].trigger,
           patches |-> templates[n].patches,
           event   |-> templates[n].event]]
plan ==
  [r \in Requests |->
     IF Planned(r)
     THEN [i \in DOMAIN rendered[r] |->
             [kind  |-> input[r].action,
              name  |-> rendered[r][i].name,
              value |-> rendered[r][i].value]]
     ELSE <<>>]
place == [r \in Requests |-> IF Planned(r) THEN at[r] ELSE 0]
seen == [r \in Requests |-> Running(r) /\ pc[r] = "patch"]

Store == INSTANCE TemplateStore WITH
  Plans <- Seq([kind : ActionNames, name : Names, value : Value]),
  templates <- values, at <- place

\* Handle (trigger.go:67) keeps the webhook's promise: a request that is refused
\* has written nothing, an accepted one performs its operations whole, in order
\* and at most once, an apply leaves its template absent only if somebody
\* removed it meanwhile, and every request is answered.
KeepsPromise == Store!Spec
=============================================================================
