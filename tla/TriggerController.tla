--------------------------- MODULE TriggerController --------------------------
(***************************************************************************)
(* The Trigger controller (internal/controller/trigger) composed with the  *)
(* webhook (TriggerHandler): two processes that both write spec.patches of *)
(* the same ResourceTemplates, each from its own copy of the Triggers.     *)
(*                                                                         *)
(* The controller reads Triggers and ResourceTemplates from informers and  *)
(* is woken by their events: a Trigger's own, and a ResourceTemplate's for *)
(* the Trigger that OWNS it. It then patches the templates that REFER to   *)
(* the Trigger. Every template event here is a change of the spec, so the  *)
(* GenerationChangedPredicate lets it through; what it does filter is the  *)
(* informers' periodic resync, which therefore never wakes the controller. *)
(***************************************************************************)
EXTENDS Naturals, Sequences, FiniteSets, SequencesExt

CONSTANTS
  Requests, Inputs, Triggers, Names, Events, Patches, InitialTriggers,
  NoTrigger, NoTemplate, NameOf, BadName, Invalid,
  MaxEdits, MaxFaults, MaxCrashes, \* as in TriggerHandler
  MaxErrors,    \* bound: failed API calls of the controller
  MaxRestarts   \* bound: restarts of the controller process

ASSUME ControllerBoundsAssumption == {MaxErrors, MaxRestarts} \subseteq Nat

ASSUME FiniteAssumption == IsFiniteSet(Triggers) /\ IsFiniteSet(Names)

VARIABLES
  triggers, cached, templates, input, pc, rendered, at, answer,
  edits, faults, crashes,  \* as in TriggerHandler
  triggerWatch,  \* changes of Triggers the controller's informer has not seen
  templateWatch, \* the same for ResourceTemplates
  seenTriggers,  \* the controller's copies of the Triggers
  seenTemplates, \* and of the ResourceTemplates
  queue,         \* triggers in the controller's work queue
  work,          \* the worker: "idle", "list" or "patch"
  trigger,       \* the trigger it works on; NoTrigger when idle
  patches,       \* the spec.patches it read from that trigger
  todo,          \* the templates it still has to patch
  errors, restarts

Webhook == INSTANCE TriggerHandler

ASSUME WebhookAssumption ==
  /\ Webhook!InputsAssumption /\ Webhook!TriggersAssumption
  /\ Webhook!NamesAssumption /\ Webhook!BoundsAssumption /\ Webhook!NoTemplateAssumption

shared == <<triggers, templates>>
watches == <<triggerWatch, templateWatch>>
copies == <<seenTriggers, seenTemplates>>
worker == <<work, trigger, patches, todo>>
control == <<copies, queue, worker, errors, restarts>>
webhook == <<cached, input, pc, rendered, at, answer, edits, faults, crashes>>
vars == <<shared, watches, control, webhook>>

Template == [owner : Triggers, trigger : Triggers, patches : Patches, event : Events]
Event(keys, values) == [key : keys, now : values]

TypeOK ==
  /\ triggerWatch \in Seq(Event(Triggers, Patches \cup {NoTrigger}))
  /\ templateWatch \in Seq(Event(Names, Template \cup {NoTemplate}))
  /\ seenTriggers \in [Triggers -> Patches \cup {NoTrigger}]
  /\ seenTemplates \in [Names -> Template \cup {NoTemplate}]
  /\ queue \in SUBSET Triggers
  /\ work \in {"idle", "list", "patch"}
  /\ work = "idle" => trigger = NoTrigger /\ patches = NoTrigger
  /\ work # "idle" => trigger \in Triggers /\ patches \in Patches
  /\ work # "patch" => todo = {}
  /\ todo \in SUBSET Names
  /\ errors \in 0 .. MaxErrors /\ restarts \in 0 .. MaxRestarts

-----------------------------------------------------------------------------
(* Informers and work queue                                                *)

\* The API server announces what a step has changed.
News(old, new) ==
  SetToSeq({[key |-> k, now |-> new[k]] : k \in {x \in DOMAIN old : new[x] # old[x]}})
Announce ==
  /\ triggerWatch' = triggerWatch \o News(triggers, triggers')
  /\ templateWatch' = templateWatch \o News(templates, templates')

DeliverTrigger ==
  /\ triggerWatch # <<>>
  /\ LET e == Head(triggerWatch)
     IN  /\ seenTriggers' = [seenTriggers EXCEPT ![e.key] = e.now]
         /\ queue' = queue \cup {e.key}
  /\ triggerWatch' = Tail(triggerWatch)
  /\ UNCHANGED <<shared, webhook, templateWatch, seenTemplates, worker, errors, restarts>>

\* Owns(&ResourceTemplate{}): the controller references before and after.
MutOwners(all) == {}
Owners(all) == {tmpl.owner : tmpl \in all \ {NoTemplate}}

DeliverTemplate ==
  /\ templateWatch # <<>>
  /\ LET e == Head(templateWatch)
     IN  /\ seenTemplates' = [seenTemplates EXCEPT ![e.key] = e.now]
         /\ queue' = queue \cup Owners({seenTemplates[e.key], e.now})
  /\ templateWatch' = Tail(templateWatch)
  /\ UNCHANGED <<shared, webhook, triggerWatch, seenTriggers, worker, errors, restarts>>

-----------------------------------------------------------------------------
(* Reconcile                                                               *)

MutReturn ==
  /\ work' = "idle"
  /\ trigger' = NoTrigger /\ patches' = NoTrigger
  /\ UNCHANGED todo
Return ==
  /\ work' = "idle"
  /\ trigger' = NoTrigger /\ patches' = NoTrigger
  /\ todo' = {}

MutFail == Return /\ UNCHANGED queue
\* The trigger goes back to the queue, rate limited.
Fail == Return /\ queue' = queue \cup {trigger}

\* The cached Get finds no such trigger.
TriggerGone(t) ==
  /\ work = "idle" /\ t \in queue
  /\ seenTriggers[t] = NoTrigger
  /\ queue' = queue \ {t}
  /\ UNCHANGED <<shared, webhook, watches, copies, worker, errors, restarts>>

GetTrigger(t) ==
  /\ work = "idle" /\ t \in queue
  /\ seenTriggers[t] # NoTrigger
  /\ queue' = queue \ {t}
  /\ work' = "list"
  /\ trigger' = t
  /\ patches' = seenTriggers[t]
  /\ UNCHANGED <<shared, webhook, watches, copies, todo, errors, restarts>>

\* The cached List by spec.triggerRef, less the templates that are up to date.
Outdated(n) ==
  LET tmpl == seenTemplates[n]
  IN  tmpl # NoTemplate /\ tmpl.trigger = trigger /\ tmpl.patches # patches

ListTemplates ==
  /\ work = "list"
  /\ work' = "patch"
  /\ todo' = {n \in Names : Outdated(n)}
  /\ UNCHANGED <<shared, webhook, watches, copies, queue, trigger, patches, errors, restarts>>

\* A server-side apply, which creates what is missing.
MutPatchResource(n) ==
  /\ n \in todo /\ seenTemplates[n] # NoTemplate
  /\ templates' = [templates EXCEPT ![n] = [seenTemplates[n] EXCEPT !.patches = patches]]
  /\ todo' = todo \ {n}
  /\ UNCHANGED <<triggers, webhook, copies, queue, work, trigger, patches, errors, restarts>>
  /\ Announce

\* A JSON patch of /spec/patches, by name, on whatever the template is by now.
PatchResource(n) ==
  /\ n \in todo
  /\ templates[n] # NoTemplate
  /\ templates' = [templates EXCEPT ![n].patches = patches]
  /\ todo' = todo \ {n}
  /\ UNCHANGED <<triggers, webhook, copies, queue, work, trigger, patches, errors, restarts>>
  /\ Announce

\* The first template that cannot be patched ends the Reconcile.
PatchNotFound(n) ==
  /\ n \in todo
  /\ templates[n] = NoTemplate
  /\ Fail
  /\ UNCHANGED <<shared, webhook, watches, copies, errors, restarts>>

Done ==
  /\ work = "patch" /\ todo = {}
  /\ Return
  /\ UNCHANGED <<shared, webhook, watches, copies, queue, errors, restarts>>

PatchFails ==
  /\ todo # {}
  /\ errors < MaxErrors
  /\ errors' = errors + 1
  /\ Fail
  /\ UNCHANGED <<shared, webhook, watches, copies, restarts>>

\* The controller starts again: its informers list everything afresh, and each
\* listed object is a create event.
Restart ==
  /\ restarts < MaxRestarts
  /\ restarts' = restarts + 1
  /\ seenTriggers' = triggers /\ seenTemplates' = templates
  /\ triggerWatch' = <<>> /\ templateWatch' = <<>>
  /\ queue' = {t \in Triggers : triggers[t] # NoTrigger}
                \cup Owners({templates[n] : n \in Names})
  /\ Return
  /\ UNCHANGED <<shared, webhook, errors>>

-----------------------------------------------------------------------------
Init ==
  /\ Webhook!Init
  /\ triggerWatch = <<>> /\ templateWatch = <<>>
  /\ seenTriggers = triggers /\ seenTemplates = templates
  /\ queue = {}
  /\ work = "idle" /\ trigger = NoTrigger /\ patches = NoTrigger /\ todo = {}
  /\ errors = 0 /\ restarts = 0

WebhookStep == Webhook!Next /\ Announce /\ UNCHANGED control

Deliver == DeliverTrigger \/ DeliverTemplate

Reconcile ==
  \/ \E t \in Triggers : TriggerGone(t) \/ GetTrigger(t)
  \/ ListTemplates
  \/ \E n \in Names : PatchResource(n) \/ PatchNotFound(n)
  \/ Done

Next == WebhookStep \/ Deliver \/ Reconcile \/ PatchFails \/ Restart

\* The controller's informers and its worker keep running; no request has to
\* be made or to go on, and no call has to fail.
Fairness ==
  WF_vars(DeliverTrigger) /\ WF_vars(DeliverTemplate) /\ WF_vars(Reconcile)

Spec == Init /\ [][Next]_vars /\ Fairness

-----------------------------------------------------------------------------
\* Every template that refers to a Trigger has that Trigger's patches.
InStep(n) ==
  LET tmpl == templates[n]
  IN  tmpl # NoTemplate /\ triggers[tmpl.trigger] # NoTrigger
        => tmpl.patches = triggers[tmpl.trigger]

Quiet == watches = <<<<>>, <<>>>> /\ queue = {} /\ work = "idle"

\* Whenever the controller has nothing left to do, every template has the
\* patches its Trigger has now, although the webhook writes patches from a
\* stale copy and the controller may overwrite newer patches by older ones
\* (trigger/reconciler.go:102). There is no resync to repair a missed one.
QuietInStep == Quiet => \A n \in Names : InStep(n)

\* A step of the Trigger controller that others can see: a template that is there has
\* other patches. It is still of the same trigger and event, and no request notices.
Revised ==
  /\ \E n \in Names :
       /\ Webhook!Store!Present(n)
       /\ \E p \in Patches : Webhook!values' = [Webhook!values EXCEPT ![n].patches = p]
  /\ UNCHANGED <<Webhook!plan, Webhook!place, Webhook!seen, answer>>

\* trigger.go:67 and trigger/reconciler.go:135: with a controller that patches the
\* same templates at any time, from an old list of them, the webhook's requests
\* still have the effects TemplateStore promises; the controller adds revisions of
\* templates that are there and never brings back one that was deleted.
KeepsPromise ==
  Webhook!Store!Init /\ [][Webhook!Store!Next \/ Revised]_(Webhook!Store!vars)

\* "should update ResourceTemplate as well" (test/e2e/trigger_test.go:56): once
\* the Triggers and the events have settled, each template gets, and keeps, the
\* patches of its Trigger.
Propagates == <>[](\A n \in Names : InStep(n))
=============================================================================
