------------------------ MODULE TriggerControllerProofs -----------------------
(***************************************************************************)
(* Theorems about TriggerController, for all values of its constants: it   *)
(* is type correct; if no two triggers share a name every template has its *)
(* trigger's patches whenever the controller has nothing left to do; and   *)
(* the webhook keeps the promise of TemplateStore beside the controller.   *)
(***************************************************************************)
EXTENDS TriggerController, FiniteSetTheorems, TLAPS

\* The webhook again, with what has been proved about it; WebhookAssumption
\* states the assumptions under which that is so.
Hook == INSTANCE TriggerHandlerProofs

WebhookInv == Hook!TypeOK /\ Hook!PlanInv
ControllerInv == TypeOK /\ WebhookInv

-----------------------------------------------------------------------------
(* Announcements                                                           *)

\* An enumeration of a finite set holds its elements and no others.
LEMMA Enumeration ==
  ASSUME NEW S, IsFiniteSet(S)
  PROVE  /\ SetToSeq(S) \in Seq(S)
         /\ \A x \in S : \E i \in DOMAIN SetToSeq(S) : SetToSeq(S)[i] = x
<1> DEFINE n == Cardinality(S)
           s == SetToSeq(S)
<1>1. n \in Nat /\ ExistsBijection(1 .. n, S)
  BY FS_CardinalityType
<1>2. \E f \in [1 .. n -> S] : IsInjective(f)
  BY <1>1 DEF ExistsBijection, Bijection, Injection
<1>3. s \in [1 .. n -> S] /\ IsInjective(s)
  BY <1>2 DEF SetToSeq
<1>4. s \in Injection(1 .. n, S)
  BY <1>3 DEF Injection
<1>5. Cardinality(1 .. n) = n
  BY <1>1, FS_Interval
<1>6. s \in Surjection(1 .. n, S)
  BY <1>4, <1>5, FS_Injection
<1>7. s \in Seq(S) /\ DOMAIN s = 1 .. n
  BY <1>1, <1>3
<1> QED
  BY <1>6, <1>7 DEF Surjection

\* What Announce appends: for every key that has changed its new value, and
\* nothing about the others.
LEMMA NewsOfChange ==
  ASSUME NEW K, IsFiniteSet(K), NEW V, NEW old \in [K -> V], NEW new \in [K -> V]
  PROVE  /\ News(old, new) \in Seq(Event(K, V))
         /\ \A i \in DOMAIN News(old, new) : News(old, new)[i].now = new[News(old, new)[i].key]
         /\ \A k \in K : new[k] # old[k] => \E i \in DOMAIN News(old, new) : News(old, new)[i].key = k
<1> DEFINE C == {x \in DOMAIN old : new[x] # old[x]}
           N == {[key |-> k, now |-> new[k]] : k \in C}
           f == [k \in C |-> [key |-> k, now |-> new[k]]]
<1>1. IsFiniteSet(C)
  BY FS_Subset
<1>2. IsFiniteSet(N)
  <2>1. f \in Surjection(C, N)
    BY DEF Surjection
  <2> QED
    BY <1>1, <2>1, FS_Surjection
<1>3. PICK s : s = SetToSeq(N)
  OBVIOUS
<1>4. /\ s \in Seq(N)
      /\ \A x \in N : \E i \in DOMAIN s : s[i] = x
  BY <1>2, <1>3, Enumeration
<1>5. \A i \in DOMAIN s : s[i] \in N
  <2> HIDE DEF N
  <2> QED
    BY <1>4
<1>6. \A i \in DOMAIN s : s[i] \in Event(K, V) /\ s[i].now = new[s[i].key]
  BY <1>5 DEF Event
<1>7. s \in Seq(Event(K, V))
  BY <1>4, <1>6
<1>8. \A k \in K : new[k] # old[k] => [key |-> k, now |-> new[k]] \in N
  OBVIOUS
<1>9. ASSUME NEW k \in K, new[k] # old[k] PROVE \E i \in DOMAIN s : s[i].key = k
  <2>1. PICK i \in DOMAIN s : s[i] = [key |-> k, now |-> new[k]]
    BY <1>4, <1>8, <1>9
  <2> QED
    BY <2>1
<1>10. News(old, new) = s
  BY <1>3 DEF News
<1> QED
  BY <1>6, <1>7, <1>9, <1>10

\* An informer's copy and the events it has not seen lead to the original: the
\* copy of what no event is about is right, and the last event about anything is.
LeadsTo(watch, copy, now, K) ==
  \A k \in K :
    /\ (\A i \in DOMAIN watch : watch[i].key # k) => copy[k] = now[k]
    /\ \A i \in DOMAIN watch :
         watch[i].key = k /\ (\A j \in i + 1 .. Len(watch) : watch[j].key # k)
           => watch[i].now = now[k]

LEMMA Delivered ==
  ASSUME NEW K, NEW V, NEW watch \in Seq(Event(K, V)), watch # <<>>,
         NEW copy \in [K -> V], NEW now, LeadsTo(watch, copy, now, K)
  PROVE  LeadsTo(Tail(watch), [copy EXCEPT ![Head(watch).key] = Head(watch).now], now, K)
<1> DEFINE rest == Tail(watch)
           new == [copy EXCEPT ![Head(watch).key] = Head(watch).now]
<1>1. /\ Len(watch) \in Nat \ {0} /\ Head(watch) = watch[1] /\ Len(rest) = Len(watch) - 1
      /\ DOMAIN rest = 1 .. Len(watch) - 1 /\ DOMAIN watch = 1 .. Len(watch)
      /\ \A i \in DOMAIN rest : rest[i] = watch[i + 1]
  OBVIOUS
<1>2. ASSUME NEW k \in K, \A i \in DOMAIN rest : rest[i].key # k
      PROVE  new[k] = now[k]
  <2>1. \A i \in 2 .. Len(watch) : watch[i].key # k
    <3> SUFFICES ASSUME NEW i \in 2 .. Len(watch) PROVE watch[i].key # k
      OBVIOUS
    <3>1. i - 1 \in DOMAIN rest /\ rest[i - 1] = watch[i]
      BY <1>1
    <3> QED
      BY <1>2, <3>1
  <2>2. CASE watch[1].key = k
    BY <1>1, <2>1, <2>2 DEF LeadsTo
  <2>3. CASE watch[1].key # k
    BY <1>1, <2>1, <2>3 DEF LeadsTo
  <2> QED
    BY <2>2, <2>3
<1>3. ASSUME NEW k \in K, NEW i \in DOMAIN rest, rest[i].key = k,
             \A j \in i + 1 .. Len(rest) : rest[j].key # k
      PROVE  rest[i].now = now[k]
  <2>1. i + 1 \in DOMAIN watch /\ watch[i + 1] = rest[i]
    BY <1>1
  <2>2. ASSUME NEW j \in i + 2 .. Len(watch) PROVE watch[j].key # k
    <3>1. j - 1 \in i + 1 .. Len(rest) /\ rest[j - 1] = watch[j]
      BY <1>1
    <3> QED
      BY <1>3, <3>1
  <2> QED
    BY <1>3, <2>1, <2>2 DEF LeadsTo
<1> QED
  BY <1>2, <1>3 DEF LeadsTo

\* What an announcement of the change from old to new, known to the informer as
\* copy and the events in watch, makes of watch.
Announces(all, watch, copy, old, new, K) ==
  /\ LeadsTo(all, copy, new, K)
  /\ \A i \in DOMAIN watch : \E j \in DOMAIN all : all[j].key = watch[i].key
  /\ \A k \in K : new[k] # old[k] => \E j \in DOMAIN all : all[j].key = k
IsMap(f, K, V) == f \in [K -> V]
IsWatch(w, K, V) == w \in Seq(Event(K, V))
Appends(all, watch, old, new) == all = watch \o News(old, new)

LEMMA Announced ==
  ASSUME NEW K, IsFiniteSet(K), NEW V, NEW watch, IsWatch(watch, K, V),
         NEW copy, NEW old, IsMap(old, K, V), NEW new, IsMap(new, K, V),
         LeadsTo(watch, copy, old, K), NEW all, Appends(all, watch, old, new)
  PROVE  Announces(all, watch, copy, old, new, K)
<1>1. PICK news : news = News(old, new)
  OBVIOUS
<1> old \in [K -> V] /\ new \in [K -> V] /\ watch \in Seq(Event(K, V))
  BY DEF IsMap, IsWatch
<1>2. /\ news \in Seq(Event(K, V))
      /\ \A i \in DOMAIN news : news[i].now = new[news[i].key]
      /\ \A k \in K : new[k] # old[k] => \E i \in DOMAIN news : news[i].key = k
  <2>1. /\ News(old, new) \in Seq(Event(K, V))
        /\ \A i \in DOMAIN News(old, new) : News(old, new)[i].now = new[News(old, new)[i].key]
        /\ \A k \in K : new[k] # old[k] =>
             \E i \in DOMAIN News(old, new) : News(old, new)[i].key = k
    BY NewsOfChange
  <2> QED
    BY <1>1, <2>1
<1>3. all = watch \o news
  BY <1>1 DEF Appends
<1>4. /\ all \in Seq(Event(K, V)) /\ Len(all) = Len(watch) + Len(news)
      /\ Len(watch) \in Nat /\ Len(news) \in Nat
      /\ DOMAIN watch = 1 .. Len(watch) /\ DOMAIN news = 1 .. Len(news) /\ DOMAIN all = 1 .. Len(all)
      /\ \A i \in 1 .. Len(watch) : all[i] = watch[i]
      /\ \A i \in 1 .. Len(news) : all[Len(watch) + i] = news[i]
  BY <1>2, <1>3
<1>5. \A k \in K : new[k] # old[k] => \E i \in DOMAIN news :
        Len(watch) + i \in DOMAIN all /\ all[Len(watch) + i].key = k
  <2>1. \A i \in DOMAIN news : Len(watch) + i \in DOMAIN all /\ all[Len(watch) + i] = news[i]
    BY <1>4
  <2> QED
    BY <1>2, <2>1
<1>6. ASSUME NEW k \in K, \A i \in DOMAIN all : all[i].key # k
      PROVE  copy[k] = new[k]
  <2>1. new[k] = old[k]
    BY <1>5, <1>6
  <2>2. \A i \in DOMAIN watch : watch[i].key # k
    BY <1>4, <1>6
  <2> QED
    BY <2>1, <2>2 DEF LeadsTo
<1>7. ASSUME NEW k \in K, NEW i \in DOMAIN all, all[i].key = k,
             \A j \in i + 1 .. Len(all) : all[j].key # k
      PROVE  all[i].now = new[k]
  <2>1. CASE i \in 1 .. Len(watch)
    <3>1. new[k] = old[k]
      <4> SUFFICES ASSUME new[k] # old[k] PROVE FALSE
        OBVIOUS
      <4>1. PICK j \in DOMAIN news : Len(watch) + j \in DOMAIN all /\ all[Len(watch) + j].key = k
        BY <1>5
      <4>2. Len(watch) + j \in i + 1 .. Len(all)
        BY <1>4, <2>1, <4>1
      <4> QED
        BY <1>7, <4>1, <4>2
    <3>2. \A j \in i + 1 .. Len(watch) : watch[j].key # k
      BY <1>4, <1>7, <2>1
    <3> QED
      BY <1>4, <1>7, <2>1, <3>1, <3>2 DEF LeadsTo
  <2>2. CASE i \notin 1 .. Len(watch)
    <3>1. i - Len(watch) \in 1 .. Len(news)
      BY <1>4, <2>2
    <3>2. all[i] = news[i - Len(watch)]
      BY <1>4, <3>1
    <3> QED
      BY <1>2, <1>4, <1>7, <3>1, <3>2
  <2> QED
    BY <2>1, <2>2
<1>8. LeadsTo(all, copy, new, K)
  BY <1>6, <1>7 DEF LeadsTo
<1>9. \A i \in DOMAIN watch : i \in DOMAIN all /\ all[i].key = watch[i].key
  BY <1>4
<1> QED
  BY <1>4, <1>5, <1>8, <1>9 DEF Announces
-----------------------------------------------------------------------------
(* Type correctness                                                        *)

LEMMA HookAssumed ==
  /\ Hook!InputsAssumption /\ Hook!TriggersAssumption /\ Hook!NamesAssumption
  /\ Hook!BoundsAssumption /\ Hook!NoTemplateAssumption
BY WebhookAssumption
DEF Webhook!InputsAssumption, Hook!InputsAssumption,
    Webhook!TriggersAssumption, Hook!TriggersAssumption,
    Webhook!NamesAssumption, Hook!NamesAssumption,
    Webhook!BoundsAssumption, Hook!BoundsAssumption,
    Webhook!NoTemplateAssumption, Hook!NoTemplateAssumption,
    Webhook!Value, Hook!Value, Webhook!Template, Hook!Template

\* The two instances of TriggerHandler are one.
LEMMA SameHandler ==
  /\ Webhook!TypeOK <=> Hook!TypeOK
  /\ Webhook!Init <=> Hook!Init
  /\ Webhook!Next <=> Hook!Next
<1>1. Webhook!TypeOK <=> Hook!TypeOK
  BY DEF Webhook!TypeOK, Hook!TypeOK, Webhook!Rendered, Hook!Rendered,
    Webhook!Template, Hook!Template, Webhook!Value, Hook!Value
<1>2. Webhook!Init <=> Hook!Init
  BY DEF Webhook!Init, Hook!Init
<1>3. Webhook!Next <=> Hook!Next
  BY DEF Webhook!Next, Hook!Next, Webhook!Handle, Hook!Handle,
    Webhook!RenderFails, Hook!RenderFails, Webhook!RenderTrigger, Hook!RenderTrigger,
    Webhook!StartHandling, Hook!StartHandling, Webhook!CreateFree, Hook!CreateFree,
    Webhook!AlreadyExists, Hook!AlreadyExists, Webhook!PatchSpec, Hook!PatchSpec,
    Webhook!NotExist, Hook!NotExist, Webhook!Delete, Hook!Delete,
    Webhook!Finish, Hook!Finish, Webhook!CallFails, Hook!CallFails,
    Webhook!Crash, Hook!Crash, Webhook!EditTrigger, Hook!EditTrigger,
    Webhook!Sync, Hook!Sync, Webhook!GarbageCollect, Hook!GarbageCollect,
    Webhook!Running, Hook!Running, Webhook!Answer, Hook!Answer,
    Webhook!IsActionValid, Hook!IsActionValid, Webhook!ActionNames, Hook!ActionNames,
    Webhook!Rendering, Hook!Rendering, Webhook!CanRender, Hook!CanRender,
    Webhook!Todo, Hook!Todo, Webhook!This, Hook!This, Webhook!Calling, Hook!Calling,
    Webhook!Advance, Hook!Advance, Webhook!Patching, Hook!Patching,
    Webhook!WithOwner, Hook!WithOwner, Webhook!bounds, Hook!bounds,
    Webhook!request, Hook!request
<1> QED
  BY <1>1, <1>2, <1>3

\* What the webhook has proved about the Triggers and the templates.
LEMMA SharedType ==
  WebhookInv => /\ triggers \in [Triggers -> Patches \cup {NoTrigger}]
                /\ templates \in [Names -> Template \cup {NoTemplate}]
BY DEF WebhookInv, Hook!TypeOK, Template, Hook!Template

LEMMA InitTypes == Init => ControllerInv
<1> SUFFICES ASSUME Init PROVE ControllerInv
  OBVIOUS
<1>1. WebhookInv
  BY SameHandler, HookAssumed, Hook!InitType, Hook!InitPlan DEF Init, WebhookInv
<1>2. TypeOK
  BY <1>1, SharedType, ControllerBoundsAssumption DEF Init, TypeOK
<1> QED
  BY <1>1, <1>2 DEF ControllerInv

\* Of the webhook's variables the controller writes the templates only.
LEMMA WebhookKept ==
  ASSUME ControllerInv, UNCHANGED <<triggers, webhook>>,
         templates' \in [Names -> Template \cup {NoTemplate}]
  PROVE  WebhookInv'
<1>1. UNCHANGED <<triggers, cached, input, pc, rendered, at, answer>>
  BY DEF webhook
<1>2. templates' \in [Names -> Hook!Template \cup {NoTemplate}]
  BY DEF Template, Hook!Template
<1>3. Hook!TypeOK'
  BY <1>1, <1>2 DEF ControllerInv, WebhookInv, Hook!TypeOK, Hook!Rendered, Hook!Value
<1>4. Hook!PlanInv'
  BY <1>1 DEF ControllerInv, WebhookInv, Hook!PlanInv, Hook!IsActionValid
<1> QED
  BY <1>3, <1>4 DEF WebhookInv

LEMMA WebhookTypes ==
  ASSUME ControllerInv, Webhook!Next
  PROVE  WebhookInv'
<1>1. Hook!TypeOK /\ Hook!PlanInv /\ [Hook!Next]_(Hook!vars)
  BY SameHandler DEF ControllerInv, WebhookInv
<1>2. Hook!TypeOK'
  BY <1>1, HookAssumed, Hook!NextType
<1>3. Hook!PlanInv'
  BY <1>1, HookAssumed, Hook!NextPlan
<1> QED
  BY <1>2, <1>3 DEF WebhookInv

LEMMA AnnounceTypes ==
  ASSUME ControllerInv, WebhookInv', Announce
  PROVE  /\ triggerWatch' \in Seq(Event(Triggers, Patches \cup {NoTrigger}))
         /\ templateWatch' \in Seq(Event(Names, Template \cup {NoTemplate}))
<1>1. /\ triggers \in [Triggers -> Patches \cup {NoTrigger}]
      /\ triggers' \in [Triggers -> Patches \cup {NoTrigger}]
      /\ templates \in [Names -> Template \cup {NoTemplate}]
      /\ templates' \in [Names -> Template \cup {NoTemplate}]
  BY SharedType DEF ControllerInv, WebhookInv, Hook!TypeOK, Template, Hook!Template
<1>2. /\ News(triggers, triggers') \in Seq(Event(Triggers, Patches \cup {NoTrigger}))
      /\ News(templates, templates') \in Seq(Event(Names, Template \cup {NoTemplate}))
  BY <1>1, NewsOfChange, FiniteAssumption
<1> QED
  BY <1>2 DEF Announce, ControllerInv, TypeOK

LEMMA HeadType ==
  ASSUME NEW K, NEW V, NEW watch \in Seq(Event(K, V)), watch # <<>>
  PROVE  /\ Head(watch).key \in K /\ Head(watch).now \in V
         /\ Tail(watch) \in Seq(Event(K, V))
<1>1. Head(watch) \in Event(K, V) /\ Tail(watch) \in Seq(Event(K, V))
  OBVIOUS
<1> QED
  BY <1>1 DEF Event

LEMMA OwnersType ==
  ASSUME NEW all \in SUBSET (Template \cup {NoTemplate})
  PROVE  Owners(all) \subseteq Triggers
BY DEF Owners, Template

\* A step of a Reconcile, or its failure, leaves alone what it does not read.
LEMMA ReconcileTypes ==
  ASSUME ControllerInv, Reconcile \/ PatchFails
  PROVE  ControllerInv'
<1> USE DEF ControllerInv, TypeOK
<1>1. ASSUME NEW t \in Triggers, TriggerGone(t) PROVE ControllerInv'
  <2>1. UNCHANGED <<triggers, templates, webhook>>
    BY <1>1 DEF TriggerGone, shared
  <2>2. WebhookInv'
    BY <2>1, WebhookKept, SharedType
  <2> QED
    BY <1>1, <2>2 DEF TriggerGone, watches, copies, worker
<1>2. ASSUME NEW t \in Triggers, GetTrigger(t) PROVE ControllerInv'
  <2>1. UNCHANGED <<triggers, templates, webhook>>
    BY <1>2 DEF GetTrigger, shared
  <2>2. WebhookInv'
    BY <2>1, WebhookKept, SharedType
  <2> QED
    BY <1>2, <2>2 DEF GetTrigger, watches, copies
<1>3. CASE ListTemplates
  <2>1. UNCHANGED <<triggers, templates, webhook>>
    BY <1>3 DEF ListTemplates, shared
  <2>2. WebhookInv'
    BY <2>1, WebhookKept, SharedType
  <2> QED
    BY <1>3, <2>2 DEF ListTemplates, watches, copies
<1>4. ASSUME NEW n \in Names, PatchResource(n) PROVE ControllerInv'
  <2>1. UNCHANGED <<triggers, webhook, seenTriggers, seenTemplates, queue, work, trigger, patches, errors, restarts>>
    BY <1>4 DEF PatchResource, copies
  <2>2. work = "patch" /\ patches \in Patches
    BY <1>4 DEF PatchResource
  <2>3. templates[n] \in Template
    BY <1>4, SharedType DEF PatchResource
  <2>4. [templates[n] EXCEPT !.patches = patches] \in Template
    BY <2>2, <2>3 DEF Template
  <2>5. templates' = [templates EXCEPT ![n] = [templates[n] EXCEPT !.patches = patches]]
    BY <1>4 DEF PatchResource
  <2>6. WebhookInv'
    BY <2>1, <2>4, <2>5, WebhookKept, SharedType
  <2>7. Announce
    BY <1>4 DEF PatchResource
  <2> QED
    BY <1>4, <2>1, <2>6, <2>7, AnnounceTypes DEF PatchResource
<1>5. ASSUME Fail, work = "patch", UNCHANGED <<shared, webhook, watches, copies, restarts>>,
             errors' \in 0 .. MaxErrors
      PROVE  ControllerInv'
  <2>1. UNCHANGED <<triggers, templates, webhook>>
    BY <1>5 DEF shared
  <2>2. WebhookInv'
    BY <2>1, WebhookKept, SharedType
  <2> QED
    BY <1>5, <2>2 DEF Fail, Return, watches, copies
<1>6. ASSUME NEW n \in Names, PatchNotFound(n) PROVE ControllerInv'
  BY <1>5, <1>6 DEF PatchNotFound
<1>7. CASE Done
  <2>1. UNCHANGED <<triggers, templates, webhook>>
    BY <1>7 DEF Done, shared
  <2>2. WebhookInv'
    BY <2>1, WebhookKept, SharedType
  <2> QED
    BY <1>7, <2>2 DEF Done, Return, watches, copies
<1>8. CASE PatchFails
  BY <1>5, <1>8, ControllerBoundsAssumption DEF PatchFails
<1> QED
  BY <1>1, <1>2, <1>3, <1>4, <1>6, <1>7, <1>8 DEF Reconcile

LEMMA NextTypes == ControllerInv /\ [Next]_vars => ControllerInv'
<1> SUFFICES ASSUME ControllerInv, [Next]_vars PROVE ControllerInv'
  OBVIOUS
<1>1. CASE WebhookStep
  <2>1. WebhookInv'
    BY <1>1, WebhookTypes DEF WebhookStep
  <2> QED
    BY <1>1, <2>1, AnnounceTypes DEF WebhookStep, ControllerInv, TypeOK, control, copies, worker
<1>2. CASE DeliverTrigger
  <2>1. WebhookInv'
    BY <1>2, WebhookKept, SharedType DEF DeliverTrigger, shared, ControllerInv
  <2>2. triggerWatch \in Seq(Event(Triggers, Patches \cup {NoTrigger})) /\ triggerWatch # <<>>
    BY <1>2 DEF DeliverTrigger, ControllerInv, TypeOK
  <2>3. /\ Head(triggerWatch).key \in Triggers /\ Head(triggerWatch).now \in Patches \cup {NoTrigger}
        /\ Tail(triggerWatch) \in Seq(Event(Triggers, Patches \cup {NoTrigger}))
    BY <2>2, HeadType
  <2> QED
    BY <1>2, <2>1, <2>3 DEF DeliverTrigger, ControllerInv, TypeOK, worker
<1>3. CASE DeliverTemplate
  <2> DEFINE e == Head(templateWatch)
  <2>1. WebhookInv'
    BY <1>3, WebhookKept, SharedType DEF DeliverTemplate, shared, ControllerInv
  <2>2. templateWatch \in Seq(Event(Names, Template \cup {NoTemplate})) /\ templateWatch # <<>>
    BY <1>3 DEF DeliverTemplate, ControllerInv, TypeOK
  <2>3. /\ e.key \in Names /\ e.now \in Template \cup {NoTemplate}
        /\ Tail(templateWatch) \in Seq(Event(Names, Template \cup {NoTemplate}))
    BY <2>2, HeadType
  <2>4. Owners({seenTemplates[e.key], e.now}) \subseteq Triggers
    BY <2>3, OwnersType DEF ControllerInv, TypeOK
  <2> QED
    BY <1>3, <2>1, <2>3, <2>4 DEF DeliverTemplate, ControllerInv, TypeOK, worker
<1>4. CASE Restart
  <2>1. WebhookInv'
    BY <1>4, WebhookKept, SharedType DEF Restart, shared, ControllerInv
  <2>2. triggers \in [Triggers -> Patches \cup {NoTrigger}] /\ templates \in [Names -> Template \cup {NoTemplate}]
    BY SharedType DEF ControllerInv
  <2>3. Owners({templates[n] : n \in Names}) \subseteq Triggers
    BY <2>2, OwnersType
  <2>4. restarts' \in 0 .. MaxRestarts
    BY <1>4, ControllerBoundsAssumption DEF Restart, ControllerInv, TypeOK
  <2> QED
    BY <1>4, <2>1, <2>2, <2>3, <2>4 DEF Restart, Return, ControllerInv, TypeOK
<1>5. CASE UNCHANGED vars
  <2>1. WebhookInv'
    BY <1>5, WebhookKept, SharedType DEF vars, shared, ControllerInv
  <2> QED
    BY <1>5, <2>1 DEF vars, shared, watches, control, copies, worker, ControllerInv, TypeOK
<1> QED
  BY <1>1, <1>2, <1>3, <1>4, <1>5, ReconcileTypes DEF Next, Deliver

\* trigger/reconciler.go:58: whatever the webhook, the users and the informers
\* do, the worker has a trigger and its patches exactly while it works, and
\* templates to patch only after it has listed them.
THEOREM ControllerTypeCorrect == Spec => []TypeOK
<1>1. ControllerInv => TypeOK
  BY DEF ControllerInv
<1> QED
  BY <1>1, InitTypes, NextTypes, PTL DEF Spec
-----------------------------------------------------------------------------
(* In step when quiet                                                      *)

InformerInv ==
  /\ LeadsTo(triggerWatch, seenTriggers, triggers, Triggers)
  /\ LeadsTo(templateWatch, seenTemplates, templates, Names)

\* Why a template that is out of step will not stay so: its trigger is about to
\* be reconciled, an event that will wake it is on the way, or the worker is
\* on its way to the template with the trigger's present patches.
Pending(n, t) ==
  \/ t \in queue
  \/ \E i \in DOMAIN triggerWatch : triggerWatch[i].key = t
  \/ \E i \in DOMAIN templateWatch : templateWatch[i].key = n
  \/ work = "list" /\ trigger = t /\ patches = triggers[t]
  \/ work = "patch" /\ trigger = t /\ patches = triggers[t] /\ n \in todo
PendingInv == \A n \in Names : InStep(n) \/ Pending(n, templates[n].trigger)

QuietInv == ControllerInv /\ Hook!OwnInv /\ InformerInv /\ PendingInv

LEMMA QuietInvMeans == QuietInv => QuietInStep
BY DEF QuietInv, PendingInv, Pending, QuietInStep, Quiet, watches

LEMMA InitQuiet == Init => QuietInv
<1> SUFFICES ASSUME Init PROVE QuietInv
  OBVIOUS
<1>1. ControllerInv
  BY InitTypes
<1>2. Hook!OwnInv
  BY SameHandler, HookAssumed, Hook!InitOwn DEF Init
<1>3. InformerInv
  BY DEF Init, InformerInv, LeadsTo
<1>4. \A n \in Names : templates[n] = NoTemplate
  BY SameHandler DEF Init, Hook!Init
<1>5. PendingInv
  BY <1>4 DEF PendingInv, InStep
<1> QED
  BY <1>1, <1>2, <1>3, <1>5 DEF QuietInv

\* What Announce does to the invariant, whoever has written: all that has
\* changed is announced, and what was announced still is.
LEMMA AnnounceQuiet ==
  ASSUME ControllerInv, ControllerInv', InformerInv, PendingInv, Announce,
         UNCHANGED <<seenTriggers, seenTemplates, queue, work, trigger, patches>>,
         \A n \in todo \ todo' : templates'[n].patches = patches
  PROVE  InformerInv' /\ PendingInv'
<1>1. /\ triggers \in [Triggers -> Patches \cup {NoTrigger}]
      /\ triggers' \in [Triggers -> Patches \cup {NoTrigger}]
      /\ templates \in [Names -> Template \cup {NoTemplate}]
      /\ templates' \in [Names -> Template \cup {NoTemplate}]
      /\ triggerWatch \in Seq(Event(Triggers, Patches \cup {NoTrigger}))
      /\ templateWatch \in Seq(Event(Names, Template \cup {NoTemplate}))
  BY SharedType DEF ControllerInv, TypeOK, WebhookInv, Hook!TypeOK, Template, Hook!Template
<1>2. /\ LeadsTo(triggerWatch', seenTriggers, triggers', Triggers)
      /\ \A i \in DOMAIN triggerWatch : \E j \in DOMAIN triggerWatch' :
           triggerWatch'[j].key = triggerWatch[i].key
      /\ \A t \in Triggers : triggers'[t] # triggers[t] => \E j \in DOMAIN triggerWatch' :
           triggerWatch'[j].key = t
  <2>1. /\ LeadsTo(triggerWatch, seenTriggers, triggers, Triggers) /\ Appends(triggerWatch', triggerWatch, triggers, triggers')
        /\ IsMap(triggers, Triggers, Patches \cup {NoTrigger})
        /\ IsMap(triggers', Triggers, Patches \cup {NoTrigger})
        /\ IsWatch(triggerWatch, Triggers, Patches \cup {NoTrigger})
    BY <1>1 DEF InformerInv, Announce, IsMap, IsWatch, Appends
  <2>2. Announces(triggerWatch', triggerWatch, seenTriggers, triggers, triggers', Triggers)
    BY <2>1, FiniteAssumption, Announced
  <2> QED
    BY <2>2 DEF Announces
<1>3. /\ LeadsTo(templateWatch', seenTemplates, templates', Names)
      /\ \A i \in DOMAIN templateWatch : \E j \in DOMAIN templateWatch' :
           templateWatch'[j].key = templateWatch[i].key
      /\ \A n \in Names : templates'[n] # templates[n] => \E j \in DOMAIN templateWatch' :
           templateWatch'[j].key = n
  <2>1. /\ LeadsTo(templateWatch, seenTemplates, templates, Names) /\ Appends(templateWatch', templateWatch, templates, templates')
        /\ IsMap(templates, Names, Template \cup {NoTemplate})
        /\ IsMap(templates', Names, Template \cup {NoTemplate})
        /\ IsWatch(templateWatch, Names, Template \cup {NoTemplate})
    BY <1>1 DEF InformerInv, Announce, IsMap, IsWatch, Appends
  <2>2. Announces(templateWatch', templateWatch, seenTemplates, templates, templates', Names)
    BY <2>1, FiniteAssumption, Announced
  <2> QED
    BY <2>2 DEF Announces
<1>4. ASSUME NEW n \in Names, ~InStep(n)' PROVE Pending(n, templates[n].trigger)'
  <2>1. CASE templates'[n] # templates[n]
    BY <1>3, <2>1 DEF Pending
  <2> SUFFICES ASSUME templates'[n] = templates[n]
               PROVE  Pending(n, templates[n].trigger)'
    BY <2>1
  <2> DEFINE t == templates[n].trigger
  <2>2. templates[n] \in Template /\ t \in Triggers /\ templates'[n].trigger = t
    BY <1>1, <1>4 DEF InStep, Template
  <2>3. CASE triggers'[t] # triggers[t]
    BY <1>2, <2>2, <2>3 DEF Pending
  <2>4. CASE triggers'[t] = triggers[t]
    <3>1. ~InStep(n)
      BY <1>4, <2>2, <2>4 DEF InStep
    <3>2. Pending(n, t)
      BY <3>1 DEF PendingInv
    <3>3. CASE t \in queue \/ (work = "list" /\ trigger = t /\ patches = triggers[t])
      BY <2>2, <2>4, <3>3 DEF Pending
    <3>4. CASE \E i \in DOMAIN triggerWatch : triggerWatch[i].key = t
      BY <1>2, <2>2, <3>4 DEF Pending
    <3>5. CASE \E i \in DOMAIN templateWatch : templateWatch[i].key = n
      BY <1>3, <3>5 DEF Pending
    <3>6. CASE work = "patch" /\ trigger = t /\ patches = triggers[t] /\ n \in todo
      <4>1. n \in todo'
        BY <1>4, <2>2, <2>4, <3>6 DEF InStep
      <4> QED
        BY <2>2, <2>4, <3>6, <4>1 DEF Pending
    <3> QED
      BY <3>2, <3>3, <3>4, <3>5, <3>6 DEF Pending
  <2> QED
    BY <2>3, <2>4
<1> QED
  BY <1>2, <1>3, <1>4 DEF InformerInv, PendingInv
\* A step that announces nothing and leaves the Triggers and templates alone.
LEMMA SilentQuiet ==
  ASSUME PendingInv, UNCHANGED <<triggers, templates>>,
         \A n \in Names : ~InStep(n) /\ Pending(n, templates[n].trigger)
                            => Pending(n, templates[n].trigger)'
  PROVE  PendingInv'
BY DEF PendingInv, InStep

LEMMA DeliverQuiet ==
  ASSUME QuietInv, ControllerInv', Deliver
  PROVE  InformerInv' /\ PendingInv'
<1>1. CASE DeliverTrigger
  <2> DEFINE e == Head(triggerWatch)
  <2>1. /\ triggerWatch # <<>> /\ triggerWatch' = Tail(triggerWatch)
        /\ seenTriggers' = [seenTriggers EXCEPT ![e.key] = e.now]
        /\ queue' = queue \cup {e.key}
        /\ UNCHANGED <<triggers, templates, templateWatch, seenTemplates, work, trigger, patches, todo>>
    BY <1>1 DEF DeliverTrigger, shared, worker
  <2>2. /\ triggerWatch \in Seq(Event(Triggers, Patches \cup {NoTrigger}))
        /\ seenTriggers \in [Triggers -> Patches \cup {NoTrigger}]
        /\ LeadsTo(triggerWatch, seenTriggers, triggers, Triggers)
    BY DEF QuietInv, ControllerInv, TypeOK, InformerInv
  <2>3. LeadsTo(Tail(triggerWatch), [seenTriggers EXCEPT ![e.key] = e.now], triggers, Triggers)
    BY <2>1, <2>2, Delivered
  <2>4. InformerInv'
    BY <2>1, <2>3 DEF QuietInv, InformerInv
  <2>5. \A i \in DOMAIN triggerWatch : triggerWatch[i].key = e.key
          \/ \E j \in DOMAIN triggerWatch' : triggerWatch'[j].key = triggerWatch[i].key
    <3> SUFFICES ASSUME NEW i \in DOMAIN triggerWatch, i # 1
                 PROVE  \E j \in DOMAIN triggerWatch' : triggerWatch'[j].key = triggerWatch[i].key
      BY <2>1, <2>2
    <3>1. i - 1 \in DOMAIN triggerWatch' /\ triggerWatch'[i - 1] = triggerWatch[i]
      BY <2>1, <2>2
    <3> QED
      BY <3>1
  <2>6. ASSUME NEW n \in Names, Pending(n, templates[n].trigger)
        PROVE  Pending(n, templates[n].trigger)'
    BY <2>1, <2>5, <2>6 DEF Pending
  <2> QED
    BY <2>1, <2>4, <2>6, SilentQuiet DEF QuietInv
<1>2. CASE DeliverTemplate
  <2> DEFINE e == Head(templateWatch)
  <2>1. /\ templateWatch # <<>> /\ templateWatch' = Tail(templateWatch)
        /\ seenTemplates' = [seenTemplates EXCEPT ![e.key] = e.now]
        /\ queue' = queue \cup Owners({seenTemplates[e.key], e.now})
        /\ UNCHANGED <<triggers, templates, triggerWatch, seenTriggers, work, trigger, patches, todo>>
    BY <1>2 DEF DeliverTemplate, shared, worker
  <2>2. /\ templateWatch \in Seq(Event(Names, Template \cup {NoTemplate}))
        /\ seenTemplates \in [Names -> Template \cup {NoTemplate}]
        /\ LeadsTo(templateWatch, seenTemplates, templates, Names)
    BY DEF QuietInv, ControllerInv, TypeOK, InformerInv
  <2>3. LeadsTo(Tail(templateWatch), [seenTemplates EXCEPT ![e.key] = e.now], templates, Names)
    BY <2>1, <2>2, Delivered
  <2>4. InformerInv'
    BY <2>1, <2>3 DEF QuietInv, InformerInv
  <2>5. /\ \A i \in DOMAIN templateWatch \ {1} :
             i - 1 \in DOMAIN templateWatch' /\ templateWatch'[i - 1] = templateWatch[i]
        /\ e = templateWatch[1] /\ 1 \in DOMAIN templateWatch
        /\ DOMAIN templateWatch = 1 .. Len(templateWatch) /\ Len(templateWatch) \in Nat
    BY <2>1, <2>2
  <2>6. ASSUME NEW n \in Names, ~InStep(n), Pending(n, templates[n].trigger)
        PROVE  Pending(n, templates[n].trigger)'
    <3> DEFINE t == templates[n].trigger
    <3>1. CASE \E i \in DOMAIN templateWatch : templateWatch[i].key = n
      <4>1. PICK i \in DOMAIN templateWatch : templateWatch[i].key = n
        BY <3>1
      <4>2. CASE \E j \in DOMAIN templateWatch \ {1} : templateWatch[j].key = n
        BY <2>5, <4>2 DEF Pending
      <4>3. CASE \A j \in DOMAIN templateWatch \ {1} : templateWatch[j].key # n
        <5>1. i = 1 /\ e.key = n
          BY <2>5, <4>1, <4>3
        <5>2. \A j \in 2 .. Len(templateWatch) : templateWatch[j].key # n
          BY <2>5, <4>3
        <5>3. e.now = templates[n]
          BY <2>2, <2>5, <4>1, <5>1, <5>2 DEF LeadsTo
        <5>4. templates[n] # NoTemplate /\ templates[n].owner = t
          BY <2>6 DEF InStep, QuietInv, Hook!OwnInv
        <5>5. t \in Owners({seenTemplates[e.key], e.now})
          BY <5>3, <5>4 DEF Owners
        <5> QED
          BY <2>1, <5>5 DEF Pending
      <4> QED
        BY <4>2, <4>3
    <3>2. CASE ~\E i \in DOMAIN templateWatch : templateWatch[i].key = n
      BY <2>1, <2>6, <3>2 DEF Pending
    <3> QED
      BY <3>1, <3>2
  <2> QED
    BY <2>1, <2>4, <2>6, SilentQuiet DEF QuietInv
<1> QED
  BY <1>1, <1>2 DEF Deliver

\* A failed Reconcile comes back: the rate-limited requeue.
LEMMA FailQuiet ==
  ASSUME QuietInv, Fail, UNCHANGED <<shared, watches, copies>>
  PROVE  InformerInv' /\ PendingInv'
<1>1. UNCHANGED <<triggers, templates, triggerWatch, templateWatch, seenTriggers, seenTemplates>>
  BY DEF shared, watches, copies
<1>2. ASSUME NEW n \in Names, Pending(n, templates[n].trigger)
      PROVE  Pending(n, templates[n].trigger)'
  BY <1>1, <1>2 DEF Pending, Fail
<1>3. PendingInv'
  BY <1>1, <1>2, SilentQuiet DEF QuietInv
<1> QED
  BY <1>1, <1>3 DEF QuietInv, InformerInv

LEMMA ReconcileQuiet ==
  ASSUME QuietInv, ControllerInv', Reconcile \/ PatchFails
  PROVE  InformerInv' /\ PendingInv'
<1>1. ASSUME NEW t \in Triggers, TriggerGone(t) \/ GetTrigger(t) PROVE InformerInv' /\ PendingInv'
  <2>1. /\ t \in queue /\ work = "idle" /\ queue' = queue \ {t}
        /\ UNCHANGED <<triggers, templates, triggerWatch, templateWatch, seenTriggers, seenTemplates>>
    BY <1>1 DEF TriggerGone, GetTrigger, shared, watches, copies
  <2>2. seenTriggers[t] = NoTrigger \/ (work' = "list" /\ trigger' = t /\ patches' = seenTriggers[t])
    BY <1>1 DEF TriggerGone, GetTrigger
  <2>3. ASSUME NEW n \in Names, ~InStep(n), Pending(n, templates[n].trigger)
        PROVE  Pending(n, templates[n].trigger)'
    <3>1. CASE templates[n].trigger # t \/ \E i \in DOMAIN triggerWatch : triggerWatch[i].key = t
      BY <2>1, <2>3, <3>1 DEF Pending
    <3>2. CASE templates[n].trigger = t /\ ~\E i \in DOMAIN triggerWatch : triggerWatch[i].key = t
      <4>1. seenTriggers[t] = triggers[t]
        BY <3>2 DEF QuietInv, InformerInv, LeadsTo
      <4>2. triggers[t] # NoTrigger
        BY <2>3, <3>2 DEF InStep
      <4> QED
        BY <2>1, <2>2, <3>2, <4>1, <4>2 DEF Pending
    <3> QED
      BY <3>1, <3>2
  <2>4. PendingInv'
    BY <2>1, <2>3, SilentQuiet DEF QuietInv
  <2> QED
    BY <2>1, <2>4 DEF QuietInv, InformerInv
<1>2. CASE ListTemplates
  <2>1. /\ work = "list" /\ work' = "patch" /\ todo' = {n \in Names : Outdated(n)}
        /\ UNCHANGED <<triggers, templates, triggerWatch, templateWatch, seenTriggers, seenTemplates, queue, trigger, patches>>
    BY <1>2 DEF ListTemplates, shared, watches, copies
  <2>2. ASSUME NEW n \in Names, ~InStep(n), Pending(n, templates[n].trigger)
        PROVE  Pending(n, templates[n].trigger)'
    <3>1. CASE trigger = templates[n].trigger /\ patches = triggers[trigger]
               /\ ~\E i \in DOMAIN templateWatch : templateWatch[i].key = n
      <4>1. seenTemplates[n] = templates[n]
        BY <3>1 DEF QuietInv, InformerInv, LeadsTo
      <4>2. Outdated(n)
        BY <2>2, <3>1, <4>1 DEF Outdated, InStep
      <4> QED
        BY <2>1, <3>1, <4>2 DEF Pending
    <3>2. CASE \/ trigger # templates[n].trigger \/ patches # triggers[trigger]
               \/ \E i \in DOMAIN templateWatch : templateWatch[i].key = n
      BY <2>1, <2>2, <3>2 DEF Pending
    <3> QED
      BY <3>1, <3>2
  <2>3. PendingInv'
    BY <2>1, <2>2, SilentQuiet DEF QuietInv
  <2> QED
    BY <2>1, <2>3 DEF QuietInv, InformerInv
<1>3. ASSUME NEW n \in Names, PatchResource(n) PROVE InformerInv' /\ PendingInv'
  <2>1. /\ Announce /\ todo' = todo \ {n} /\ templates[n] # NoTemplate
        /\ templates' = [templates EXCEPT ![n].patches = patches]
        /\ UNCHANGED <<seenTriggers, seenTemplates, queue, work, trigger, patches>>
    BY <1>3 DEF PatchResource, copies
  <2>2. templates[n] \in Template /\ templates \in [Names -> Template \cup {NoTemplate}]
    BY <2>1, SharedType DEF QuietInv, ControllerInv
  <2>3. templates'[n].patches = patches
    BY <2>1, <2>2 DEF Template
  <2> QED
    BY <2>1, <2>3, AnnounceQuiet DEF QuietInv
<1>4. ASSUME NEW n \in Names, PatchNotFound(n) PROVE InformerInv' /\ PendingInv'
  BY <1>4, FailQuiet DEF PatchNotFound
<1>5. CASE PatchFails
  BY <1>5, FailQuiet DEF PatchFails
<1>6. CASE Done
  <2>1. /\ work = "patch" /\ todo = {}
        /\ UNCHANGED <<triggers, templates, triggerWatch, templateWatch, seenTriggers, seenTemplates, queue>>
    BY <1>6 DEF Done, shared, watches, copies
  <2>2. ASSUME NEW n \in Names, Pending(n, templates[n].trigger)
        PROVE  Pending(n, templates[n].trigger)'
    BY <2>1, <2>2 DEF Pending
  <2>3. PendingInv'
    BY <2>1, <2>2, SilentQuiet DEF QuietInv
  <2> QED
    BY <2>1, <2>3 DEF QuietInv, InformerInv
<1> QED
  BY <1>1, <1>2, <1>3, <1>4, <1>5, <1>6 DEF Reconcile

LEMMA OwnersKept ==
  ASSUME QuietInv, ControllerInv', Hook!NoSharedNames, [Next]_vars
  PROVE  Hook!OwnInv'
<1>1. CASE WebhookStep
  <2>1. Hook!TypeOK /\ Hook!PlanInv /\ Hook!OwnInv /\ [Hook!Next]_(Hook!vars)
    BY <1>1, SameHandler DEF QuietInv, ControllerInv, WebhookInv, WebhookStep
  <2> QED
    BY <2>1, HookAssumed, Hook!NextOwn
<1>2. ASSUME NEW n \in Names, PatchResource(n) PROVE Hook!OwnInv'
  <2>1. /\ templates[n] # NoTemplate /\ templates' = [templates EXCEPT ![n].patches = patches]
        /\ UNCHANGED rendered
    BY <1>2 DEF PatchResource, webhook
  <2>2. templates[n] \in Template /\ templates \in [Names -> Template \cup {NoTemplate}]
    BY <2>1, SharedType DEF QuietInv, ControllerInv
  <2>3. /\ templates'[n].owner = templates[n].owner /\ templates'[n].trigger = templates[n].trigger
        /\ \A m \in Names \ {n} : templates'[m] = templates[m]
    BY <2>1, <2>2 DEF Template
  <2>4. \A m \in Names : templates'[m] # NoTemplate =>
          /\ templates[m] # NoTemplate
          /\ templates'[m].owner = templates[m].owner /\ templates'[m].trigger = templates[m].trigger
    BY <2>1, <2>3
  <2> QED
    BY <2>1, <2>4 DEF QuietInv, Hook!OwnInv, Hook!NamedBy
<1>3. CASE UNCHANGED <<templates, rendered>>
  BY <1>3 DEF QuietInv, Hook!OwnInv, Hook!NamedBy
<1>4. CASE Deliver \/ Restart \/ PatchFails
  BY <1>3, <1>4 DEF Deliver, DeliverTrigger, DeliverTemplate, Restart, PatchFails, shared, webhook
<1>5. CASE Reconcile /\ ~\E n \in Names : PatchResource(n)
  BY <1>3, <1>5 DEF Reconcile, TriggerGone, GetTrigger, ListTemplates, PatchNotFound, Done, shared, webhook
<1>6. CASE UNCHANGED vars
  BY <1>3, <1>6 DEF vars, shared, webhook
<1> QED
  BY <1>1, <1>2, <1>4, <1>5, <1>6 DEF Next

LEMMA NextQuiet == Hook!NoSharedNames /\ QuietInv /\ [Next]_vars => QuietInv'
<1> SUFFICES ASSUME Hook!NoSharedNames, QuietInv, [Next]_vars PROVE QuietInv'
  OBVIOUS
<1>1. ControllerInv'
  BY NextTypes DEF QuietInv
<1>2. Hook!OwnInv'
  BY <1>1, OwnersKept
<1>3. CASE WebhookStep
  <2>1. Announce /\ UNCHANGED <<seenTriggers, seenTemplates, queue, work, trigger, patches, todo>>
    BY <1>3 DEF WebhookStep, control, copies, worker
  <2> QED
    BY <1>1, <1>2, <2>1, AnnounceQuiet DEF QuietInv
<1>4. CASE Deliver
  BY <1>1, <1>2, <1>4, DeliverQuiet DEF QuietInv
<1>5. CASE Reconcile \/ PatchFails
  BY <1>1, <1>2, <1>5, ReconcileQuiet DEF QuietInv
<1>6. CASE Restart
  <2>1. /\ seenTriggers' = triggers /\ seenTemplates' = templates
        /\ triggerWatch' = <<>> /\ templateWatch' = <<>>
        /\ queue' = {t \in Triggers : triggers[t] # NoTrigger} \cup Owners({templates[n] : n \in Names})
        /\ UNCHANGED <<triggers, templates>>
    BY <1>6 DEF Restart, shared
  <2>2. InformerInv'
    BY <2>1 DEF InformerInv, LeadsTo
  <2>3. templates \in [Names -> Template \cup {NoTemplate}]
    BY SharedType DEF QuietInv, ControllerInv
  <2>4. ASSUME NEW n \in Names, ~InStep(n) PROVE Pending(n, templates[n].trigger)'
    <3>1. templates[n].trigger \in Triggers /\ triggers[templates[n].trigger] # NoTrigger
      BY <2>3, <2>4 DEF InStep, Template
    <3> QED
      BY <2>1, <3>1 DEF Pending
  <2>5. PendingInv'
    BY <2>1, <2>4, SilentQuiet DEF QuietInv
  <2> QED
    BY <1>1, <1>2, <2>2, <2>5 DEF QuietInv
<1>7. CASE UNCHANGED vars
  <2>1. UNCHANGED <<triggers, templates, triggerWatch, templateWatch, seenTriggers, seenTemplates,
                    queue, work, trigger, patches, todo>>
    BY <1>7 DEF vars, shared, watches, control, copies, worker
  <2>2. PendingInv'
    BY <2>1 DEF QuietInv, PendingInv, Pending, InStep
  <2>3. InformerInv'
    BY <2>1 DEF QuietInv, InformerInv
  <2> QED
    BY <1>1, <1>2, <2>2, <2>3 DEF QuietInv
<1> QED
  BY <1>3, <1>4, <1>5, <1>6, <1>7 DEF Next

\* trigger/reconciler.go:102: although webhook and controller write patches from
\* copies of different age and nothing is ever listed again, no template that
\* lags behind its trigger is forgotten, unless two triggers share a name.
THEOREM NoneForgotten == ASSUME Hook!NoSharedNames PROVE Spec => []QuietInStep
<1>1. Init => QuietInv
  BY InitQuiet
<1>2. QuietInv /\ [Next]_vars => QuietInv'
  BY NextQuiet
<1>3. QuietInv => QuietInStep
  BY QuietInvMeans
<1> QED
  BY <1>1, <1>2, <1>3, PTL DEF Spec
-----------------------------------------------------------------------------
(* The webhook's promise beside the controller                             *)

\* The two instances have the same abstract state.
LEMMA SameStore ==
  /\ Webhook!values = Hook!values /\ Webhook!plan = Hook!plan
  /\ Webhook!place = Hook!place /\ Webhook!seen = Hook!seen
BY DEF Webhook!values, Hook!values, Webhook!plan, Hook!plan, Webhook!place, Hook!place,
  Webhook!seen, Hook!seen, Webhook!Planned, Hook!Planned, Webhook!Running, Hook!Running

LEMMA SameStoreNext ==
  /\ Webhook!values' = Hook!values' /\ Webhook!plan' = Hook!plan'
  /\ Webhook!place' = Hook!place' /\ Webhook!seen' = Hook!seen'
BY DEF Webhook!values, Hook!values, Webhook!plan, Hook!plan, Webhook!place, Hook!place,
  Webhook!seen, Hook!seen, Webhook!Planned, Hook!Planned, Webhook!Running, Hook!Running

LEMMA SamePromise ==
  /\ Hook!Store!Init => Webhook!Store!Init
  /\ [Hook!Store!Next]_(Hook!Store!vars) => [Webhook!Store!Next]_(Webhook!Store!vars)
<1>1. Hook!Store!Init => Webhook!Store!Init
  BY SameStore DEF Hook!Store!Init, Webhook!Store!Init
<1>2. UNCHANGED Hook!Store!vars => UNCHANGED Webhook!Store!vars
  BY SameStore, SameStoreNext DEF Hook!Store!vars, Webhook!Store!vars
<1>3. ASSUME NEW r \in Requests PROVE Hook!Store!Step(r) => Webhook!Store!Step(r)
  <2>1. Hook!Store!Perform(r) => Webhook!Store!Perform(r)
    BY SameStore, SameStoreNext
    DEF Webhook!Store!Perform, Hook!Store!Perform, Webhook!Store!Move, Hook!Store!Move,
      Webhook!Store!Running, Hook!Store!Running, Webhook!Store!Op, Hook!Store!Op,
      Webhook!Store!Effect, Hook!Store!Effect
  <2>2. Hook!Store!Accept(r) => Webhook!Store!Accept(r)
    BY SameStore, SameStoreNext
    DEF Webhook!Store!Accept, Hook!Store!Accept, Webhook!ActionNames, Hook!ActionNames,
      Webhook!Value, Hook!Value
  <2>3. Hook!Store!See(r) \/ Hook!Store!Miss(r) => Webhook!Store!See(r) \/ Webhook!Store!Miss(r)
    BY SameStore, SameStoreNext
    DEF Webhook!Store!See, Hook!Store!See, Webhook!Store!Miss, Hook!Store!Miss,
      Webhook!Store!Move, Hook!Store!Move, Webhook!Store!Running, Hook!Store!Running,
      Webhook!Store!Op, Hook!Store!Op, Webhook!Store!Present, Hook!Store!Present
  <2>4. /\ Hook!Store!Refuse(r) => Webhook!Store!Refuse(r)
        /\ Hook!Store!Complete(r) => Webhook!Store!Complete(r)
        /\ Hook!Store!BreakOff(r) => Webhook!Store!BreakOff(r)
    BY SameStore, SameStoreNext
    DEF Webhook!Store!Refuse, Hook!Store!Refuse, Webhook!Store!Complete, Hook!Store!Complete,
      Webhook!Store!BreakOff, Hook!Store!BreakOff
  <2> QED
    BY <2>1, <2>2, <2>3, <2>4 DEF Hook!Store!Step, Webhook!Store!Step
<1>4. /\ Hook!Store!Die => Webhook!Store!Die
      /\ \A n \in Names : Hook!Store!Remove(n) => Webhook!Store!Remove(n)
  BY SameStore, SameStoreNext
  DEF Webhook!Store!Die, Hook!Store!Die, Webhook!Store!Remove, Hook!Store!Remove,
      Webhook!Store!Present, Hook!Store!Present
<1> QED
  BY <1>1, <1>2, <1>3, <1>4 DEF Hook!Store!Next, Webhook!Store!Next

\* What the requests are at is theirs alone.
LEMMA RequestsUnmoved ==
  ASSUME UNCHANGED webhook
  PROVE  UNCHANGED <<Webhook!plan, Webhook!place, Webhook!seen, answer>>
BY DEF webhook, Webhook!plan, Webhook!place, Webhook!seen, Webhook!Planned, Webhook!Running

LEMMA PatchRevises ==
  ASSUME ControllerInv, NEW n \in Names, PatchResource(n)
  PROVE  Revised
<1>1. /\ templates[n] # NoTemplate /\ templates' = [templates EXCEPT ![n].patches = patches]
      /\ UNCHANGED webhook /\ todo # {}
  BY DEF PatchResource
<1>2. templates \in [Names -> Template \cup {NoTemplate}]
  BY SharedType DEF ControllerInv
<1>3. patches \in Patches
  BY <1>1 DEF ControllerInv, TypeOK
<1>4. PICK tmpl \in Template : tmpl = templates[n]
  BY <1>1, <1>2
<1>5. templates'[n] = [tmpl EXCEPT !.patches = patches]
  BY <1>1, <1>2, <1>4
<1>6. /\ templates'[n] \in Template /\ templates'[n].patches = patches
      /\ templates'[n].trigger = tmpl.trigger /\ templates'[n].event = tmpl.event
  BY <1>3, <1>4, <1>5 DEF Template
<1>7. NoTemplate \notin Template /\ NoTemplate \notin Webhook!Value
  BY WebhookAssumption DEF Webhook!NoTemplateAssumption, Webhook!Template, Template
<1>8. \A m \in Names \ {n} : templates'[m] = templates[m]
  BY <1>1, <1>2
<1>9. Webhook!values[n] = [trigger |-> tmpl.trigger, patches |-> tmpl.patches, event |-> tmpl.event]
  BY <1>1, <1>4 DEF Webhook!values
<1>10. Webhook!values[n] \in Webhook!Value
  BY <1>4, <1>9 DEF Template, Webhook!Value
<1>11. Webhook!values' = [Webhook!values EXCEPT ![n].patches = patches]
  <2>1. Webhook!values'[n] = [Webhook!values[n] EXCEPT !.patches = patches]
    BY <1>6, <1>7, <1>9 DEF Webhook!values
  <2>2. \A m \in Names \ {n} : Webhook!values'[m] = Webhook!values[m]
    BY <1>8 DEF Webhook!values
  <2> QED
    BY <2>1, <2>2 DEF Webhook!values
<1>12. Webhook!Store!Present(n)
  BY <1>7, <1>10 DEF Webhook!Store!Present
<1> QED
  BY <1>1, <1>3, <1>11, <1>12, RequestsUnmoved DEF Revised

LEMMA NextKeeps ==
  ControllerInv /\ [Next]_vars => [Webhook!Store!Next \/ Revised]_(Webhook!Store!vars)
<1> SUFFICES ASSUME ControllerInv, [Next]_vars
             PROVE  [Webhook!Store!Next \/ Revised]_(Webhook!Store!vars)
  OBVIOUS
<1>1. CASE WebhookStep
  <2>1. Hook!TypeOK /\ Hook!PlanInv /\ [Hook!Next]_(Hook!vars)
    BY <1>1, SameHandler DEF WebhookStep, ControllerInv, WebhookInv
  <2>2. [Hook!Store!Next]_(Hook!Store!vars)
    BY <2>1, HookAssumed, Hook!NextImplements
  <2> QED
    BY <2>2, SamePromise
<1>2. ASSUME NEW n \in Names, PatchResource(n) PROVE Revised
  BY <1>2, PatchRevises
<1>3. CASE UNCHANGED <<templates, webhook>>
  <2>1. UNCHANGED Webhook!values
    BY <1>3 DEF Webhook!values
  <2> QED
    BY <1>3, <2>1, RequestsUnmoved DEF Webhook!Store!vars
<1> QED
  BY <1>1, <1>2, <1>3 DEF Next, Deliver, DeliverTrigger, DeliverTemplate, Reconcile, TriggerGone,
    GetTrigger, ListTemplates, PatchNotFound, Done, PatchFails, Restart, vars, shared

\* trigger/reconciler.go:135 writes, at any time and from an old list, the templates
\* that hookutil/trigger.go:67 writes. Still every step of the two together is
\* one that TemplateStore allows, or a revision of a template that is there: for any
\* requests, triggers and names, shared or not, restarts and failed calls included.
THEOREM PromiseKept == Spec => KeepsPromise
<1>1. Init => Webhook!Store!Init
  <2>1. Init => Hook!TypeOK /\ Hook!Init
    BY InitTypes, SameHandler DEF Init, ControllerInv, WebhookInv
  <2>2. Hook!TypeOK /\ Hook!Init => Hook!Store!Init
    BY HookAssumed, Hook!InitImplements
  <2> QED
    BY <2>1, <2>2, SamePromise
<1>2. ControllerInv /\ [Next]_vars => [Webhook!Store!Next \/ Revised]_(Webhook!Store!vars)
  BY NextKeeps
<1> QED
  BY <1>1, <1>2, InitTypes, NextTypes, PTL DEF Spec, KeepsPromise
=============================================================================
