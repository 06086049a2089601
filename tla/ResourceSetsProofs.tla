-------------------------- MODULE ResourceSetsProofs --------------------------
(***************************************************************************)
(* Theorems about ResourceSets, for all values of its constants: it is     *)
(* type correct; the ResourceSet controller writes only objects of its     *)
(* set, keeping what others have put under keys the set does not ask for;  *)
(* and the Webhook controller, woken by events alone, brings the Webhook's *)
(* resources into the set.                                                 *)
(***************************************************************************)
EXTENDS ResourceSets, TLAPS

-----------------------------------------------------------------------------
(* What the steps write                                                    *)

LEMMA SpendType ==
  ASSUME left \in Amounts, NEW what \in {"edits", "events", "others", "touches", "faults"}, Spend(what)
  PROVE  left' \in Amounts
BY DEF Amounts, Spend

\* Sets and objects known so far stay known.
LEMMA Grows ==
  ASSUME uids \in Nat, uids' \in Nat, uids <= uids'
  PROVE  Sets \subseteq Sets' /\ Objects \subseteq Objects'
BY DEF Sets, Objects

LEMMA ObjectWritten ==
  ASSUME TypeOK, NEW k \in Kinds, NEW new \in Objects \cup {NoObject},
         objects' = [objects EXCEPT ![k] = new]
  PROVE  objects' \in [Kinds -> Objects \cup {NoObject}]
BY DEF TypeOK

LEMMA SetWritten ==
  ASSUME TypeOK, NEW new, WriteSet(new)
  PROVE  set' = new /\ setStale' \in BOOLEAN /\ (~setStale' => setSeen = set')
BY DEF TypeOK, WriteSet

\* A step that leaves uids, and a part of the variables, alone.
LEMMA SameSets == UNCHANGED uids => Sets' = Sets /\ Objects' = Objects
BY DEF Sets, Objects

LEMMA MergeType ==
  ASSUME NEW input \in Data, NEW source \in Data
  PROVE  Merge(input, source) \in Data
BY DEF Merge, Data

LEMMA RenderType ==
  ASSUME NEW data \in Data, NEW s, s.head \in Heads
  PROVE  Render(data, s) \in Data
BY DEF Render, Data

LEMMA InitType == Init => TypeOK
<1> SUFFICES ASSUME Init PROVE TypeOK
  OBVIOUS
<1>1. {hook, hookCached, hookSeen} \subseteq ResourceLists /\ left \in Amounts
  BY ResourcesAssumption, BudgetsAssumption DEF Init
<1>2. objects \in [Kinds -> Objects \cup {NoObject}]
  BY DEF Init
<1> QED
  BY <1>1, <1>2 DEF Init, TypeOK, queues

-----------------------------------------------------------------------------
(* Users, the garbage collector, the webhook and the informers             *)

LEMMA ObjectOf ==
  ASSUME TypeOK, NEW k \in Kinds, objects[k] # NoObject
  PROVE  objects[k] \in Objects /\ objects[k].owner \in 1 .. uids \cup {Other} /\ objects[k].data \in Data
BY DEF TypeOK, Objects

\* Where the ResourceSet controller is depends on its own variables only.
LEMMA SameWork ==
  UNCHANGED <<setWork, at>> => Applying' = Applying /\ Resource' = Resource
BY DEF Applying, Resource

\* Others write one object, and mark it if it has been read.
LEMMA OthersType ==
  ASSUME TypeOK, NEW k \in Kinds, NEW new \in Objects \cup {NoObject},
         objects' = [objects EXCEPT ![k] = new], OthersWrite(k), left' \in Amounts
  PROVE  TypeOK'
<1>1. Sets' = Sets /\ Objects' = Objects
  BY SameSets DEF OthersWrite
<1>2. objects' \in [Kinds -> Objects \cup {NoObject}]
  BY ObjectWritten
<1>3. Applying' = Applying /\ Resource' = Resource
  BY SameWork DEF OthersWrite
<1>4. applied # NotRead /\ ~outdated' => Resource.kind # k /\ ~outdated
  BY DEF OthersWrite, TypeOK
<1>5. applied' # NotRead => Applying' /\ (~outdated' => applied' = Current')
  BY <1>3, <1>4 DEF OthersWrite, TypeOK, Current
<1>6. outdated' \in BOOLEAN
  BY DEF OthersWrite, TypeOK
<1> QED
  BY <1>1, <1>2, <1>5, <1>6 DEF TypeOK, OthersWrite, copies, queues

\* What was read is of the resource the controller has come to, and is what the
\* object still is unless somebody has written it.
ReadingOK ==
  /\ applied \in Objects \cup {NoObject, NotRead} /\ outdated \in BOOLEAN
  /\ applied # NotRead => Applying /\ (~outdated => applied = Current)

\* A step that leaves the objects and the controller's work alone keeps that.
LEMMA SameReading ==
  ASSUME TypeOK, UNCHANGED <<objects, setLocal, uids>>
  PROVE  Sets' = Sets /\ Objects' = Objects /\ ReadingOK'
<1>1. Sets' = Sets /\ Objects' = Objects
  BY SameSets
<1>2. Applying' = Applying /\ Current' = Current
  BY SameWork DEF setLocal, Current
<1> QED
  BY <1>1, <1>2 DEF TypeOK, ReadingOK, setLocal, reading

\* So does one that only adds a uid.
LEMMA ReadingGrows ==
  ASSUME TypeOK, UNCHANGED <<objects, setLocal>>, Objects \subseteq Objects'
  PROVE  ReadingOK'
<1>1. Applying' = Applying /\ Current' = Current
  BY SameWork DEF setLocal, Current
<1> QED
  BY <1>1 DEF TypeOK, ReadingOK, setLocal, reading

LEMMA UsersType ==
  ASSUME TypeOK, Users \/ \E k \in Kinds : GarbageCollect(k)
  PROVE  TypeOK'
<1>1. ASSUME NEW resources \in ResourceLists, EditHook(resources) PROVE TypeOK'
  <2>1. left' \in Amounts
    BY <1>1, SpendType DEF EditHook, TypeOK
  <2> QED
    BY <1>1, <2>1, SameReading DEF EditHook, TypeOK, ReadingOK, copies, queues, work, setLocal
<1>2. ASSUME NEW k \in ForeignKinds, ForeignCreate(k) PROVE TypeOK'
  <2>1. left' \in Amounts
    BY <1>2, SpendType DEF ForeignCreate, TypeOK
  <2>2. [owner |-> Other, data |-> [key \in Keys |-> None]] \in Objects
    BY DEF Objects, Data
  <2> QED
    BY <1>2, <2>1, <2>2, OthersType, WritesAssumption DEF ForeignCreate, PutObject
<1>3. ASSUME NEW k \in Kinds, UserDelete(k) \/ GarbageCollect(k) PROVE TypeOK'
  <2>1. left' \in Amounts
    BY <1>3, SpendType DEF UserDelete, GarbageCollect, TypeOK
  <2> QED
    BY <1>3, <2>1, OthersType DEF UserDelete, GarbageCollect, RemoveObject
<1>4. ASSUME NEW w \in UserWrites, UserEdit(w[1], w[2], w[3]) PROVE TypeOK'
  <2>1. left' \in Amounts
    BY <1>4, SpendType DEF UserEdit, TypeOK
  <2>2. w[1] \in Kinds /\ w[2] \in Keys /\ w[3] \in Values
    BY WritesAssumption
  <2>3. objects[w[1]].owner \in 1 .. uids \cup {Other} /\ objects[w[1]].data \in Data
    BY <1>4, <2>2, ObjectOf DEF UserEdit
  <2>4. [objects[w[1]].data EXCEPT ![w[2]] = w[3]] \in Data
    BY <2>2, <2>3 DEF Data
  <2>5. [owner |-> objects[w[1]].owner, data |-> [objects[w[1]].data EXCEPT ![w[2]] = w[3]]] \in Objects
    BY <2>3, <2>4 DEF Objects
  <2> QED
    BY <1>4, <2>1, <2>2, <2>5, OthersType DEF UserEdit, PutObject
<1> QED
  BY <1>1, <1>2, <1>3, <1>4 DEF Users

LEMMA WebhookType ==
  ASSUME TypeOK, Webhook
  PROVE  TypeOK'
<1>1. CASE SyncWebhook
  <2>1. Sets' = Sets /\ Objects' = Objects /\ ReadingOK'
    BY <1>1, SameReading DEF SyncWebhook, cluster, work
  <2> QED
    BY <1>1, <2>1 DEF SyncWebhook, TypeOK, ReadingOK, cluster, queues, work, setLocal
<1>2. ASSUME NEW head \in Heads, Receive(head) PROVE TypeOK'
  <2>1. left' \in Amounts
    BY <1>2, SpendType DEF Receive, TypeOK
  <2>2. Sets' = Sets /\ Objects' = Objects /\ ReadingOK'
    BY <1>2, SameReading DEF Receive, cluster, work
  <2> QED
    BY <1>2, <2>1, <2>2 DEF Receive, TypeOK, ReadingOK, cluster, copies, queues, work, setLocal
<1>3. CASE CreateSet
  <2> DEFINE new == [uid |-> uids', resources |-> request.resources, head |-> request.head]
  <2>1. uids \in Nat /\ uids' = uids + 1 /\ WriteSet(new) /\ request.pc = "create"
    BY <1>3 DEF CreateSet, TypeOK
  <2>2. request.resources \in ResourceLists /\ request.head \in Heads
    BY <2>1 DEF TypeOK, Idle
  <2>3. new \in Sets'
    BY <2>1, <2>2 DEF Sets
  <2>4. Sets \subseteq Sets' /\ Objects \subseteq Objects'
    BY <2>1, Grows
  <2>5. set' = new /\ setStale' \in BOOLEAN /\ (~setStale' => setSeen = set')
    BY <2>1, SetWritten
  <2>6. objects \in [Kinds -> Objects' \cup {NoObject}] /\ ReadingOK'
    BY <1>3, <2>4, ReadingGrows DEF CreateSet, TypeOK, work
  <2> QED
    BY <1>3, <2>1, <2>3, <2>4, <2>5, <2>6 DEF CreateSet, TypeOK, ReadingOK, queues, work, setLocal
<1>4. CASE SetExists
  <2>1. Sets' = Sets /\ Objects' = Objects /\ ReadingOK'
    BY <1>4, SameReading DEF SetExists, cluster, work
  <2>2. request' \in [pc : {"create", "patch"}, resources : ResourceLists, head : Heads]
    BY <1>4 DEF SetExists, TypeOK, Idle
  <2> QED
    BY <1>4, <2>1, <2>2 DEF SetExists, TypeOK, ReadingOK, cluster, copies, queues, work, setLocal
<1>5. CASE PatchSpec
  <2> DEFINE new == [set EXCEPT !.resources = request.resources, !.head = request.head]
  <2>1. WriteSet(new) /\ request.pc = "patch" /\ set \in Sets
    BY <1>5 DEF PatchSpec, TypeOK
  <2>2. request.resources \in ResourceLists /\ request.head \in Heads
    BY <2>1 DEF TypeOK, Idle
  <2>3. new \in Sets
    BY <2>1, <2>2 DEF Sets
  <2>4. Sets' = Sets /\ Objects' = Objects /\ ReadingOK'
    BY <1>5, SameReading DEF PatchSpec, work
  <2>5. set' = new /\ setStale' \in BOOLEAN /\ (~setStale' => setSeen = set')
    BY <2>1, SetWritten
  <2> QED
    BY <1>5, <2>3, <2>4, <2>5 DEF PatchSpec, TypeOK, ReadingOK, queues, work, setLocal
<1>6. CASE PatchNotFound
  <2>1. Sets' = Sets /\ Objects' = Objects /\ ReadingOK'
    BY <1>6, SameReading DEF PatchNotFound, cluster, work
  <2> QED
    BY <1>6, <2>1 DEF PatchNotFound, TypeOK, ReadingOK, cluster, copies, queues, work, setLocal
<1>7. CASE DeleteSets
  <2>1. left' \in Amounts
    BY <1>7, SpendType DEF DeleteSets, TypeOK
  <2>2. Sets' = Sets /\ Objects' = Objects /\ ReadingOK'
    BY <1>7, SameReading DEF DeleteSets, work
  <2>3. set' = NoSet /\ setStale' \in BOOLEAN /\ (~setStale' => setSeen = set')
    BY <1>7, SetWritten DEF DeleteSets
  <2> QED
    BY <1>7, <2>1, <2>2, <2>3 DEF DeleteSets, TypeOK, ReadingOK, queues, work, setLocal
<1> QED
  BY <1>1, <1>2, <1>3, <1>4, <1>5, <1>6, <1>7 DEF Webhook

LEMMA DeliverType ==
  ASSUME TypeOK, Deliver \/ Resync
  PROVE  TypeOK'
<1>1. UNCHANGED <<hook, set, objects, uids, hookCached, request, hookWork, setLocal, left>>
  BY DEF Deliver, DeliverHook, DeliverSet, Resync, cluster, copies, work
<1>2. Sets' = Sets /\ Objects' = Objects /\ ReadingOK'
  BY <1>1, SameReading
<1>3. queues' \in BOOLEAN \X BOOLEAN
  BY DEF Deliver, DeliverHook, DeliverSet, Resync, queues, TypeOK
<1>4. CASE DeliverHook
  BY <1>1, <1>2, <1>3, <1>4 DEF DeliverHook, TypeOK, ReadingOK, setLocal
<1>5. CASE DeliverSet
  BY <1>1, <1>2, <1>3, <1>5 DEF DeliverSet, TypeOK, ReadingOK, setLocal
<1>6. CASE Resync
  BY <1>1, <1>2, <1>3, <1>6 DEF Resync, TypeOK, ReadingOK, copies, setLocal
<1> QED
  BY <1>4, <1>5, <1>6 DEF Deliver

-----------------------------------------------------------------------------
(* The controllers                                                         *)

LEMMA ReconcileHookType ==
  ASSUME TypeOK, ReconcileHook
  PROVE  TypeOK'
<1>1. Sets' = Sets /\ Objects' = Objects /\ ReadingOK'
  BY SameReading DEF ReconcileHook, ListSets, PatchResources, PatchFails, cluster
<1>2. CASE ListSets
  BY <1>1, <1>2 DEF ListSets, TypeOK, ReadingOK, setLocal, cluster, copies, queues
<1>3. CASE PatchResources
  <2> DEFINE new == [set EXCEPT !.resources = hookWork]
  <2>1. WriteSet(new) /\ hookWork \in ResourceLists /\ set \in Sets
    BY <1>3 DEF PatchResources, TypeOK
  <2>2. new \in Sets
    BY <2>1 DEF Sets
  <2>3. set' = new /\ setStale' \in BOOLEAN /\ (~setStale' => setSeen = set')
    BY <2>1, SetWritten
  <2> QED
    BY <1>1, <1>3, <2>2, <2>3 DEF PatchResources, TypeOK, ReadingOK, setLocal, queues
<1>4. CASE PatchFails
  <2>1. left' \in Amounts
    BY <1>4, SpendType DEF PatchFails, TypeOK
  <2> QED
    BY <1>1, <1>4, <2>1 DEF PatchFails, TypeOK, ReadingOK, setLocal, cluster, copies, queues
<1> QED
  BY <1>2, <1>3, <1>4 DEF ReconcileHook

LEMMA ElementType ==
  ASSUME NEW S, NEW s \in Seq(S), NEW i \in DOMAIN s
  PROVE  s[i] \in S
OBVIOUS

\* The resource that the ResourceSet controller has come to, and what it makes of it.
LEMMA ApplyingType ==
  ASSUME TypeOK, Applying
  PROVE  /\ setWork \in Sets /\ setWork.uid \in 1 .. uids
         /\ Resource.kind \in Kinds /\ Resource.data \in Data
         /\ applied # NotRead => /\ Patch \in Data
                                 /\ [owner |-> setWork.uid, data |-> Patch] \in Objects
         /\ at \in 1 .. Len(setWork.resources) /\ Len(setWork.resources) \in Nat
<1>1. setWork \in Sets /\ at \in DOMAIN setWork.resources
  BY DEF Applying, TypeOK
<1>2. setWork.uid \in 1 .. uids /\ setWork.resources \in ResourceLists /\ setWork.head \in Heads
  BY <1>1 DEF Sets
<1>3. setWork.resources \in Seq([kind : Kinds, data : Data])
  BY <1>2, ResourcesAssumption
<1>4. Resource \in [kind : Kinds, data : Data]
  <2>1. \A S : setWork.resources \in Seq(S) => setWork.resources[at] \in S
    BY <1>1, ElementType
  <2> QED
    BY <1>3, <2>1 DEF Resource
<1>5. at \in 1 .. Len(setWork.resources) /\ Len(setWork.resources) \in Nat
  BY <1>1, <1>3
<1>6. Resource.kind \in Kinds /\ Resource.data \in Data /\ Originals[Resource.kind] \in Data
  BY <1>4, ResourcesAssumption
<1>7. applied \in {NotRead, NoObject} \/ applied.data \in Data
  BY DEF TypeOK, Objects
<1>8. Render(Resource.data, setWork) \in Data
  BY <1>2, <1>6, RenderType
<1>9. applied \notin {NotRead, NoObject} => Merge(Originals[Resource.kind], applied.data) \in Data
  BY <1>6, <1>7, MergeType
<1>10. applied # NotRead => Patch \in Data
  BY <1>6, <1>8, <1>9, MergeType DEF Patch
<1>11. applied # NotRead => [owner |-> setWork.uid, data |-> Patch] \in Objects
  BY <1>2, <1>10 DEF Objects
<1> QED
  BY <1>1, <1>2, <1>5, <1>6, <1>10, <1>11

\* Nothing is left of what was read.
LEMMA ForgetType ==
  ASSUME Forget
  PROVE  ReadingOK'
BY DEF Forget, ReadingOK

LEMMA FailType ==
  ASSUME TypeOK, Fail, left' \in Amounts,
         UNCHANGED <<cluster, copies, request, hookQueue, hookWork>>
  PROVE  TypeOK'
<1>1. Sets' = Sets /\ Objects' = Objects
  BY SameSets DEF cluster
<1>2. ReadingOK'
  BY ForgetType DEF Fail, Return
<1> QED
  BY <1>1, <1>2 DEF Fail, Return, TypeOK, ReadingOK, cluster, copies, queues

LEMMA ReconcileSetType ==
  ASSUME TypeOK, ReconcileSet
  PROVE  TypeOK'
<1>1. Sets' = Sets /\ Objects' = Objects
  BY SameSets DEF ReconcileSet, GetSet, ReadObject, NotManaged, Unchanged, UpdateObject,
    UpdateConflict, CreateObject, CreateConflict, CallFails, Done, cluster
<1>2. CASE GetSet
  <2>1. setSeen # NoSet => setSeen.resources \in Seq([kind : Kinds, data : Data])
    BY ResourcesAssumption DEF TypeOK, Sets
  <2>2. setSeen # NoSet => Len(setSeen.resources) \in Nat
    BY <2>1
  <2>3. at' = 1 /\ setWork' = setSeen
    BY <1>2 DEF GetSet, TypeOK
  <2>4. setWork' # NoSet => at' \in 1 .. Len(setWork'.resources) + 1
    BY <2>2, <2>3
  <2>5. UNCHANGED <<hook, set, objects, uids, copies, request, hookQueue, hookWork, reading, left>>
        /\ setQueue' = FALSE
    BY <1>2 DEF GetSet, cluster
  <2>6. applied' = NotRead /\ outdated' \in BOOLEAN
    BY <1>2 DEF GetSet, Applying, TypeOK, reading
  <2> QED
    BY <1>1, <2>3, <2>4, <2>5, <2>6 DEF TypeOK, copies, queues
<1>3. CASE NotManaged \/ UpdateConflict \/ CreateConflict
  BY <1>3, FailType DEF NotManaged, UpdateConflict, CreateConflict, TypeOK
<1>4. CASE CallFails
  BY <1>4, FailType, SpendType DEF CallFails, TypeOK
<1>5. ASSUME Applying, NextResource PROVE at' \in 1 .. Len(setWork.resources) + 1
  BY <1>5, ApplyingType DEF NextResource
<1>6. CASE Unchanged
  <2>1. at' \in 1 .. Len(setWork.resources) + 1
    BY <1>5, <1>6 DEF Unchanged, Managed, Found
  <2>2. ReadingOK'
    BY <1>6, ForgetType DEF Unchanged, NextResource
  <2> QED
    BY <1>1, <1>6, <2>1, <2>2 DEF Unchanged, Managed, Found, Applying, NextResource, TypeOK,
      ReadingOK, cluster, copies, queues
<1>7. CASE UpdateObject \/ CreateObject
  <2>1. Applying /\ NextResource /\ PutObject(Resource.kind, setWork.uid, Patch) /\ applied # NotRead
    BY <1>7, NotReadAssumption DEF UpdateObject, CreateObject, Managed, Found, Missing
  <2>2. at' \in 1 .. Len(setWork.resources) + 1 /\ setWork # NoSet
    BY <1>5, <2>1 DEF Applying
  <2>3. objects' \in [Kinds -> Objects \cup {NoObject}]
    BY <2>1, ApplyingType, ObjectWritten DEF PutObject
  <2>4. UNCHANGED <<hook, set, uids, copies, request, hookQueue, hookWork, left, setWork, setQueue>>
    BY <1>7 DEF UpdateObject, CreateObject, NextResource
  <2>5. ReadingOK'
    BY <2>1, ForgetType DEF NextResource
  <2> QED
    BY <1>1, <2>2, <2>3, <2>4, <2>5 DEF TypeOK, ReadingOK, copies, queues
<1>8. CASE Done
  <2>1. ReadingOK'
    BY <1>8, ForgetType DEF Done, Return
  <2> QED
    BY <1>1, <1>8, <2>1 DEF Done, Return, TypeOK, ReadingOK, cluster, copies, queues
<1>9. CASE ReadObject
  <2>1. Resource.kind \in Kinds
    BY <1>9, ApplyingType DEF ReadObject
  <2>2. applied' = Current /\ Current \in Objects \cup {NoObject}
    BY <1>9, <2>1 DEF ReadObject, Current, TypeOK
  <2>3. Applying' = Applying /\ Current' = Current
    BY <1>9, SameWork DEF ReadObject, cluster, Current
  <2>4. Applying'
    BY <1>9, <2>3 DEF ReadObject
  <2> QED
    BY <1>1, <1>9, <2>2, <2>3, <2>4 DEF ReadObject, TypeOK, cluster, copies, queues
<1> QED
  BY <1>2, <1>3, <1>4, <1>6, <1>7, <1>8, <1>9 DEF ReconcileSet

LEMMA NextType == TypeOK /\ [Next]_vars => TypeOK'
<1> SUFFICES ASSUME TypeOK, [Next]_vars PROVE TypeOK'
  OBVIOUS
<1>1. CASE UNCHANGED vars
  <2>1. Sets' = Sets /\ Objects' = Objects /\ ReadingOK'
    BY <1>1, SameReading DEF vars, cluster, work
  <2> QED
    BY <1>1, <2>1 DEF vars, cluster, copies, queues, work, setLocal, TypeOK, ReadingOK
<1> QED
  BY <1>1, UsersType, WebhookType, DeliverType, ReconcileHookType, ReconcileSetType DEF Next

\* Every reachable state of the webhook and the two controllers around a
\* ResourceSet is well typed; a copy that is not stale, and what was read of an object that
\* nobody has written since, is the original.
THEOREM SetsTypeCorrect == Spec => []TypeOK
BY InitType, NextType, PTL DEF Spec

-----------------------------------------------------------------------------
(* What others have written                                                *)

\* The merge of what was applied with the resource keeps what it does not ask for.
LEMMA PatchKeeps ==
  ASSUME TypeOK, Applying, applied \notin {NotRead, NoObject}, applied.data \in Data, NEW key \in Keys,
         Resource.data[key] = None, applied.data[key] # None
  PROVE  Patch[key] = applied.data[key]
<1> DEFINE base == Merge(Originals[Resource.kind], applied.data)
<1>1. Render(Resource.data, setWork)[key] = None
  BY NoneAssumption DEF Render
<1>2. base[key] = applied.data[key]
  BY DEF Merge
<1>3. Patch = Merge(base, Render(Resource.data, setWork))
  BY DEF Patch
<1> HIDE DEF base
<1> QED
  BY <1>1, <1>2, <1>3 DEF Merge

\* reconciler.go:146, 224: the check of the owner and the merge are made with what
\* was read before, and still what is written is the set's and keeps what others have
\* put there, for any resources, originals and interference: an Update
\* that succeeds has compared the newest object, a Create has found none.
THEOREM OthersAreKept == Spec => KeepsTheRest
<1>1. ASSUME TypeOK, NEW k \in Kinds, ReconcileSet, objects[k] # NoObject, objects'[k] # objects[k]
      PROVE  /\ objects[k].owner = setWork.uid
             /\ \A key \in Keys :
                  Resource.data[key] = None /\ objects[k].data[key] # None
                    => objects'[k].data[key] = objects[k].data[key]
  <2>1. UpdateObject \/ CreateObject
    BY <1>1 DEF ReconcileSet, GetSet, ReadObject, NotManaged, Unchanged, UpdateConflict,
      CreateConflict, CallFails, Done, cluster
  <2>2. Applying /\ PutObject(Resource.kind, setWork.uid, Patch)
    BY <2>1 DEF UpdateObject, CreateObject, Managed, Found, Missing
  <2>3. Resource.kind \in Kinds
    BY <2>2, ApplyingType, <1>1
  <2>4. objects' = [objects EXCEPT ![Resource.kind] = [owner |-> setWork.uid, data |-> Patch]]
    BY <2>2 DEF PutObject
  <2>5. k = Resource.kind /\ objects'[k].data = Patch
    BY <1>1, <2>3, <2>4 DEF TypeOK
  <2>6. UpdateObject
    BY <1>1, <2>1, <2>5 DEF CreateObject, Current
  <2>7. Managed /\ ~outdated
    BY <2>6 DEF UpdateObject, VersionMatches
  <2>8. applied = objects[k]
    BY <1>1, <2>5, <2>7 DEF Managed, Found, Current, TypeOK
  <2>9. objects[k].owner = setWork.uid
    BY <2>7, <2>8 DEF Managed, IsControlledBy
  <2>10. applied.data \in Data
    BY <1>1, <2>8, ObjectOf
  <2>11. ASSUME NEW key \in Keys, Resource.data[key] = None, objects[k].data[key] # None
         PROVE  objects'[k].data[key] = objects[k].data[key]
    BY <1>1, <2>2, <2>5, <2>7, <2>8, <2>10, <2>11, PatchKeeps DEF Managed, Found
  <2> QED
    BY <2>9, <2>11
<1>2. TypeOK /\ [Next]_vars =>
        [\A k \in Kinds :
           ReconcileSet /\ objects[k] # NoObject /\ objects'[k] # objects[k] =>
             /\ objects[k].owner = setWork.uid
             /\ \A key \in Keys :
                  Resource.data[key] = None /\ objects[k].data[key] # None
                    => objects'[k].data[key] = objects[k].data[key]]_vars
  BY <1>1
<1> QED
  BY <1>2, InitType, NextType, PTL DEF Spec, KeepsTheRest
-----------------------------------------------------------------------------
(* The Webhook's resources reach the set                                   *)

\* A set that differs from the copy of the Webhook will be heard of, is being written,
\* or is to be looked at. It compares with the copy the controller has, not
\* with what the Webhook holds: an edit may put back what an unfinished write has.
HookInv ==
  set # NoSet /\ set.resources # hookSeen => setStale \/ hookQueue \/ hookWork = hookSeen

\* A write that changes nothing leaves the set alone; every other one is announced.
LEMMA WrittenOrSame ==
  ASSUME HookInv, NEW new, WriteSet(new),
         UNCHANGED <<hookSeen, hookQueue>>,
         hookWork' = hookWork \/ new.resources = hookWork
  PROVE  HookInv'
<1>1. CASE new = set
  BY <1>1 DEF WriteSet, HookInv
<1>2. CASE new # set
  BY <1>2 DEF WriteSet, HookInv
<1> QED
  BY <1>1, <1>2

LEMMA HookStep ==
  ASSUME TypeOK, HookInv, [Next]_vars
  PROVE  HookInv'
<1>1. CASE UNCHANGED <<set, setStale, hookSeen, hookQueue, hookWork>>
  BY <1>1 DEF HookInv
<1>2. CASE Users \/ ReconcileSet \/ (\E k \in Kinds : GarbageCollect(k)) \/ UNCHANGED vars
  BY <1>1, <1>2 DEF Users, EditHook, ForeignCreate, UserDelete, UserEdit, GarbageCollect,
    OthersWrite, ReconcileSet, GetSet, ReadObject, NotManaged, Unchanged, UpdateObject,
    UpdateConflict, CreateObject, CreateConflict, CallFails, Done, vars, cluster, copies,
    queues, work
<1>3. CASE Webhook
  <2>1. CASE CreateSet
    BY <2>1, WrittenOrSame DEF CreateSet, queues, work
  <2>2. CASE PatchSpec
    BY <2>2, WrittenOrSame DEF PatchSpec, queues, work
  <2>3. CASE DeleteSets
    BY <2>3 DEF DeleteSets, WriteSet, HookInv
  <2>4. CASE SyncWebhook \/ SetExists \/ PatchNotFound \/ (\E head \in Heads : Receive(head))
    BY <1>1, <2>4 DEF SyncWebhook, SetExists, PatchNotFound, Receive, cluster, copies, queues, work
  <2> QED
    BY <1>3, <2>1, <2>2, <2>3, <2>4 DEF Webhook
<1>4. CASE Deliver \/ Resync
  BY <1>1, <1>4 DEF Deliver, DeliverHook, DeliverSet, Resync, HookInv,
    cluster, copies, queues, work
<1>5. CASE ListSets
  <2>1. CASE setSeen = NoSet
    \* No set is known: either there is none or it is still to be heard of.
    BY <1>5, <2>1 DEF ListSets, HookInv, TypeOK, cluster, copies
  <2>2. CASE setSeen # NoSet
    BY <1>5, <2>2 DEF ListSets, HookInv, copies
  <2> QED
    BY <2>1, <2>2
<1>6. CASE PatchResources
  <2> DEFINE new == [set EXCEPT !.resources = hookWork]
  <2>1. WriteSet(new) /\ set \in Sets /\ UNCHANGED <<hookSeen, hookQueue>>
    BY <1>6 DEF PatchResources, TypeOK, queues
  <2>2. new.resources = hookWork
    BY <2>1 DEF Sets
  <2> HIDE DEF new
  <2> QED
    BY <2>1, <2>2, WrittenOrSame
<1>7. CASE PatchFails
  BY <1>7 DEF PatchFails, HookInv
<1> QED
  BY <1>2, <1>3, <1>4, <1>5, <1>6, <1>7 DEF Next, ReconcileHook

LEMMA InStepFromInv ==
  ASSUME TypeOK, HookInv
  PROVE  HookInStep
BY NoListAssumption DEF HookInv, HookInStep, TypeOK

\* reconciler.go:98, pull_request_alpha.go:109: both the controller and the webhook
\* write spec.resources, the webhook from a copy that may be older. The
\* events of the Webhook and of the set are enough for the newest ones to win,
\* whatever calls fail and however the set is deleted and created meanwhile.
THEOREM HookReachesSet == Spec => []HookInStep
<1>1. Init => HookInv
  BY DEF Init, HookInv
<1>2. TypeOK /\ HookInv /\ [Next]_vars => HookInv'
  BY HookStep
<1>3. TypeOK /\ HookInv => HookInStep
  BY InStepFromInv
<1> QED
  BY <1>1, <1>2, <1>3, InitType, NextType, PTL DEF Spec
=============================================================================
