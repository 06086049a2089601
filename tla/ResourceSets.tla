------------------------------ MODULE ResourceSets ------------------------------
(***************************************************************************)
(* The v1alpha1 half of pullup: the ResourceSet of one pull request and    *)
(* the three processes that write around it.                               *)
(*   - The webhook (internal/webhook/github/pull_request_alpha.go) creates *)
(*     the set or replaces its spec, from its copy of the Webhook, and     *)
(*     deletes it when the pull request is closed.                         *)
(*   - The Webhook controller (internal/controller/webhook) copies         *)
(*     spec.resources of the Webhook into the set.                         *)
(*   - The ResourceSet controller (internal/controller/resourceset) merges *)
(*     each resource of the set into an object of the cluster, with a      *)
(*     Create or with an Update that carries the resourceVersion of the    *)
(*     object it has read.                                                 *)
(*                                                                         *)
(* Both controllers read the Webhook and the set from informers' copies.   *)
(* The objects are read as unstructured ones, which the client of the      *)
(* manager gets from the API server: between the Get and the write of one  *)
(* object others may write it. A resource is a kind of object and a map of *)
(* keys; the object takes the name of the set.                             *)
(***************************************************************************)
EXTENDS Naturals, Sequences

CONSTANTS
  ResourceLists, \* values of spec.resources: sequences of [kind, data]
  InitialLists,  \* those that the Webhook may have at the start
  Kinds, Keys, Heads, Values,
  HeadOfPR,      \* a value that the template replaces by the head commit
  Originals,     \* Originals[k]: the data of the object to copy; all None if none
  None, NoSet, NoObject, Other, NoList, NotRead,
  ForeignKinds,  \* kinds of objects that others create
  UserWrites,    \* what users write: triples of a kind, a key and a value
  Budgets        \* bound: how many edits of the Webhook, events of the pull
                 \* request, objects that others create, edits and deletions of
                 \* existing objects by users, and failed calls of the
                 \* controllers there may be in one behaviour

Amounts == [edits : Nat, events : Nat, others : Nat, touches : Nat, faults : Nat]
ASSUME BudgetsAssumption == Budgets \subseteq Amounts

Data == [Keys -> Values \cup Heads \cup {HeadOfPR, None}]

ASSUME ResourcesAssumption ==
  /\ InitialLists \subseteq ResourceLists
  /\ ResourceLists \subseteq Seq([kind : Kinds, data : Data])
  /\ Originals \in [Kinds -> Data]

ASSUME WritesAssumption ==
  ForeignKinds \subseteq Kinds /\ UserWrites \subseteq Kinds \X Keys \X Values

ASSUME NoneAssumption == HeadOfPR # None

ASSUME NoListAssumption == NoList \notin ResourceLists

ASSUME NotReadAssumption == NotRead # NoObject

VARIABLES
  hook,         \* spec.resources of the Webhook in the API server
  hookCached,   \* the webhook process's copy
  hookSeen,     \* the controllers' copy
  set,          \* the ResourceSet: its uid, resources and head, or NoSet
  setSeen,      \* the controllers' copy
  setStale,     \* has the set been written since?
  objects,      \* objects[k]: the object of kind k with the name of the set
  request,      \* the webhook's event under way, or a step of it
  hookQueue, setQueue,   \* does the work queue hold the Webhook, the set?
  hookWork,     \* the resources the Webhook controller is writing, or NoList
  setWork,      \* the set the ResourceSet controller works on, or NoSet
  at,           \* the resource it has come to
  applied,      \* what the Get of that resource's object has returned, or NotRead
  outdated,     \* has that object been written since?
  uids,         \* the last uid of a set
  left          \* what is left of the budget

cluster == <<hook, set, objects, uids>>
copies == <<hookCached, hookSeen, setSeen, setStale>>
queues == <<hookQueue, setQueue>>
reading == <<applied, outdated>>
setLocal == <<setWork, at, reading>>
work == <<hookWork, setLocal>>
vars == <<cluster, copies, request, queues, work, left>>

Idle == [pc |-> "idle"]

-----------------------------------------------------------------------------
Init ==
  /\ hook \in InitialLists
  /\ hookCached = hook /\ hookSeen = hook
  /\ set = NoSet /\ setSeen = NoSet /\ setStale = FALSE
  /\ objects = [k \in Kinds |-> NoObject]
  /\ request = Idle
  /\ hookQueue = FALSE /\ setQueue = FALSE
  /\ hookWork = NoList /\ setWork = NoSet /\ at = 1
  /\ applied = NotRead /\ outdated = FALSE
  /\ uids = 0
  /\ left \in Budgets

Spend(what) == left[what] > 0 /\ left' = [left EXCEPT ![what] = @ - 1]

\* The API server: a write gives a new resourceVersion, so that a copy is stale,
\* unless it changes nothing.
WriteSet(new) ==
  /\ set' = new
  /\ setStale' = (setStale \/ new # set)

PutObject(k, owner, data) ==
  objects' = [objects EXCEPT ![k] = [owner |-> owner, data |-> data]]

RemoveObject(k) == objects' = [objects EXCEPT ![k] = NoObject]

Resource == setWork.resources[at]

\* Somebody else writes the object of kind k: what was read of it is old.
OthersWrite(k) ==
  /\ outdated' = (outdated \/ (applied # NotRead /\ Resource.kind = k))
  /\ UNCHANGED <<hook, set, uids, copies, request, queues, hookWork, setWork, at, applied>>

-----------------------------------------------------------------------------
(* Users and the garbage collector                                         *)

EditHook(resources) ==
  /\ Spend("edits") /\ resources # hook
  /\ hook' = resources
  /\ UNCHANGED <<set, objects, uids, copies, request, queues, work>>

ForeignCreate(k) ==
  /\ Spend("others") /\ objects[k] = NoObject
  /\ PutObject(k, Other, [key \in Keys |-> None])
  /\ OthersWrite(k)

UserEdit(k, key, value) ==
  /\ Spend("touches")
  /\ objects[k] # NoObject /\ objects[k].data[key] # value
  /\ PutObject(k, objects[k].owner, [objects[k].data EXCEPT ![key] = value])
  /\ OthersWrite(k)

\* A user deletes an object of the set, or its owner one that is in its way.
UserDelete(k) ==
  /\ objects[k] # NoObject
  /\ \/ objects[k].owner = Other /\ UNCHANGED left
     \/ objects[k].owner # Other /\ Spend("touches")
  /\ RemoveObject(k)
  /\ OthersWrite(k)

IsLive(owner) == owner = Other \/ (set # NoSet /\ owner = set.uid)

GarbageCollect(k) ==
  /\ objects[k] # NoObject /\ ~IsLive(objects[k].owner)
  /\ RemoveObject(k)
  /\ OthersWrite(k)
  /\ UNCHANGED left

-----------------------------------------------------------------------------
(* The webhook: an event that applies, and others that delete meanwhile    *)

SyncWebhook ==
  /\ hookCached # hook
  /\ hookCached' = hook
  /\ UNCHANGED <<cluster, hookSeen, setSeen, setStale,
                 request, queues, work, left>>

Receive(head) ==
  /\ request = Idle /\ Spend("events")
  /\ request' = [pc |-> "create", resources |-> hookCached, head |-> head]
  /\ UNCHANGED <<cluster, copies, queues, work>>

\* applyResourceSet: a Create, and a Patch of /spec if the set exists.
CreateSet ==
  /\ request.pc = "create" /\ set = NoSet
  /\ uids' = uids + 1
  /\ WriteSet([uid |-> uids', resources |-> request.resources, head |-> request.head])
  /\ request' = Idle
  /\ UNCHANGED <<hook, objects, hookCached, hookSeen, setSeen, queues, work, left>>

SetExists ==
  /\ request.pc = "create" /\ set # NoSet
  /\ request' = [request EXCEPT !.pc = "patch"]
  /\ UNCHANGED <<cluster, copies, queues, work, left>>

PatchSpec ==
  /\ request.pc = "patch" /\ set # NoSet
  /\ WriteSet([set EXCEPT !.resources = request.resources, !.head = request.head])
  /\ request' = Idle
  /\ UNCHANGED <<hook, objects, uids, hookCached, hookSeen, setSeen, queues, work, left>>

\* The delivery fails if the set has been deleted between the two calls.
PatchNotFound ==
  /\ request.pc = "patch" /\ set = NoSet
  /\ request' = Idle
  /\ UNCHANGED <<cluster, copies, queues, work, left>>

\* deleteResourceSets
DeleteSets ==
  /\ Spend("events")
  /\ set # NoSet
  /\ WriteSet(NoSet)
  /\ UNCHANGED <<hook, objects, uids, hookCached, hookSeen, setSeen, request, queues, work>>

-----------------------------------------------------------------------------
(* Informers of the controllers                                            *)

DeliverHook ==
  /\ hookSeen # hook
  /\ hookSeen' = hook
  /\ hookQueue' = TRUE
  /\ UNCHANGED <<cluster, hookCached, setSeen, setStale,
                 request, setQueue, work, left>>

MutDeliverSet ==
  /\ setStale
  /\ setSeen' = set /\ setStale' = FALSE
  /\ setQueue' = TRUE
  /\ UNCHANGED <<cluster, hookCached, hookSeen,
                 request, hookQueue, work, left>>
\* For(ResourceSet) wakes one controller, Owns(ResourceSet) the other.
DeliverSet ==
  /\ setStale
  /\ setSeen' = set /\ setStale' = FALSE
  /\ setQueue' = TRUE /\ hookQueue' = TRUE
  /\ UNCHANGED <<cluster, hookCached, hookSeen,
                 request, work, left>>

\* The periodic resync puts all objects that the informers hold into the queues.
Resync ==
  /\ setSeen # NoSet /\ queues # <<TRUE, TRUE>>
  /\ hookQueue' = TRUE /\ setQueue' = TRUE
  /\ UNCHANGED <<cluster, copies, request, work, left>>

-----------------------------------------------------------------------------
(* The Webhook controller: Reconcile and patchResourceSet                  *)

ListSets ==
  /\ hookWork = NoList /\ hookQueue
  /\ hookQueue' = FALSE
  /\ hookWork' = IF setSeen = NoSet THEN NoList ELSE hookSeen
  /\ UNCHANGED <<cluster, copies, request, setQueue, setLocal, left>>

\* A JSON patch of /spec/resources, by name.
PatchResources ==
  /\ hookWork # NoList /\ set # NoSet
  /\ WriteSet([set EXCEPT !.resources = hookWork])
  /\ hookWork' = NoList
  /\ UNCHANGED <<hook, objects, uids, hookCached, hookSeen, setSeen, request, queues, setLocal, left>>

PatchFails ==
  /\ hookWork # NoList
  /\ \/ set = NoSet /\ UNCHANGED left
     \/ Spend("faults")
  /\ hookWork' = NoList
  /\ hookQueue' = TRUE
  /\ UNCHANGED <<cluster, copies, request, setQueue, setLocal>>

-----------------------------------------------------------------------------
(* The ResourceSet controller: Reconcile and applyResource                 *)

\* mergeResource: keys of the input stay, keys of the source win.
MutMerge(input, source) ==
  [key \in Keys |-> IF input[key] # None THEN input[key] ELSE source[key]]
Merge(input, source) ==
  [key \in Keys |-> IF source[key] # None THEN source[key] ELSE input[key]]

Render(data, s) ==
  [key \in Keys |-> IF data[key] = HeadOfPR THEN s.head ELSE data[key]]

Current == objects[Resource.kind]

\* What the object shall hold: the original, then what was applied, then the set.
Patch ==
  LET base == IF applied = NoObject THEN Originals[Resource.kind]
              ELSE Merge(Originals[Resource.kind], applied.data)
  IN  Merge(base, Render(Resource.data, setWork))

Forget == applied' = NotRead /\ outdated' = FALSE

MutReturn == setWork' = NoSet /\ UNCHANGED at /\ Forget
Return == setWork' = NoSet /\ at' = 1 /\ Forget

\* Every error goes back to the queue, rate limited.
MutFail == Return /\ UNCHANGED setQueue
Fail == Return /\ setQueue' = TRUE

NextResource == at' = at + 1 /\ Forget /\ UNCHANGED <<setWork, setQueue>>

GetSet ==
  /\ setWork = NoSet /\ setQueue
  /\ setQueue' = FALSE
  /\ setWork' = setSeen
  /\ UNCHANGED <<cluster, copies, request, hookQueue, hookWork, at, reading, left>>

Applying == setWork # NoSet /\ at \in DOMAIN setWork.resources

\* getUnstructured with the name of the set.
ReadObject ==
  /\ Applying /\ applied = NotRead
  /\ applied' = Current
  /\ UNCHANGED <<cluster, copies, request, queues, hookWork, setWork, at, outdated, left>>

Missing == Applying /\ applied = NoObject
Found == Applying /\ applied \notin {NotRead, NoObject}
IsControlledBy(object) == object.owner = setWork.uid

NotManaged ==
  /\ Found /\ ~IsControlledBy(applied)
  /\ Fail
  /\ UNCHANGED <<cluster, copies, request, hookQueue, hookWork, left>>

Managed == Found /\ IsControlledBy(applied)

Unchanged ==
  /\ Managed /\ Patch = applied.data
  /\ NextResource
  /\ UNCHANGED <<cluster, copies, request, hookQueue, hookWork, left>>

MutVersionMatches == Current # NoObject
\* The Update carries the resourceVersion of the object that was read.
VersionMatches == ~outdated

UpdateObject ==
  /\ Managed /\ Patch # applied.data
  /\ VersionMatches
  /\ PutObject(Resource.kind, setWork.uid, Patch)
  /\ NextResource
  /\ UNCHANGED <<hook, set, uids, copies, request, hookQueue, hookWork, left>>

UpdateConflict ==
  /\ Managed /\ Patch # applied.data
  /\ ~VersionMatches
  /\ Fail
  /\ UNCHANGED <<cluster, copies, request, hookQueue, hookWork, left>>

CreateObject ==
  /\ Missing /\ Current = NoObject
  /\ PutObject(Resource.kind, setWork.uid, Patch)
  /\ NextResource
  /\ UNCHANGED <<hook, set, uids, copies, request, hookQueue, hookWork, left>>

CreateConflict ==
  /\ Missing /\ Current # NoObject
  /\ Fail
  /\ UNCHANGED <<cluster, copies, request, hookQueue, hookWork, left>>

\* A Get or a write fails.
CallFails ==
  /\ Applying /\ Spend("faults")
  /\ Fail
  /\ UNCHANGED <<cluster, copies, request, hookQueue, hookWork>>

Done ==
  /\ setWork # NoSet /\ at \notin DOMAIN setWork.resources
  /\ Return
  /\ UNCHANGED <<cluster, copies, request, queues, hookWork, left>>

-----------------------------------------------------------------------------
ReconcileHook == ListSets \/ PatchResources \/ PatchFails

ReconcileSet ==
  \/ GetSet \/ ReadObject \/ NotManaged \/ Unchanged \/ UpdateObject \/ UpdateConflict
  \/ CreateObject \/ CreateConflict \/ CallFails \/ Done

Users ==
  \/ \E resources \in ResourceLists : EditHook(resources)
  \/ \E k \in ForeignKinds : ForeignCreate(k)
  \/ \E k \in Kinds : UserDelete(k)
  \/ \E w \in UserWrites : UserEdit(w[1], w[2], w[3])

Webhook ==
  \/ SyncWebhook \/ CreateSet \/ SetExists \/ PatchSpec \/ PatchNotFound \/ DeleteSets
  \/ \E head \in Heads : Receive(head)

Deliver == DeliverHook \/ DeliverSet

Next ==
  \/ Users \/ Webhook \/ Deliver \/ Resync \/ ReconcileHook \/ ReconcileSet
  \/ \E k \in Kinds : GarbageCollect(k)

\* The informers deliver, the two workers run, the garbage collector collects.
Fairness ==
  /\ WF_vars(DeliverHook) /\ WF_vars(DeliverSet)
  /\ WF_vars(ReconcileHook) /\ WF_vars(ReconcileSet)
  /\ \A k \in Kinds : WF_vars(GarbageCollect(k))

Spec == Init /\ [][Next]_vars /\ Fairness

-----------------------------------------------------------------------------
Sets == [uid : 1 .. uids, resources : ResourceLists, head : Heads]
Objects == [owner : 1 .. uids \cup {Other}, data : Data]

TypeOK ==
  /\ {hook, hookCached, hookSeen} \subseteq ResourceLists
  /\ {set, setSeen, setWork} \subseteq Sets \cup {NoSet}
  /\ hookWork \in ResourceLists \cup {NoList}
  /\ setStale \in BOOLEAN /\ (~setStale => setSeen = set)
  /\ objects \in [Kinds -> Objects \cup {NoObject}]
  /\ applied \in Objects \cup {NoObject, NotRead} /\ outdated \in BOOLEAN
  /\ applied # NotRead => Applying /\ (~outdated => applied = Current)
  /\ request \in {Idle} \cup [pc : {"create", "patch"}, resources : ResourceLists, head : Heads]
  /\ queues \in BOOLEAN \X BOOLEAN
  /\ setWork = NoSet => at = 1
  /\ setWork # NoSet => at \in 1 .. Len(setWork.resources) + 1
  /\ uids \in Nat /\ left \in Amounts

-----------------------------------------------------------------------------
(* Properties                                                              *)

\* reconciler.go:146, 224: the ownership check and the merge use what was read of the
\* object before it is written. Still the controller writes no object that is not the
\* set's by now, and what users have put under keys the set does not ask for survives.
KeepsTheRest ==
  [][\A k \in Kinds :
       ReconcileSet /\ objects[k] # NoObject /\ objects'[k] # objects[k] =>
         /\ objects[k].owner = setWork.uid
         /\ \A key \in Keys :
              Resource.data[key] = None /\ objects[k].data[key] # None
                => objects'[k].data[key] = objects[k].data[key]]_vars

Holds(s, i) ==
  LET resource == s.resources[i]
      object == objects[resource.kind]
  IN  /\ object # NoObject /\ object.owner = s.uid
      /\ \A key \in Keys : resource.data[key] # None
           => object.data[key] = Render(resource.data, s)[key]

Blocked(s, i) ==
  \E j \in 1 .. i : LET object == objects[s.resources[j].kind]
                    IN  object # NoObject /\ object.owner = Other

Settled ==
  set # NoSet =>
    /\ set.resources = hook
    /\ \A i \in DOMAIN set.resources : Holds(set, i) \/ Blocked(set, i)

\* The webhook may write an older copy of the Webhook's resources after the controller
\* has written the newer ones, and calls may fail. Still, when the Webhook controller
\* has nothing left to hear of or to do, the set has the Webhook's resources: the events
\* alone see to that, without the resync.
HookInStep ==
  hookSeen = hook /\ ~setStale /\ ~hookQueue /\ hookWork = NoList /\ set # NoSet
    => set.resources = hook

\* "the controller will update spec.resources in ResourceSet" and "merge the current
\* resource" (website/versioned_docs/version-0.3/architecture.md:24, 31): if users leave
\* the set's objects alone, the events and the retries see to it that once nobody edits
\* any more, the set has the Webhook's resources, although the webhook may have
\* written older ones after the controller, and each object has what the set asks,
\* unless an object of somebody else is in the way. A conflict, a blocked name and
\* one that still holds the object of a deleted set are errors, and retried
\* (reconciler.go:80).
EventsConverge == left.touches = 0 => <>[]Settled

\* With the resync it gets there whatever users do to the objects, which the
\* controller does not watch (cmd/controller/manager.go:59): an object that is edited or deleted
\* wakes nobody.
ResyncConverges == WF_vars(Resync) => <>[]Settled
=============================================================================
