---------------------- MODULE ResourceTemplateController ----------------------
(***************************************************************************)
(* The ResourceTemplate controller of pullup-controller                    *)
(* (internal/controller/resourcetemplate), working on ONE ResourceTemplate *)
(* key, with everything that acts on the same API objects: the informer    *)
(* that feeds its cache and its work queue, the users and processes that   *)
(* create, edit and delete the template, the garbage collector, owners of  *)
(* unrelated objects, failing API calls and restarts of the process.       *)
(*                                                                         *)
(* Every call to the API server is a step of its own; the controller's     *)
(* local variables (snap, next, changed, inactive) live between the steps. *)
(* What a patch renders to is an element of Contents, a value of fields    *)
(* that the patches write: the template engine is abstracted, and of the   *)
(* three-way merge is left that a content which the source has already is  *)
(* no difference and changes nothing.                                      *)
(***************************************************************************)
EXTENDS Integers, Sequences

CONSTANTS
  Refs,          \* apiVersion/kind/name of the objects a patch can target
  Contents,      \* what a patch can make of an object
  NoContent,     \* marks an object that does not exist
  Unrenderable,  \* contents whose template fails to render
  Inapplicable,  \* contents that render, but cannot be applied to the source
  Sourced,       \* contents that the source of the patch has already
  PatchLists,    \* the values spec.patches may be given
  MaxEdits,      \* bound: creations and edits of the template
  MaxDeletions,  \* bound: deletions of the template
  MaxForeign,    \* bound: objects created by others
  MaxLosses,     \* bound: children that users delete
  MaxFaults,     \* bound: failed API calls other than Deletes
  MaxDeleteFaults, \* bound: failed Deletes
  MaxCrashes,    \* bound: restarts of the controller process
  MaxTouches     \* bound: status writes that move only lastUpdateTime

Patch == [ref : Refs, content : Contents]

ASSUME ContentsAssumption ==
  /\ NoContent \notin Contents
  /\ Unrenderable \subseteq Contents
  /\ Inapplicable \subseteq Contents
  /\ Sourced \subseteq Contents

ASSUME PatchListsAssumption == PatchLists \subseteq Seq(Patch)

ASSUME BoundsAssumption ==
  /\ {MaxEdits, MaxDeletions, MaxForeign, MaxLosses, MaxFaults, MaxDeleteFaults,
      MaxCrashes, MaxTouches} \subseteq Nat

VARIABLES
  rt,        \* the ResourceTemplate in the API server (uid 0: there is none)
  revision,  \* the API server's revision counter: source of uids and versions
  objs,      \* the objects the patches may target, in the API server
  watch,     \* versions of rt written, not yet delivered to the informer
  cache,     \* the informer's copy of rt
  queued,    \* the key is in the controller's work queue
  pc,        \* where Reconcile is
  snap,      \* the copy of rt this Reconcile works on
  next,      \* index of the patch being applied
  changed,   \* updatedCount + deletedCount > 0
  inactive,  \* refs still to be deleted
  lost,      \* the object checked for the coming Patch has been removed since
  spent      \* how much of each bound has been used

store  == <<rt, revision, watch>>
job    == <<pc, snap, next, changed, inactive>>
local  == <<job, lost>>
vars   == <<store, objs, cache, queued, local, spent>>

-----------------------------------------------------------------------------
(* Data                                                                    *)

Kinds == {"edit", "deletion", "foreign", "loss", "fault", "deleteFault", "crash", "touch",
          "rough"}  \* a mark, not a bound
Bounds == [edit |-> MaxEdits, deletion |-> MaxDeletions, foreign |-> MaxForeign,
           loss |-> MaxLosses,
           fault |-> MaxFaults, deleteFault |-> MaxDeleteFaults,
           crash |-> MaxCrashes, touch |-> MaxTouches]

Template == [uid : Nat, rv : Nat, patches : Seq(Patch), active : SUBSET Refs]
NoTemplate == [uid |-> 0, rv |-> 0, patches |-> <<>>, active |-> {}]

\* An object is owned by the template with that uid, or by nobody pullup knows.
Object == [owner : Nat, content : Contents \cup {NoContent}]
Nobody == 0
Absent == [owner |-> Nobody, content |-> NoContent]

Exists(o) == o.content # NoContent
Foreign(o) == Exists(o) /\ o.owner = Nobody

Targets(patches) == {patches[i].ref : i \in DOMAIN patches}

Renderable(patches) ==
  \A i \in DOMAIN patches : patches[i].content \notin Unrenderable

Applicable(patches) ==
  \A i \in DOMAIN patches : patches[i].content \notin Unrenderable \cup Inapplicable

MutIsControlledBy(o, t) == Exists(o)
IsControlledBy(o, t) == Exists(o) /\ o.owner = t.uid

\* getResourceActivity: what status.active lists and the patches no longer do.
MutInactive(t) == t.active
Inactive(t) == t.active \ Targets(t.patches)

TypeOK ==
  /\ rt \in Template /\ snap \in Template /\ cache \in Template
  /\ watch \in Seq(Template)
  /\ revision \in Nat
  /\ objs \in [Refs -> Object]
  /\ queued \in BOOLEAN /\ changed \in BOOLEAN /\ lost \in BOOLEAN
  /\ pc \in {"idle", "apply", "create", "patch"}
  /\ next \in Nat \ {0}
  /\ inactive \in SUBSET Refs
  /\ spent \in [Kinds -> Nat]
  /\ pc \in {"create", "patch"} => next \in DOMAIN snap.patches
  /\ lost => pc = "patch"

\* "rough" remembers that a writer of the template has not waited for a Reconcile,
\* that a call has failed or the process has ended, or that a list of which a later
\* patch cannot be applied has created an object.
Spend(what, rough) ==
  /\ spent[what] < Bounds[what]
  /\ spent' = [spent EXCEPT ![what] = @ + 1, !["rough"] = IF rough THEN 1 ELSE @]
Note(rough) == spent' = [spent EXCEPT !["rough"] = IF rough THEN 1 ELSE @]

-----------------------------------------------------------------------------
(* The API server's copy of the template, and who writes it                *)

Quiet == pc = "idle" /\ ~queued /\ watch = <<>>

\* Nothing is pending, or only the retries of a list that cannot be applied.
Resting ==
  /\ pc = "idle" /\ watch = <<>>
  /\ queued => ~Applicable(cache.patches)

\* Every write is announced on the watch.
Write(t) ==
  /\ rt' = t
  /\ watch' = Append(watch, t)

WriteNewVersion(t) ==
  /\ Write([t EXCEPT !.rv = revision + 1])
  /\ revision' = revision + 1

\* The webhook (or a user) creates the template: hookutil createResource.
CreateTemplate(patches) ==
  /\ rt.uid = 0
  /\ Spend("edit", ~Resting)
  /\ WriteNewVersion([uid |-> revision + 1, rv |-> 0, patches |-> patches, active |-> {}])
  /\ UNCHANGED <<objs, cache, queued, local>>

\* The webhook replaces /spec, the Trigger controller /spec/patches.
EditTemplate(patches) ==
  /\ rt.uid # 0
  /\ rt.patches # patches
  /\ Spend("edit", ~Resting)
  /\ WriteNewVersion([rt EXCEPT !.patches = patches])
  /\ UNCHANGED <<objs, cache, queued, local>>

\* The webhook's delete action.
DeleteTemplate ==
  /\ rt.uid # 0
  /\ Spend("deletion", ~Resting)
  /\ Write(NoTemplate)
  /\ UNCHANGED <<revision, objs, cache, queued, local>>

-----------------------------------------------------------------------------
(* Objects of others, and the garbage collector                            *)

ForeignCreate(ref, content) ==
  /\ ~Exists(objs[ref])
  /\ Spend("foreign", FALSE)
  /\ objs' = [objs EXCEPT ![ref] = [owner |-> Nobody, content |-> content]]
  /\ UNCHANGED <<store, cache, queued, local>>

Remove(ref) ==
  /\ objs' = [objs EXCEPT ![ref] = Absent]
  /\ lost' = (lost \/ (pc = "patch" /\ snap.patches[next].ref = ref))
  /\ UNCHANGED <<store, cache, queued, job>>

\* A user deletes an object: one of somebody else's, or a child of a template.
UserDelete(ref) ==
  /\ Exists(objs[ref])
  /\ Remove(ref)
  /\ IF Foreign(objs[ref]) THEN UNCHANGED spent ELSE Spend("loss", FALSE)

\* A child whose controller reference names a template that is gone.
GarbageCollect(ref) ==
  /\ Exists(objs[ref])
  /\ objs[ref].owner \notin {Nobody, rt.uid}
  /\ Remove(ref)
  /\ UNCHANGED spent

-----------------------------------------------------------------------------
(* Informer and work queue (manager.go: For(ResourceTemplate), no          *)
(* predicate, no Owns: events on the children are not watched)             *)

Enqueue == queued' = TRUE

Deliver ==
  /\ watch # <<>>
  /\ cache' = Head(watch)
  /\ watch' = Tail(watch)
  /\ Enqueue
  /\ UNCHANGED <<rt, revision, objs, local, spent>>

\* The periodic resync lists the cache into the queue.
Resync ==
  /\ cache.uid # 0
  /\ ~queued
  /\ queued' = TRUE
  /\ UNCHANGED <<store, objs, cache, local, spent>>

-----------------------------------------------------------------------------
(* Reconcile                                                               *)

Return ==
  /\ pc' = "idle"
  /\ snap' = NoTemplate
  /\ next' = 1
  /\ changed' = FALSE
  /\ inactive' = {}
  /\ lost' = FALSE

\* Reconcile returns an error: the key goes back to the queue, rate limited.
MutFail == Return /\ UNCHANGED queued
Fail == Return /\ queued' = TRUE

\* The cached Get finds nothing: Reconcile returns at once.
ReconcileMissing ==
  /\ pc = "idle" /\ queued
  /\ cache.uid = 0
  /\ queued' = FALSE
  /\ UNCHANGED <<store, objs, cache, local, spent>>

\* renderTriggerPatches fails: nothing at all is applied.
RenderError ==
  /\ pc = "idle" /\ queued
  /\ cache.uid # 0
  /\ ~Renderable(cache.patches)
  /\ Fail
  /\ UNCHANGED <<store, objs, cache, spent>>

StartReconcile ==
  /\ pc = "idle" /\ queued
  /\ cache.uid # 0
  /\ Renderable(cache.patches)
  /\ queued' = FALSE
  /\ pc' = "apply"
  /\ snap' = cache
  /\ inactive' = Inactive(cache)
  /\ next' = 1
  /\ changed' = FALSE
  /\ UNCHANGED <<store, objs, cache, lost, spent>>

Applying == pc = "apply" /\ next \in DOMAIN snap.patches
ThisPatch == snap.patches[next]
Current == objs[ThisPatch.ref]

\* The loop moves on; done says whether the result's Reason is not Unchanged.
NextPatch(done) ==
  /\ pc' = "apply"
  /\ next' = next + 1
  /\ changed' = (changed \/ done)
  /\ lost' = FALSE
  /\ UNCHANGED <<snap, inactive, queued>>

\* getPatchGVK or patchObject fails: the loop is left before later patches,
\* the deletions and the status.
InvalidPatch ==
  /\ Applying
  /\ ThisPatch.content \in Inapplicable
  /\ Fail
  /\ UNCHANGED <<store, objs, cache, spent>>

\* The uncached Get of the current object, and what it decides.
ReadExists ==
  /\ Exists(Current) /\ ~IsControlledBy(Current, snap)
  /\ NextPatch(TRUE)

\* newUpdatePatch: the difference of source and desired, applied to current.
Differs(desired, current) == desired \notin Sourced /\ desired # current

MutReadUnchanged ==
  /\ IsControlledBy(Current, snap)
  /\ NextPatch(FALSE)
ReadUnchanged ==
  /\ IsControlledBy(Current, snap)
  /\ ~Differs(ThisPatch.content, Current.content)
  /\ NextPatch(FALSE)

MutReadMissing ==
  /\ ~Exists(Current)
  /\ pc' = "create"
  /\ next' = next + 1
  /\ UNCHANGED <<queued, snap, changed, inactive, lost>>
ReadMissing ==
  /\ ~Exists(Current)
  /\ pc' = "create"
  /\ UNCHANGED <<queued, snap, next, changed, inactive, lost>>

ReadOutdated ==
  /\ IsControlledBy(Current, snap)
  /\ Differs(ThisPatch.content, Current.content)
  /\ pc' = "patch"
  /\ UNCHANGED <<queued, snap, next, changed, inactive, lost>>

ReadCurrent ==
  /\ Applying
  /\ ThisPatch.content \notin Inapplicable
  /\ ReadExists \/ ReadUnchanged \/ ReadMissing \/ ReadOutdated
  /\ UNCHANGED <<store, objs, cache, spent>>

\* Client.Create: the child carries the snapshot's uid as its controller.
MutCreateChild ==
  /\ pc = "create"
  /\ ~Exists(Current)
  /\ objs' = [objs EXCEPT ![ThisPatch.ref] =
                [owner |-> snap.uid, content |-> ThisPatch.content]]
  /\ Note(~Applicable(snap.patches))
  /\ NextPatch(FALSE)
  /\ UNCHANGED <<store, cache>>
CreateChild ==
  /\ pc = "create"
  /\ ~Exists(Current)
  /\ objs' = [objs EXCEPT ![ThisPatch.ref] =
                [owner |-> snap.uid, content |-> ThisPatch.content]]
  /\ Note(~Applicable(snap.patches))
  /\ NextPatch(TRUE)
  /\ UNCHANGED <<store, cache>>

CreateConflict ==
  /\ pc = "create"
  /\ Exists(Current)
  /\ Fail
  /\ UNCHANGED <<store, objs, cache, spent>>

\* Client.Patch carries neither uid nor resourceVersion: it lands on whatever
\* object has the name by now, and leaves its owner alone.
PatchChild ==
  /\ pc = "patch"
  /\ Exists(Current)
  /\ objs' = [objs EXCEPT ![ThisPatch.ref].content = ThisPatch.content]
  /\ NextPatch(TRUE)
  /\ UNCHANGED <<store, cache, spent>>

PatchNotFound ==
  /\ pc = "patch"
  /\ ~Exists(Current)
  /\ Fail
  /\ UNCHANGED <<store, objs, cache, spent>>

\* deleteInactiveResources, in the map's random order: an unconditional Delete
\* by name; NotFound does not count.
Deleting == pc = "apply" /\ next \notin DOMAIN snap.patches

MutDeleteInactive(ref) ==
  /\ Deleting
  /\ ref \in inactive
  /\ inactive' = {}
  /\ objs' = [objs EXCEPT ![ref] = Absent]
  /\ changed' = (changed \/ Exists(objs[ref]))
  /\ UNCHANGED <<store, cache, queued, pc, snap, next, lost, spent>>
DeleteInactive(ref) ==
  /\ Deleting
  /\ ref \in inactive
  /\ inactive' = inactive \ {ref}
  /\ objs' = [objs EXCEPT ![ref] = Absent]
  /\ changed' = (changed \/ Exists(objs[ref]))
  /\ UNCHANGED <<store, cache, queued, pc, snap, next, lost, spent>>

Finishing == Deleting /\ inactive = {}

\* Nothing updated, nothing deleted: the status is left as it is. A key that was
\* queued again meanwhile stays queued.
MutFinishUnchanged ==
  /\ Finishing /\ ~changed
  /\ Return
  /\ queued' = FALSE
  /\ UNCHANGED <<store, objs, cache, spent>>
FinishUnchanged ==
  /\ Finishing /\ ~changed
  /\ Return
  /\ UNCHANGED <<store, objs, cache, queued, spent>>

\* Status().Update carries the snapshot's uid and resourceVersion.
MutStatusAccepted == rt.uid = snap.uid
StatusAccepted == rt.uid = snap.uid /\ rt.rv = snap.rv

UpdateStatus ==
  /\ Finishing /\ changed
  /\ StatusAccepted
  /\ rt.active # Targets(snap.patches)
  /\ WriteNewVersion([rt EXCEPT !.active = Targets(snap.patches)])
  /\ Return
  /\ UNCHANGED <<objs, cache, queued, spent>>

\* The same list again: only lastUpdateTime moves, if the second has passed.
TouchStatus ==
  /\ Finishing /\ changed
  /\ StatusAccepted
  /\ rt.active = Targets(snap.patches)
  /\ \/ Spend("touch", FALSE) /\ WriteNewVersion(rt)
     \/ UNCHANGED <<store, spent>>
  /\ Return
  /\ UNCHANGED <<objs, cache, queued>>

StatusConflict ==
  /\ Finishing /\ changed
  /\ ~StatusAccepted
  /\ Fail
  /\ UNCHANGED <<store, objs, cache, spent>>

-----------------------------------------------------------------------------
(* Failures                                                                *)

\* An API call other than a Delete fails: Reconcile returns the error.
CallFails ==
  /\ Applying \/ pc \in {"create", "patch"} \/ (Finishing /\ changed)
  /\ Spend("fault", TRUE)
  /\ Fail
  /\ UNCHANGED <<store, objs, cache>>

\* A failed Delete is logged and forgotten.
DeleteFails(ref) ==
  /\ Deleting
  /\ ref \in inactive
  /\ Spend("deleteFault", TRUE)
  /\ inactive' = inactive \ {ref}
  /\ UNCHANGED <<store, objs, cache, queued, pc, snap, next, changed, lost>>

\* The process dies and starts again: the informer lists the template afresh.
Crash ==
  /\ Spend("crash", TRUE)
  /\ Return
  /\ cache' = rt
  /\ watch' = <<>>
  /\ queued' = (rt.uid # 0)
  /\ UNCHANGED <<rt, revision, objs>>

-----------------------------------------------------------------------------
Init ==
  /\ rt = NoTemplate /\ cache = NoTemplate /\ watch = <<>>
  /\ revision = 0
  /\ objs = [ref \in Refs |-> Absent]
  /\ queued = FALSE
  /\ pc = "idle" /\ snap = NoTemplate /\ next = 1
  /\ changed = FALSE /\ inactive = {} /\ lost = FALSE
  /\ spent = [what \in Kinds |-> 0]

Reconcile ==
  \/ ReconcileMissing \/ RenderError \/ StartReconcile
  \/ InvalidPatch \/ ReadCurrent
  \/ CreateChild \/ CreateConflict \/ PatchChild \/ PatchNotFound
  \/ \E ref \in Refs : DeleteInactive(ref)
  \/ FinishUnchanged \/ UpdateStatus \/ TouchStatus \/ StatusConflict

Failure ==
  \/ CallFails
  \/ \E ref \in Refs : DeleteFails(ref)
  \/ Crash

Users ==
  \/ \E patches \in PatchLists : CreateTemplate(patches) \/ EditTemplate(patches)
  \/ DeleteTemplate
  \/ \E ref \in Refs :
       \/ \E content \in Contents \ (Unrenderable \cup Inapplicable) :
            ForeignCreate(ref, content)
       \/ UserDelete(ref)

Collect == \E ref \in Refs : GarbageCollect(ref)

Next == Reconcile \/ Failure \/ Users \/ Collect \/ Deliver \/ Resync

Spec == Init /\ [][Next]_vars

\* The informer, the single worker of the controller and the garbage collector
\* keep running; nobody has to edit anything and nothing has to fail.
EventFairness == WF_vars(Deliver) /\ WF_vars(Reconcile) /\ WF_vars(Collect)

FairSpec == Spec /\ EventFairness

-----------------------------------------------------------------------------
(* Safety                                                                  *)

LooksPatched(ref) ==
  /\ Exists(objs[ref]) /\ Exists(objs'[ref])
  /\ objs'[ref].content # objs[ref].content

\* The ownership check (reconciler.go:332) is made on a copy, and the Patch (355)
\* has no precondition. The controller makes an object that its template does not
\* own look like a patch only when the child it has checked was removed in
\* between, by a user or the garbage collector, and the name was taken by another.
OwnerRespected ==
  \A ref \in Refs : LooksPatched(ref) /\ objs[ref].owner # snap.uid => lost
PatchRespectsOwner == [][OwnerRespected]_vars

\* A list of active objects is recorded only on the version of the spec it was
\* computed from, however many edits and deletions raced with the Reconcile
\* (updateStatus, reconciler.go:124).
StatusOfThisSpec ==
  rt'.uid = rt.uid /\ rt'.active # rt.active => rt'.active = Targets(rt'.patches)
StatusMatchesSpec == [][StatusOfThisSpec]_vars

\* While its snapshot is still the current version, what the controller writes
\* is what the spec asks for: it makes a wanted object have the wanted content,
\* and removes only objects the spec no longer names (getResourceActivity,
\* reconciler.go:439).
Fresh == snap.uid # 0 /\ rt.uid # 0 /\ snap.rv = rt.rv
Asked(ref) ==
  IF Exists(objs'[ref])
  THEN \E i \in DOMAIN rt.patches :
         rt.patches[i] = [ref |-> ref, content |-> objs'[ref].content]
  ELSE ref \notin Targets(rt.patches)
WritesAsked ==
  Fresh /\ (next' # next \/ inactive' # inactive)
    => \A ref \in Refs : objs'[ref] # objs[ref] => Asked(ref)
FreshWritesFollowSpec == [][WritesAsked]_vars

Children == {ref \in Refs : rt.uid # 0 /\ IsControlledBy(objs[ref], rt)}

\* So far every writer of the template has waited and nothing has failed.
Calm == spent["rough"] = 0

\* Unless an edit raced with a Reconcile or something failed: once nothing is
\* pending, no child of the template is left that the patches no longer name; an
\* edit that drops a patch removes its object, even if lists came in between that
\* cannot be rendered, name a target twice or fail before they create anything
\* (deleteInactiveResources, reconciler.go:136).
NoOrphan == Quiet /\ Calm => Children \subseteq Targets(rt.patches)

\* And then status.active lists every child the template has: what a later edit
\* drops is found there and nowhere else (reconciler.go:444).
ChildrenRecorded == Quiet /\ Calm => Children \subseteq rt.active

\* "should removed inactive resources" (test/e2e/trigger_test.go:90): once
\* nothing is pending, a child that the patches no longer name is at least
\* listed in status.active, or nothing will ever remove it.
NoLeak == Quiet => Children \subseteq Targets(rt.patches) \cup rt.active

\* The controller deletes nothing that is "not managed by pullup"
\* (the message of reconciler.go:335).
DeletesOnlyManaged ==
  [][inactive' # inactive
       => \A ref \in Refs : Foreign(objs[ref]) => Exists(objs'[ref])]_vars

\* Nobody's object was ever in the way, none of somebody else's and none of an
\* older template with the same key, and no user has deleted a child.
Unblocked == spent["foreign"] = 0 /\ spent["deletion"] = 0 /\ spent["loss"] = 0

\* What the template asks for is there: for each target, what the last patch for
\* it renders to, unless the source of that patch has it already.
AsAsked ==
  \A i \in DOMAIN rt.patches :
    LET p == rt.patches[i]
    IN  (\A j \in DOMAIN rt.patches : j > i => rt.patches[j].ref # p.ref)
          => /\ IsControlledBy(objs[p.ref], rt)
             /\ objs[p.ref].content = p.content \/ p.content \in Sourced

\* No event and no error is forgotten: whatever edits, failed calls and restarts
\* there were, the controller comes to rest only on a list that can be applied
\* and, unless a name was ever blocked, with all of it applied
\* (handleResourceTemplate, reconciler.go:84-122).
NothingForgotten == Quiet => Applicable(rt.patches) /\ (Unblocked => AsAsked)

-----------------------------------------------------------------------------
(* Liveness                                                                *)

\* Every object the template asks for is there as asked, or its name is taken
\* by an object of somebody else; no child of an older template is left.
Settled ==
  /\ \A ref \in Refs : objs[ref].owner \in {Nobody, rt.uid}
  /\ rt.uid # 0 /\ Applicable(rt.patches) =>
       \A i \in DOMAIN rt.patches :
         LET o == objs[rt.patches[i].ref]
         IN  \/ Foreign(o)
             \/ IsControlledBy(o, rt) /\ o.content = rt.patches[i].content

\* After the last edit and the last failure the watch's events and the retries
\* alone take the controller there, and it stays there, unless a name was ever
\* blocked or a child deleted by a user: nothing announces that a name is free
\* again (manager.go:65, no Owns).
EventsConverge == []Unblocked => <>[]Settled

\* With the periodic resync it gets there whatever has happened before.
ResyncConverges == WF_vars(Resync) => <>[]Settled
=============================================================================
