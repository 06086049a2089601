------------------------ MODULE ResourceTemplateProofs ------------------------
(***************************************************************************)
(* Theorems about ResourceTemplateController, for all values of its        *)
(* constants, proved with TLAPS.                                           *)
(***************************************************************************)
EXTENDS ResourceTemplateController, TLAPS

-----------------------------------------------------------------------------
(* Type correctness                                                        *)

\* Using up a part of a bound keeps the record of bounds well typed.
LEMMA SpendType ==
  ASSUME spent \in [Kinds -> Nat], NEW what \in Kinds, NEW rough, Spend(what, rough)
  PROVE  spent' \in [Kinds -> Nat]
BY DEF Spend, Kinds

\* A mark moves nothing but itself.
LEMMA NoteKeeps ==
  ASSUME spent \in [Kinds -> Nat], NEW rough, Note(rough)
  PROVE  /\ spent' \in [Kinds -> Nat]
         /\ \A what \in Kinds : what # "rough" => spent'[what] = spent[what]
         /\ Unblocked' = Unblocked
BY DEF Note, Kinds, Unblocked

\* The empty template is a template.
LEMMA NoTemplateType == NoTemplate \in Template
<1>1. <<>> \in Seq(Patch)
  OBVIOUS
<1>2. QED
  BY <1>1 DEF NoTemplate, Template

\* A write announces a template of the right type on the watch.
LEMMA WriteType ==
  ASSUME TypeOK, NEW t \in Template, Write(t)
  PROVE  rt' \in Template /\ watch' \in Seq(Template)
BY DEF TypeOK, Write

\* A write with a new version keeps the store well typed.
LEMMA WriteNewVersionType ==
  ASSUME TypeOK, NEW t \in Template, WriteNewVersion(t)
  PROVE  rt' \in Template /\ watch' \in Seq(Template) /\ revision' \in Nat
<1>1. [t EXCEPT !.rv = revision + 1] \in Template
  <2>1. revision + 1 \in Nat
    BY DEF TypeOK
  <2>2. QED
    BY <2>1 DEF Template
<1>2. rt' \in Template /\ watch' \in Seq(Template)
  BY <1>1, WriteType DEF WriteNewVersion
<1>3. revision' \in Nat
  BY DEF WriteNewVersion, TypeOK
<1>4. QED
  BY <1>2, <1>3

\* The initial state is well typed.
LEMMA InitType == Init => TypeOK
<1> SUFFICES ASSUME Init PROVE TypeOK
  OBVIOUS
<1>1. NoTemplate \in Template
  BY NoTemplateType
<1>2. objs \in [Refs -> Object]
  BY DEF Init, Absent, Object, Nobody
<1>3. spent \in [Kinds -> Nat]
  BY DEF Init
<1>4. watch \in Seq(Template) /\ inactive \in SUBSET Refs
  BY DEF Init
<1>5. queued \in BOOLEAN /\ changed \in BOOLEAN /\ lost = FALSE
  BY DEF Init
<1>6. pc = "idle" /\ next \in Nat \ {0} /\ revision \in Nat
  BY DEF Init
<1>7. rt \in Template /\ snap \in Template /\ cache \in Template
  BY <1>1 DEF Init
<1>8. QED
  BY <1>2, <1>3, <1>4, <1>5, <1>6, <1>7 DEF TypeOK

\* An object that is removed leaves the state well typed.
LEMMA RemoveType ==
  ASSUME TypeOK, NEW ref \in Refs, Remove(ref), spent' \in [Kinds -> Nat]
  PROVE  TypeOK'
<1>1. objs' \in [Refs -> Object]
  BY DEF Remove, TypeOK, Object, Absent, Nobody
<1>2. lost' \in BOOLEAN /\ (lost' => pc = "patch")
  BY DEF Remove, TypeOK
<1>3. QED
  BY <1>1, <1>2 DEF Remove, TypeOK, store, job

\* The users' steps keep the state well typed.
LEMMA UsersType == TypeOK /\ Users => TypeOK'
<1> SUFFICES ASSUME TypeOK, Users PROVE TypeOK'
  OBVIOUS
<1>1. ASSUME NEW patches \in PatchLists, CreateTemplate(patches) PROVE TypeOK'
  <2>1. [uid |-> revision + 1, rv |-> 0, patches |-> patches, active |-> {}] \in Template
    BY PatchListsAssumption DEF TypeOK, Template
  <2>2. rt' \in Template /\ watch' \in Seq(Template) /\ revision' \in Nat
    BY <1>1, <2>1, WriteNewVersionType DEF CreateTemplate
  <2>3. spent' \in [Kinds -> Nat]
    BY <1>1, SpendType DEF CreateTemplate, TypeOK, Kinds
  <2>4. QED
    BY <1>1, <2>2, <2>3 DEF CreateTemplate, TypeOK, local, job
<1>2. ASSUME NEW patches \in PatchLists, EditTemplate(patches) PROVE TypeOK'
  <2>1. [rt EXCEPT !.patches = patches] \in Template
    BY PatchListsAssumption DEF TypeOK, Template
  <2>2. rt' \in Template /\ watch' \in Seq(Template) /\ revision' \in Nat
    BY <1>2, <2>1, WriteNewVersionType DEF EditTemplate
  <2>3. spent' \in [Kinds -> Nat]
    BY <1>2, SpendType DEF EditTemplate, TypeOK, Kinds
  <2>4. QED
    BY <1>2, <2>2, <2>3 DEF EditTemplate, TypeOK, local, job
<1>3. ASSUME DeleteTemplate PROVE TypeOK'
  <2>1. rt' \in Template /\ watch' \in Seq(Template)
    BY <1>3, NoTemplateType, WriteType DEF DeleteTemplate
  <2>2. spent' \in [Kinds -> Nat]
    BY <1>3, SpendType DEF DeleteTemplate, TypeOK, Kinds
  <2>3. QED
    BY <1>3, <2>1, <2>2 DEF DeleteTemplate, TypeOK, local, job
<1>4. ASSUME NEW ref \in Refs, NEW content \in Contents, ForeignCreate(ref, content)
      PROVE  TypeOK'
  <2>1. objs' \in [Refs -> Object]
    BY <1>4 DEF ForeignCreate, TypeOK, Object, Nobody
  <2>2. spent' \in [Kinds -> Nat]
    BY <1>4, SpendType DEF ForeignCreate, TypeOK, Kinds
  <2>3. QED
    BY <1>4, <2>1, <2>2 DEF ForeignCreate, TypeOK, store, local, job
<1>5. ASSUME NEW ref \in Refs, UserDelete(ref) PROVE TypeOK'
  <2>1. spent' \in [Kinds -> Nat]
    BY <1>5, SpendType DEF UserDelete, TypeOK, Kinds
  <2>2. QED
    BY <1>5, <2>1, RemoveType DEF UserDelete
<1>6. QED
  BY <1>1, <1>2, <1>3, <1>4, <1>5 DEF Users

\* The end of a Reconcile resets the controller's local variables.
LEMMA ReturnType ==
  ASSUME Return
  PROVE  /\ snap' \in Template /\ next' \in Nat \ {0} /\ changed' \in BOOLEAN
         /\ inactive' \in SUBSET Refs /\ pc' = "idle" /\ lost' = FALSE
<1>1. snap' \in Template
  BY NoTemplateType DEF Return
<1>2. next' \in Nat \ {0} /\ inactive' \in SUBSET Refs /\ pc' = "idle" /\ lost' = FALSE
  BY DEF Return
<1>3. changed' \in BOOLEAN
  BY DEF Return
<1>4. QED
  BY <1>1, <1>2, <1>3

\* The elements of a list of patches are patches.
LEMMA PatchType ==
  ASSUME NEW patches \in Seq(Patch), NEW i \in DOMAIN patches
  PROVE  /\ patches[i] \in Patch
         /\ patches[i].ref \in Refs /\ patches[i].content \in Contents
<1>1. patches[i] \in Patch
  OBVIOUS
<1>2. QED
  BY <1>1 DEF Patch

\* A list of patches targets known objects.
LEMMA TargetsType ==
  ASSUME NEW patches \in Seq(Patch)
  PROVE  Targets(patches) \subseteq Refs
BY PatchType DEF Targets

\* The loop's step from one patch to the next keeps the local variables typed.
LEMMA NextPatchType ==
  ASSUME TypeOK, NEW done \in BOOLEAN, NextPatch(done), objs' \in [Refs -> Object],
         UNCHANGED <<rt, revision, watch, cache>>, spent' \in [Kinds -> Nat]
  PROVE  TypeOK'
<1>1. changed' \in BOOLEAN /\ queued' \in BOOLEAN
  BY DEF NextPatch, TypeOK
<1>2. next' \in Nat \ {0} /\ pc' = "apply" /\ lost' = FALSE
  BY DEF NextPatch, TypeOK
<1>3. QED
  BY <1>1, <1>2 DEF NextPatch, TypeOK

\* The controller's steps keep the state well typed.
LEMMA ReconcileType == TypeOK /\ Reconcile => TypeOK'
<1> SUFFICES ASSUME TypeOK, Reconcile PROVE TypeOK'
  OBVIOUS
<1>1. CASE ReconcileMissing
  BY <1>1 DEF ReconcileMissing, TypeOK, store, local, job
<1>2. CASE RenderError \/ InvalidPatch \/ CreateConflict \/ PatchNotFound \/ StatusConflict
  BY <1>2, ReturnType
  DEF RenderError, InvalidPatch, CreateConflict, PatchNotFound, StatusConflict,
      Fail, TypeOK, store
<1>3. CASE StartReconcile
  <2>1. inactive' \in SUBSET Refs
    BY <1>3 DEF StartReconcile, Inactive, TypeOK, Template
  <2>2. snap' \in Template /\ next' \in Nat \ {0} /\ pc' = "apply"
    BY <1>3 DEF StartReconcile, TypeOK
  <2>3. queued' \in BOOLEAN /\ changed' \in BOOLEAN
    BY <1>3 DEF StartReconcile
  <2>4. QED
    BY <1>3, <2>1, <2>2, <2>3 DEF StartReconcile, TypeOK, store
<1>4. CASE ReadCurrent
  <2>1. UNCHANGED <<rt, revision, watch, objs, cache, spent>>
    BY <1>4 DEF ReadCurrent, store
  <2>2. CASE ReadExists \/ ReadUnchanged
    BY <2>1, <2>2, NextPatchType DEF ReadExists, ReadUnchanged, TypeOK
  <2>3. CASE ReadMissing \/ ReadOutdated
    BY <1>4, <2>1, <2>3 DEF ReadCurrent, Applying, ReadMissing, ReadOutdated, TypeOK
  <2>4. QED
    BY <1>4, <2>2, <2>3 DEF ReadCurrent
<1>5. CASE CreateChild \/ PatchChild
  <2>1. ThisPatch.ref \in Refs /\ ThisPatch.content \in Contents
    <3>1. snap.patches \in Seq(Patch) /\ next \in DOMAIN snap.patches
      BY <1>5 DEF CreateChild, PatchChild, TypeOK, Template
    <3>2. QED
      BY <3>1, PatchType DEF ThisPatch
  <2>2. objs' \in [Refs -> Object]
    <3>1. snap.uid \in Nat /\ objs \in [Refs -> Object]
      BY DEF TypeOK, Template
    <3>2. CASE CreateChild
      BY <2>1, <3>1, <3>2 DEF CreateChild, Object
    <3>3. CASE PatchChild
      BY <2>1, <3>1, <3>3 DEF PatchChild, Object
    <3>4. QED
      BY <1>5, <3>2, <3>3
  <2>3. NextPatch(TRUE) /\ UNCHANGED <<rt, revision, watch, cache>>
    BY <1>5 DEF CreateChild, PatchChild, store
  <2>4. spent' \in [Kinds -> Nat]
    BY <1>5, NoteKeeps DEF CreateChild, PatchChild, TypeOK
  <2>5. QED
    BY <2>2, <2>3, <2>4, NextPatchType
<1>6. ASSUME NEW ref \in Refs, DeleteInactive(ref) PROVE TypeOK'
  <2>1. objs' \in [Refs -> Object]
    BY <1>6 DEF DeleteInactive, TypeOK, Object, Absent, Nobody
  <2>2. inactive' \in SUBSET Refs /\ changed' \in BOOLEAN
    BY <1>6 DEF DeleteInactive, TypeOK, Exists
  <2>3. QED
    BY <1>6, <2>1, <2>2 DEF DeleteInactive, TypeOK, store
<1>7. CASE FinishUnchanged
  BY <1>7, ReturnType DEF FinishUnchanged, TypeOK, store
<1>8. CASE UpdateStatus
  <2>1. Targets(snap.patches) \subseteq Refs
    <3>1. snap.patches \in Seq(Patch)
      BY DEF TypeOK, Template
    <3>2. QED
      BY <3>1, TargetsType
  <2>2. [rt EXCEPT !.active = Targets(snap.patches)] \in Template
    BY <2>1 DEF TypeOK, Template
  <2>3. rt' \in Template /\ watch' \in Seq(Template) /\ revision' \in Nat
    BY <1>8, <2>2, WriteNewVersionType DEF UpdateStatus
  <2>4. QED
    BY <1>8, <2>3, ReturnType DEF UpdateStatus, TypeOK
<1>9. CASE TouchStatus
  <2>1. rt' \in Template /\ watch' \in Seq(Template) /\ revision' \in Nat
    BY <1>9, WriteNewVersionType DEF TouchStatus, TypeOK, store
  <2>2. spent' \in [Kinds -> Nat]
    BY <1>9, SpendType DEF TouchStatus, TypeOK, Kinds
  <2>3. QED
    BY <1>9, <2>1, <2>2, ReturnType DEF TouchStatus, TypeOK
<1>10. QED
  BY <1>1, <1>2, <1>3, <1>4, <1>5, <1>6, <1>7, <1>8, <1>9 DEF Reconcile

\* Every step keeps the state well typed.
LEMMA NextType == TypeOK /\ [Next]_vars => TypeOK'
<1> SUFFICES ASSUME TypeOK, [Next]_vars PROVE TypeOK'
  OBVIOUS
<1>1. CASE Reconcile
  BY <1>1, ReconcileType
<1>2. CASE Users
  BY <1>2, UsersType
<1>3. CASE CallFails
  <2>1. spent' \in [Kinds -> Nat]
    BY <1>3, SpendType DEF CallFails, TypeOK, Kinds
  <2>2. QED
    BY <1>3, <2>1, ReturnType DEF CallFails, Fail, TypeOK, store
<1>4. ASSUME NEW ref \in Refs, DeleteFails(ref) PROVE TypeOK'
  <2>1. spent' \in [Kinds -> Nat]
    BY <1>4, SpendType DEF DeleteFails, TypeOK, Kinds
  <2>2. QED
    BY <1>4, <2>1 DEF DeleteFails, Deleting, TypeOK, store
<1>5. CASE Crash
  <2>1. spent' \in [Kinds -> Nat]
    BY <1>5, SpendType DEF Crash, TypeOK, Kinds
  <2>2. watch' \in Seq(Template)
    BY <1>5 DEF Crash
  <2>3. QED
    BY <1>5, <2>1, <2>2, ReturnType DEF Crash, TypeOK
<1>6. CASE Collect
  <2>1. PICK ref \in Refs : GarbageCollect(ref)
    BY <1>6 DEF Collect
  <2>2. spent' \in [Kinds -> Nat]
    BY <2>1 DEF GarbageCollect, TypeOK
  <2>3. QED
    BY <2>1, <2>2, RemoveType DEF GarbageCollect
<1>7. CASE Deliver
  <2>1. cache' \in Template /\ watch' \in Seq(Template)
    BY <1>7 DEF Deliver, TypeOK
  <2>2. QED
    BY <1>7, <2>1 DEF Deliver, Enqueue, TypeOK, local, job
<1>8. CASE Resync
  BY <1>8 DEF Resync, TypeOK, store, local, job
<1>9. CASE UNCHANGED vars
  BY <1>9 DEF vars, store, local, job, TypeOK
<1>10. QED
  BY <1>1, <1>2, <1>3, <1>4, <1>5, <1>6, <1>7, <1>8, <1>9 DEF Next, Failure

\* Every variable keeps its type, and an object call in flight belongs to a
\* patch of the snapshot (the loop of handleResourceTemplate).
THEOREM TypeCorrect == Spec => []TypeOK
<1>1. Init => TypeOK
  BY InitType
<1>2. TypeOK /\ [Next]_vars => TypeOK'
  BY NextType
<1>3. QED
  BY <1>1, <1>2, PTL DEF Spec

-----------------------------------------------------------------------------
(* The inductive invariant                                                 *)

\* A copy of the template is no newer than the server, and if it has the
\* server's version it has the server's patches.
FaithfulCopy(t) ==
  /\ t.rv <= revision /\ t.uid <= revision
  /\ rt.uid # 0 /\ t.uid # 0 /\ t.rv = rt.rv => t.patches = rt.patches

CopiesInv ==
  /\ FaithfulCopy(rt) /\ FaithfulCopy(cache) /\ FaithfulCopy(snap)
  /\ \A i \in DOMAIN watch : FaithfulCopy(watch[i])

\* What the local variables of Reconcile say of the API server while it runs:
\* the ownership check made before a Patch still holds, unless somebody has
\* removed the object that was checked.
JobInv ==
  /\ pc # "idle" => snap.uid # 0
  /\ inactive \cap Targets(snap.patches) = {}
  /\ pc = "patch" /\ ~lost => IsControlledBy(Current, snap)

IInv == TypeOK /\ CopiesInv /\ JobInv

\* The empty template is a faithful copy of anything.
LEMMA NoTemplateFaithful == TypeOK => FaithfulCopy(NoTemplate)
BY DEF TypeOK, FaithfulCopy, NoTemplate

\* Delivered, forgotten and copied versions: CopiesInv survives every step that
\* leaves the template alone and takes its copies from copies it already had.
LEMMA CopiesKept ==
  ASSUME TypeOK, TypeOK', CopiesInv, rt' = rt, revision' = revision,
         cache' \in {cache, rt, NoTemplate} \cup {watch[i] : i \in DOMAIN watch},
         snap' \in {snap, cache, NoTemplate},
         \A i \in DOMAIN watch' : \E j \in DOMAIN watch : watch'[i] = watch[j]
  PROVE  CopiesInv'
<1>1. ASSUME NEW t, FaithfulCopy(t) PROVE FaithfulCopy(t)'
  BY <1>1 DEF FaithfulCopy
<1>2. FaithfulCopy(NoTemplate)
  BY NoTemplateFaithful
<1>3. FaithfulCopy(rt)'
  BY <1>1 DEF CopiesInv, FaithfulCopy
<1>4. FaithfulCopy(cache)'
  BY <1>2 DEF CopiesInv, FaithfulCopy
<1>5. FaithfulCopy(snap)'
  BY <1>2 DEF CopiesInv, FaithfulCopy
<1>6. \A i \in DOMAIN watch' : FaithfulCopy(watch[i])'
  BY DEF CopiesInv, FaithfulCopy
<1>7. QED
  BY <1>3, <1>4, <1>5, <1>6 DEF CopiesInv

\* What is on the watch after a write was there before, or is the new template.
LEMMA WrittenElements ==
  ASSUME TypeOK, NEW t \in Template, Write(t), NEW i \in DOMAIN watch'
  PROVE  watch'[i] = rt' \/ \E j \in DOMAIN watch : watch'[i] = watch[j]
<1>1. watch \in Seq(Template) /\ watch' = Append(watch, t) /\ rt' = t
  BY DEF TypeOK, Write
<1>2. DOMAIN watch' = 1 .. Len(watch) + 1 /\ DOMAIN watch = 1 .. Len(watch)
  BY <1>1
<1>3. CASE i = Len(watch) + 1
  BY <1>1, <1>3
<1>4. CASE i \in 1 .. Len(watch)
  <2>1. watch'[i] = watch[i]
    BY <1>1, <1>4
  <2>2. QED
    BY <2>1, <1>2, <1>4
<1>5. QED
  BY <1>2, <1>3, <1>4

\* A new version is newer than every copy.
LEMMA CopiesNewVersion ==
  ASSUME TypeOK, CopiesInv, NEW t \in Template, WriteNewVersion(t), t.uid <= revision + 1,
         cache' = cache, snap' \in {snap, NoTemplate}
  PROVE  CopiesInv'
<1> DEFINE new == [t EXCEPT !.rv = revision + 1]
<1>1. /\ rt' = new /\ revision' = revision + 1 /\ Write(new)
      /\ rt'.rv = revision + 1 /\ rt'.uid = t.uid
  BY DEF WriteNewVersion, Write, Template
<1>2. new \in Template /\ revision \in Nat
  <2>1. revision \in Nat /\ revision + 1 \in Nat
    BY DEF TypeOK
  <2>2. QED
    BY <2>1 DEF Template
<1>3. FaithfulCopy(rt)'
  BY <1>1, <1>2 DEF FaithfulCopy
<1>4. ASSUME NEW v \in Template, v.rv <= revision, v.uid <= revision
      PROVE  /\ v.rv <= revision' /\ v.uid <= revision' /\ v.rv # rt'.rv
  BY <1>1, <1>2, <1>4 DEF Template
<1>5. FaithfulCopy(cache)'
  BY <1>4 DEF CopiesInv, FaithfulCopy, TypeOK
<1>6. FaithfulCopy(snap)'
  <2>1. CASE snap' = snap
    BY <1>4, <2>1 DEF CopiesInv, FaithfulCopy, TypeOK
  <2>2. CASE snap' = NoTemplate
    BY <1>1, <1>2, <2>2 DEF FaithfulCopy, NoTemplate
  <2>3. QED
    BY <2>1, <2>2
<1>7. ASSUME NEW i \in DOMAIN watch' PROVE FaithfulCopy(watch[i])'
  <2>1. CASE watch'[i] = rt'
    BY <1>3, <2>1 DEF FaithfulCopy
  <2>2. ASSUME NEW j \in DOMAIN watch, watch'[i] = watch[j] PROVE FaithfulCopy(watch[i])'
    <3>1. watch[j] \in Template
      BY DEF TypeOK
    <3>2. watch[j].rv <= revision /\ watch[j].uid <= revision
      BY DEF CopiesInv, FaithfulCopy
    <3>3. QED
      BY <1>4, <2>2, <3>1, <3>2 DEF FaithfulCopy
  <2>3. QED
    BY <1>1, <1>2, <2>1, <2>2, WrittenElements
<1>8. QED
  BY <1>3, <1>5, <1>6, <1>7 DEF CopiesInv

\* A deletion leaves no template that a copy could misrepresent.
LEMMA CopiesDeletion ==
  ASSUME TypeOK, CopiesInv, DeleteTemplate
  PROVE  CopiesInv'
<1>1. rt' = NoTemplate /\ revision' = revision /\ cache' = cache /\ snap' = snap
      /\ Write(NoTemplate)
  BY DEF DeleteTemplate, Write, local, job
<1>2. rt'.uid = 0 /\ rt'.rv = 0 /\ revision \in Nat
  BY <1>1 DEF NoTemplate, TypeOK
<1>3. FaithfulCopy(rt)' /\ FaithfulCopy(cache)' /\ FaithfulCopy(snap)'
  BY <1>1, <1>2 DEF CopiesInv, FaithfulCopy
<1>4. ASSUME NEW i \in DOMAIN watch' PROVE FaithfulCopy(watch[i])'
  <2>1. watch'[i] = rt' \/ \E j \in DOMAIN watch : watch'[i] = watch[j]
    BY <1>1, NoTemplateType, WrittenElements
  <2>2. QED
    BY <1>1, <1>2, <2>1 DEF CopiesInv, FaithfulCopy
<1>5. QED
  BY <1>3, <1>4 DEF CopiesInv

\* Every step keeps the copies faithful.
LEMMA CopiesStep ==
  ASSUME TypeOK, CopiesInv, [Next]_vars
  PROVE  CopiesInv'
<1>0. TypeOK'
  BY NextType
<1>1. CASE UNCHANGED <<rt, revision, watch, cache>> /\ snap' \in {snap, NoTemplate}
  BY <1>0, <1>1, CopiesKept
<1>2. CASE Reconcile
  <2>1. CASE \/ ReconcileMissing \/ RenderError \/ InvalidPatch \/ CreateConflict
             \/ PatchNotFound \/ FinishUnchanged \/ StatusConflict
    BY <1>1, <2>1 DEF ReconcileMissing, RenderError, InvalidPatch, CreateConflict,
                      PatchNotFound, FinishUnchanged, StatusConflict, Fail, Return,
                      store, local, job
  <2>2. CASE ReadCurrent \/ CreateChild \/ PatchChild
    BY <1>1, <2>2 DEF ReadCurrent, ReadExists, ReadUnchanged, ReadMissing, ReadOutdated,
                      CreateChild, PatchChild, NextPatch, store
  <2>3. CASE \E ref \in Refs : DeleteInactive(ref)
    BY <1>1, <2>3 DEF DeleteInactive, store
  <2>4. CASE StartReconcile
    BY <1>0, <2>4, CopiesKept DEF StartReconcile, store
  <2>5. CASE UpdateStatus
    <3>1. Targets(snap.patches) \subseteq Refs
      BY TargetsType DEF TypeOK, Template
    <3>2. [rt EXCEPT !.active = Targets(snap.patches)] \in Template
      BY <3>1 DEF TypeOK, Template
    <3>3. [rt EXCEPT !.active = Targets(snap.patches)].uid <= revision + 1
      BY DEF TypeOK, Template, CopiesInv, FaithfulCopy
    <3>4. QED
      BY <2>5, <3>2, <3>3, CopiesNewVersion DEF UpdateStatus, Return
  <2>6. CASE TouchStatus
    <3>1. CASE UNCHANGED store
      BY <1>1, <2>6, <3>1 DEF TouchStatus, Return, store
    <3>2. CASE WriteNewVersion(rt)
      <4>1. rt \in Template /\ rt.uid <= revision + 1
        BY DEF TypeOK, Template, CopiesInv, FaithfulCopy
      <4>2. QED
        BY <2>6, <3>2, <4>1, CopiesNewVersion DEF TouchStatus, Return
    <3>3. QED
      BY <2>6, <3>1, <3>2 DEF TouchStatus
  <2>7. QED
    BY <1>2, <2>1, <2>2, <2>3, <2>4, <2>5, <2>6 DEF Reconcile
<1>3. CASE Failure
  <2>1. CASE CallFails
    BY <1>1, <2>1 DEF CallFails, Fail, Return, store
  <2>2. CASE \E ref \in Refs : DeleteFails(ref)
    BY <1>1, <2>2 DEF DeleteFails, store
  <2>3. CASE Crash
    <3>1. DOMAIN watch' = {}
      BY <2>3 DEF Crash
    <3>2. QED
      BY <1>0, <2>3, <3>1, CopiesKept DEF Crash, Return
  <2>4. QED
    BY <1>3, <2>1, <2>2, <2>3 DEF Failure
<1>4. CASE Users
  <2>1. ASSUME NEW patches \in PatchLists, CreateTemplate(patches) PROVE CopiesInv'
    <3> DEFINE t == [uid |-> revision + 1, rv |-> 0, patches |-> patches, active |-> {}]
    <3>1. t \in Template /\ t.uid <= revision + 1
      BY PatchListsAssumption DEF TypeOK, Template
    <3>2. QED
      BY <2>1, <3>1, CopiesNewVersion DEF CreateTemplate, local, job
  <2>2. ASSUME NEW patches \in PatchLists, EditTemplate(patches) PROVE CopiesInv'
    <3> DEFINE t == [rt EXCEPT !.patches = patches]
    <3>1. t \in Template
      BY PatchListsAssumption DEF TypeOK, Template
    <3>2. t.uid <= revision + 1
      BY DEF TypeOK, Template, CopiesInv, FaithfulCopy
    <3>3. QED
      BY <2>2, <3>1, <3>2, CopiesNewVersion DEF EditTemplate, local, job
  <2>3. CASE DeleteTemplate
    BY <2>3, CopiesDeletion
  <2>4. ASSUME NEW ref \in Refs,
               UserDelete(ref) \/ \E content \in Contents : ForeignCreate(ref, content)
        PROVE  CopiesInv'
    BY <1>1, <2>4 DEF ForeignCreate, UserDelete, Remove, store, local, job
  <2>5. QED
    BY <1>4, <2>1, <2>2, <2>3, <2>4 DEF Users
<1>5. CASE Collect
  BY <1>1, <1>5 DEF Collect, GarbageCollect, Remove, store, local, job
<1>6. CASE Deliver
  <2>1. watch \in Seq(Template) /\ watch # <<>> /\ watch' = Tail(watch)
        /\ cache' = Head(watch)
    BY <1>6 DEF Deliver, TypeOK
  <2>2. cache' = watch[1] /\ 1 \in DOMAIN watch
    BY <2>1
  <2>3. ASSUME NEW i \in DOMAIN watch' PROVE watch'[i] = watch[i + 1] /\ i + 1 \in DOMAIN watch
    BY <2>1
  <2>4. QED
    BY <1>0, <1>6, <2>2, <2>3, CopiesKept DEF Deliver, local, job
<1>7. CASE Resync
  BY <1>1, <1>7 DEF Resync, store, local, job
<1>8. CASE UNCHANGED vars
  BY <1>1, <1>8 DEF vars, store, local, job
<1>9. QED
  BY <1>2, <1>3, <1>4, <1>5, <1>6, <1>7, <1>8 DEF Next

\* Outside a Reconcile there is nothing to say.
LEMMA JobIdle ==
  ASSUME pc' = "idle", inactive' = {}
  PROVE  JobInv'
BY DEF JobInv

\* Steps of others keep a running Reconcile's knowledge, as long as they take no
\* object from under the coming Patch unnoticed.
LEMMA JobUndisturbed ==
  ASSUME JobInv, UNCHANGED job, lost' \/ ~lost,
         pc = "patch" /\ ~lost' /\ IsControlledBy(Current, snap)
           => objs'[ThisPatch.ref] = objs[ThisPatch.ref]
  PROVE  JobInv'
<1>1. pc' = pc /\ snap' = snap /\ inactive' = inactive /\ next' = next
  BY DEF job
<1>2. ASSUME pc = "patch", ~lost'
      PROVE  IsControlledBy(Current, snap)'
  <2>1. IsControlledBy(objs[ThisPatch.ref], snap)
    BY <1>2 DEF JobInv, Current
  <2>2. objs'[ThisPatch.ref] = objs[ThisPatch.ref]
    BY <1>2, <2>1 DEF Current
  <2>3. QED
    BY <1>1, <2>1, <2>2 DEF Current, ThisPatch, IsControlledBy, Exists
<1>3. QED
  BY <1>1, <1>2 DEF JobInv

\* Whoever removes the object that a Patch is due for is noticed.
LEMMA JobRemove ==
  ASSUME TypeOK, JobInv, NEW ref \in Refs, Remove(ref)
  PROVE  JobInv'
<1>1. \A r : r # ref => objs'[r] = objs[r]
  BY DEF Remove, TypeOK
<1>2. pc = "patch" /\ ~lost' => ThisPatch.ref # ref
  BY DEF Remove, ThisPatch
<1>3. QED
  BY <1>1, <1>2, JobUndisturbed DEF Remove

\* A call in flight targets a known object.
LEMMA ThisPatchType ==
  ASSUME TypeOK, next \in DOMAIN snap.patches
  PROVE  ThisPatch.ref \in Refs /\ ThisPatch.content \in Contents
<1>1. snap.patches \in Seq(Patch)
  BY DEF TypeOK, Template
<1>2. QED
  BY <1>1, PatchType DEF ThisPatch

\* Every step keeps what Reconcile knows.
LEMMA JobStep ==
  ASSUME TypeOK, JobInv, [Next]_vars
  PROVE  JobInv'
<1>0. pc = "patch" => ThisPatch.ref \in Refs
  BY ThisPatchType DEF TypeOK
<1>1. CASE Reconcile
  <2>1. CASE \/ RenderError \/ InvalidPatch \/ CreateConflict \/ PatchNotFound
             \/ FinishUnchanged \/ StatusConflict \/ UpdateStatus \/ TouchStatus
    BY <2>1, JobIdle
    DEF RenderError, InvalidPatch, CreateConflict, PatchNotFound, FinishUnchanged,
        StatusConflict, UpdateStatus, TouchStatus, Fail, Return
  <2>2. CASE ReconcileMissing
    BY <2>2, JobUndisturbed DEF ReconcileMissing, local
  <2>3. CASE StartReconcile
    BY <2>3 DEF StartReconcile, Inactive, JobInv
  <2>4. CASE CreateChild \/ PatchChild
    BY <2>4 DEF CreateChild, PatchChild, NextPatch, JobInv
  <2>5. CASE ReadCurrent
    <3>1. CASE ReadExists \/ ReadUnchanged
      BY <2>5, <3>1 DEF ReadCurrent, Applying, ReadExists, ReadUnchanged, NextPatch, JobInv
    <3>2. CASE ReadMissing
      BY <2>5, <3>2 DEF ReadCurrent, Applying, ReadMissing, JobInv
    <3>3. CASE ReadOutdated
      BY <2>5, <3>3 DEF ReadCurrent, Applying, ReadOutdated, JobInv, Current, ThisPatch,
                        IsControlledBy, Exists
    <3>4. QED
      BY <2>5, <3>1, <3>2, <3>3 DEF ReadCurrent
  <2>6. ASSUME NEW ref \in Refs, DeleteInactive(ref) PROVE JobInv'
    BY <2>6 DEF DeleteInactive, Deleting, JobInv
  <2>7. QED
    BY <1>1, <2>1, <2>2, <2>3, <2>4, <2>5, <2>6 DEF Reconcile
<1>2. CASE Failure
  <2>1. CASE CallFails \/ Crash
    BY <2>1, JobIdle DEF CallFails, Crash, Fail, Return
  <2>2. ASSUME NEW ref \in Refs, DeleteFails(ref) PROVE JobInv'
    BY <2>2 DEF DeleteFails, Deleting, JobInv
  <2>3. QED
    BY <1>2, <2>1, <2>2 DEF Failure
<1>3. CASE Users
  <2>1. CASE \/ \E patches \in PatchLists : CreateTemplate(patches) \/ EditTemplate(patches)
             \/ DeleteTemplate
    <3>1. UNCHANGED <<objs, local>>
      BY <2>1 DEF CreateTemplate, EditTemplate, DeleteTemplate
    <3>2. QED
      BY <3>1, JobUndisturbed DEF local
  <2>2. ASSUME NEW ref \in Refs, NEW content \in Contents, ForeignCreate(ref, content)
        PROVE  JobInv'
    <3>1. ~Exists(objs[ref]) /\ UNCHANGED local
      BY <2>2 DEF ForeignCreate
    <3>2. \A r \in Refs : r # ref => objs'[r] = objs[r]
      BY <2>2 DEF ForeignCreate, TypeOK
    <3>3. \A r \in Refs : IsControlledBy(objs[r], snap) => objs'[r] = objs[r]
      BY <3>1, <3>2 DEF IsControlledBy
    <3>4. QED
      BY <1>0, <3>1, <3>3, JobUndisturbed DEF local, Current
  <2>3. ASSUME NEW ref \in Refs, UserDelete(ref) PROVE JobInv'
    BY <2>3, JobRemove DEF UserDelete
  <2>4. QED
    BY <1>3, <2>1, <2>2, <2>3 DEF Users
<1>4. CASE Collect
  BY <1>4, JobRemove DEF Collect, GarbageCollect
<1>5. CASE Deliver \/ Resync \/ UNCHANGED vars
  BY <1>5, JobUndisturbed DEF Deliver, Resync, vars, local
<1>6. QED
  BY <1>1, <1>2, <1>3, <1>4, <1>5 DEF Next

\* The invariant holds initially, and every step keeps it.
THEOREM Invariant == Spec => []IInv
<1>1. Init => IInv
  <2> SUFFICES ASSUME Init PROVE IInv
    OBVIOUS
  <2>1. TypeOK
    BY InitType
  <2>2. CopiesInv
    BY <2>1, NoTemplateFaithful DEF Init, CopiesInv
  <2>3. JobInv
    BY DEF Init, JobInv
  <2>4. QED
    BY <2>1, <2>2, <2>3 DEF IInv
<1>2. IInv /\ [Next]_vars => IInv'
  BY NextType, CopiesStep, JobStep DEF IInv
<1>3. QED
  BY <1>1, <1>2, PTL DEF Spec

-----------------------------------------------------------------------------
(* What no step ever does                                                  *)

\* A Create finds the name free and makes the object as the snapshot asks.
LEMMA CreateEffect ==
  ASSUME TypeOK, CreateChild
  PROVE  /\ ThisPatch.ref \in Refs /\ ThisPatch \in Patch /\ next \in DOMAIN snap.patches
         /\ ~Exists(objs[ThisPatch.ref])
         /\ objs'[ThisPatch.ref] = [owner |-> snap.uid, content |-> ThisPatch.content]
         /\ \A r \in Refs : r # ThisPatch.ref => objs'[r] = objs[r]
<1>1. next \in DOMAIN snap.patches /\ snap.patches \in Seq(Patch)
  BY DEF CreateChild, TypeOK, Template
<1>2. ThisPatch.ref \in Refs /\ ThisPatch \in Patch
  BY <1>1, PatchType DEF ThisPatch
<1>3. QED
  BY <1>1, <1>2 DEF CreateChild, Current, TypeOK

\* A Patch changes one object, and of that only the content.
LEMMA PatchEffect ==
  ASSUME TypeOK, PatchChild
  PROVE  /\ ThisPatch.ref \in Refs /\ ThisPatch \in Patch /\ next \in DOMAIN snap.patches
         /\ objs'[ThisPatch.ref].content = ThisPatch.content
         /\ \A r \in Refs : r # ThisPatch.ref => objs'[r] = objs[r]
<1>1. next \in DOMAIN snap.patches /\ snap.patches \in Seq(Patch)
  BY DEF PatchChild, TypeOK, Template
<1>2. ThisPatch.ref \in Refs /\ ThisPatch \in Patch
  BY <1>1, PatchType DEF ThisPatch
<1>3. QED
  BY <1>1, <1>2 DEF PatchChild, TypeOK, Object

\* No other step makes an object that is there look different.
LEMMA OnlyPatchPatches ==
  ASSUME TypeOK, [Next]_vars, NEW ref \in Refs, LooksPatched(ref)
  PROVE  PatchChild /\ ref = ThisPatch.ref
<1>1. objs'[ref] # objs[ref] /\ Exists(objs[ref]) /\ Exists(objs'[ref])
  BY DEF LooksPatched
<1>2. ~Exists(Absent)
  BY DEF Exists, Absent
<1>3. CASE Reconcile
  <2>1. CASE \/ ReconcileMissing \/ RenderError \/ StartReconcile \/ InvalidPatch
             \/ ReadCurrent \/ CreateConflict \/ PatchNotFound
             \/ FinishUnchanged \/ UpdateStatus \/ TouchStatus \/ StatusConflict
    BY <1>1, <2>1
    DEF ReconcileMissing, RenderError, StartReconcile, InvalidPatch, ReadCurrent,
        CreateConflict, PatchNotFound, FinishUnchanged, UpdateStatus, TouchStatus,
        StatusConflict
  <2>2. CASE CreateChild
    BY <1>1, <2>2, CreateEffect
  <2>3. CASE PatchChild
    BY <1>1, <2>3, PatchEffect
  <2>4. CASE \E r \in Refs : DeleteInactive(r)
    BY <1>1, <1>2, <2>4 DEF DeleteInactive, TypeOK
  <2>5. QED
    BY <1>3, <2>1, <2>2, <2>3, <2>4 DEF Reconcile
<1>4. CASE Failure
  BY <1>1, <1>4 DEF Failure, CallFails, DeleteFails, Crash
<1>5. CASE Users
  <2>1. CASE \/ \E patches \in PatchLists : CreateTemplate(patches) \/ EditTemplate(patches)
             \/ DeleteTemplate
    BY <1>1, <2>1 DEF CreateTemplate, EditTemplate, DeleteTemplate
  <2>2. CASE \E r \in Refs : \E content \in Contents : ForeignCreate(r, content)
    BY <1>1, <2>2 DEF ForeignCreate, TypeOK
  <2>3. CASE \E r \in Refs : UserDelete(r)
    BY <1>1, <1>2, <2>3 DEF UserDelete, Remove, TypeOK
  <2>4. QED
    BY <1>5, <2>1, <2>2, <2>3 DEF Users
<1>6. CASE Collect
  BY <1>1, <1>2, <1>6 DEF Collect, GarbageCollect, Remove, TypeOK
<1>7. CASE Deliver \/ Resync \/ UNCHANGED vars
  BY <1>1, <1>7 DEF Deliver, Resync, vars
<1>8. QED
  BY <1>3, <1>4, <1>5, <1>6, <1>7 DEF Next

\* The controller changes an object that its template does not own only if the
\* child it had checked was removed before the Patch, by a user or the garbage
\* collector (applyResource, reconciler.go:332-355).
THEOREM OwnershipSafety == Spec => PatchRespectsOwner
<1>1. IInv /\ [Next]_vars => OwnerRespected
  <2> SUFFICES ASSUME IInv, [Next]_vars, NEW ref \in Refs, LooksPatched(ref),
                      objs[ref].owner # snap.uid
               PROVE  lost
    BY DEF OwnerRespected
  <2>1. PatchChild /\ ref = ThisPatch.ref
    BY OnlyPatchPatches DEF IInv
  <2>2. pc = "patch" /\ ~IsControlledBy(Current, snap)
    BY <2>1 DEF PatchChild, Current, IsControlledBy
  <2>3. QED
    BY <2>2 DEF IInv, JobInv
<1>2. QED
  BY <1>1, Invariant, PTL DEF Spec, PatchRespectsOwner

\* The status is only ever written for the version of the spec it describes
\* (updateStatus, reconciler.go:124-134).
THEOREM StatusSafety == Spec => StatusMatchesSpec
<1>1. IInv /\ [Next]_vars => StatusOfThisSpec
  <2> SUFFICES ASSUME IInv, [Next]_vars, rt'.uid = rt.uid, rt'.active # rt.active
               PROVE  rt'.active = Targets(rt'.patches)
    BY DEF StatusOfThisSpec
  <2>1. CASE UpdateStatus
    <3>1. rt.uid = snap.uid /\ rt.rv = snap.rv /\ snap.uid # 0
      BY <2>1 DEF UpdateStatus, StatusAccepted, Finishing, Deleting, IInv, JobInv
    <3>2. snap.patches = rt.patches
      BY <3>1 DEF IInv, CopiesInv, FaithfulCopy
    <3>3. rt'.patches = rt.patches /\ rt'.active = Targets(snap.patches)
      BY <2>1 DEF UpdateStatus, WriteNewVersion, Write, IInv, TypeOK, Template
    <3>4. QED
      BY <3>2, <3>3
  <2>2. CASE \E patches \in PatchLists : CreateTemplate(patches)
    BY <2>2 DEF CreateTemplate, WriteNewVersion, Write, IInv, TypeOK, Template
  <2>3. CASE \E patches \in PatchLists : EditTemplate(patches)
    BY <2>3 DEF EditTemplate, WriteNewVersion, Write, IInv, TypeOK, Template
  <2>4. CASE DeleteTemplate
    BY <2>4 DEF DeleteTemplate, Write, NoTemplate
  <2>5. CASE TouchStatus
    BY <2>5 DEF TouchStatus, WriteNewVersion, Write, store, IInv, TypeOK, Template
  <2>6. CASE rt' = rt
    BY <2>6
  <2>7. CASE Reconcile /\ ~UpdateStatus /\ ~TouchStatus
    BY <2>6, <2>7
    DEF Reconcile, ReconcileMissing, RenderError, StartReconcile, InvalidPatch, ReadCurrent,
        CreateChild, CreateConflict, PatchChild, PatchNotFound, DeleteInactive,
        FinishUnchanged, StatusConflict, store
  <2>8. CASE \/ Failure \/ Collect \/ Deliver \/ Resync \/ UNCHANGED vars
             \/ \E ref \in Refs : \/ \E content \in Contents : ForeignCreate(ref, content)
                                  \/ UserDelete(ref)
    BY <2>6, <2>8 DEF Failure, CallFails, DeleteFails, Crash, Collect, GarbageCollect, Remove,
                      Deliver, Resync, vars, ForeignCreate, UserDelete, Remove, store
  <2>9. QED
    BY <2>1, <2>2, <2>3, <2>4, <2>5, <2>7, <2>8 DEF Next, Users
<1>2. QED
  BY <1>1, Invariant, PTL DEF Spec, StatusMatchesSpec

\* A Create or Patch for a snapshot that is still current makes an object the
\* server's spec asks for.
LEMMA FreshApply ==
  ASSUME IInv, Fresh, CreateChild \/ PatchChild, NEW ref \in Refs, objs'[ref] # objs[ref]
  PROVE  Asked(ref)
<1>1. snap.patches = rt.patches
  BY DEF Fresh, IInv, CopiesInv, FaithfulCopy
<1>2. /\ ref = ThisPatch.ref /\ ThisPatch \in Patch /\ next \in DOMAIN snap.patches
      /\ objs'[ref].content = ThisPatch.content
  BY CreateEffect, PatchEffect DEF IInv
<1>3. Exists(objs'[ref])
  BY <1>2, ContentsAssumption DEF Exists, Patch
<1>4. rt.patches[next] = [ref |-> ref, content |-> objs'[ref].content]
  BY <1>1, <1>2 DEF ThisPatch, Patch
<1>5. QED
  BY <1>1, <1>2, <1>3, <1>4 DEF Asked

\* A Delete for a snapshot that is still current removes an object the server's
\* spec does not name.
LEMMA FreshDelete ==
  ASSUME IInv, Fresh, NEW del \in Refs, DeleteInactive(del),
         NEW ref \in Refs, objs'[ref] # objs[ref]
  PROVE  Asked(ref)
<1>1. snap.patches = rt.patches
  BY DEF Fresh, IInv, CopiesInv, FaithfulCopy
<1>2. ref = del /\ ref \in inactive /\ objs'[ref] = Absent
  BY DEF DeleteInactive, IInv, TypeOK
<1>3. ref \notin Targets(rt.patches)
  BY <1>1, <1>2 DEF IInv, JobInv
<1>4. ~Exists(objs'[ref])
  BY <1>2 DEF Exists, Absent
<1>5. QED
  BY <1>3, <1>4 DEF Asked

\* A Reconcile whose snapshot is still current only ever moves the cluster
\* towards the spec (handleResourceTemplate, reconciler.go:84-122).
THEOREM FreshReconcileSafety == Spec => FreshWritesFollowSpec
<1>1. IInv /\ [Next]_vars => WritesAsked
  <2> SUFFICES ASSUME IInv, [Next]_vars, Fresh, next' # next \/ inactive' # inactive,
                      NEW ref \in Refs, objs'[ref] # objs[ref]
               PROVE  Asked(ref)
    BY DEF WritesAsked
  <2>1. CASE CreateChild \/ PatchChild
    BY <2>1, FreshApply
  <2>2. CASE \E del \in Refs : DeleteInactive(del)
    BY <2>2, FreshDelete
  <2>3. CASE Reconcile /\ objs' = objs
    BY <2>3
  <2>4. CASE Reconcile
    BY <2>1, <2>2, <2>3, <2>4
    DEF Reconcile, ReconcileMissing, RenderError, StartReconcile, InvalidPatch, ReadCurrent,
        CreateConflict, PatchNotFound, FinishUnchanged, UpdateStatus, TouchStatus,
        StatusConflict
  <2>5. CASE Failure
    BY <2>5 DEF Failure, CallFails, DeleteFails, Crash
  <2>6. CASE Users \/ Collect \/ Deliver \/ Resync \/ UNCHANGED vars
    <3>1. UNCHANGED job
      BY <2>6 DEF Users, CreateTemplate, EditTemplate, DeleteTemplate, ForeignCreate,
                  UserDelete, Remove, Collect, GarbageCollect, Deliver, Resync, vars,
                  local
    <3>2. QED
      BY <3>1 DEF job
  <2>7. QED
    BY <2>4, <2>5, <2>6 DEF Next
<1>2. QED
  BY <1>1, Invariant, PTL DEF Spec, FreshWritesFollowSpec
-----------------------------------------------------------------------------
(* Nothing is forgotten                                                    *)

\* The informer's copy and its backlog lead up to the server's template, which
\* is empty when there is none.
InformedInv ==
  /\ watch = <<>> => cache = rt
  /\ watch # <<>> => watch[Len(watch)] = rt
  /\ rt.uid = 0 => rt = NoTemplate

\* While nothing was ever blocked there has been one template at most, and all
\* objects are its children.
OneTemplate(t) == t.uid = 0 \/ t.uid = rt.uid
UnblockedInv ==
  Unblocked =>
    /\ OneTemplate(cache) /\ OneTemplate(snap)
    /\ \A i \in DOMAIN watch : OneTemplate(watch[i])
    /\ \A ref \in Refs : Exists(objs[ref]) => rt.uid # 0 /\ objs[ref].owner = rt.uid

\* What is being applied has been rendered, and a call is only made for a patch
\* that can be applied.
RenderedInv ==
  /\ pc # "idle" => Renderable(snap.patches)
  /\ pc \in {"create", "patch"} => ThisPatch.content \notin Inapplicable

\* The patches before k have been applied: each can be, and the last of them for
\* its target shows on it.
LastBefore(i, k) ==
  \A j \in DOMAIN rt.patches : i < j /\ j < k => rt.patches[j].ref # rt.patches[i].ref
Shown(p) ==
  /\ IsControlledBy(objs[p.ref], rt)
  /\ objs[p.ref].content = p.content \/ p.content \in Sourced
AppliedBefore(k) ==
  \A i \in DOMAIN rt.patches : i < k =>
    /\ rt.patches[i].content \notin Unrenderable \cup Inapplicable
    /\ Unblocked /\ LastBefore(i, k) => Shown(rt.patches[i])

\* What has not been done yet is announced, queued or being done.
PendingInv ==
  \/ watch # <<>> \/ queued
  \/ pc # "idle" /\ snap.patches = rt.patches /\ AppliedBefore(next)
  \/ pc = "idle" /\ AppliedBefore(Len(rt.patches) + 1)

AskedInv == InformedInv /\ UnblockedInv /\ RenderedInv /\ PendingInv

\* What the server, the informer and the worker hold of the template changes in
\* one of four ways: only the worker's copy does, a writer announces a new
\* version, the informer takes one in, the process starts afresh.
Announced ==
  /\ watch' = Append(watch, rt') /\ rt' \in Template
  /\ cache' = cache /\ snap' \in {snap, NoTemplate}
  /\ \/ rt'.uid = rt.uid /\ rt.uid # 0
     \/ rt' = NoTemplate /\ ~Unblocked'
     \/ rt'.uid # 0 /\ rt.uid = 0
LEMMA CopiesMove ==
  ASSUME IInv, [Next]_vars
  PROVE  \/ UNCHANGED <<rt, watch, cache>> /\ snap' \in {snap, cache, NoTemplate}
         \/ Announced
         \/ Deliver
         \/ Crash
<1>0. IInv'
  BY NextType, CopiesStep, JobStep DEF IInv
<1>1. CASE Reconcile /\ ~UpdateStatus /\ ~TouchStatus
  BY <1>1
  DEF Reconcile, ReconcileMissing, RenderError, StartReconcile, InvalidPatch, ReadCurrent,
      ReadExists, ReadUnchanged, ReadMissing, ReadOutdated, NextPatch, CreateChild,
      CreateConflict, PatchChild, PatchNotFound, DeleteInactive, FinishUnchanged,
      StatusConflict, Fail, Return, store, local, job
<1>2. CASE UpdateStatus
  <2>1. rt.uid # 0
    BY <1>2 DEF UpdateStatus, StatusAccepted, Finishing, Deleting, IInv, JobInv
  <2>2. rt'.uid = rt.uid /\ watch' = Append(watch, rt')
    BY <1>2 DEF UpdateStatus, WriteNewVersion, Write, IInv, TypeOK, Template
  <2> QED
    BY <1>0, <1>2, <2>1, <2>2 DEF UpdateStatus, Return, Announced, IInv, TypeOK
<1>3. CASE TouchStatus
  <2>1. rt.uid # 0 /\ cache' = cache /\ snap' = NoTemplate
    BY <1>3 DEF TouchStatus, StatusAccepted, Finishing, Deleting, Return, IInv, JobInv
  <2>2. CASE WriteNewVersion(rt)
    <3>1. rt'.uid = rt.uid /\ watch' = Append(watch, rt')
      BY <2>2 DEF WriteNewVersion, Write, IInv, TypeOK, Template
    <3> QED
      BY <1>0, <2>1, <3>1 DEF Announced, IInv, TypeOK
  <2>3. CASE UNCHANGED store
    BY <2>1, <2>3 DEF store
  <2> QED
    BY <1>3, <2>2, <2>3 DEF TouchStatus
<1>4. CASE Failure
  BY <1>4 DEF Failure, CallFails, DeleteFails, Fail, Return, store
<1>5. CASE Users
  <2>1. ASSUME NEW patches \in PatchLists, CreateTemplate(patches) PROVE Announced
    <3>1. rt.uid = 0 /\ rt'.uid = revision + 1 /\ revision \in Nat /\ watch' = Append(watch, rt')
      BY <2>1 DEF CreateTemplate, WriteNewVersion, Write, IInv, TypeOK
    <3> QED
      BY <1>0, <2>1, <3>1 DEF CreateTemplate, local, job, Announced, IInv, TypeOK
  <2>2. ASSUME NEW patches \in PatchLists, EditTemplate(patches) PROVE Announced
    <3>1. rt.uid # 0 /\ rt'.uid = rt.uid /\ watch' = Append(watch, rt')
      BY <2>2 DEF EditTemplate, WriteNewVersion, Write, IInv, TypeOK, Template
    <3> QED
      BY <1>0, <2>2, <3>1 DEF EditTemplate, local, job, Announced, IInv, TypeOK
  <2>3. CASE DeleteTemplate
    <3>1. rt' = NoTemplate /\ watch' = Append(watch, rt')
      BY <2>3 DEF DeleteTemplate, Write
    <3>2. spent'["deletion"] # 0
      BY <2>3 DEF DeleteTemplate, Spend, IInv, TypeOK, Kinds
    <3> QED
      BY <1>0, <2>3, <3>1, <3>2 DEF DeleteTemplate, local, job, Announced, Unblocked, IInv, TypeOK
  <2>4. CASE \E ref \in Refs : \/ \E content \in Contents : ForeignCreate(ref, content)
                               \/ UserDelete(ref)
    BY <2>4 DEF ForeignCreate, UserDelete, Remove, store, local, job
  <2> QED
    BY <1>5, <2>1, <2>2, <2>3, <2>4 DEF Users
<1>6. CASE Collect \/ Resync \/ UNCHANGED vars
  BY <1>6 DEF Collect, GarbageCollect, Remove, Resync, vars, store, local, job
<1> QED
  BY <1>1, <1>2, <1>3, <1>4, <1>5, <1>6 DEF Next, Reconcile

\* The informer's backlog ends in the server's template.
LEMMA InformedStep ==
  ASSUME IInv, InformedInv, [Next]_vars
  PROVE  InformedInv'
<1>0. rt \in Template /\ watch \in Seq(Template) /\ NoTemplate \in Template
  BY NoTemplateType DEF IInv, TypeOK
<1>1. CASE UNCHANGED <<rt, watch, cache>>
  BY <1>1 DEF InformedInv
<1>2. CASE Announced
  <2>1. watch' # <<>> /\ watch'[Len(watch')] = rt'
    BY <1>0, <1>2 DEF Announced
  <2>2. rt'.uid = 0 => rt' = NoTemplate
    BY <1>2 DEF Announced
  <2> QED
    BY <2>1, <2>2 DEF InformedInv
<1>3. CASE Deliver
  <2>1. watch # <<>> /\ watch' = Tail(watch) /\ cache' = watch[1] /\ rt' = rt
    BY <1>0, <1>3 DEF Deliver
  <2>2. Len(watch) \in Nat /\ Len(watch) >= 1
    BY <1>0, <2>1
  <2>3. CASE Len(watch) = 1
    <3>1. watch' = <<>> /\ cache' = rt
      BY <1>0, <2>1, <2>3 DEF InformedInv
    <3> QED
      BY <2>1, <3>1 DEF InformedInv
  <2>4. CASE Len(watch) # 1
    <3>0. Len(watch) > 1
      <4>1. \A n \in Nat : n >= 1 /\ n # 1 => n > 1
        OBVIOUS
      <4> QED
        BY <2>2, <2>4, <4>1
    <3>1. Len(watch') = Len(watch) - 1 /\ watch' \in Seq(Template)
      BY <1>0, <2>1
    <3>2. Len(watch') \in 1 .. Len(watch) - 1 /\ watch' # <<>>
      BY <1>0, <2>2, <3>0, <3>1
    <3>3. watch'[Len(watch')] = watch[Len(watch') + 1]
      BY <1>0, <2>1, <3>2
    <3>4. watch'[Len(watch')] = watch[Len(watch)]
      BY <2>2, <3>1, <3>3
    <3> QED
      BY <2>1, <3>2, <3>4 DEF InformedInv
  <2> QED
    BY <2>3, <2>4
<1>4. CASE Crash
  BY <1>4 DEF Crash, InformedInv
<1> QED
  BY <1>1, <1>2, <1>3, <1>4, CopiesMove

\* Nothing is blocked now, so nothing was before.
LEMMA UnblockedBefore ==
  ASSUME TypeOK, [Next]_vars, Unblocked'
  PROVE  /\ Unblocked /\ ~DeleteTemplate
         /\ \A ref \in Refs, content \in Contents : ~ForeignCreate(ref, content)
         /\ \A ref \in Refs : UserDelete(ref) => Foreign(objs[ref])
<1>1. ASSUME NEW what \in Kinds, NEW rough, Spend(what, rough)
      PROVE  Unblocked /\ what \notin {"foreign", "deletion", "loss"}
  <2>1. /\ spent[what] \in Nat /\ spent \in [Kinds -> Nat]
        /\ {"foreign", "deletion", "loss", "rough"} \subseteq Kinds
    BY DEF TypeOK, Kinds
  <2>2. /\ what # "rough" => spent'[what] = spent[what] + 1
        /\ \A k \in Kinds \ {what, "rough"} : spent'[k] = spent[k]
    BY <1>1, <2>1 DEF Spend
  <2> QED
    BY <2>1, <2>2 DEF Unblocked
<1>2. \/ spent' = spent \/ \E rough \in BOOLEAN : Note(rough)
      \/ \E what \in Kinds, rough \in BOOLEAN : Spend(what, rough)
  <2>0. (~Applicable(snap.patches)) \in BOOLEAN
    OBVIOUS
  <2>1. CASE Reconcile
    <3>1. CASE TouchStatus
      BY <3>1 DEF TouchStatus, Kinds
    <3> QED
      BY <2>0, <2>1, <3>1
      DEF Reconcile, ReconcileMissing, RenderError, StartReconcile, InvalidPatch, ReadCurrent,
          CreateChild, CreateConflict, PatchChild, PatchNotFound, DeleteInactive,
          FinishUnchanged, UpdateStatus, StatusConflict
  <2>2. CASE Failure
    BY <2>2 DEF Failure, CallFails, DeleteFails, Crash, Kinds
  <2>3. CASE Users
    <3>1. (~Resting) \in BOOLEAN
      OBVIOUS
    <3> QED
      BY <2>3, <3>1 DEF Users, CreateTemplate, EditTemplate, DeleteTemplate, ForeignCreate,
                        UserDelete, Kinds
  <2>4. CASE Collect \/ Deliver \/ Resync \/ UNCHANGED vars
    BY <2>4 DEF Collect, GarbageCollect, Deliver, Resync, vars
  <2> QED
    BY <2>1, <2>2, <2>3, <2>4 DEF Next
<1>3. Unblocked
  BY <1>1, <1>2, NoteKeeps DEF Unblocked, TypeOK
<1>4. ~DeleteTemplate
  BY <1>1 DEF DeleteTemplate, Kinds
<1>5. \A ref \in Refs, content \in Contents : ~ForeignCreate(ref, content)
  BY <1>1 DEF ForeignCreate, Kinds
<1>6. \A ref \in Refs : UserDelete(ref) => Foreign(objs[ref])
  BY <1>1 DEF UserDelete, Kinds
<1> QED
  BY <1>3, <1>4, <1>5, <1>6

\* Only a Create and somebody else make an object; nobody changes its owner.
LEMMA ObjectsKept ==
  ASSUME TypeOK, [Next]_vars, NEW ref \in Refs, Exists(objs'[ref]),
         ~(CreateChild /\ ref = ThisPatch.ref),
         \A content \in Contents : ~ForeignCreate(ref, content)
  PROVE  Exists(objs[ref]) /\ objs'[ref].owner = objs[ref].owner
<1>0. ~Exists(Absent) /\ objs \in [Refs -> Object]
  BY DEF Exists, Absent, TypeOK
<1>1. CASE objs'[ref] = objs[ref]
  BY <1>1
<1>2. CASE Reconcile
  <2>1. CASE CreateChild
    BY <1>1, <2>1, CreateEffect
  <2>2. CASE PatchChild
    <3>1. Exists(Current) /\ Current = objs[ThisPatch.ref] /\ ThisPatch.ref \in Refs
      BY <2>2, PatchEffect DEF PatchChild, Current
    <3>2. objs'[ThisPatch.ref].owner = objs[ThisPatch.ref].owner
      BY <1>0, <2>2, <3>1 DEF PatchChild, Object
    <3> QED
      BY <1>1, <2>2, <3>1, <3>2, PatchEffect
  <2>3. CASE \E r \in Refs : DeleteInactive(r)
    BY <1>0, <1>1, <2>3 DEF DeleteInactive
  <2> QED
    BY <1>1, <1>2, <2>1, <2>2, <2>3
    DEF Reconcile, ReconcileMissing, RenderError, StartReconcile, InvalidPatch, ReadCurrent,
        CreateConflict, PatchNotFound, FinishUnchanged, UpdateStatus, TouchStatus,
        StatusConflict
<1>3. CASE Failure
  BY <1>1, <1>3 DEF Failure, CallFails, DeleteFails, Crash
<1>4. CASE Users
  <2>1. ASSUME NEW r \in Refs, NEW content \in Contents, ForeignCreate(r, content)
        PROVE  objs'[ref] = objs[ref]
    <3>1. r # ref
      BY <2>1
    <3> QED
      BY <1>0, <2>1, <3>1 DEF ForeignCreate
  <2>2. CASE \E r \in Refs : UserDelete(r)
    BY <1>0, <1>1, <2>2 DEF UserDelete, Remove
  <2> QED
    BY <1>1, <1>4, <2>1, <2>2 DEF Users, CreateTemplate, EditTemplate, DeleteTemplate
<1>5. CASE Collect
  BY <1>0, <1>1, <1>5 DEF Collect, GarbageCollect, Remove
<1>6. CASE Deliver \/ Resync \/ UNCHANGED vars
  BY <1>1, <1>6 DEF Deliver, Resync, vars
<1> QED
  BY <1>2, <1>3, <1>4, <1>5, <1>6 DEF Next

\* While nothing was ever blocked, no step makes an object that is not a child
\* of the one template there has been.
LEMMA UnblockedStep ==
  ASSUME IInv, UnblockedInv, RenderedInv, [Next]_vars
  PROVE  UnblockedInv'
<1> SUFFICES ASSUME Unblocked'
             PROVE  /\ OneTemplate(cache)' /\ OneTemplate(snap)'
                    /\ \A i \in DOMAIN watch' : OneTemplate(watch[i])'
                    /\ \A ref \in Refs :
                         Exists(objs'[ref]) => rt'.uid # 0 /\ objs'[ref].owner = rt'.uid
  BY DEF UnblockedInv
<1>0. /\ Unblocked /\ ~DeleteTemplate
      /\ \A ref \in Refs, content \in Contents : ~ForeignCreate(ref, content)
  BY UnblockedBefore DEF IInv
<1>1. /\ OneTemplate(cache) /\ OneTemplate(snap)
      /\ \A i \in DOMAIN watch : OneTemplate(watch[i])
      /\ \A ref \in Refs : Exists(objs[ref]) => rt.uid # 0 /\ objs[ref].owner = rt.uid
  BY <1>0 DEF UnblockedInv
<1>2. watch \in Seq(Template) /\ NoTemplate.uid = 0
  BY DEF IInv, TypeOK, NoTemplate
<1>3. /\ OneTemplate(cache)' /\ OneTemplate(snap)'
      /\ \A i \in DOMAIN watch' : OneTemplate(watch[i])'
      /\ rt.uid # 0 => rt'.uid = rt.uid
  <2>1. CASE UNCHANGED <<rt, watch, cache>> /\ snap' \in {snap, cache, NoTemplate}
    BY <1>1, <1>2, <2>1 DEF OneTemplate
  <2>2. CASE Announced
    <3>1. rt.uid # 0 => rt'.uid = rt.uid
      BY <2>2 DEF Announced
    <3>2. ASSUME NEW t, OneTemplate(t) PROVE OneTemplate(t)'
      BY <3>1, <3>2 DEF OneTemplate
    <3>3. ASSUME NEW i \in DOMAIN watch' PROVE OneTemplate(watch[i])'
      <4>1. DOMAIN watch' = 1 .. Len(watch) + 1 /\ DOMAIN watch = 1 .. Len(watch)
        BY <1>2, <2>2 DEF Announced
      <4>2. \/ i \in DOMAIN watch /\ watch'[i] = watch[i]
            \/ watch'[i] = rt'
        BY <1>2, <2>2, <4>1 DEF Announced
      <4> QED
        BY <1>1, <3>1, <4>2 DEF OneTemplate
    <3> QED
      BY <1>1, <1>2, <2>2, <3>1, <3>3 DEF Announced, OneTemplate
  <2>3. CASE Deliver
    <3>1. /\ watch # <<>> /\ watch' = Tail(watch) /\ cache' = watch[1] /\ 1 \in DOMAIN watch
          /\ rt' = rt /\ snap' = snap
      BY <1>2, <2>3 DEF Deliver, local, job
    <3>2. \A i \in DOMAIN watch' : watch'[i] = watch[i + 1] /\ i + 1 \in DOMAIN watch
      BY <1>2, <3>1
    <3> QED
      BY <1>1, <3>1, <3>2 DEF OneTemplate
  <2>4. CASE Crash
    <3>1. cache' = rt /\ rt' = rt /\ snap' = NoTemplate /\ DOMAIN watch' = {}
      BY <2>4 DEF Crash, Return
    <3> QED
      BY <1>2, <3>1 DEF OneTemplate
  <2> QED
    BY <2>1, <2>2, <2>3, <2>4, CopiesMove
<1>4. ASSUME NEW ref \in Refs, Exists(objs'[ref])
      PROVE  rt'.uid # 0 /\ objs'[ref].owner = rt'.uid
  <2>1. CASE CreateChild /\ ref = ThisPatch.ref
    <3>1. objs'[ref].owner = snap.uid /\ snap.uid # 0 /\ rt' = rt
      BY <2>1, CreateEffect DEF CreateChild, store, IInv, JobInv
    <3> QED
      BY <1>1, <3>1 DEF OneTemplate
  <2>2. CASE ~(CreateChild /\ ref = ThisPatch.ref)
    <3>1. Exists(objs[ref]) /\ objs'[ref].owner = objs[ref].owner
      BY <1>0, <1>4, <2>2, ObjectsKept DEF IInv
    <3> QED
      BY <1>1, <1>3, <3>1
  <2> QED
    BY <2>1, <2>2
<1> QED
  BY <1>3, <1>4

\* What is rendered stays so, and a call is made for a patch just looked at.
LEMMA RenderedStep ==
  ASSUME IInv, RenderedInv, [Next]_vars
  PROVE  RenderedInv'
<1>1. CASE pc' = "idle"
  BY <1>1 DEF RenderedInv
<1>2. CASE UNCHANGED <<pc, snap, next>>
  BY <1>2 DEF RenderedInv, ThisPatch
<1>3. CASE Reconcile
  <2>1. CASE StartReconcile
    BY <2>1 DEF StartReconcile, RenderedInv
  <2>2. CASE ReadCurrent
    BY <2>2 DEF ReadCurrent, Applying, ReadExists, ReadUnchanged, ReadMissing, ReadOutdated,
                NextPatch, RenderedInv, ThisPatch
  <2>3. CASE CreateChild \/ PatchChild
    BY <2>3 DEF CreateChild, PatchChild, NextPatch, RenderedInv
  <2> QED
    BY <1>1, <1>2, <1>3, <2>1, <2>2, <2>3
    DEF Reconcile, ReconcileMissing, RenderError, InvalidPatch, CreateConflict, PatchNotFound,
        DeleteInactive, FinishUnchanged, UpdateStatus, TouchStatus, StatusConflict, Fail,
        Return, local, job
<1>4. CASE Failure
  BY <1>1, <1>2, <1>4 DEF Failure, CallFails, DeleteFails, Crash, Fail, Return
<1>5. CASE Users \/ Collect \/ Deliver \/ Resync \/ UNCHANGED vars
  BY <1>2, <1>5 DEF Users, CreateTemplate, EditTemplate, DeleteTemplate, ForeignCreate,
                    UserDelete, Remove, Collect, GarbageCollect, Deliver, Resync, vars, local, job
<1> QED
  BY <1>3, <1>4, <1>5 DEF Next

\* One more patch is applied: it covers the earlier ones for the same target and
\* leaves the others as they were.
LEMMA AppliedOneMore ==
  ASSUME IInv, RenderedInv, AppliedBefore(next), snap.patches = rt.patches,
         next \in DOMAIN snap.patches, next' = next + 1, rt' = rt,
         pc # "idle", ThisPatch.content \notin Inapplicable,
         Unblocked' => /\ Unblocked /\ IsControlledBy(objs'[ThisPatch.ref], rt)
                       /\ \/ objs'[ThisPatch.ref].content = ThisPatch.content
                          \/ ThisPatch.content \in Sourced,
         \A ref \in Refs : ref # ThisPatch.ref => objs'[ref] = objs[ref]
  PROVE  AppliedBefore(next)'
<1>0. next \in Nat /\ DOMAIN rt.patches = 1 .. Len(rt.patches) /\ rt.patches \in Seq(Patch)
  BY DEF IInv, TypeOK, Template
<1>1. ThisPatch = rt.patches[next] /\ next \in DOMAIN rt.patches
  BY DEF ThisPatch
<1>2. ThisPatch.content \notin Unrenderable
  BY <1>1 DEF RenderedInv, Renderable
<1>3. ASSUME NEW i \in DOMAIN rt.patches, i < next + 1
      PROVE  /\ rt.patches[i].content \notin Unrenderable \cup Inapplicable
             /\ Unblocked' /\ LastBefore(i, next + 1) => Shown(rt.patches[i])'
  <2>1. CASE i = next
    <3>1. Unblocked' => Shown(rt.patches[i])'
      BY <1>1, <2>1 DEF Shown, IsControlledBy
    <3> QED
      BY <1>1, <1>2, <2>1, <3>1
  <2>2. CASE i # next
    <3>1. i < next
      BY <1>0, <1>3, <2>2
    <3>2. rt.patches[i].content \notin Unrenderable \cup Inapplicable
      BY <3>1 DEF AppliedBefore
    <3>3. ASSUME Unblocked', LastBefore(i, next + 1) PROVE Shown(rt.patches[i])'
      <4>1. LastBefore(i, next)
        BY <1>0, <3>3 DEF LastBefore
      <4>2. Shown(rt.patches[i])
        BY <3>1, <3>3, <4>1 DEF AppliedBefore
      <4>3. rt.patches[i].ref # ThisPatch.ref /\ rt.patches[i].ref \in Refs
        BY <1>0, <1>1, <3>1, <3>3, PatchType DEF LastBefore
      <4> QED
        BY <4>2, <4>3 DEF Shown
    <3> QED
      BY <3>2, <3>3
  <2> QED
    BY <2>1, <2>2
<1> QED
  BY <1>3 DEF AppliedBefore, LastBefore

\* The loop is over: all patches have been applied.
LEMMA AppliedAll ==
  ASSUME IInv, AppliedBefore(next), snap.patches = rt.patches, next \notin DOMAIN snap.patches
  PROVE  AppliedBefore(Len(rt.patches) + 1)
<1>1. /\ DOMAIN rt.patches = 1 .. Len(rt.patches) /\ Len(rt.patches) \in Nat
      /\ next \in Nat \ {0}
  BY DEF IInv, TypeOK, Template
<1>2. \A i \in DOMAIN rt.patches : i < next
  BY <1>1
<1> QED
  BY <1>1, <1>2 DEF AppliedBefore, LastBefore

\* Steps that touch no target of the template leave what is done and what is
\* pending as it is.
LEMMA PendingKept ==
  ASSUME IInv, PendingInv, UNCHANGED <<rt, watch, pc, snap, next>>, queued => queued',
         Unblocked' => Unblocked /\
           (pc = "idle" \/ snap.patches = rt.patches =>
              \A ref \in Targets(rt.patches) : objs'[ref] = objs[ref])
  PROVE  PendingInv'
<1>1. ASSUME NEW k, AppliedBefore(k), pc = "idle" \/ snap.patches = rt.patches
      PROVE  \A i \in DOMAIN rt.patches : i < k =>
               /\ rt.patches[i].content \notin Unrenderable \cup Inapplicable
               /\ Unblocked' /\ LastBefore(i, k) => Shown(rt.patches[i])'
  <2> SUFFICES ASSUME NEW i \in DOMAIN rt.patches, i < k
               PROVE  /\ rt.patches[i].content \notin Unrenderable \cup Inapplicable
                      /\ Unblocked' /\ LastBefore(i, k) => Shown(rt.patches[i])'
    OBVIOUS
  <2>1. rt.patches[i].ref \in Targets(rt.patches)
    BY DEF Targets
  <2> QED
    BY <1>1, <2>1 DEF AppliedBefore, Shown
<1> QED
  BY <1>1 DEF PendingInv, AppliedBefore, LastBefore

\* Reading the current object: it is there as asked, or a call is due.
LEMMA PendingRead ==
  ASSUME IInv, UnblockedInv, RenderedInv, PendingInv, ReadCurrent
  PROVE  PendingInv'
<1>0. /\ UNCHANGED <<rt, watch, queued, snap, objs, spent>> /\ pc = "apply" /\ snap.uid # 0
      /\ next \in DOMAIN snap.patches /\ ThisPatch.content \notin Inapplicable
  BY DEF ReadCurrent, Applying, ReadExists, ReadUnchanged, ReadMissing, ReadOutdated,
         NextPatch, store, IInv, JobInv
<1>1. CASE watch # <<>> \/ queued
  BY <1>0, <1>1 DEF PendingInv
<1>2. CASE snap.patches = rt.patches /\ AppliedBefore(next)
  <2>1. CASE ReadMissing \/ ReadOutdated
    <3>1. pc' # "idle" /\ next' = next
      BY <2>1 DEF ReadMissing, ReadOutdated
    <3>2. AppliedBefore(next)'
      BY <1>0, <1>2, <3>1 DEF AppliedBefore, LastBefore, Shown, Unblocked
    <3> QED
      BY <1>0, <1>2, <3>1, <3>2 DEF PendingInv
  <2>2. CASE ReadExists \/ ReadUnchanged
    <3>1. pc' # "idle" /\ next' = next + 1
      BY <2>2 DEF ReadExists, ReadUnchanged, NextPatch
    <3>2. ThisPatch.ref \in Refs /\ Exists(Current) /\ Current = objs[ThisPatch.ref]
      BY <1>0, <2>2, ThisPatchType
      DEF IInv, ReadExists, ReadUnchanged, IsControlledBy, Current
    <3>3. ASSUME Unblocked
          PROVE  /\ IsControlledBy(objs[ThisPatch.ref], rt)
                 /\ \/ objs[ThisPatch.ref].content = ThisPatch.content
                    \/ ThisPatch.content \in Sourced
      <4>1. snap.uid = rt.uid /\ objs[ThisPatch.ref].owner = rt.uid
        BY <1>0, <3>2, <3>3 DEF UnblockedInv, OneTemplate
      <4>2. IsControlledBy(Current, snap) /\ IsControlledBy(objs[ThisPatch.ref], rt)
        BY <3>2, <4>1 DEF IsControlledBy
      <4>3. ReadUnchanged
        BY <2>2, <4>2 DEF ReadExists
      <4> QED
        BY <3>2, <4>2, <4>3 DEF ReadUnchanged, Differs
    <3>4. Unblocked' = Unblocked
      BY <1>0 DEF Unblocked
    <3>5. AppliedBefore(next)'
      BY <1>0, <1>2, <3>1, <3>3, <3>4, AppliedOneMore
    <3> QED
      BY <1>0, <1>2, <3>1, <3>5 DEF PendingInv
  <2> QED
    BY <2>1, <2>2 DEF ReadCurrent
<1> QED
  BY <1>0, <1>1, <1>2 DEF PendingInv

\* A Create or a Patch makes the object as asked.
LEMMA PendingApply ==
  ASSUME IInv, UnblockedInv, RenderedInv, PendingInv, CreateChild \/ PatchChild
  PROVE  PendingInv'
<1>0. /\ UNCHANGED <<rt, watch, queued, snap>> /\ pc \in {"create", "patch"}
      /\ pc' # "idle" /\ next' = next + 1 /\ snap.uid # 0
      /\ next \in DOMAIN snap.patches
      /\ ThisPatch.content \notin Inapplicable
  BY CreateEffect, PatchEffect
  DEF CreateChild, PatchChild, NextPatch, store, IInv, JobInv, RenderedInv
<1>1. CASE watch # <<>> \/ queued
  BY <1>0, <1>1 DEF PendingInv
<1>2. CASE snap.patches = rt.patches /\ AppliedBefore(next)
  <2>1. /\ ThisPatch.ref \in Refs /\ ThisPatch \in Patch
        /\ objs'[ThisPatch.ref].content = ThisPatch.content
        /\ \A ref \in Refs : ref # ThisPatch.ref => objs'[ref] = objs[ref]
    BY CreateEffect, PatchEffect DEF IInv
  <2>2. Exists(objs'[ThisPatch.ref])
    BY <2>1, ContentsAssumption DEF Exists, Patch
  <2>3. ASSUME Unblocked PROVE objs'[ThisPatch.ref].owner = rt.uid
    <3>1. snap.uid = rt.uid
      BY <1>0, <2>3 DEF UnblockedInv, OneTemplate
    <3>2. CASE CreateChild
      BY <3>1, <3>2, CreateEffect DEF IInv
    <3>3. CASE PatchChild
      <4>1. Exists(objs[ThisPatch.ref])
        BY <3>3 DEF PatchChild, Current
      <4>2. objs'[ThisPatch.ref].owner = objs[ThisPatch.ref].owner
        BY <2>1, <3>3 DEF PatchChild, IInv, TypeOK, Object
      <4> QED
        BY <2>1, <2>3, <4>1, <4>2 DEF UnblockedInv
    <3> QED
      BY <3>2, <3>3
  <2>4. Unblocked' = Unblocked
    BY NoteKeeps DEF CreateChild, PatchChild, Unblocked, IInv, TypeOK
  <2>5. AppliedBefore(next)'
    BY <1>0, <1>2, <2>1, <2>2, <2>3, <2>4, AppliedOneMore DEF IsControlledBy
  <2> QED
    BY <1>0, <1>2, <2>5 DEF PendingInv
<1> QED
  BY <1>0, <1>1, <1>2 DEF PendingInv

\* Every step of a Reconcile keeps what is pending pending until it is done.
LEMMA PendingReconcile ==
  ASSUME IInv, InformedInv, UnblockedInv, RenderedInv, PendingInv, Reconcile
  PROVE  PendingInv'
<1>1. CASE queued' \/ watch' # <<>>
  BY <1>1 DEF PendingInv
<1>2. CASE ReconcileMissing
  <2>1. UNCHANGED <<rt, watch, cache, pc>> /\ cache.uid = 0 /\ pc = "idle"
    BY <1>2 DEF ReconcileMissing, store, local, job
  <2>2. CASE watch = <<>>
    <3>1. rt' = NoTemplate
      BY <2>1, <2>2 DEF InformedInv
    <3>2. AppliedBefore(Len(rt.patches) + 1)'
      BY <3>1 DEF NoTemplate, AppliedBefore
    <3> QED
      BY <2>1, <3>2 DEF PendingInv
  <2> QED
    BY <1>1, <2>1, <2>2
<1>3. CASE StartReconcile
  <2>1. UNCHANGED <<rt, watch>> /\ pc' = "apply" /\ snap' = cache /\ next' = 1
    BY <1>3 DEF StartReconcile, store
  <2>2. CASE watch = <<>>
    <3>1. snap'.patches = rt'.patches
      BY <2>1, <2>2 DEF InformedInv
    <3>2. DOMAIN rt'.patches = 1 .. Len(rt'.patches) /\ Len(rt'.patches) \in Nat
      BY <2>1 DEF IInv, TypeOK, Template
    <3>3. AppliedBefore(next)'
      BY <2>1, <3>2 DEF AppliedBefore
    <3> QED
      BY <2>1, <3>1, <3>3 DEF PendingInv
  <2> QED
    BY <1>1, <2>1, <2>2
<1>4. CASE \/ RenderError \/ InvalidPatch \/ CreateConflict \/ PatchNotFound \/ StatusConflict
  BY <1>1, <1>4 DEF RenderError, InvalidPatch, CreateConflict, PatchNotFound, StatusConflict,
                    Fail
<1>5. ASSUME NEW ref \in Refs, DeleteInactive(ref) PROVE PendingInv'
  <2>1. /\ UNCHANGED <<rt, watch, queued, pc, snap, next, spent>> /\ pc # "idle"
        /\ ref \notin Targets(snap.patches)
    BY <1>5 DEF DeleteInactive, Deleting, store, IInv, JobInv
  <2>2. \A r \in Targets(snap.patches) : objs'[r] = objs[r]
    <3>1. Targets(snap.patches) \subseteq Refs
      BY TargetsType DEF IInv, TypeOK, Template
    <3> QED
      BY <1>5, <2>1, <3>1 DEF DeleteInactive, IInv, TypeOK
  <2> QED
    BY <2>1, <2>2, PendingKept DEF Unblocked
<1>6. CASE FinishUnchanged \/ (TouchStatus /\ UNCHANGED store)
  <2>1. /\ UNCHANGED <<rt, watch, queued, objs>> /\ pc' = "idle" /\ pc # "idle"
        /\ next \notin DOMAIN snap.patches
    BY <1>6 DEF FinishUnchanged, TouchStatus, Finishing, Deleting, Return, store
  <2>2. Unblocked' = Unblocked
    BY <1>6 DEF FinishUnchanged, TouchStatus, Unblocked, Spend, IInv, TypeOK, Kinds
  <2>3. ASSUME AppliedBefore(Len(rt.patches) + 1) PROVE AppliedBefore(Len(rt.patches) + 1)'
    BY <2>1, <2>2, <2>3 DEF AppliedBefore, LastBefore, Shown
  <2> QED
    BY <2>1, <2>3, AppliedAll DEF PendingInv
<1>7. CASE UpdateStatus \/ (TouchStatus /\ WriteNewVersion(rt))
  <2>1. \E t : watch' = Append(watch, t)
    BY <1>7 DEF UpdateStatus, TouchStatus, WriteNewVersion, Write
  <2>2. watch' # <<>>
    BY <2>1 DEF IInv, TypeOK
  <2> QED
    BY <1>1, <2>2
<1> QED
  BY <1>2, <1>3, <1>4, <1>5, <1>6, <1>7, PendingRead, PendingApply DEF Reconcile, TouchStatus

\* Every other step does too.
LEMMA PendingStep ==
  ASSUME IInv, InformedInv, UnblockedInv, RenderedInv, PendingInv, [Next]_vars
  PROVE  PendingInv'
<1>0. Unblocked' =>
        /\ Unblocked
        /\ \A ref \in Refs, content \in Contents : ~ForeignCreate(ref, content)
        /\ \A ref \in Refs : UserDelete(ref) => Foreign(objs[ref])
        /\ \A ref \in Refs : Exists(objs[ref]) => rt.uid # 0 /\ objs[ref].owner = rt.uid
  BY UnblockedBefore DEF IInv, UnblockedInv
<1>1. CASE queued' \/ watch' # <<>>
  BY <1>1 DEF PendingInv
<1>2. CASE UNCHANGED <<rt, watch, pc, snap, next, objs, queued>>
  BY <1>0, <1>2, PendingKept
<1>3. CASE Failure
  <2>1. CASE CallFails
    BY <1>1, <2>1 DEF CallFails, Fail
  <2>2. CASE \E ref \in Refs : DeleteFails(ref)
    BY <1>2, <2>2 DEF DeleteFails, store
  <2>3. CASE Crash
    <3>1. CASE rt.uid = 0
      <4>1. rt' = NoTemplate /\ pc' = "idle"
        BY <2>3, <3>1 DEF Crash, Return, InformedInv
      <4>2. AppliedBefore(Len(rt.patches) + 1)'
        BY <4>1 DEF NoTemplate, AppliedBefore
      <4> QED
        BY <4>1, <4>2 DEF PendingInv
    <3> QED
      BY <1>1, <2>3, <3>1 DEF Crash
  <2> QED
    BY <1>3, <2>1, <2>2, <2>3 DEF Failure
<1>4. CASE Users
  <2>1. CASE \/ \E patches \in PatchLists : CreateTemplate(patches) \/ EditTemplate(patches)
             \/ DeleteTemplate
    <3>1. \E t : watch' = Append(watch, t)
      BY <2>1 DEF CreateTemplate, EditTemplate, DeleteTemplate, WriteNewVersion, Write
    <3>2. watch' # <<>>
      BY <3>1 DEF IInv, TypeOK
    <3> QED
      BY <1>1, <3>2
  <2>2. ASSUME NEW ref \in Refs,
               UserDelete(ref) \/ \E content \in Contents : ForeignCreate(ref, content)
        PROVE  PendingInv'
    <3>1. UNCHANGED <<rt, watch, pc, snap, next, queued>>
      BY <2>2 DEF ForeignCreate, UserDelete, Remove, store, local, job
    <3>2. ~Unblocked'
      BY <1>0, <2>2 DEF Foreign, Nobody
    <3> QED
      BY <3>1, <3>2, PendingKept
  <2> QED
    BY <1>4, <2>1, <2>2 DEF Users
<1>5. ASSUME NEW ref \in Refs, GarbageCollect(ref) PROVE PendingInv'
  <2>1. UNCHANGED <<rt, watch, pc, snap, next, queued>>
    BY <1>5 DEF GarbageCollect, Remove, store, local, job
  <2>2. ~Unblocked'
    BY <1>0, <1>5 DEF GarbageCollect
  <2> QED
    BY <2>1, <2>2, PendingKept
<1>6. CASE Deliver \/ Resync
  BY <1>1, <1>6 DEF Deliver, Enqueue, Resync
<1>7. CASE UNCHANGED vars
  BY <1>2, <1>7 DEF vars, store, local, job
<1> QED
  BY <1>3, <1>4, <1>5, <1>6, <1>7, PendingReconcile DEF Next, Collect

\* What keeps anything from being forgotten, in every reachable state.
THEOREM AskedInvariant == Spec => []AskedInv
<1>1. Init => AskedInv
  <2> SUFFICES ASSUME Init PROVE AskedInv
    OBVIOUS
  <2>1. rt = NoTemplate /\ NoTemplate.uid = 0 /\ DOMAIN rt.patches = {}
    BY DEF Init, NoTemplate
  <2>2. InformedInv /\ RenderedInv
    BY <2>1 DEF Init, InformedInv, RenderedInv
  <2>3. UnblockedInv
    BY <2>1 DEF Init, UnblockedInv, OneTemplate, Exists, Absent
  <2>4. PendingInv
    BY <2>1 DEF Init, PendingInv, AppliedBefore
  <2> QED
    BY <2>2, <2>3, <2>4 DEF AskedInv
<1>2. IInv /\ AskedInv /\ [Next]_vars => AskedInv'
  BY InformedStep, UnblockedStep, RenderedStep, PendingStep DEF AskedInv
<1> QED
  BY <1>1, <1>2, Invariant, PTL DEF Spec

\* Whatever edits, failures and restarts there were, at rest everything asked
\* has been applied (handleResourceTemplate, reconciler.go:84-122).
THEOREM NothingIsForgotten == Spec => []NothingForgotten
<1>1. IInv /\ AskedInv => NothingForgotten
  <2> SUFFICES ASSUME IInv, AskedInv, Quiet
               PROVE  Applicable(rt.patches) /\ (Unblocked => AsAsked)
    BY DEF NothingForgotten
  <2>1. AppliedBefore(Len(rt.patches) + 1)
    BY DEF AskedInv, PendingInv, Quiet
  <2>2. \A i \in DOMAIN rt.patches : i < Len(rt.patches) + 1 /\ i \in Nat
    BY DEF IInv, TypeOK, Template
  <2>3. Applicable(rt.patches)
    BY <2>1, <2>2 DEF AppliedBefore, Applicable
  <2>4. ASSUME Unblocked PROVE AsAsked
    BY <2>1, <2>2, <2>4 DEF AppliedBefore, LastBefore, Shown, AsAsked
  <2> QED
    BY <2>3, <2>4
<1> QED
  BY <1>1, Invariant, AskedInvariant, PTL

-----------------------------------------------------------------------------
(* While the system is calm: no writer of the template races with a        *)
(* Reconcile, no call fails, no process ends, and no list creates an       *)
(* object that fails later on. Then no child is left behind and every      *)
(* child is on record, for any lists of patches, also those that cannot be *)
(* rendered or applied.                                                    *)

\* The informer lags by at most the newest version, and what it or the worker
\* holds is that version or is told apart from it by its number.
SameVersion(t) == t.uid # 0 /\ t.uid = rt.uid /\ t.rv = rt.rv => t = rt
WatchInv ==
  /\ watch = <<>> => cache = rt
  /\ watch # <<>> => watch = <<rt>>
  /\ watch # <<>> /\ cache.uid # 0 => cache # rt
  /\ watch # <<>> /\ pc # "idle" => snap # rt
  /\ SameVersion(cache) /\ SameVersion(snap)

\* The worker's own: its list renders, what it is about to create is not a
\* child yet, and it works on an old version only if the new one will wake it.
WorkInv ==
  /\ pc = "idle" => snap = NoTemplate
  /\ pc # "idle" => Renderable(snap.patches)
  /\ pc # "idle" /\ snap # rt => watch # <<>> \/ queued
  /\ pc = "create" => ~IsControlledBy(Current, snap)
  /\ \A ref \in Refs : objs[ref].owner <= revision

\* The targets of an old version are on record: what a Reconcile still creates
\* from it can be found again.
OldOnRecord(t) ==
  t.uid # 0 /\ t.uid = rt.uid /\ t # rt /\ Applicable(t.patches)
    => Targets(t.patches) \subseteq rt.active
StaleInv == OldOnRecord(cache) /\ OldOnRecord(snap)

\* The controller is not done with the current version, and knows it.
Busy ==
  /\ watch = <<>>
  /\ Applicable(rt.patches)
  /\ IF pc = "idle" THEN queued ELSE snap = rt
\* It will write the status: something has changed, or a target that it has still
\* to look at is not a child and will be created or counted as taken.
Ahead(i) == pc = "idle" \/ i >= next
WillRecord ==
  \/ pc # "idle" /\ changed
  \/ \E i \in DOMAIN rt.patches : Ahead(i) /\ rt.patches[i].ref \notin Children
RecordInv ==
  \/ Children \subseteq rt.active
  \/ /\ Busy /\ WillRecord
     /\ Children \subseteq rt.active \cup Targets(rt.patches)

\* How far a Reconcile of the current version has got.
ProgressInv ==
  pc # "idle" /\ snap = rt =>
    /\ Children \subseteq Targets(rt.patches) \cup inactive
    /\ WillRecord \/ \A i \in DOMAIN rt.patches : ~Ahead(i) => rt.patches[i].ref \in rt.active

\* At rest the record holds the targets and the targets hold the children.
RestInv ==
  Quiet /\ rt.uid # 0 =>
    Children \subseteq Targets(rt.patches) /\ Targets(rt.patches) \subseteq rt.active

CalmInv == WatchInv /\ WorkInv /\ StaleInv /\ RecordInv /\ ProgressInv /\ RestInv

Everywhere == IInv /\ CalmInv

-----------------------------------------------------------------------------
(* Lemmas                                                                  *)

\* A child, spelled out.
LEMMA ChildrenMeans ==
  \A ref \in Refs : ref \in Children <=>
    rt.uid # 0 /\ Exists(objs[ref]) /\ objs[ref].owner = rt.uid
BY DEF Children, IsControlledBy

\* The version that the worker's status update would be accepted for is its own.
LEMMA AcceptedMeansCurrent ==
  ASSUME Everywhere, pc # "idle", StatusAccepted
  PROVE  snap = rt
BY DEF Everywhere, IInv, JobInv, CalmInv, WatchInv, SameVersion, StatusAccepted

\* A Reconcile of the current version: the informer is up to date.
LEMMA CurrentMeansDelivered ==
  ASSUME Everywhere, pc # "idle", snap = rt
  PROVE  /\ watch = <<>> /\ cache = rt /\ rt.uid # 0
         /\ Applicable(rt.patches) => Busy
         /\ Children \subseteq Targets(rt.patches) \cup inactive
         /\ Children \subseteq rt.active \cup Targets(rt.patches)
BY DEF Everywhere, IInv, JobInv, CalmInv, WatchInv, WorkInv, Busy, RecordInv, ProgressInv

\* A Reconcile of an old version, or none: whatever is a child is on record.
LEMMA OldMeansRecorded ==
  ASSUME Everywhere, pc # "idle", snap # rt
  PROVE  Children \subseteq rt.active
BY DEF Everywhere, CalmInv, RecordInv, Busy

\* Steps inside a Reconcile leave alone all that concerns the template.
LEMMA InsideCalm ==
  ASSUME Everywhere, pc # "idle", pc' # "idle",
         UNCHANGED <<rt, watch, revision, cache, queued, snap>>,
         RecordInv', ProgressInv',
         pc' = "create" => ~IsControlledBy(Current, snap)',
         \A ref \in Refs : objs'[ref].owner <= revision
  PROVE  CalmInv'
<1>1. WatchInv'
  BY DEF Everywhere, CalmInv, WatchInv, SameVersion
<1>2. WorkInv'
  BY DEF Everywhere, CalmInv, WorkInv
<1>3. StaleInv'
  BY DEF Everywhere, CalmInv, StaleInv, OldOnRecord
<1>4. RestInv'
  BY DEF RestInv, Quiet
<1> QED
  BY <1>1, <1>2, <1>3, <1>4 DEF CalmInv

\* The end of a Reconcile that writes nothing any more.
LEMMA ReturnCalm ==
  ASSUME Everywhere, Return, UNCHANGED <<store, objs, cache>>, RecordInv', RestInv'
  PROVE  CalmInv'
<1>0. snap' = NoTemplate /\ pc' = "idle" /\ NoTemplate.uid = 0
  BY DEF Return, NoTemplate
<1>1. WatchInv'
  BY <1>0 DEF Everywhere, CalmInv, WatchInv, SameVersion, store
<1>2. WorkInv'
  BY <1>0 DEF Everywhere, CalmInv, WorkInv, store
<1>3. StaleInv'
  BY <1>0 DEF Everywhere, CalmInv, StaleInv, OldOnRecord, store
<1>4. ProgressInv'
  BY <1>0 DEF ProgressInv
<1> QED
  BY <1>1, <1>2, <1>3, <1>4 DEF CalmInv

\* A new version of the template, while the controller is idle or as its last
\* act: it is told apart from every copy and announced.
LEMMA NewVersionCalm ==
  ASSUME Everywhere, NEW t \in Template, WriteNewVersion(t), t.uid # 0,
         watch = <<>>, cache' = cache, objs' = objs, pc' = "idle", snap' = NoTemplate,
         t.uid = rt.uid /\ rt.uid # 0 /\ Applicable(rt.patches)
           => Targets(rt.patches) \subseteq t.active,
         \A ref \in Refs : Exists(objs[ref]) /\ objs[ref].owner = t.uid => ref \in t.active
  PROVE  CalmInv'
<1>0. NoTemplate.uid = 0
  BY DEF NoTemplate
<1>1. /\ rt' \in Template /\ rt'.rv = revision + 1 /\ rt'.uid = t.uid
      /\ rt'.active = t.active /\ rt'.patches = t.patches
      /\ revision' = revision + 1 /\ revision \in Nat /\ watch' = <<rt'>>
  <2> DEFINE new == [t EXCEPT !.rv = revision + 1]
  <2>1. rt' = new /\ watch' = Append(<<>>, new) /\ revision' = revision + 1
    BY DEF WriteNewVersion, Write
  <2>2. revision \in Nat /\ revision + 1 \in Nat
    BY DEF Everywhere, IInv, TypeOK
  <2>3. new \in Template /\ new.rv = revision + 1 /\ new.uid = t.uid
        /\ new.active = t.active /\ new.patches = t.patches
    BY <2>2 DEF Template
  <2>4. Append(<<>>, new) = <<new>>
    OBVIOUS
  <2> QED
    BY <2>1, <2>2, <2>3, <2>4
<1>2. cache' = rt /\ rt \in Template /\ rt.rv <= revision
  BY DEF Everywhere, CalmInv, WatchInv, IInv, TypeOK, CopiesInv, FaithfulCopy
<1>3. cache'.rv # rt'.rv
  BY <1>1, <1>2 DEF Template
<1>4. WatchInv'
  BY <1>0, <1>1, <1>3 DEF WatchInv, SameVersion
<1>5. WorkInv'
  <2>1. \A ref \in Refs : objs[ref].owner <= revision /\ objs[ref].owner \in Nat
    BY DEF Everywhere, CalmInv, WorkInv, IInv, TypeOK, Object
  <2>2. \A ref \in Refs : objs'[ref].owner <= revision'
    BY <1>1, <2>1
  <2> QED
    BY <1>1, <2>2 DEF WorkInv
<1>6. StaleInv'
  BY <1>0, <1>1, <1>2 DEF StaleInv, OldOnRecord
<1>7. Children' \subseteq rt'.active
  BY <1>1 DEF Children, IsControlledBy
<1> QED
  BY <1>1, <1>4, <1>5, <1>6, <1>7
  DEF CalmInv, RecordInv, ProgressInv, RestInv, Quiet

-----------------------------------------------------------------------------
(* The steps of others                                                     *)

\* Objects of others come and go, an object is deleted or collected, a resync, a
\* stutter: no child appears.
LEMMA OthersCalm ==
  ASSUME Everywhere, UNCHANGED <<store, cache, job>>,
         queued \in BOOLEAN, queued' \in {queued, TRUE},
         \A ref \in Refs : objs'[ref] = objs[ref] \/ objs'[ref].owner = Nobody
  PROVE  CalmInv'
<1>0. UNCHANGED <<rt, revision, watch, cache, pc, snap, next, changed, inactive>>
  BY DEF store, job
<1>1. Children' \subseteq Children
  BY <1>0 DEF Children, IsControlledBy, Nobody
<1>2. revision >= 0
  BY DEF Everywhere, IInv, TypeOK
<1>3. WatchInv' /\ StaleInv'
  BY <1>0 DEF Everywhere, CalmInv, WatchInv, StaleInv, SameVersion, OldOnRecord
<1>4. WorkInv'
  <2>1. ASSUME pc = "create" PROVE ~IsControlledBy(Current, snap)'
    <3>1. ThisPatch.ref \in Refs /\ snap.uid # 0
      BY <2>1, ThisPatchType DEF Everywhere, IInv, JobInv, TypeOK
    <3>2. Current' = objs'[ThisPatch.ref] /\ snap' = snap
      BY <1>0 DEF Current, ThisPatch
    <3> QED
      BY <2>1, <3>1, <3>2 DEF Everywhere, CalmInv, WorkInv, IsControlledBy, Nobody, Current, Exists
  <2>2. \A ref \in Refs : objs'[ref].owner <= revision'
    BY <1>0, <1>2 DEF Everywhere, CalmInv, WorkInv, Nobody
  <2> QED
    BY <1>0, <2>1, <2>2 DEF Everywhere, CalmInv, WorkInv
<1>8. (Busy => Busy') /\ (WillRecord => WillRecord')
  BY <1>0, <1>1 DEF Busy, WillRecord, Ahead
<1>5. RecordInv'
  BY <1>0, <1>1, <1>8 DEF Everywhere, CalmInv, RecordInv
<1>6. ProgressInv'
  BY <1>0, <1>1, <1>8 DEF Everywhere, CalmInv, ProgressInv, Ahead
<1>7. RestInv'
  BY <1>0, <1>1 DEF Everywhere, CalmInv, RestInv, Quiet
<1> QED
  BY <1>3, <1>4, <1>5, <1>6, <1>7 DEF CalmInv

\* The informer learns of the newest version, and the key is queued.
LEMMA DeliverCalm ==
  ASSUME Everywhere, Deliver
  PROVE  CalmInv'
<1>0. /\ UNCHANGED <<rt, revision, objs, pc, snap, next, changed, inactive>>
      /\ watch # <<>> /\ watch = <<rt>>
      /\ cache' = Head(watch) /\ watch' = Tail(watch) /\ queued' = TRUE
  BY DEF Deliver, Enqueue, local, job, Everywhere, CalmInv, WatchInv
<1>1. cache' = rt' /\ watch' = <<>>
  <2>1. Head(<<rt>>) = rt /\ Tail(<<rt>>) = <<>>
    OBVIOUS
  <2> QED
    BY <1>0, <2>1
<1>2. WatchInv'
  BY <1>0, <1>1 DEF Everywhere, CalmInv, WatchInv, SameVersion
<1>3. WorkInv'
  BY <1>0 DEF Everywhere, CalmInv, WorkInv, Current, ThisPatch, IsControlledBy
<1>4. StaleInv'
  BY <1>0, <1>1 DEF Everywhere, CalmInv, StaleInv, OldOnRecord
<1>5. Children' = Children
  BY <1>0 DEF Children
<1>6. RecordInv'
  BY <1>0, <1>5 DEF Everywhere, CalmInv, RecordInv, Busy
<1>7. ProgressInv'
  BY <1>0, <1>5 DEF Everywhere, CalmInv, ProgressInv, WillRecord, Ahead
<1>8. RestInv'
  BY <1>0 DEF RestInv, Quiet
<1> QED
  BY <1>2, <1>3, <1>4, <1>6, <1>7, <1>8 DEF CalmInv

\* At rest the informer is up to date, what a list that can be applied asks for is
\* on record, and so is every child.
LEMMA AtRest ==
  ASSUME Everywhere, Resting
  PROVE  /\ pc = "idle" /\ watch = <<>> /\ cache = rt /\ snap = NoTemplate
         /\ Children \subseteq rt.active
         /\ rt.uid # 0 /\ Applicable(rt.patches) => Targets(rt.patches) \subseteq rt.active
<1>1. pc = "idle" /\ watch = <<>> /\ cache = rt /\ snap = NoTemplate
  BY DEF Resting, Everywhere, CalmInv, WatchInv, WorkInv
<1>2. Applicable(rt.patches) => ~queued
  BY <1>1 DEF Resting
<1>3. ~Busy
  BY <1>1, <1>2 DEF Busy
<1> QED
  BY <1>1, <1>2, <1>3 DEF Everywhere, CalmInv, RecordInv, RestInv, Quiet

\* Whoever creates, edits or deletes the template when the controller rests
\* leaves its children on record.
LEMMA WritersCalm ==
  ASSUME Everywhere, Resting,
         \/ \E patches \in PatchLists : CreateTemplate(patches) \/ EditTemplate(patches)
         \/ DeleteTemplate
  PROVE  CalmInv'
<1>0. /\ pc = "idle" /\ watch = <<>> /\ cache = rt /\ snap = NoTemplate
      /\ UNCHANGED <<objs, cache, local>> /\ pc' = "idle" /\ snap' = NoTemplate
  BY AtRest DEF CreateTemplate, EditTemplate, DeleteTemplate, local, job
<1>1. /\ revision \in Nat /\ rt \in Template
      /\ \A ref \in Refs : objs[ref].owner <= revision /\ objs[ref].owner \in Nat
  BY DEF Everywhere, IInv, TypeOK, Object, CalmInv, WorkInv
<1>2. ASSUME NEW patches \in PatchLists, CreateTemplate(patches) PROVE CalmInv'
  <2> DEFINE t == [uid |-> revision + 1, rv |-> 0, patches |-> patches, active |-> {}]
  <2>1. t \in Template /\ t.uid = revision + 1
    BY <1>1, PatchListsAssumption DEF Template
  <2>2. t.uid # 0 /\ t.uid # rt.uid
    BY <1>1, <1>2, <2>1 DEF CreateTemplate
  <2>3. \A ref \in Refs : objs[ref].owner # t.uid
    <3>1. \A n \in Nat : n <= revision => n # revision + 1
      BY <1>1
    <3> QED
      BY <1>1, <2>1, <3>1, Zenon
  <2>4. WriteNewVersion(t)
    BY <1>2 DEF CreateTemplate
  <2> HIDE DEF t
  <2> QED
    BY <1>0, <2>1, <2>2, <2>3, <2>4, NewVersionCalm
<1>3. ASSUME NEW patches \in PatchLists, EditTemplate(patches) PROVE CalmInv'
  <2> DEFINE t == [rt EXCEPT !.patches = patches]
  <2>1. t \in Template /\ t.uid = rt.uid /\ t.active = rt.active
    BY <1>1, PatchListsAssumption DEF Template
  <2>2. WriteNewVersion(t) /\ rt.uid # 0
    BY <1>3 DEF EditTemplate
  <2> HIDE DEF t
  <2>3. \A ref \in Refs : Exists(objs[ref]) /\ objs[ref].owner = t.uid => ref \in t.active
    BY <2>1, <2>2, AtRest, ChildrenMeans
  <2> QED
    BY <1>0, <2>1, <2>2, <2>3, AtRest, NewVersionCalm
<1>4. CASE DeleteTemplate
  <2>1. /\ rt' = NoTemplate /\ rt'.uid = 0 /\ rt.uid # 0 /\ revision' = revision
        /\ watch' = Append(<<>>, NoTemplate)
    BY <1>0, <1>4 DEF DeleteTemplate, Write, NoTemplate
  <2>2. watch' = <<rt'>>
    BY <2>1
  <2>3. WatchInv'
    BY <1>0, <2>1, <2>2 DEF WatchInv, SameVersion
  <2>4. WorkInv'
    BY <1>0, <1>1, <2>1 DEF WorkInv
  <2>5. StaleInv' /\ ProgressInv' /\ RestInv'
    BY <1>0, <2>1 DEF StaleInv, OldOnRecord, ProgressInv, RestInv
  <2>6. RecordInv'
    BY <2>1 DEF RecordInv, Children
  <2> QED
    BY <2>3, <2>4, <2>5, <2>6 DEF CalmInv
<1> QED
  BY <1>2, <1>3, <1>4

-----------------------------------------------------------------------------
(* The steps of Reconcile                                                  *)

\* The key is taken from the queue: there is nothing, or work begins.
LEMMA StartCalm ==
  ASSUME Everywhere, ReconcileMissing \/ StartReconcile
  PROVE  CalmInv'
<1>1. CASE ReconcileMissing
  <2>0. /\ UNCHANGED <<rt, revision, watch, objs, cache, pc, snap, next, changed, inactive>>
        /\ cache.uid = 0 /\ pc = "idle" /\ Children' = Children
    BY <1>1 DEF ReconcileMissing, store, local, job, Children
  <2>1. WatchInv' /\ StaleInv'
    BY <2>0 DEF Everywhere, CalmInv, WatchInv, StaleInv, SameVersion, OldOnRecord
  <2>2. WorkInv' /\ ProgressInv'
    BY <2>0 DEF Everywhere, CalmInv, WorkInv, ProgressInv
  <2>3. watch = <<>> => rt.uid = 0 /\ Children = {}
    BY <2>0 DEF Everywhere, CalmInv, WatchInv, Children
  <2>4. RecordInv' /\ RestInv'
    BY <2>0, <2>3 DEF Everywhere, CalmInv, RecordInv, RestInv, Busy, Quiet
  <2> QED
    BY <2>1, <2>2, <2>4 DEF CalmInv
<1>2. CASE StartReconcile
  <2>0. /\ UNCHANGED <<rt, revision, watch, objs, cache>>
        /\ pc = "idle" /\ pc' = "apply" /\ snap' = cache /\ cache.uid # 0
        /\ Renderable(cache.patches) /\ next' = 1 /\ changed' = FALSE
        /\ inactive' = Inactive(cache) /\ Children' = Children
    BY <1>2 DEF StartReconcile, store, Children
  <2>1. WatchInv' /\ StaleInv'
    BY <2>0 DEF Everywhere, CalmInv, WatchInv, StaleInv, SameVersion, OldOnRecord
  <2>2. WorkInv'
    BY <2>0 DEF Everywhere, CalmInv, WatchInv, WorkInv
  <2>6. \A i \in DOMAIN rt.patches : Ahead(i) /\ Ahead(i)'
    BY <2>0 DEF Ahead, Everywhere, IInv, TypeOK, Template
  <2>3. RecordInv'
    BY <2>0, <2>6 DEF Everywhere, CalmInv, WatchInv, RecordInv, Busy, WillRecord
  <2>4. ProgressInv'
    <3>1. Children \subseteq rt.active \cup Targets(rt.patches)
      BY DEF Everywhere, CalmInv, RecordInv
    <3>2. ASSUME snap' = rt PROVE inactive' = rt.active \ Targets(rt.patches)
      BY <2>0, <3>2 DEF Inactive
    <3> QED
      BY <2>0, <2>6, <3>1, <3>2 DEF ProgressInv
  <2>5. RestInv'
    BY <2>0 DEF RestInv, Quiet
  <2> QED
    BY <2>1, <2>2, <2>3, <2>4, <2>5 DEF CalmInv
<1> QED
  BY <1>1, <1>2

\* What is read decides what is done, and changes nothing by itself.
LEMMA ReadCalm ==
  ASSUME Everywhere, ReadCurrent
  PROVE  CalmInv'
<1>0. /\ pc # "idle" /\ pc' # "idle" /\ next \in DOMAIN snap.patches
      /\ UNCHANGED <<rt, revision, watch, objs, cache, queued, snap, inactive>>
      /\ changed => changed'
  <2>1. Applying /\ UNCHANGED <<store, objs, cache>>
    BY DEF ReadCurrent
  <2>2. CASE ReadExists \/ ReadUnchanged
    BY <2>1, <2>2 DEF Applying, ReadExists, ReadUnchanged, NextPatch, store
  <2>3. CASE ReadMissing \/ ReadOutdated
    BY <2>1, <2>3 DEF Applying, ReadMissing, ReadOutdated, store
  <2> QED
    BY <2>2, <2>3 DEF ReadCurrent
<1>1. Children' = Children
  BY <1>0 DEF Children
<1>5. ASSUME snap = rt, WillRecord PROVE WillRecord'
  <2>1. CASE changed'
    BY <1>0, <2>1 DEF WillRecord
  <2>2. CASE ~changed'
    <3>1. PICK i \in DOMAIN rt.patches : i >= next /\ rt.patches[i].ref \notin Children
      BY <1>0, <1>5, <2>2 DEF WillRecord, Ahead
    <3>2. next \in Nat /\ i \in Nat
      BY DEF Everywhere, IInv, TypeOK, Template
    <3>3. next' = next \/ (next' = next + 1 /\ i # next)
      <4>1. CASE ReadExists
        BY <2>2, <4>1 DEF ReadExists, NextPatch
      <4>2. CASE ReadMissing \/ ReadOutdated
        BY <4>2 DEF ReadMissing, ReadOutdated
      <4>3. CASE ReadUnchanged
        <5>1. ThisPatch.ref \in Children
          <6>1. ThisPatch.ref \in Refs /\ rt.uid # 0
            BY <1>0, <1>5, ThisPatchType, CurrentMeansDelivered DEF Everywhere, IInv
          <6> QED
            BY <1>5, <4>3, <6>1 DEF ReadUnchanged, IsControlledBy, Current, Children
        <5> QED
          BY <1>5, <3>1, <4>3, <5>1 DEF ReadUnchanged, NextPatch, ThisPatch
      <4> QED
        BY <4>1, <4>2, <4>3 DEF ReadCurrent
    <3>4. i >= next'
      BY <3>1, <3>2, <3>3
    <3> QED
      BY <1>0, <1>1, <3>1, <3>4 DEF WillRecord, Ahead
  <2> QED
    BY <2>1, <2>2
<1>2. RecordInv'
  BY <1>0, <1>1, <1>5 DEF Everywhere, CalmInv, RecordInv, Busy
<1>3. pc' = "create" => ~IsControlledBy(Current, snap)'
  BY <1>0 DEF ReadCurrent, ReadExists, ReadUnchanged, ReadMissing, ReadOutdated, NextPatch,
              Current, ThisPatch, IsControlledBy
<1>4. ProgressInv'
  <2> SUFFICES ASSUME snap = rt
               PROVE  /\ Children \subseteq Targets(rt.patches) \cup inactive
                      /\ WillRecord' \/ \A i \in DOMAIN rt.patches :
                                          i < next' => rt.patches[i].ref \in rt.active
    <3>1. \A i \in DOMAIN rt.patches : i \in Nat /\ next' \in Nat
      <4>1. next' \in {next, next + 1}
        BY DEF ReadCurrent, ReadExists, ReadUnchanged, ReadMissing, ReadOutdated, NextPatch
      <4> QED
        BY <4>1 DEF Everywhere, IInv, TypeOK, Template
    <3> QED
      BY <1>0, <1>1, <3>1 DEF ProgressInv, Ahead
  <2>1. Children \subseteq Targets(rt.patches) \cup inactive
    BY <1>0 DEF Everywhere, CalmInv, ProgressInv
  <2>2. CASE WillRecord
    BY <1>5, <2>1, <2>2
  <2>3. CASE ~WillRecord
    <3>1. /\ Children \subseteq rt.active /\ ~changed
          /\ \A i \in DOMAIN rt.patches : i < next => rt.patches[i].ref \in rt.active
      <4>1. \A i \in DOMAIN rt.patches : i \in Nat /\ next \in Nat
        BY DEF Everywhere, IInv, TypeOK, Template
      <4> QED
        BY <1>0, <2>3, <4>1 DEF Everywhere, CalmInv, RecordInv, ProgressInv, WillRecord, Ahead
    <3>2. CASE ReadExists
      BY <1>0, <2>1, <3>2 DEF ReadExists, NextPatch, WillRecord
    <3>3. CASE ReadMissing \/ ReadOutdated
      BY <2>1, <3>1, <3>3 DEF ReadMissing, ReadOutdated
    <3>4. CASE ReadUnchanged
      <4>1. next' = next + 1
        BY <3>4 DEF ReadUnchanged, NextPatch
      <4>2. rt.patches[next].ref \in Children
        <5>1. ThisPatch.ref \in Refs /\ rt.uid # 0
          BY <1>0, ThisPatchType, CurrentMeansDelivered DEF Everywhere, IInv
        <5> QED
          BY <3>4, <5>1 DEF ReadUnchanged, IsControlledBy, Current, ThisPatch, Children
      <4>3. \A i \in DOMAIN rt.patches : i < next + 1 => i < next \/ i = next
        BY DEF Everywhere, IInv, TypeOK, Template
      <4> QED
        BY <2>1, <3>1, <4>1, <4>2, <4>3
    <3> QED
      BY <3>2, <3>3, <3>4 DEF ReadCurrent
  <2> QED
    BY <2>2, <2>3
<1>6. \A ref \in Refs : objs'[ref].owner <= revision
  BY <1>0 DEF Everywhere, CalmInv, WorkInv
<1> QED
  BY <1>0, <1>2, <1>3, <1>4, <1>6, InsideCalm

\* A child is created, or changed: the status will be written, or an older
\* version of it lists the child already.
LEMMA ApplyCalm ==
  ASSUME Everywhere, CreateChild \/ PatchChild, CreateChild => Applicable(snap.patches)
  PROVE  CalmInv'
<1>0. /\ pc # "idle" /\ pc' = "apply" /\ changed' = TRUE
      /\ UNCHANGED <<rt, revision, watch, cache, queued, snap, inactive>>
  BY DEF CreateChild, PatchChild, NextPatch, store, Everywhere, IInv, TypeOK
<1> DEFINE ref == ThisPatch.ref
<1>1. /\ ref \in Refs /\ ref \in Targets(snap.patches)
      /\ objs'[ref].owner \in {snap.uid, objs[ref].owner}
      /\ \A r \in Refs : r # ref => objs'[r] = objs[r]
  <2>1. ref \in Refs /\ next \in DOMAIN snap.patches /\ \A r \in Refs : r # ref => objs'[r] = objs[r]
    BY CreateEffect, PatchEffect DEF Everywhere, IInv
  <2>2. ref \in Targets(snap.patches)
    BY <2>1 DEF Targets, ThisPatch
  <2>3. CreateChild => objs'[ref].owner = snap.uid
    BY CreateEffect DEF Everywhere, IInv
  <2>4. PatchChild => objs'[ref].owner = objs[ref].owner
    <3>1. objs \in [Refs -> Object]
      BY DEF Everywhere, IInv, TypeOK
    <3> QED
      BY <2>1, <3>1 DEF PatchChild, Object
  <2> QED
    BY <2>1, <2>2, <2>3, <2>4
<1>2. \A r \in Refs : objs'[r].owner <= revision
  BY <1>1 DEF Everywhere, CalmInv, WorkInv, IInv, CopiesInv, FaithfulCopy
<1>3. Children' \subseteq Children \cup {r \in {ref} : CreateChild /\ rt.uid = snap.uid /\ rt.uid # 0}
  <2>1. ASSUME NEW r \in Children'
        PROVE  \/ r \in Children
               \/ r = ref /\ CreateChild /\ rt.uid = snap.uid /\ rt.uid # 0
    <3>1. r \in Refs /\ rt.uid # 0 /\ Exists(objs'[r]) /\ objs'[r].owner = rt.uid
      BY <1>0, <2>1 DEF Children, IsControlledBy, Exists
    <3>2. CASE r # ref
      BY <1>1, <3>1, <3>2 DEF Children, IsControlledBy
    <3>3. CASE r = ref /\ CreateChild
      BY <3>1, <3>3, CreateEffect DEF Everywhere, IInv
    <3>4. CASE r = ref /\ PatchChild
      <4>1. objs[ref].owner = rt.uid
        BY <1>1, <3>1, <3>4 DEF PatchChild, Everywhere, IInv, TypeOK, Object
      <4> QED
        BY <3>1, <3>4, <4>1 DEF PatchChild, Current, Children, IsControlledBy
    <3> QED
      BY <3>1, <3>2, <3>3, <3>4
  <2> QED
    BY <2>1
<1>4. CASE snap = rt
  <2>1. /\ Children \subseteq rt.active \cup Targets(rt.patches)
        /\ Children \subseteq Targets(rt.patches) \cup inactive
    BY <1>0, <1>4, CurrentMeansDelivered
  <2>2. Children' \subseteq rt.active \/ (Busy' /\ WillRecord')
    <3>1. CASE Children \subseteq rt.active /\ ~CreateChild
      BY <1>3, <3>1
    <3>2. Busy => Busy' /\ WillRecord'
      BY <1>0, <1>4 DEF Busy, WillRecord
    <3>3. CreateChild => Busy
      BY <1>0, <1>4, CurrentMeansDelivered
    <3> QED
      BY <3>1, <3>2, <3>3 DEF Everywhere, CalmInv, RecordInv
  <2>3. RecordInv' /\ ProgressInv'
    BY <1>0, <1>1, <1>3, <1>4, <2>1, <2>2 DEF RecordInv, ProgressInv, WillRecord
  <2> QED
    BY <1>0, <1>2, <2>3, InsideCalm
<1>5. CASE snap # rt
  <2>1. Children \subseteq rt.active
    BY <1>0, <1>5, OldMeansRecorded
  <2>2. CreateChild /\ rt.uid = snap.uid /\ rt.uid # 0 => ref \in rt.active
    BY <1>0, <1>1, <1>5 DEF Everywhere, CalmInv, StaleInv, OldOnRecord, WorkInv
  <2>3. RecordInv' /\ ProgressInv'
    BY <1>0, <1>3, <1>5, <2>1, <2>2 DEF RecordInv, ProgressInv
  <2> QED
    BY <1>0, <1>2, <2>3, InsideCalm
<1> QED
  BY <1>4, <1>5

\* Only what the snapshot does not ask for is deleted.
LEMMA DeleteCalm ==
  ASSUME Everywhere, NEW ref \in Refs, DeleteInactive(ref)
  PROVE  CalmInv'
<1>0. /\ pc = "apply" /\ pc' = "apply" /\ ref \in inactive /\ (changed => changed')
      /\ inactive' = inactive \ {ref} /\ next' = next
      /\ UNCHANGED <<rt, revision, watch, cache, queued, snap>>
      /\ objs'[ref] = Absent /\ \A r \in Refs : r # ref => objs'[r] = objs[r]
  BY DEF DeleteInactive, Deleting, store, Everywhere, IInv, TypeOK
<1>1. Children' = Children \ {ref}
  BY <1>0 DEF Children, IsControlledBy, Absent, Exists
<1>2. \A r \in Refs : objs'[r].owner <= revision
  BY <1>0 DEF Absent, Nobody, Everywhere, CalmInv, WorkInv, IInv, TypeOK
<1>5. (Busy => Busy') /\ (WillRecord => WillRecord')
  BY <1>0, <1>1 DEF Busy, WillRecord, Ahead
<1>3. RecordInv'
  BY <1>0, <1>1, <1>5 DEF Everywhere, CalmInv, RecordInv
<1>4. ProgressInv'
  BY <1>0, <1>1, <1>5 DEF Everywhere, CalmInv, ProgressInv, Ahead, IInv, JobInv
<1> QED
  BY <1>0, <1>2, <1>3, <1>4, InsideCalm

\* A Reconcile gives up: what it has created is on record, or the next one has
\* the same list and finds that it must write the status.
LEMMA FailCalm ==
  ASSUME Everywhere,
         RenderError \/ InvalidPatch \/ CreateConflict \/ PatchNotFound \/ StatusConflict
  PROVE  CalmInv'
<1>0. Fail /\ Return /\ queued' = TRUE /\ UNCHANGED <<store, objs, cache>> /\ Children' = Children
  BY DEF RenderError, InvalidPatch, CreateConflict, PatchNotFound, StatusConflict, Fail,
         store, Children
<1>1. RestInv'
  BY <1>0 DEF RestInv, Quiet
<1>2. CASE Children \subseteq rt.active
  <2>1. RecordInv'
    BY <1>0, <1>2 DEF RecordInv, store
  <2> QED
    BY <1>0, <1>1, <2>1, ReturnCalm
<1>3. CASE pc # "idle" /\ snap = rt
  <2>0. CASE Children \subseteq rt.active
    BY <1>2, <2>0
  <2> SUFFICES ASSUME Busy PROVE CalmInv'
    BY <2>0 DEF Everywhere, CalmInv, RecordInv
  <2>1. CreateConflict \/ PatchNotFound
    <3>1. ~InvalidPatch
      BY <1>3 DEF InvalidPatch, Applying, ThisPatch, Busy, Applicable
    <3>2. ~StatusConflict
      BY <1>3 DEF StatusConflict, StatusAccepted
    <3>3. ~RenderError
      BY <1>3 DEF RenderError
    <3> QED
      BY <3>1, <3>2, <3>3
  <2>2. next \in DOMAIN rt.patches /\ rt.patches[next].ref \notin Children
    <3>1. next \in DOMAIN rt.patches /\ ThisPatch = rt.patches[next]
      BY <1>3, <2>1 DEF CreateConflict, PatchNotFound, Everywhere, IInv, TypeOK, ThisPatch
    <3>2. CASE CreateConflict
      BY <1>3, <3>1, <3>2 DEF CreateConflict, Everywhere, CalmInv, WorkInv, Current, Children
    <3>3. CASE PatchNotFound
      BY <3>1, <3>3 DEF PatchNotFound, Current, Children, IsControlledBy
    <3> QED
      BY <2>1, <3>1, <3>2, <3>3
  <2>3. Children \subseteq rt.active \cup Targets(rt.patches)
    BY <1>3, CurrentMeansDelivered
  <2>4. RecordInv'
    BY <1>0, <2>2, <2>3 DEF RecordInv, Busy, WillRecord, Ahead, store, Return
  <2> QED
    BY <1>0, <1>1, <2>4, ReturnCalm
<1>4. CASE pc = "idle" /\ Busy
  BY <1>4 DEF Busy, Applicable, Renderable, RenderError, InvalidPatch, CreateConflict, PatchNotFound, StatusConflict,
              Applying, Finishing, Deleting, Everywhere, CalmInv, WatchInv
<1> QED
  BY <1>2, <1>3, <1>4 DEF Everywhere, CalmInv, RecordInv, Busy

\* When a Reconcile of the current version has nothing left to delete, its
\* targets hold its children; if nothing has changed all of them are on record.
LEMMA FinishedCurrent ==
  ASSUME Everywhere, Finishing, snap = rt
  PROVE  /\ Children \subseteq Targets(rt.patches)
         /\ ~changed => Children \cup Targets(rt.patches) \subseteq rt.active
<1>1. pc # "idle" /\ inactive = {} /\ next \notin DOMAIN rt.patches
  BY DEF Finishing, Deleting
<1>2. \A i \in DOMAIN rt.patches : ~Ahead(i)
  <2>1. rt.patches \in Seq(Patch) /\ next \in Nat \ {0}
    BY DEF Everywhere, IInv, TypeOK, Template
  <2>2. DOMAIN rt.patches = 1 .. Len(rt.patches) /\ Len(rt.patches) \in Nat
    BY <2>1
  <2> QED
    BY <1>1, <2>1, <2>2 DEF Ahead
<1>3. ~changed => ~WillRecord
  BY <1>2 DEF WillRecord
<1> QED
  BY <1>1, <1>2, <1>3 DEF Everywhere, CalmInv, RecordInv, ProgressInv, Targets

\* A Reconcile ends: unless a newer version is on its way, the record is complete.
LEMMA FinishCalm ==
  ASSUME Everywhere, FinishUnchanged \/ UpdateStatus \/ TouchStatus
  PROVE  CalmInv'
<1>0. Finishing /\ pc # "idle" /\ Return
  BY DEF FinishUnchanged, UpdateStatus, TouchStatus, Finishing, Deleting
<1>1. CASE FinishUnchanged
  <2>0. /\ UNCHANGED <<store, objs, cache, queued>> /\ ~changed /\ Children' = Children
        /\ UNCHANGED <<rt, watch>>
    BY <1>1 DEF FinishUnchanged, store, Children
  <2>1. CASE snap = rt
    <3>1. /\ Children \subseteq Targets(rt.patches)
          /\ Children \cup Targets(rt.patches) \subseteq rt.active
      BY <1>0, <2>0, <2>1, FinishedCurrent
    <3>2. RecordInv' /\ RestInv'
      BY <2>0, <3>1 DEF RecordInv, RestInv
    <3> QED
      BY <1>0, <2>0, <3>2, ReturnCalm
  <2>2. CASE snap # rt
    <3>1. Children \subseteq rt.active /\ (watch # <<>> \/ queued)
      BY <1>0, <2>2, OldMeansRecorded DEF Everywhere, CalmInv, WorkInv
    <3>2. RecordInv' /\ RestInv'
      BY <2>0, <3>1 DEF RecordInv, RestInv, Quiet
    <3> QED
      BY <1>0, <2>0, <3>2, ReturnCalm
  <2> QED
    BY <2>1, <2>2
<1>2. CASE UpdateStatus \/ TouchStatus
  <2>0. /\ snap = rt /\ watch = <<>> /\ rt.uid # 0
        /\ UNCHANGED <<objs, cache, queued>>
        /\ Children \subseteq Targets(rt.patches)
        /\ rt \in Template /\ Targets(rt.patches) \subseteq Refs
        /\ \A ref \in Refs : Exists(objs[ref]) /\ objs[ref].owner = rt.uid
                               => ref \in Targets(rt.patches)
    <3>1. snap = rt
      BY <1>0, <1>2, AcceptedMeansCurrent DEF UpdateStatus, TouchStatus
    <3>2. rt \in Template /\ Targets(rt.patches) \subseteq Refs
      BY TargetsType DEF Everywhere, IInv, TypeOK, Template
    <3>3. Children \subseteq Targets(rt.patches)
      BY <1>0, <3>1, FinishedCurrent
    <3>4. watch = <<>> /\ rt.uid # 0
      BY <1>0, <3>1, CurrentMeansDelivered
    <3>5. UNCHANGED <<objs, cache, queued>>
      BY <1>2 DEF UpdateStatus, TouchStatus
    <3> QED
      BY <3>1, <3>2, <3>3, <3>4, <3>5, ChildrenMeans
  <2>1. pc' = "idle" /\ snap' = NoTemplate
    BY <1>0 DEF Return
  <2>2. CASE UpdateStatus
    <3> DEFINE t == [rt EXCEPT !.active = Targets(rt.patches)]
    <3>1. t \in Template /\ t.uid = rt.uid /\ t.active = Targets(rt.patches)
      BY <2>0 DEF Template
    <3>2. WriteNewVersion(t)
      BY <2>0, <2>2 DEF UpdateStatus
    <3> HIDE DEF t
    <3> QED
      BY <2>0, <2>1, <3>1, <3>2, NewVersionCalm
  <2>3. CASE TouchStatus
    <3>1. rt.active = Targets(rt.patches)
      BY <2>0, <2>3 DEF TouchStatus
    <3>2. CASE WriteNewVersion(rt)
      BY <2>0, <2>1, <3>1, <3>2, NewVersionCalm
    <3>3. CASE UNCHANGED store
      <4>1. Children' = Children /\ rt' = rt
        BY <2>0, <3>3 DEF Children, store
      <4>2. RecordInv' /\ RestInv'
        BY <2>0, <3>1, <4>1 DEF RecordInv, RestInv
      <4> QED
        BY <1>0, <2>0, <3>3, <4>2, ReturnCalm
    <3> QED
      BY <2>3, <3>2, <3>3 DEF TouchStatus
  <2> QED
    BY <1>2, <2>2, <2>3
<1> QED
  BY <1>1, <1>2

-----------------------------------------------------------------------------
(* The invariant and the theorems                                          *)

\* Calm once lost is never regained; a calm step is one of a controller without
\* failures, of a writer that has waited, or of somebody else.
LEMMA CalmSteps ==
  ASSUME IInv, [Next]_vars, Calm'
  PROVE  /\ Calm /\ (CreateChild => Applicable(snap.patches))
         /\ \/ Reconcile \/ Deliver \/ Resync \/ Collect \/ UNCHANGED vars
            \/ \E ref \in Refs : \/ \E content \in Contents : ForeignCreate(ref, content)
                                 \/ UserDelete(ref)
            \/ /\ Resting
               /\ \/ \E patches \in PatchLists :
                       CreateTemplate(patches) \/ EditTemplate(patches)
                  \/ DeleteTemplate
<1>1. ASSUME NEW what \in Kinds \ {"rough"}, NEW rough \in BOOLEAN, Spend(what, rough)
      PROVE  Calm /\ ~rough
  BY <1>1 DEF Spend, Calm, IInv, TypeOK, Kinds
<1>2. spent' = spent => Calm
  BY DEF Calm
<1>0. CreateChild => Calm /\ Applicable(snap.patches)
  BY DEF CreateChild, Note, Calm, IInv, TypeOK, Kinds
<1>3. {"edit", "deletion", "foreign", "loss", "fault", "deleteFault", "crash", "touch"}
        \subseteq Kinds \ {"rough"}
  BY DEF Kinds
<1>4. ~Failure
  BY <1>1, <1>3 DEF Failure, CallFails, DeleteFails, Crash
<1>5. Resting \in BOOLEAN
  BY DEF Resting
<1>6. ASSUME Users
      PROVE  /\ Calm
             /\ \/ \E ref \in Refs : \/ \E content \in Contents : ForeignCreate(ref, content)
                                     \/ UserDelete(ref)
                \/ /\ Resting
                   /\ \/ \E patches \in PatchLists :
                           CreateTemplate(patches) \/ EditTemplate(patches)
                      \/ DeleteTemplate
  <2>1. ASSUME NEW patches \in PatchLists, CreateTemplate(patches) \/ EditTemplate(patches)
        PROVE  Calm /\ Resting
    BY <1>1, <1>3, <1>5, <2>1 DEF CreateTemplate, EditTemplate
  <2>2. ASSUME DeleteTemplate PROVE Calm /\ Resting
    BY <1>1, <1>3, <1>5, <2>2 DEF DeleteTemplate
  <2>3. ASSUME NEW ref \in Refs, NEW content \in Contents, ForeignCreate(ref, content)
        PROVE  Calm
    BY <1>1, <1>3, <2>3 DEF ForeignCreate
  <2>4. ASSUME NEW ref \in Refs, UserDelete(ref) PROVE Calm
    BY <1>1, <1>2, <1>3, <2>4 DEF UserDelete
  <2> QED
    BY <1>6, <2>1, <2>2, <2>3, <2>4 DEF Users
<1>7. ASSUME Reconcile PROVE Calm
  <2>1. CASE TouchStatus
    BY <1>1, <1>2, <1>3, <2>1 DEF TouchStatus
  <2>2. CASE Reconcile /\ ~TouchStatus /\ ~CreateChild
    BY <1>2, <2>2
    DEF Reconcile, ReconcileMissing, RenderError, StartReconcile, InvalidPatch, ReadCurrent,
        CreateConflict, PatchChild, PatchNotFound, DeleteInactive,
        FinishUnchanged, UpdateStatus, StatusConflict
  <2> QED
    BY <1>7, <1>0, <2>1, <2>2
<1>8. Deliver \/ Resync \/ Collect \/ UNCHANGED vars => Calm
  BY <1>2 DEF Deliver, Resync, Collect, GarbageCollect, vars
<1> QED
  BY <1>4, <1>6, <1>7, <1>8, <1>0 DEF Next

\* A calm step keeps the calm invariant.
LEMMA CalmStep ==
  ASSUME IInv, Calm => CalmInv, [Next]_vars, Calm'
  PROVE  CalmInv'
<1>0. Everywhere
  BY CalmSteps DEF Everywhere
<1>1. CASE Reconcile
  BY <1>0, <1>1, CalmSteps, StartCalm, ReadCalm, ApplyCalm, DeleteCalm, FailCalm, FinishCalm DEF Reconcile
<1>2. CASE Deliver
  BY <1>0, <1>2, DeliverCalm
<1>3. queued \in BOOLEAN /\ objs \in [Refs -> Object]
  BY DEF IInv, TypeOK
<1>4. CASE Resync \/ UNCHANGED vars
  BY <1>0, <1>3, <1>4, OthersCalm DEF Resync, vars, local
<1>5. ASSUME NEW ref \in Refs, NEW o \in {Absent} \cup [owner : {Nobody}, content : Contents],
             objs' = [objs EXCEPT ![ref] = o],
             UNCHANGED <<store, cache, queued, job>>
      PROVE  CalmInv'
  <2>1. o.owner = Nobody
    BY DEF Absent
  <2>2. \A r \in Refs : objs'[r] = objs[r] \/ objs'[r].owner = Nobody
    BY <1>3, <1>5, <2>1
  <2> QED
    BY <1>0, <1>3, <1>5, <2>2, OthersCalm
<1>6. CASE Collect
  BY <1>5, <1>6 DEF Collect, GarbageCollect, Remove
<1>7. ASSUME NEW ref \in Refs, UserDelete(ref) PROVE CalmInv'
  BY <1>5, <1>7 DEF UserDelete, Remove
<1>8. ASSUME NEW ref \in Refs, NEW content \in Contents, ForeignCreate(ref, content)
      PROVE  CalmInv'
  BY <1>5, <1>8 DEF ForeignCreate, local
<1>9. CASE /\ Resting
           /\ \/ \E patches \in PatchLists : CreateTemplate(patches) \/ EditTemplate(patches)
              \/ DeleteTemplate
  BY <1>0, <1>9, WritersCalm
<1> QED
  BY <1>1, <1>2, <1>4, <1>6, <1>7, <1>8, <1>9, CalmSteps

\* Nothing is there, and the controller rests.
LEMMA CalmInit == Init => CalmInv
<1> SUFFICES ASSUME Init PROVE CalmInv
  OBVIOUS
<1>1. rt = NoTemplate /\ rt.uid = 0 /\ Children = {}
  BY DEF Init, NoTemplate, Children
<1>2. WatchInv /\ StaleInv /\ ProgressInv
  BY <1>1 DEF Init, WatchInv, SameVersion, StaleInv, OldOnRecord, ProgressInv
<1>3. WorkInv
  BY DEF Init, WorkInv, Absent, Nobody
<1>4. RecordInv /\ RestInv
  BY <1>1 DEF RecordInv, RestInv
<1> QED
  BY <1>2, <1>3, <1>4 DEF CalmInv

\* reconciler.go:84-122: as long as it is calm, a Reconcile of an old version
\* creates nothing that is not on record, and a Reconcile that gives up leaves
\* a target that will make the next one write the status.
THEOREM CalmInvariant ==
  Spec => [](Calm => CalmInv)
<1>1. Init => (Calm => CalmInv)
  BY CalmInit
<1>2. IInv /\ (Calm => CalmInv) /\ [Next]_vars => (Calm => CalmInv)'
  BY CalmStep
<1> QED
  BY <1>1, <1>2, Invariant, PTL DEF Spec

\* deleteInactiveResources, reconciler.go:136: while it is calm, the objects of
\* dropped patches are gone when the controller has nothing left to do.
THEOREM NothingOrphaned ==
  Spec => []NoOrphan
<1>1. (Calm => CalmInv) => NoOrphan
  BY DEF CalmInv, RestInv, NoOrphan, Children
<1> QED
  BY <1>1, CalmInvariant, PTL

\* getResourceActivity, reconciler.go:444: while it is calm, status.active lists
\* every child when the controller has nothing left to do.
THEOREM EveryChildRecorded ==
  Spec => []ChildrenRecorded
<1>1. (Calm => CalmInv) => ChildrenRecorded
  BY DEF CalmInv, RestInv, ChildrenRecorded, Children
<1> QED
  BY <1>1, CalmInvariant, PTL
=============================================================================
