----------------------------- MODULE ResourceMerge -----------------------------
(***************************************************************************)
(* What the ResourceSet controller makes of one resource: the three-way    *)
(* merge of applyResource (internal/controller/resourceset/reconciler.go)  *)
(* and the reducers it is built from (internal/reducer). ResourceSets      *)
(* takes an object as a flat map of keys; here it is a JSON document with  *)
(* nested maps, arrays whose elements have names or not, and nulls.        *)
(*                                                                         *)
(* What the code does by recursion is a function of the levels a document  *)
(* may have, f[n], defined by f[n - 1]. A reducer is an operator on        *)
(* documents; its result is Error where the code returns an error and      *)
(* Panic where reflect panics on a null element.                           *)
(***************************************************************************)
EXTENDS Naturals, Sequences

CONSTANTS
  Key,         \* the keys of maps
  Value,       \* the strings, numbers and booleans
  Number,      \* those that are no strings
  Depth,       \* bound: levels of a document
  Originals,   \* what the resource of the template's own name may be
  Desired,     \* the resources a set may ask for
  UserObjects, \* what users make of the object (its owner references apart)
  Name, Namespace, SetUID, ObjectUID, ClusterIP, \* values
  MaxEdits,    \* bound: edits of the set, of the original and by users
  MaxRounds    \* bound: successful Reconciles in a row

VARIABLES
  gvk,       \* "Service" or another kind
  original,  \* the object of the resource's own name; Absent if there is none
  desired,   \* the resource of the ResourceSet
  applied,   \* the object of the set's name; Absent before the first Reconcile
  call,      \* what the last Reconcile sent to the API server; Absent if nothing
  outcome,   \* what it ended with; "none" after an edit
  rounds,    \* successful Reconciles since the last edit
  edits

vars == <<gvk, original, desired, applied, call, outcome, rounds, edits>>

-----------------------------------------------------------------------------
(* Documents                                                               *)

Null == [is |-> "null"]
Absent == [is |-> "absent"]                     \* of a key that is not there
Error == [is |-> "error"]
Panic == [is |-> "panic"]
Scalar(x) == [is |-> "scalar", value |-> x]
Template(x) == [is |-> "template", value |-> x] \* a string for text/template
BadTemplate == [is |-> "bad_template"]
UID(x) == [is |-> "uid", value |-> x]           \* a string of Go type types.UID
Map(f) == [is |-> "map", at |-> f]
Object(f) == Map([k \in Key |-> IF k \in DOMAIN f THEN f[k] ELSE Absent])
Array(s) == [is |-> "array", items |-> s]

IsMap(v) == v.is = "map"
IsArray(v) == v.is = "array"
Failed(v) == v.is = "error" \/ v.is = "panic"
Keys(v) == {k \in Key : v.at[k] # Absent}
Lookup(v, k) == IF IsMap(v) /\ v.at[k] # Absent THEN v.at[k] ELSE Null
Fetch(v, k1, k2) == Lookup(Lookup(v, k1), k2)
Without(v, ks) == Map([k \in Key |-> IF k \in ks THEN Absent ELSE v.at[k]])

\* What is made of leaves by at most n maps and arrays on top of each other;
\* inMaps may be the value of a key too, but no element of an array.
Trees(leaves, inMaps) ==
  LET Tree[n \in Nat] ==
        IF n = 0 THEN leaves
        ELSE LET Below == Tree[n - 1]
             IN  [is : {"map"}, at : [Key -> {Absent} \cup inMaps \cup Below]]
                   \cup [is : {"array"}, items : Seq(Below)] \cup leaves
  IN  Tree

Scalars == [is : {"scalar"}, value : Value]
Strings == Scalars \cup [is : {"template"}, value : Value \ Number] \cup {BadTemplate}
Leaves == [is : {"scalar", "template", "uid"}, value : Value] \cup {BadTemplate, Null}

Document == Trees(Leaves, {})
JSON == Trees(Scalars \cup {Null}, {})
Written == Trees(Strings \cup {Null}, {})     \* templates not yet rendered
NoNullElement == Trees(Strings, {Null})

\* Every object has metadata (a resource of a set by its CRD, embedded-resource).
Objects(documents) == {v \in documents : IsMap(v) /\ IsMap(Lookup(v, "metadata"))}

-----------------------------------------------------------------------------
(* What the constants may be                                               *)

ServerKeys == {"resourceVersion", "uid"} \* two of the five

ASSUME BoundsAssumption == {MaxEdits, MaxRounds} \subseteq Nat

\* An owner reference is four levels deep.
ASSUME DepthAssumption == Depth \in Nat /\ Depth >= 4

ASSUME KeyAssumption ==
  ServerKeys \cup {"metadata", "annotations", "revision", "name", "namespace",
                   "ownerReferences", "controller", "status", "spec", "clusterIP",
                   "ports", "nodePort"} \subseteq Key

\* The iterator of a NamedArray says "" for "no name".
ASSUME ValueAssumption ==
  /\ {"true", Name, Namespace, SetUID, ObjectUID, ClusterIP} \subseteq Value
  /\ Number \subseteq Value
  /\ "" \notin Value

ASSUME DocumentsAssumption ==
  /\ Originals \cup UserObjects \subseteq Objects(JSON[Depth])
  /\ Desired \subseteq Objects(Written[Depth])

-----------------------------------------------------------------------------
(* Maps and arrays set element by element through reflect: a nil sets no   *)
(* key of a map, and panics as an element of an array.                     *)

SetMap(f) ==
  LET failed == {k \in Key : Failed(f[k])}
  IN  IF failed # {} THEN f[CHOOSE k \in failed : TRUE]
      ELSE Map([k \in Key |-> IF f[k] = Null THEN Absent ELSE f[k]])
SetArray(s) ==
  LET failed == {i \in DOMAIN s : Failed(s[i])}
  IN  IF failed # {} THEN s[CHOOSE i \in failed : TRUE]
      ELSE IF \E i \in DOMAIN s : s[i] = Null THEN Panic ELSE Array(s)

\* f of what is there.
Each(f, v) == [k \in Key |-> IF v.at[k] = Absent THEN Absent ELSE f[v.at[k]]]
EachItem(f, v) == [i \in DOMAIN v.items |-> f[v.items[i]]]

-----------------------------------------------------------------------------
(* NamedArray: an array of maps with a "name" that is a string, and the    *)
(* index of each name                                                      *)

HasName(v) ==
  /\ IsMap(v)
  /\ Lookup(v, "name").is \in {"scalar", "template"}
  /\ Lookup(v, "name").value \notin Number
NameIn(v) == Lookup(v, "name").value
IsNamed(v) == IsArray(v) /\ \A i \in DOMAIN v.items : HasName(v.items[i])

NamedArray(arr, keys) == [is |-> "named_array", arr |-> arr, keys |-> keys]

\* The last element of a name is the one in keys.
IsLast(v, i) ==
  \A j \in DOMAIN v.items : NameIn(v.items[j]) = NameIn(v.items[i]) => j <= i
MutNewNamedArray(v) ==
  LET names == {NameIn(v.items[i]) : i \in DOMAIN v.items}
  IN  NamedArray(v.items, [name \in names |-> 1])
NewNamedArray(v) ==
  LET names == {NameIn(v.items[i]) : i \in DOMAIN v.items}
  IN  NamedArray(v.items,
                 [name \in names |->
                    CHOOSE i \in DOMAIN v.items : NameIn(v.items[i]) = name /\ IsLast(v, i)])

\* The iterator has no name for an element whose name comes again later.
IterKey(n, i) ==
  IF \E k \in DOMAIN n.keys : n.keys[k] = i
  THEN CHOOSE k \in DOMAIN n.keys : n.keys[k] = i
  ELSE ""

SetNamed(n, key, value) ==
  IF key \in DOMAIN n.keys
  THEN NamedArray([i \in DOMAIN n.arr |-> IF i = n.keys[key] THEN value ELSE n.arr[i]], n.keys)
  ELSE NamedArray(Append(n.arr, value),
                  [k \in DOMAIN n.keys \cup {key} |->
                     IF k = key THEN Len(n.arr) + 1 ELSE n.keys[k]])

-----------------------------------------------------------------------------
(* Merging: the source is put over the input. below merges documents of    *)
(* one level less.                                                         *)

\* A null takes away a key that is there, and stays where there is none.
MergeMap(below, input, source) ==
  LET both == Keys(input) \cap Keys(source)
      new == SetMap([k \in Key |-> IF k \in both THEN below[<<input.at[k], source.at[k]>>]
                                   ELSE Absent])
  IN  IF ~IsMap(source) THEN source
      ELSE IF Failed(new) THEN new
      ELSE Map([k \in Key |-> IF k \in both THEN new.at[k]
                              ELSE IF source.at[k] # Absent THEN source.at[k] ELSE input.at[k]])

\* By position; the longer of the two keeps its tail.
MutMergeArray(below, input, source) ==
  LET In == input.items
      Src == source.items
      new == SetArray([i \in DOMAIN In \cap DOMAIN Src |-> below[<<In[i], Src[i]>>]])
  IN  IF ~IsArray(source) THEN source
      ELSE IF Failed(new) THEN new
      ELSE Array([i \in DOMAIN Src |-> IF i \in DOMAIN new.items THEN new.items[i] ELSE Src[i]])
MergeArray(below, input, source) ==
  LET In == input.items
      Src == source.items
      longer == IF Len(In) > Len(Src) THEN In ELSE Src
      new == SetArray([i \in DOMAIN In \cap DOMAIN Src |-> below[<<In[i], Src[i]>>]])
  IN  IF ~IsArray(source) THEN source
      ELSE IF Failed(new) THEN new
      ELSE Array([i \in DOMAIN longer |-> IF i \in DOMAIN new.items THEN new.items[i]
                                          ELSE longer[i]])

Merge(below, input, source) ==
  IF source = Null THEN Null
  ELSE CASE IsArray(input) -> MergeArray(below, input, source)
         [] IsMap(input)   -> MergeMap(below, input, source)
         [] OTHER          -> source

\* One turn of the loop of mergeResource, for the i-th element of the source.
\* (Elements with names are maps, which the merge function gives to Merge.)
MergeItem(below, n, src, i) ==
  LET key == IterKey(src, i)
      new == IF key \in DOMAIN n.keys THEN below[<<n.arr[n.keys[key]], src.arr[i]>>]
             ELSE src.arr[i]
  IN  IF Failed(n) THEN n ELSE IF Failed(new) THEN new ELSE SetNamed(n, key, new)

MergeNamed(below, input, source) ==
  LET src == NewNamedArray(source)
      Loop[i \in 0..Len(source.items)] ==
        IF i = 0 THEN NewNamedArray(input) ELSE MergeItem(below, Loop[i - 1], src, i)
      end == Loop[Len(source.items)]
  IN  IF Failed(end) THEN end ELSE Array(end.arr)

MergeOne(below, input, source) ==
  IF IsNamed(input) /\ IsNamed(source) THEN MergeNamed(below, input, source)
  ELSE Merge(below, input, source)

MergeAt[n \in Nat] ==
  [p \in Document[n] \X Document[n] |->
     MergeOne(IF n = 0 THEN <<>> ELSE MergeAt[n - 1], p[1], p[2])]
MergeFunc(input, source) == MergeAt[Depth][<<input, source>>]

-----------------------------------------------------------------------------
(* Walks: a function applied to every leaf                                 *)

\* newTemplateReducer and normalizeValue.
RenderValue(v) ==
  CASE v.is = "template"     -> Scalar(v.value)
    [] v.is = "bad_template" -> Error
    [] OTHER                 -> v
MutNormalizeValue(v) == v
NormalizeValue(v) == IF v.is = "uid" THEN Scalar(v.value) ELSE v
\* encoding/json: a UID is a string.
MarshalValue(v) == IF v.is = "uid" THEN Scalar(v.value) ELSE v

Apply(fn, v) ==
  CASE fn = "render"    -> RenderValue(v)
    [] fn = "normalize" -> NormalizeValue(v)
    [] fn = "marshal"   -> MarshalValue(v)
    [] OTHER            -> v

\* DeepCopy and DeepMapValue set what they return through reflect.
WalkOne(fn, below, v) ==
  CASE IsArray(v) -> SetArray(EachItem(below, v))
    [] IsMap(v)   -> SetMap(Each(below, v))
    [] OTHER      -> Apply(fn, v)
Walk(fn) ==
  LET W[n \in Nat] ==
        [v \in Document[n] |-> WalkOne(fn, IF n = 0 THEN <<>> ELSE W[n - 1], v)]
  IN  W
DeepCopy(v) == Walk("copy")[Depth][v]
DeepMapValue(fn, v) ==
  CASE Failed(v)              -> v
    [] IsMap(v) \/ IsArray(v) -> Walk(fn)[Depth][v]
    [] OTHER                  -> Error

\* Comparing and storing leave the nulls of maps out.
CompactOne(fn, below, v) ==
  CASE IsArray(v) -> Array(EachItem(below, v))
    [] IsMap(v)   -> Map([k \in Key |-> IF v.at[k] \in {Null, Absent} THEN Absent ELSE below[v.at[k]]])
    [] OTHER      -> Apply(fn, v)
Compact(fn) ==
  LET C[n \in Nat] ==
        [v \in Document[n] |-> CompactOne(fn, IF n = 0 THEN <<>> ELSE C[n - 1], v)]
  IN  C
RemoveNilInMap(v) == Compact("copy")[Depth][v]
equal(a, b) == RemoveNilInMap(a) = RemoveNilInMap(b)

-----------------------------------------------------------------------------
(* Reducers. Reducers.Reduce ends with the first that fails: each passes a *)
(* failure on.                                                             *)

mergeResource(v, data) == IF Failed(v) THEN v ELSE MergeFunc(v, data)

FilterKey(v, keys) ==
  CASE Failed(v) -> v
    [] IsMap(v)  -> Without(v, keys)
    [] OTHER     -> Error
deleteKeys(v, keys) == IF IsMap(v) THEN Without(v, keys) ELSE v

MapReduceValue(R(_), v) ==
  CASE IsArray(v) -> SetArray([i \in DOMAIN v.items |-> R(v.items[i])])
    [] IsMap(v)   -> SetMap([k \in Key |-> IF v.at[k] = Absent THEN Absent ELSE R(v.at[k])])
    [] OTHER      -> Error

Put(v, k, new) ==
  CASE Failed(v) -> v
    [] IsMap(v)  -> SetMap([v.at EXCEPT ![k] = new])
    [] OTHER     -> Error

\* Every map on the way must be there; what is at its end need not be.
ReduceNested(v, k, R(_)) ==
  LET copy == DeepCopy(v)
  IN  IF Failed(v) THEN v ELSE Put(copy, k, R(Lookup(copy, k)))
ReduceNested2(v, k1, k2, R(_)) ==
  LET copy == DeepCopy(v)
      child == Lookup(copy, k1)
  IN  IF Failed(v) THEN v ELSE Put(copy, k1, Put(child, k2, R(Lookup(child, k2))))
SetNested(v, k1, k2, value) ==
  LET Value1(old) == value IN ReduceNested2(v, k1, k2, Value1)

-----------------------------------------------------------------------------
(* applyResource                                                           *)

OwnerReferences(uid) ==
  Array(<<Object([name |-> Scalar(Name), uid |-> uid, controller |-> Scalar("true")])>>)

\* metav1.IsControlledBy(object, set)
IsControlledBy(object) ==
  LET refs == Fetch(object, "metadata", "ownerReferences")
  IN  IsArray(refs) /\ \E i \in DOMAIN refs.items :
        /\ Lookup(refs.items[i], "controller") = Scalar("true")
        /\ Lookup(refs.items[i], "uid") = Scalar(SetUID)

NoServerKeys(metadata) == deleteKeys(metadata, ServerKeys)
MutNoRevision(annotations) == FilterKey(annotations, {"revision"})
NoRevision(annotations) == deleteKeys(annotations, {"revision"})
FromOriginal(v) ==
  LET merged == mergeResource(v, original)
      spec == FilterKey(merged, {"status"})
      anonymous == ReduceNested(spec, "metadata", NoServerKeys)
  IN  ReduceNested2(anonymous, "metadata", "annotations", NoRevision)

NoClusterIP(spec) == FilterKey(spec, {"clusterIP"})
NoNodePort(port) == deleteKeys(port, {"nodePort"})
NoNodePorts(ports) == MapReduceValue(NoNodePort, ports)
MutForService(v) == ReduceNested(v, "spec", NoClusterIP)
ForService(v) ==
  ReduceNested2(ReduceNested(v, "spec", NoClusterIP), "spec", "ports", NoNodePorts)

\* What a new object is copied from, or nothing.
Copied ==
  IF original = Absent THEN Null
  ELSE IF gvk = "Service" THEN ForService(FromOriginal(Null)) ELSE FromOriginal(Null)

\* object is the one that is there, if any.
MutMerged(object, v, rendered) ==
  IF object = Absent THEN mergeResource(v, rendered)
  ELSE mergeResource(mergeResource(v, rendered), object)
Merged(object, v, rendered) ==
  IF object = Absent THEN mergeResource(v, rendered)
  ELSE mergeResource(mergeResource(v, object), rendered)

Owned(v) ==
  LET named == SetNested(v, "metadata", "name", Scalar(Name))
      placed == SetNested(named, "metadata", "namespace", Scalar(Namespace))
  IN  SetNested(placed, "metadata", "ownerReferences", OwnerReferences(UID(SetUID)))

Rendered == DeepMapValue("render", desired)
PatchOf(object, rendered) ==
  DeepMapValue("normalize", Owned(Merged(object, Copied, rendered)))
Patch(rendered) == PatchOf(applied, rendered)

\* The API server reads JSON, leaves out nulls and completes the object.
Decoded(v) == Compact("marshal")[Depth][v]
WithDefault(v, k1, k2, x) ==
  IF IsMap(Lookup(v, k1)) /\ k2 \notin Keys(v.at[k1])
  THEN Map([v.at EXCEPT ![k1] = Map([@.at EXCEPT ![k2] = x])])
  ELSE v
Stored(data) ==
  LET known == WithDefault(Decoded(data), "metadata", "uid", Scalar(ObjectUID))
  IN  IF gvk = "Service" THEN WithDefault(known, "spec", "clusterIP", Scalar(ClusterIP))
      ELSE known

Success == {"created", "updated", "unchanged"}
End(what) ==
  /\ outcome' = what
  /\ rounds' = IF what \notin Success THEN 0 ELSE rounds + 1
  /\ UNCHANGED <<gvk, original, desired, edits>>
NoCall == call' = Absent /\ UNCHANGED applied
Send(patch, what) ==
  /\ call' = patch
  /\ applied' = Stored(patch)
  /\ End(what)

Fails(v) == Failed(v) /\ End(v.is) /\ NoCall
NotManaged == applied # Absent /\ ~IsControlledBy(applied) /\ End("not_managed") /\ NoCall

Unchanged(patch) ==
  /\ applied # Absent
  /\ equal(patch, applied)
  /\ End("unchanged") /\ NoCall

UpdateObject(patch) ==
  /\ applied # Absent
  /\ ~equal(patch, applied)
  /\ Send(patch, "updated")

CreateObject(patch) == applied = Absent /\ Send(patch, "created")

\* (\E only names the two values.)
Reconcile ==
  /\ rounds < MaxRounds
  /\ \E rendered \in {Rendered} :
       \/ Fails(rendered)
       \/ ~Failed(rendered) /\ NotManaged
       \/ /\ ~Failed(rendered) /\ (applied # Absent => IsControlledBy(applied))
          /\ \E patch \in {Patch(rendered)} :
               \/ Fails(patch)
               \/ /\ ~Failed(patch)
                  /\ Unchanged(patch) \/ UpdateObject(patch) \/ CreateObject(patch)

-----------------------------------------------------------------------------
(* The rest of the cluster                                                 *)

Edit ==
  /\ edits < MaxEdits
  /\ edits' = edits + 1
  /\ call' = Absent /\ outcome' = "none" /\ rounds' = 0

EditSet(d) == Edit /\ desired' = d /\ UNCHANGED <<gvk, original, applied>>
EditOriginal(o) == Edit /\ original' = o /\ UNCHANGED <<gvk, desired, applied>>

\* A user rewrites the object, or takes the set's name for an object of its own.
UserEdit(object) ==
  /\ Edit
  /\ applied' = IF applied = Absent THEN object
                ELSE [object EXCEPT !.at["metadata"] = applied.at["metadata"]]
  /\ UNCHANGED <<gvk, original, desired>>

Init ==
  /\ gvk \in {"Service", "Deployment"}
  /\ original \in Originals \cup {Absent}
  /\ desired \in Desired
  /\ applied = Absent /\ call = Absent
  /\ outcome = "none"
  /\ rounds = 0 /\ edits = 0

Next ==
  \/ Reconcile
  \/ \E d \in Desired : EditSet(d)
  \/ \E o \in Originals : EditOriginal(o)
  \/ \E u \in UserObjects : UserEdit(u)

Spec == Init /\ [][Next]_vars

-----------------------------------------------------------------------------
(* What the merge is for                                                   *)

\* Each document is one the code can meet, and what is sent and what is stored
\* is JSON: no template is left unrendered and no value of a Go type that the
\* comparison with a stored object (compare.go) would not recognise.
TypeOK ==
  /\ gvk \in {"Service", "Deployment"}
  /\ original \in Originals \cup {Absent}
  /\ desired \in Desired
  /\ {applied, call} \subseteq Objects(JSON[Depth]) \cup {Absent}
  /\ outcome \in Success \cup {"none", "error", "panic", "not_managed"}
  /\ rounds \in 0..MaxRounds
  /\ edits \in 0..MaxEdits

\* Name, namespace and owner are the controller's own.
Rest(v) == Without(v, {"metadata"})

Done == outcome \in Success

\* v has everything that d asks for: an element by its name if d and v name
\* theirs (the last one of its name), else by its position. A null asks for
\* nothing.
CoversOne(below, v, d) ==
  CASE d = Null   -> TRUE
    [] IsMap(d)   -> IsMap(v) /\ \A k \in Keys(d) : below[<<Lookup(v, k), d.at[k]>>]
    [] IsArray(d) -> IsArray(v) /\ \A i \in DOMAIN d.items :
                       IF IsNamed(d) /\ IsNamed(v)
                       THEN IsLast(d, i) =>
                              \E j \in DOMAIN v.items : below[<<v.items[j], d.items[i]>>]
                       ELSE i \in DOMAIN v.items /\ below[<<v.items[i], d.items[i]>>]
    [] OTHER      -> v = d
CoversAt[n \in Nat] ==
  [p \in Document[n] \X Document[n] |->
     CoversOne(IF n = 0 THEN <<>> ELSE CoversAt[n - 1], p[1], p[2])]
Covers(v, d) == CoversAt[Depth][<<v, d>>]

\* After a Reconcile that succeeded the object is what the set asks for, at
\* every depth, whatever it was copied from and whatever users made of it
\* (reconciler.go:211: the set's resource is merged last). Of an array that is
\* merged by position this speaks of the set's positions only; what may be
\* behind them is what TailStays says.
DesiredHolds == Done => Covers(Rest(applied), Rest(Rendered))

\* What was in the object before and d is silent about, the last element of
\* its name in a list. (Where the original has a longer list without names the
\* merge goes by position.)
SurvivesOne(below, orig, old, d, new) ==
  CASE d = Null -> TRUE
    [] IsMap(old) /\ IsMap(d) -> \A k \in Keys(old) :
         IF k \in Keys(d)
         THEN below[<<Lookup(orig, k), old.at[k], d.at[k], Lookup(new, k)>>]
         ELSE Covers(Lookup(new, k), old.at[k])
    [] /\ IsArray(old) /\ IsNamed(old) /\ IsNamed(d) /\ IsNamed(new)
       /\ IsArray(orig) => IsNamed(orig) \/ Len(orig.items) <= Len(old.items) ->
         \A i \in DOMAIN old.items : IsLast(old, i) =>
           \/ \E j \in DOMAIN d.items : NameIn(d.items[j]) = NameIn(old.items[i])
           \/ \E j \in DOMAIN new.items : Covers(new.items[j], old.items[i])
    [] OTHER -> TRUE
SurvivesAt[n \in Nat] ==
  [p \in Document[n] \X Document[n] \X Document[n] \X Document[n] |->
     SurvivesOne(IF n = 0 THEN <<>> ELSE SurvivesAt[n - 1], p[1], p[2], p[3], p[4])]

\* An update takes nothing away that the set does not speak of: the keys and
\* the named elements of a user, the cluster IP the API server assigned
\* (resourceset/reducer.go:41).
UserPartSurvives ==
  [][applied # Absent /\ outcome' = "updated" =>
       SurvivesAt[Depth][<<IF original = Absent THEN Null ELSE Rest(original),
                           Rest(applied), Rest(Rendered), Rest(applied')>>]]_vars

\* In an update old's elements beyond the last of d's stay: arrays without names
\* are merged by position. orig is what a new object would be copied from.
Length(v) == IF IsArray(v) THEN Len(v.items) ELSE 0
TailOne(below, orig, old, d, new) ==
  CASE IsMap(old) /\ IsMap(d) -> \A k \in Keys(old) \cap Keys(d) :
         below[<<Lookup(orig, k), old.at[k], d.at[k], Lookup(new, k)>>]
    [] /\ IsArray(old) /\ IsArray(d) /\ ~IsNamed(d)
       /\ ~(IsNamed(orig) /\ IsNamed(old)) ->
         /\ \A v \in {orig, old, d} : Length(v) <= Length(new)
         /\ \E v \in {orig, old, d} : Length(v) = Length(new)
         /\ \A i \in DOMAIN old.items \ DOMAIN d.items : Covers(new.items[i], old.items[i])
    [] OTHER -> TRUE
TailAt[n \in Nat] ==
  [p \in Document[n] \X Document[n] \X Document[n] \X Document[n] |->
     TailOne(IF n = 0 THEN <<>> ELSE TailAt[n - 1], p[1], p[2], p[3], p[4])]

\* A list that has names on neither side is not replaced by the set's: whatever
\* the object or its original has beyond the set's last element stays behind it,
\* so that a set cannot shorten a list (merge/array.go:13). The documentation says
\* "replace with new values" (architecture.md:40).
TailStays ==
  [][applied # Absent /\ outcome' = "updated" =>
       TailAt[Depth][<<IF original = Absent THEN Null ELSE Rest(Copied),
                       Rest(applied), Rest(Rendered), Rest(applied')>>]]_vars

\* Each array of v gives names to all of its elements, no two alike, or to none.
WellNamedAt[n \in Nat] ==
  [v \in Document[n] |->
     CASE IsArray(v) ->
            /\ \A i \in DOMAIN v.items : WellNamedAt[n - 1][v.items[i]]
            /\ \/ IsNamed(v) /\ \A i \in DOMAIN v.items : IsLast(v, i)
               \/ \A i \in DOMAIN v.items : ~HasName(v.items[i])
       [] IsMap(v) -> \A k \in Keys(v) : WellNamedAt[n - 1][v.at[k]]
       [] OTHER -> TRUE]
WellNamed(v) == WellNamedAt[Depth][v]

Documents == {original, desired, applied} \ {Absent}

\* Merging settles: after two successful Reconciles a third would find nothing
\* to do, what the API server stored compares equal (reconciler.go:225), if the
\* arrays were well named after the first. One is not enough: where a list has
\* names in one document only, or an object has become a scalar, the second
\* Reconcile still takes something from the original.
Settles ==
  [][rounds = 1 /\ rounds' = 2 /\ (\A v \in Documents : WellNamed(v))
       => equal(PatchOf(applied', Rendered), applied')]_vars

\* What is created is a new object: it carries no identity, no status and no
\* address of the object it was copied from (reconciler.go:159), only those
\* that the set's own resource names.
CopiesNoIdentity ==
  outcome = "created" =>
    /\ Lookup(call, "status") \in {Null, Lookup(Rendered, "status")}
    /\ \A k \in ServerKeys :
         Fetch(call, "metadata", k) \in {Null, Fetch(Rendered, "metadata", k)}
    /\ gvk = "Service" =>
         /\ Fetch(call, "spec", "clusterIP") \in {Null, Fetch(Rendered, "spec", "clusterIP")}
         /\ LET ports == Fetch(call, "spec", "ports")
                own == Fetch(Rendered, "spec", "ports")
                Port(p) == Lookup(p, "nodePort")
            IN  IsArray(ports) => \A i \in DOMAIN ports.items :
                  Port(ports.items[i]) \in Scalars =>
                    IsArray(own) /\ \E j \in DOMAIN own.items :
                                      Port(own.items[j]) = Port(ports.items[i])

\* A resource is given up only for a template that does not render or for an
\* original Service without a list of ports, and the process is brought down
\* only by a null in an array (internal/reducer/map.go:25).
FailsOnlyFor ==
  /\ outcome = "error" =>
       \/ Rendered = Error
       \/ gvk = "Service" /\ original # Absent /\ ~IsArray(Fetch(original, "spec", "ports"))
  /\ outcome = "panic" => \E v \in Documents : v \notin NoNullElement[Depth]
=============================================================================
