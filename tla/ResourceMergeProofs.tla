-------------------------- MODULE ResourceMergeProofs --------------------------
(***************************************************************************)
(* Theorems about ResourceMerge, for any documents of any depth: what is   *)
(* sent and stored is well typed, the object ends with what the set asks   *)
(* for, a created one carries nothing of the original's identity, an       *)
(* update keeps what users made of the object, and a Reconcile fails only  *)
(* for the reasons the code has.                                           *)
(*                                                                         *)
(* The model's functions are defined by recursion over the levels of a     *)
(* document. SetInduction proves what holds at every level; Recursion and  *)
(* LoopFunction prove that the functions exist; and each function gets a   *)
(* lemma for the level 0 and one for n + 1 before anything is said of it.  *)
(***************************************************************************)
EXTENDS ResourceMerge, WellFoundedInduction, SequenceTheorems, TLAPS

\* Induction over the naturals, for a set: that every nonempty set of naturals
\* has a least element is all it takes.
LEMMA SetInduction ==
  ASSUME NEW S \in SUBSET Nat, 0 \in S, \A n \in S : n + 1 \in S
  PROVE  S = Nat
<1> DEFINE T == Nat \ S
<1>1. SUFFICES ASSUME T # {} PROVE FALSE
  OBVIOUS
<1>2. T \subseteq Nat
  OBVIOUS
<1>3. PICK m \in T : \A k \in T : <<k, m>> \notin OpToRel(<, Nat)
  BY <1>1, <1>2, WFMin, NatLessThanWellFounded, Zenon
<1>4. \A k \in T : ~(k < m)
  BY <1>2, <1>3, Zenon DEF OpToRel
<1>5. m # 0 /\ m \in Nat /\ m - 1 \in Nat /\ (m - 1) + 1 = m
  OBVIOUS
<1>6. m - 1 \in S
  BY <1>4, <1>5
<1> QED
  BY <1>5, <1>6

\* A function defined by recursion over the naturals exists, and stays in the
\* sets that its step leads into.
LEMMA Recursion ==
  ASSUME NEW R, NEW base \in R[0], NEW step,
         \A n \in Nat : \A t \in R[n] : step[<<n + 1, t>>] \in R[n + 1]
  PROVE  \E f : /\ f = [n \in Nat |-> IF n = 0 THEN base ELSE step[<<n, f[n - 1]>>]]
                /\ \A n \in Nat : f[n] \in R[n]
<1> DEFINE Upto(n, g) == /\ g[0] = base
                         /\ \A m \in 0..n : g[m] \in R[m]
                         /\ \A m \in 0..n : m # 0 => g[m] = step[<<m, g[m - 1]>>]
<1>1. \A n \in Nat : \E g : Upto(n, g)
  <2> DEFINE S == {n \in Nat : \E g : Upto(n, g)}
  <2>1. 0 \in S
    <3>1. Upto(0, [m \in 0..0 |-> base])
      OBVIOUS
    <3> QED
      BY <3>1
  <2>2. ASSUME NEW n \in S PROVE n + 1 \in S
    <3>1. PICK g : Upto(n, g)
      OBVIOUS
    <3> DEFINE h == [m \in 0..(n + 1) |-> IF m = n + 1 THEN step[<<n + 1, g[n]>>] ELSE g[m]]
    <3>2. h[0] = base
      BY <3>1
    <3>a. n \in 0..n /\ g[n] \in R[n] /\ n \in Nat
      BY <3>1
    <3>b. step[<<n + 1, g[n]>>] \in R[n + 1]
      BY <3>a
    <3>3. ASSUME NEW m \in 0..(n + 1) PROVE h[m] \in R[m]
      <4>1. CASE m = n + 1
        BY <4>1, <3>b
      <4>2. CASE m # n + 1
        <5>1. m \in 0..n /\ h[m] = g[m]
          BY <4>2
        <5> QED
          BY <5>1, <3>1
      <4> QED
        BY <4>1, <4>2
    <3>4. ASSUME NEW m \in 0..(n + 1), m # 0 PROVE h[m] = step[<<m, h[m - 1]>>]
      <4>1. CASE m = n + 1
        <5>1. m - 1 = n /\ h[n] = g[n] /\ h[m] = step[<<n + 1, g[n]>>]
          BY <4>1, <3>a
        <5> QED
          BY <5>1, <4>1
      <4>2. CASE m # n + 1
        <5>1. m \in 0..n /\ m - 1 \in 0..n /\ h[m] = g[m] /\ h[m - 1] = g[m - 1]
          BY <4>2, <3>4
        <5>2. g[m] = step[<<m, g[m - 1]>>]
          BY <5>1, <3>1, <3>4
        <5> QED
          BY <5>1, <5>2
      <4> QED
        BY <4>1, <4>2
    <3> HIDE DEF h
    <3>5. Upto(n + 1, h)
      BY <3>2, <3>3, <3>4
    <3> QED
      BY <3>5, <3>a
  <2> HIDE DEF S
  <2>3. S \in SUBSET Nat
    BY DEF S
  <2>4. S = Nat
    BY <2>1, <2>2, <2>3, SetInduction
  <2> QED
    BY <2>4 DEF S
<1>2. ASSUME NEW n \in Nat, NEW k \in Nat, k <= n, NEW g, NEW h, Upto(n, g), Upto(k, h)
      PROVE  \A m \in 0..k : g[m] = h[m]
  <2> DEFINE S == {m \in Nat : m <= k => g[m] = h[m]}
  <2>1. 0 \in S
    BY <1>2
  <2>2. ASSUME NEW m \in S PROVE m + 1 \in S
    <3>1. CASE m + 1 <= k
      <4>1. m + 1 \in 0..k /\ m + 1 \in 0..n /\ m <= k /\ (m + 1) - 1 = m /\ m + 1 # 0
        BY <3>1, <1>2
      <4>2. g[m + 1] = step[<<m + 1, g[m]>>]
        BY <1>2, <4>1
      <4>3. h[m + 1] = step[<<m + 1, h[m]>>]
        BY <1>2, <4>1
      <4> QED
        BY <4>1, <4>2, <4>3
    <3> QED
      BY <3>1
  <2> HIDE DEF S
  <2>3. S \in SUBSET Nat
    BY DEF S
  <2>4. S = Nat
    BY <2>1, <2>2, <2>3, SetInduction
  <2> QED
    BY <2>4 DEF S
<1> DEFINE G(n) == CHOOSE g : Upto(n, g)
           F == [n \in Nat |-> G(n)[n]]
<1> HIDE DEF Upto
<1>3. \A n \in Nat : Upto(n, G(n))
  BY <1>1
<1> HIDE DEF G
<1>4. \A n \in Nat : F[n] \in R[n]
  BY <1>3 DEF Upto
<1>5. F[0] = base
  BY <1>3 DEF Upto
<1>6. ASSUME NEW n \in Nat, n # 0 PROVE F[n] = step[<<n, F[n - 1]>>]
  <2>1. n - 1 \in Nat /\ n - 1 <= n /\ n \in 0..n /\ n - 1 \in 0..(n - 1)
    BY <1>6
  <2>2. G(n)[n] = step[<<n, G(n)[n - 1]>>]
    BY <1>3, <2>1, <1>6 DEF Upto
  <2>3. G(n)[n - 1] = G(n - 1)[n - 1]
    BY <1>3, <1>2, <2>1
  <2> QED
    BY <2>1, <2>2, <2>3
<1>7. F = [n \in Nat |-> F[n]]
  OBVIOUS
<1> HIDE DEF F
<1>8. F = [n \in Nat |-> IF n = 0 THEN base ELSE step[<<n, F[n - 1]>>]]
  <2>1. \A n \in Nat : F[n] = IF n = 0 THEN base ELSE step[<<n, F[n - 1]>>]
    BY <1>5, <1>6
  <2> QED
    BY <1>7, <2>1
<1> QED
  BY <1>4, <1>8

\* A function of the levels, each made from the one below; nothing is below 0.
Steps(R, none, step) ==
  step[<<0, none>>] \in R[0] /\ \A n \in Nat : \A t \in R[n] : step[<<n + 1, t>>] \in R[n + 1]
AreLevels(R, none, step, f) ==
  /\ f = [n \in Nat |-> f[n]]
  /\ \A n \in Nat : f[n] \in R[n]
  /\ f[0] = step[<<0, none>>]
  /\ \A n \in Nat : f[n + 1] = step[<<n + 1, f[n]>>]

\* The same with one step for all levels, the lowest included: what f[n] in
\* ResourceMerge is made of.
LEMMA LevelFunction ==
  ASSUME NEW none, NEW R, NEW step, Steps(R, none, step)
  PROVE  \E f : AreLevels(R, none, step, f)
<1> DEFINE base == step[<<0, none>>]
<1>1. base \in R[0] /\ \A n \in Nat : \A t \in R[n] : step[<<n + 1, t>>] \in R[n + 1]
  BY DEF Steps
<1> HIDE DEF base
<1>2. PICK f : /\ f = [n \in Nat |-> IF n = 0 THEN base ELSE step[<<n, f[n - 1]>>]]
               /\ \A n \in Nat : f[n] \in R[n]
  BY <1>1, Recursion
<1>3. f = [n \in Nat |-> f[n]]
  BY <1>2
<1>4. f[0] = base
  BY <1>2
<1>5. ASSUME NEW n \in Nat PROVE f[n + 1] = step[<<n + 1, f[n]>>]
  <2>1. n + 1 \in Nat /\ n + 1 # 0 /\ (n + 1) - 1 = n
    OBVIOUS
  <2> QED
    BY <2>1, <1>2
<1> QED
  BY <1>2, <1>3, <1>4, <1>5, Zenon DEF AreLevels, base

\* A loop over 1..len.
LoopIn(N, len, base, item) ==
  len \in Nat /\ base \in N /\ \A i \in 1..len : \A t \in N : item[<<t, i>>] \in N
IsLoop(N, len, item, g) ==
  len \in Nat /\ g \in [0..len -> N] /\ \A i \in 1..len : g[i] = item[<<g[i - 1], i>>]

\* A loop of finitely many turns has a run.
LEMMA LoopFunction ==
  ASSUME NEW N, NEW len, NEW base, NEW item, LoopIn(N, len, base, item)
  PROVE  \E g : IsLoop(N, len, item, g) /\ g[0] = base
<1>0. len \in Nat /\ base \in N /\ \A i \in 1..len : \A t \in N : item[<<t, i>>] \in N
  BY DEF LoopIn
<1> DEFINE R == [i \in Nat |-> N]
           step == [q \in Nat \X N |-> IF q[1] \in 1..len THEN item[<<q[2], q[1]>>] ELSE base]
<1>1. base \in R[0]
  BY <1>0
<1>2. \A n \in Nat : \A t \in R[n] : step[<<n + 1, t>>] \in R[n + 1]
  BY <1>0
<1>3. ASSUME NEW n \in 1..len, NEW t \in N PROVE step[<<n, t>>] = item[<<t, n>>]
  <2>1. <<n, t>> \in Nat \X N
    BY <1>0
  <2> QED
    BY <2>1
<1>4. \A n \in Nat : R[n] = N
  OBVIOUS
<1> HIDE DEF R, step
<1>5. PICK f : /\ f = [n \in Nat |-> IF n = 0 THEN base ELSE step[<<n, f[n - 1]>>]]
               /\ \A n \in Nat : f[n] \in R[n]
  BY <1>1, <1>2, Recursion
<1> DEFINE g == [i \in 0..len |-> f[i]]
<1>6. g \in [0..len -> N]
  BY <1>0, <1>4, <1>5
<1>7. g[0] = base
  BY <1>0, <1>5
<1>8. ASSUME NEW i \in 1..len PROVE g[i] = item[<<g[i - 1], i>>]
  <2>1. i \in Nat /\ i # 0 /\ i - 1 \in 0..len /\ f[i - 1] \in N
    BY <1>0, <1>4, <1>5
  <2>2. f[i] = step[<<i, f[i - 1]>>]
    BY <1>5, <2>1
  <2> QED
    BY <1>3, <2>1, <2>2
<1> HIDE DEF g
<1> QED
  BY <1>0, <1>6, <1>7, <1>8 DEF IsLoop

\* And only one.
LEMMA LoopUnique ==
  ASSUME NEW N, NEW len, NEW item, NEW g, NEW h,
         IsLoop(N, len, item, g), IsLoop(N, len, item, h), g[0] = h[0]
  PROVE  g = h
<1> USE DEF IsLoop
<1> DEFINE S == {i \in Nat : i <= len => h[i] = g[i]}
<1>1. 0 \in S
  OBVIOUS
<1>2. ASSUME NEW i \in S PROVE i + 1 \in S
  <2>1. CASE i + 1 <= len
    <3>1. i + 1 \in 1..len /\ (i + 1) - 1 = i /\ h[i] = g[i]
      BY <2>1
    <3>2. h[i + 1] = item[<<h[i], i + 1>>] /\ g[i + 1] = item[<<g[i], i + 1>>]
      BY <3>1
    <3> QED
      BY <3>1, <3>2
  <2> QED
    BY <2>1
<1> HIDE DEF S
<1>3. S \in SUBSET Nat
  BY DEF S
<1>4. S = Nat
  BY <1>1, <1>2, <1>3, SetInduction
<1>5. \A i \in 0..len : h[i] = g[i]
  <2>1. \A i \in 0..len : i \in Nat /\ i <= len
    OBVIOUS
  <2> QED
    BY <2>1, <1>4 DEF S
<1> QED
  BY <1>5

-----------------------------------------------------------------------------
Level(leaves, inMaps, below) ==
  [is : {"map"}, at : [Key -> {Absent} \cup inMaps \cup below]]
    \cup [is : {"array"}, items : Seq(below)] \cup leaves

\* The definition of Trees is met: level n is made of level n - 1.
LEMMA TreesDef ==
  ASSUME NEW leaves, NEW inMaps
  PROVE  Trees(leaves, inMaps) =
           [n \in Nat |-> IF n = 0 THEN leaves
                          ELSE Level(leaves, inMaps, Trees(leaves, inMaps)[n - 1])]
<1> DEFINE L(t) == Level(leaves, inMaps, t)
           Upto(n, g) == g[0] = leaves /\ \A m \in 0..n : m # 0 => g[m] = L(g[m - 1])
<1>1. \A n \in Nat : \E g : Upto(n, g)
  <2> HIDE DEF L
  <2> DEFINE S == {n \in Nat : \E g : Upto(n, g)}
  <2>1. 0 \in S
    <3>1. Upto(0, [m \in 0..0 |-> leaves])
      OBVIOUS
    <3> QED
      BY <3>1
  <2>2. ASSUME NEW n \in S PROVE n + 1 \in S
    <3>1. PICK g : Upto(n, g)
      OBVIOUS
    <3> DEFINE h == [m \in 0..(n + 1) |-> IF m = n + 1 THEN L(g[n]) ELSE g[m]]
    <3>2. h[0] = leaves /\ n \in Nat
      BY <3>1
    <3>3. ASSUME NEW m \in 0..(n + 1), m # 0 PROVE h[m] = L(h[m - 1])
      <4>1. CASE m = n + 1
        <5>1. m - 1 = n /\ h[n] = g[n] /\ h[m] = L(g[n])
          BY <4>1, <3>2
        <5> QED
          BY <5>1
      <4>2. CASE m # n + 1
        <5>1. m \in 0..n /\ m - 1 \in 0..n /\ h[m] = g[m] /\ h[m - 1] = g[m - 1]
          BY <4>2, <3>3
        <5>2. g[m] = L(g[m - 1])
          BY <5>1, <3>1, <3>3
        <5> QED
          BY <5>1, <5>2
      <4> QED
        BY <4>1, <4>2
    <3> HIDE DEF h
    <3>4. Upto(n + 1, h)
      BY <3>2, <3>3
    <3> QED
      BY <3>4, <3>2
  <2> HIDE DEF S
  <2>3. S \in SUBSET Nat
    BY DEF S
  <2>4. S = Nat
    BY <2>1, <2>2, <2>3, SetInduction
  <2> QED
    BY <2>4 DEF S
<1> HIDE DEF L
<1>2. ASSUME NEW n \in Nat, NEW k \in Nat, k <= n, NEW g, NEW h, Upto(n, g), Upto(k, h)
      PROVE  \A m \in 0..k : g[m] = h[m]
  <2> DEFINE S == {m \in Nat : m <= k => g[m] = h[m]}
  <2>1. 0 \in S
    BY <1>2
  <2>2. ASSUME NEW m \in S PROVE m + 1 \in S
    <3>1. CASE m + 1 <= k
      <4>1. m + 1 \in 0..k /\ m + 1 \in 0..n /\ m <= k /\ (m + 1) - 1 = m /\ m + 1 # 0
        BY <3>1, <1>2
      <4>2. g[m + 1] = L(g[m])
        BY <1>2, <4>1
      <4>3. h[m + 1] = L(h[m])
        BY <1>2, <4>1
      <4> QED
        BY <4>1, <4>2, <4>3
    <3> QED
      BY <3>1
  <2> HIDE DEF S
  <2>3. S \in SUBSET Nat
    BY DEF S
  <2>4. S = Nat
    BY <2>1, <2>2, <2>3, SetInduction
  <2> QED
    BY <2>4 DEF S
<1> DEFINE G(n) == CHOOSE g : Upto(n, g)
           F == [n \in Nat |-> G(n)[n]]
<1> HIDE DEF Upto
<1>3. \A n \in Nat : Upto(n, G(n))
  BY <1>1
<1> HIDE DEF G
<1>4. F[0] = leaves
  BY <1>3 DEF Upto
<1>5. ASSUME NEW n \in Nat, n # 0 PROVE F[n] = L(F[n - 1])
  <2>1. n - 1 \in Nat /\ n - 1 <= n /\ n \in 0..n /\ n - 1 \in 0..(n - 1)
    BY <1>5
  <2>2. G(n)[n] = L(G(n)[n - 1])
    BY <1>3, <2>1, <1>5 DEF Upto
  <2>3. G(n)[n - 1] = G(n - 1)[n - 1]
    BY <1>3, <1>2, <2>1
  <2> QED
    BY <2>1, <2>2, <2>3
<1>6. F = [n \in Nat |-> F[n]]
  OBVIOUS
<1> HIDE DEF F
<1> DEFINE Is(f) == f = [n \in Nat |-> IF n = 0 THEN leaves ELSE L(f[n - 1])]
<1>7. Is(F)
  <2>1. \A n \in Nat : F[n] = IF n = 0 THEN leaves ELSE L(F[n - 1])
    BY <1>4, <1>5
  <2> QED
    BY <1>6, <2>1
<1>8. Trees(leaves, inMaps) = CHOOSE f : Is(f)
  BY Zenon DEF Trees, L, Level
<1> HIDE DEF Is
<1>9. Is(CHOOSE f : Is(f))
  BY <1>7, Zenon
<1> QED
  BY <1>8, <1>9, Zenon DEF Is, L

\* The two kinds of levels, spelled out.
LEMMA TreeLevels ==
  ASSUME NEW leaves, NEW inMaps
  PROVE  /\ Trees(leaves, inMaps)[0] = leaves
         /\ \A n \in Nat : Trees(leaves, inMaps)[n + 1]
                            = Level(leaves, inMaps, Trees(leaves, inMaps)[n])
<1> DEFINE P == Trees(leaves, inMaps)
           L(t) == Level(leaves, inMaps, t)
<1>1. P = [n \in Nat |-> IF n = 0 THEN leaves ELSE L(P[n - 1])]
  BY TreesDef
<1> HIDE DEF P, L
<1>2. P[0] = leaves
  BY <1>1
<1>3. ASSUME NEW n \in Nat PROVE P[n + 1] = L(P[n])
  <2>1. n + 1 \in Nat /\ n + 1 # 0 /\ (n + 1) - 1 = n
    OBVIOUS
  <2> QED
    BY <2>1, <1>1
<1> QED
  BY <1>2, <1>3, Zenon DEF P, L

-----------------------------------------------------------------------------
(* Documents                                                               *)

\* The kinds of leaves.
LEMMA LeafKinds ==
  ASSUME NEW v \in Leaves
  PROVE  v.is \in {"scalar", "template", "uid", "bad_template", "null"}
<1>1. CASE v \in [is : {"scalar", "template", "uid"}, value : Value]
  BY <1>1
<1>2. CASE v \in {BadTemplate, Null}
  BY <1>2 DEF BadTemplate, Null
<1> QED
  BY <1>1, <1>2 DEF Leaves

\* No leaf is a map, an array or a failure.
LEMMA LeafFacts ==
  ASSUME NEW v \in Leaves
  PROVE  ~IsMap(v) /\ ~IsArray(v) /\ ~Failed(v) /\ v # Absent /\ v # Panic /\ v # Error
<1>1. v.is \in {"scalar", "template", "uid", "bad_template", "null"}
  BY LeafKinds
<1>2. ~IsMap(v) /\ ~IsArray(v) /\ ~Failed(v)
  BY <1>1 DEF IsMap, IsArray, Failed
<1>3. v # Absent /\ v # Panic /\ v # Error
  BY <1>1 DEF Absent, Panic, Error
<1> QED
  BY <1>2, <1>3

\* A leaf is a document of every level.
LEMMA TreeLeaf ==
  ASSUME NEW leaves, NEW inMaps, NEW n \in Nat, NEW v \in leaves
  PROVE  v \in Trees(leaves, inMaps)[n]
<1>1. CASE n = 0
  BY <1>1, TreeLevels
<1>2. CASE n # 0
  <2>1. n - 1 \in Nat /\ (n - 1) + 1 = n
    BY <1>2
  <2>2. Trees(leaves, inMaps)[n] = Level(leaves, inMaps, Trees(leaves, inMaps)[n - 1])
    BY <2>1, TreeLevels
  <2> QED
    BY <2>2 DEF Level
<1> QED
  BY <1>1, <1>2

\* A map of documents is a document of the next level.
LEMMA TreeMap ==
  ASSUME NEW leaves, NEW inMaps, NEW n \in Nat,
         NEW f \in [Key -> {Absent} \cup inMaps \cup Trees(leaves, inMaps)[n]]
  PROVE  Map(f) \in Trees(leaves, inMaps)[n + 1]
BY TreeLevels DEF Level, Map

\* So is an array of them.
LEMMA TreeArray ==
  ASSUME NEW leaves, NEW inMaps, NEW n \in Nat, NEW s \in Seq(Trees(leaves, inMaps)[n])
  PROVE  Array(s) \in Trees(leaves, inMaps)[n + 1]
BY TreeLevels DEF Level, Array

\* There are no other documents.
LEMMA TreeCases ==
  ASSUME NEW leaves \in SUBSET Leaves, NEW inMaps, NEW n \in Nat,
         NEW v \in Trees(leaves, inMaps)[n]
  PROVE  \/ v \in leaves /\ ~IsMap(v) /\ ~IsArray(v)
         \/ \E k \in Nat :
              /\ n = k + 1
              /\ \/ /\ IsMap(v) /\ ~IsArray(v) /\ v = Map(v.at)
                    /\ v.at \in [Key -> {Absent} \cup inMaps \cup Trees(leaves, inMaps)[k]]
                 \/ /\ IsArray(v) /\ ~IsMap(v) /\ v = Array(v.items)
                    /\ v.items \in Seq(Trees(leaves, inMaps)[k])
<1>1. CASE v \in leaves
  BY <1>1, LeafFacts
<1>2. CASE v \notin leaves
  <2>1. n # 0
    BY <1>2, TreeLevels
  <2>2. n - 1 \in Nat /\ n = (n - 1) + 1
    BY <2>1
  <2> DEFINE B == Trees(leaves, inMaps)[n - 1]
  <2>3. v \in Level(leaves, inMaps, B)
    BY <2>2, TreeLevels
  <2>4. \/ v \in [is : {"map"}, at : [Key -> {Absent} \cup inMaps \cup B]]
        \/ v \in [is : {"array"}, items : Seq(B)]
    BY <2>3, <1>2 DEF Level
  <2> HIDE DEF B
  <2>5. \/ IsMap(v) /\ ~IsArray(v) /\ v = Map(v.at) /\ v.at \in [Key -> {Absent} \cup inMaps \cup B]
        \/ IsArray(v) /\ ~IsMap(v) /\ v = Array(v.items) /\ v.items \in Seq(B)
    BY <2>4 DEF IsMap, IsArray, Map, Array
  <2> QED
    BY <2>2, <2>5 DEF B
<1> QED
  BY <1>1, <1>2

\* No document is a failure or absent.
LEMMA TreeFacts ==
  ASSUME NEW leaves \in SUBSET Leaves, NEW inMaps, NEW n \in Nat,
         NEW v \in Trees(leaves, inMaps)[n]
  PROVE  ~Failed(v) /\ v # Absent /\ v # Panic /\ v # Error /\ (v = Null => v \in leaves)
<1>1. CASE v \in leaves
  BY <1>1, LeafFacts
<1>2. CASE IsMap(v)
  BY <1>2 DEF IsMap, Failed, Absent, Panic, Error, Null
<1>3. CASE IsArray(v)
  BY <1>3 DEF IsArray, Failed, Absent, Panic, Error, Null
<1> QED
  BY <1>1, <1>2, <1>3, TreeCases

\* More leaves make more documents.
LEMMA TreeSubset ==
  ASSUME NEW l1, NEW m1, NEW l2, NEW m2, l1 \subseteq l2, m1 \subseteq m2 \cup l2, NEW n \in Nat
  PROVE  Trees(l1, m1)[n] \subseteq Trees(l2, m2)[n]
<1> DEFINE S == {k \in Nat : Trees(l1, m1)[k] \subseteq Trees(l2, m2)[k]}
<1>1. 0 \in S
  BY TreeLevels
<1>2. ASSUME NEW k \in S PROVE k + 1 \in S
  <2>1. k \in Nat /\ k + 1 \in Nat /\ Trees(l1, m1)[k] \subseteq Trees(l2, m2)[k]
    OBVIOUS
  <2>2. l2 \subseteq Trees(l2, m2)[k]
    BY <2>1, TreeLeaf
  <2> DEFINE A == Trees(l1, m1)[k]
             B == Trees(l2, m2)[k]
  <2> HIDE DEF A, B
  <2>3. A \subseteq B /\ l2 \subseteq B
    BY <2>1, <2>2 DEF A, B
  <2>4. ASSUME NEW v \in Level(l1, m1, A) PROVE v \in Level(l2, m2, B)
    <3>1. CASE v \in l1
      BY <3>1 DEF Level
    <3>2. CASE v \in [is : {"map"}, at : [Key -> {Absent} \cup m1 \cup A]]
      <4>1. v.at \in [Key -> {Absent} \cup m2 \cup B]
        BY <3>2, <2>3
      <4> QED
        BY <3>2, <4>1 DEF Level
    <3>3. CASE v \in [is : {"array"}, items : Seq(A)]
      <4>1. v.items \in Seq(B)
        BY <3>3, <2>3
      <4> QED
        BY <3>3, <4>1 DEF Level
    <3> QED
      BY <2>4, <3>1, <3>2, <3>3 DEF Level
  <2>5. Trees(l1, m1)[k + 1] \subseteq Trees(l2, m2)[k + 1]
    BY <2>1, <2>4, TreeLevels DEF A, B
  <2> QED
    BY <2>1, <2>5
<1> HIDE DEF S
<1>3. S \in SUBSET Nat
  BY DEF S
<1>4. S = Nat
  BY <1>1, <1>2, <1>3, SetInduction
<1> QED
  BY <1>4 DEF S

-----------------------------------------------------------------------------
(* Setting through reflect                                                 *)

\* A function on 1..n is a sequence.
LEMMA SeqOfFunction ==
  ASSUME NEW T, NEW n \in Nat, NEW s \in [1..n -> T]
  PROVE  s \in Seq(T) /\ Len(s) = n /\ DOMAIN s = 1..n
<1>1. s \in Seq(T)
  BY SeqDef
<1>2. DOMAIN s = 1..n /\ DOMAIN s = 1..Len(s) /\ Len(s) \in Nat
  BY <1>1
<1>3. Len(s) = n
  BY <1>2
<1> QED
  BY <1>1, <1>2, <1>3

\* A map set key by key fails with one of its values or drops its nulls
\* (map.go:39).
LEMMA SetMapCases ==
  ASSUME NEW f
  PROVE  \/ \E k \in Key : Failed(f[k]) /\ SetMap(f) = f[k]
         \/ /\ \A k \in Key : ~Failed(f[k])
            /\ SetMap(f) = Map([k \in Key |-> IF f[k] = Null THEN Absent ELSE f[k]])
<1> DEFINE failed == {k \in Key : Failed(f[k])}
<1>1. CASE failed = {}
  BY <1>1 DEF SetMap
<1>2. CASE failed # {}
  <2>1. (CHOOSE k \in failed : TRUE) \in failed
    BY <1>2
  <2> QED
    BY <1>2, <2>1 DEF SetMap
<1> QED
  BY <1>1, <1>2

\* An array set element by element fails with one of its values, panics for a
\* null or is that array (map.go:25).
LEMMA SetArrayCases ==
  ASSUME NEW s
  PROVE  \/ \E i \in DOMAIN s : Failed(s[i]) /\ SetArray(s) = s[i]
         \/ (\E i \in DOMAIN s : s[i] = Null) /\ SetArray(s) = Panic
         \/ /\ \A i \in DOMAIN s : ~Failed(s[i]) /\ s[i] # Null
            /\ SetArray(s) = Array(s)
<1> DEFINE failed == {i \in DOMAIN s : Failed(s[i])}
<1>1. CASE failed = {}
  BY <1>1 DEF SetArray
<1>2. CASE failed # {}
  <2>1. (CHOOSE i \in failed : TRUE) \in failed
    BY <1>2
  <2> QED
    BY <1>2, <2>1 DEF SetArray
<1> QED
  BY <1>1, <1>2

-----------------------------------------------------------------------------
(* Named arrays                                                            *)

\* A nonempty set of positions has a last one.
LEMMA Greatest ==
  ASSUME NEW n \in Nat, NEW S \in SUBSET (1..n), S # {}
  PROVE  \E m \in S : \A k \in S : k <= m
<1> DEFINE I == {j \in Nat : \A X \in SUBSET (1..j) : X # {} => \E m \in X : \A k \in X : k <= m}
<1>1. 0 \in I
  <2>1. 1..0 = {}
    OBVIOUS
  <2> QED
    BY <2>1
<1>2. ASSUME NEW j \in I PROVE j + 1 \in I
  <2>1. SUFFICES ASSUME NEW X \in SUBSET (1..(j + 1)), X # {}
                 PROVE  \E m \in X : \A k \in X : k <= m
    OBVIOUS
  <2>2. CASE j + 1 \in X
    BY <2>2
  <2>3. CASE j + 1 \notin X
    <3>1. X \in SUBSET (1..j)
      BY <2>3
    <3> QED
      BY <3>1, <2>1
  <2> QED
    BY <2>2, <2>3
<1> HIDE DEF I
<1>3. I \in SUBSET Nat
  BY DEF I
<1>4. I = Nat
  BY <1>1, <1>2, <1>3, SetInduction
<1> QED
  BY <1>4 DEF I

Names(T) == {NameIn(t) : t \in T} \cup {""}
NamedArrays(T) ==
  {n \in [is : {"named_array"}, arr : Seq(T), keys : UNION {[D -> Nat] : D \in SUBSET Names(T)}] :
     /\ \A k \in DOMAIN n.keys : n.keys[k] \in DOMAIN n.arr
     /\ \A j, k \in DOMAIN n.keys : n.keys[j] = n.keys[k] => j = k}

\* The index of a named array points to the last element of each name
\* (named_array.go:22).
LEMMA NewNamedArrayFacts ==
  ASSUME NEW T, NEW v, v.items \in Seq(T)
  PROVE  LET n == NewNamedArray(v)
         IN  /\ n \in NamedArrays(T)
             /\ n.arr = v.items
             /\ DOMAIN n.keys = {NameIn(v.items[i]) : i \in DOMAIN v.items}
             /\ \A k \in DOMAIN n.keys : NameIn(v.items[n.keys[k]]) = k /\ IsLast(v, n.keys[k])
<1> DEFINE n == NewNamedArray(v)
           names == {NameIn(v.items[i]) : i \in DOMAIN v.items}
           At(name) == CHOOSE i \in DOMAIN v.items : NameIn(v.items[i]) = name /\ IsLast(v, i)
<1>1. n = NamedArray(v.items, [name \in names |-> At(name)])
  BY DEF NewNamedArray
<1>2. ASSUME NEW name \in names
      PROVE  At(name) \in DOMAIN v.items /\ NameIn(v.items[At(name)]) = name /\ IsLast(v, At(name))
  <2> DEFINE S == {i \in DOMAIN v.items : NameIn(v.items[i]) = name}
  <2>1. S # {} /\ S \in SUBSET (1..Len(v.items)) /\ Len(v.items) \in Nat
    OBVIOUS
  <2>2. PICK m \in S : \A k \in S : k <= m
    BY <2>1, Greatest
  <2>3. m \in DOMAIN v.items /\ NameIn(v.items[m]) = name /\ IsLast(v, m)
    BY <2>2 DEF IsLast
  <2> QED
    BY <2>3
<1> HIDE DEF At
<1>3. names \subseteq Names(T)
  <2>1. \A i \in DOMAIN v.items : v.items[i] \in T
    OBVIOUS
  <2> QED
    BY <2>1 DEF Names
<1>4. [name \in names |-> At(name)] \in [names -> Nat]
  <2>1. DOMAIN v.items \subseteq Nat
    OBVIOUS
  <2> QED
    BY <1>2, <2>1
<1>5. n.is = "named_array" /\ n.arr = v.items /\ n.keys = [name \in names |-> At(name)]
  BY <1>1 DEF NamedArray
<1>6. n \in [is : {"named_array"}, arr : Seq(T), keys : UNION {[D -> Nat] : D \in SUBSET Names(T)}]
  BY <1>1, <1>3, <1>4 DEF NamedArray
<1> HIDE DEF n, names
<1>7. \A k \in DOMAIN n.keys : n.keys[k] \in DOMAIN n.arr
  BY <1>5, <1>2
<1>8. \A j, k \in DOMAIN n.keys : n.keys[j] = n.keys[k] => j = k
  BY <1>5, <1>2
<1>9. n \in NamedArrays(T)
  BY <1>6, <1>7, <1>8 DEF NamedArrays
<1>10. DOMAIN n.keys = names
  BY <1>5
<1>11. \A k \in DOMAIN n.keys : NameIn(v.items[n.keys[k]]) = k /\ IsLast(v, n.keys[k])
  BY <1>5, <1>2
<1> QED
  BY <1>5, <1>9, <1>10, <1>11 DEF n, names

\* NamedArray.Set changes the element of its key or adds one, and leaves the
\* others where they are (named_array.go:83).
LEMMA SetNamedFacts ==
  ASSUME NEW T, NEW n \in NamedArrays(T), NEW key \in Names(T), NEW value \in T
  PROVE  LET new == SetNamed(n, key, value)
         IN  /\ new \in NamedArrays(T)
             /\ DOMAIN new.keys = DOMAIN n.keys \cup {key}
             /\ new.arr[new.keys[key]] = value
             /\ \A k \in DOMAIN n.keys : k # key => new.arr[new.keys[k]] = n.arr[n.keys[k]]
             /\ \A i \in DOMAIN new.arr :
                  new.arr[i] = value \/ (i \in DOMAIN n.arr /\ new.arr[i] = n.arr[i])
             /\ \A i \in DOMAIN n.arr : i \in DOMAIN new.arr
<1> DEFINE new == SetNamed(n, key, value)
<1>1. /\ n.arr \in Seq(T) /\ DOMAIN n.keys \subseteq Names(T)
      /\ n.keys \in [DOMAIN n.keys -> Nat]
      /\ \A k \in DOMAIN n.keys : n.keys[k] \in DOMAIN n.arr
      /\ \A j, k \in DOMAIN n.keys : n.keys[j] = n.keys[k] => j = k
  BY DEF NamedArrays
<1>2. CASE key \in DOMAIN n.keys
  <2> DEFINE arr == [i \in DOMAIN n.arr |-> IF i = n.keys[key] THEN value ELSE n.arr[i]]
  <2>1. arr \in Seq(T) /\ DOMAIN arr = DOMAIN n.arr
    <3>1. \A i \in DOMAIN n.arr : n.arr[i] \in T
      BY <1>1
    <3>2. arr \in [1..Len(n.arr) -> T] /\ Len(n.arr) \in Nat
      BY <1>1, <3>1
    <3>3. arr \in Seq(T)
      BY <3>2, SeqOfFunction
    <3> QED
      BY <3>3
  <2>2. new.is = "named_array" /\ new.arr = arr /\ new.keys = n.keys
    BY <1>2 DEF SetNamed, NamedArray
  <2>3. new \in [is : {"named_array"}, arr : Seq(T), keys : UNION {[D -> Nat] : D \in SUBSET Names(T)}]
    BY <1>1, <1>2, <2>1 DEF SetNamed, NamedArray
  <2> HIDE DEF new
  <2>4. new \in NamedArrays(T)
    BY <2>1, <2>2, <2>3, <1>1 DEF NamedArrays
  <2>5. new.arr[new.keys[key]] = value
    BY <1>1, <1>2, <2>2
  <2>6. \A k \in DOMAIN n.keys : k # key => new.arr[new.keys[k]] = n.arr[n.keys[k]]
    BY <1>1, <1>2, <2>2
  <2>7. \A i \in DOMAIN new.arr : new.arr[i] = value \/ (i \in DOMAIN n.arr /\ new.arr[i] = n.arr[i])
    BY <2>1, <2>2
  <2> QED
    BY <1>2, <2>1, <2>2, <2>4, <2>5, <2>6, <2>7 DEF new
<1>3. CASE key \notin DOMAIN n.keys
  <2> DEFINE arr == Append(n.arr, value)
             keys == [k \in DOMAIN n.keys \cup {key} |-> IF k = key THEN Len(n.arr) + 1 ELSE n.keys[k]]
  <2>1. /\ arr \in Seq(T) /\ DOMAIN arr = DOMAIN n.arr \cup {Len(n.arr) + 1}
        /\ arr[Len(n.arr) + 1] = value /\ \A i \in DOMAIN n.arr : arr[i] = n.arr[i]
        /\ Len(n.arr) \in Nat /\ Len(n.arr) + 1 \notin DOMAIN n.arr
    BY <1>1
  <2>2. new.is = "named_array" /\ new.arr = arr /\ new.keys = keys
    BY <1>3 DEF SetNamed, NamedArray
  <2>3. keys \in [DOMAIN n.keys \cup {key} -> Nat]
    BY <1>1, <2>1
  <2>4. new \in [is : {"named_array"}, arr : Seq(T), keys : UNION {[D -> Nat] : D \in SUBSET Names(T)}]
    <3>1. DOMAIN n.keys \cup {key} \in SUBSET Names(T)
      BY <1>1
    <3>2. keys \in UNION {[D -> Nat] : D \in SUBSET Names(T)}
      BY <3>1, <2>3
    <3>3. new = NamedArray(arr, keys)
      BY <1>3 DEF SetNamed
    <3> QED
      BY <2>1, <3>2, <3>3 DEF NamedArray
  <2> HIDE DEF new, arr
  <2>5. \A k \in DOMAIN keys : keys[k] \in DOMAIN arr
    BY <1>1, <2>1
  <2>6. \A j, k \in DOMAIN keys : keys[j] = keys[k] => j = k
    BY <1>1, <2>1
  <2>7. new \in NamedArrays(T)
    BY <2>2, <2>4, <2>5, <2>6, ZenonT(30) DEF NamedArrays
  <2>8. new.arr[new.keys[key]] = value
    BY <2>1, <2>2
  <2>9. \A k \in DOMAIN n.keys : k # key => new.arr[new.keys[k]] = n.arr[n.keys[k]]
    BY <1>1, <2>1, <2>2
  <2>10. \A i \in DOMAIN new.arr : new.arr[i] = value \/ (i \in DOMAIN n.arr /\ new.arr[i] = n.arr[i])
    BY <2>1, <2>2
  <2> QED
    BY <2>1, <2>2, <2>7, <2>8, <2>9, <2>10 DEF new
<1> QED
  BY <1>2, <1>3

\* The key of the iterator is the one whose index is here, or empty
\* (named_array.go:105).
LEMMA IterKeyFacts ==
  ASSUME NEW T, NEW src \in NamedArrays(T), NEW i
  PROVE  /\ IterKey(src, i) \in Names(T)
         /\ \/ IterKey(src, i) \in DOMAIN src.keys /\ src.keys[IterKey(src, i)] = i
            \/ IterKey(src, i) = "" /\ \A k \in DOMAIN src.keys : src.keys[k] # i
         /\ \A k \in DOMAIN src.keys : src.keys[k] = i => IterKey(src, i) = k
<1>1. /\ DOMAIN src.keys \subseteq Names(T)
      /\ \A j, k \in DOMAIN src.keys : src.keys[j] = src.keys[k] => j = k
  BY DEF NamedArrays
<1>2. CASE \E k \in DOMAIN src.keys : src.keys[k] = i
  <2>1. IterKey(src, i) \in DOMAIN src.keys /\ src.keys[IterKey(src, i)] = i
    BY <1>2 DEF IterKey
  <2> QED
    BY <1>1, <2>1
<1>3. CASE ~ \E k \in DOMAIN src.keys : src.keys[k] = i
  BY <1>3 DEF IterKey, Names
<1> QED
  BY <1>2, <1>3

\* What the loop puts into the array for the i-th element of the source.
NewItem(below, n, src, i) ==
  LET key == IterKey(src, i)
  IN  IF key \in DOMAIN n.keys THEN below[<<n.arr[n.keys[key]], src.arr[i]>>] ELSE src.arr[i]

MergesIn(T, F, below) ==
  /\ \A t \in T : ~Failed(t)
  /\ \A t \in F : Failed(t)
  /\ \A a, b \in T : below[<<a, b>>] \in T \cup F

\* One turn of mergeResource's loop fails or sets one element (reducer.go:58).
LEMMA MergeItemCases ==
  ASSUME NEW T, NEW F, NEW below, MergesIn(T, F, below),
         NEW n \in NamedArrays(T), NEW src \in NamedArrays(T), NEW i \in DOMAIN src.arr
  PROVE  \/ /\ NewItem(below, n, src, i) \in F
            /\ MergeItem(below, n, src, i) = NewItem(below, n, src, i)
         \/ /\ NewItem(below, n, src, i) \in T
            /\ MergeItem(below, n, src, i) =
                 SetNamed(n, IterKey(src, i), NewItem(below, n, src, i))
            /\ MergeItem(below, n, src, i) \in NamedArrays(T)
<1> DEFINE new == NewItem(below, n, src, i)
<1>1. src.arr[i] \in T
  BY DEF NamedArrays
<1>2. \A k \in DOMAIN n.keys : n.arr[n.keys[k]] \in T
  BY DEF NamedArrays
<1>3. new \in T \cup F
  BY <1>1, <1>2 DEF NewItem, MergesIn
<1>4. ~Failed(n)
  BY DEF Failed, NamedArrays
<1>5. MergeItem(below, n, src, i) = IF Failed(new) THEN new ELSE SetNamed(n, IterKey(src, i), new)
  BY <1>4 DEF MergeItem, NewItem
<1> HIDE DEF new
<1>6. CASE new \in F
  BY <1>5, <1>6 DEF new, MergesIn
<1>7. CASE new \in T
  <2>1. MergeItem(below, n, src, i) = SetNamed(n, IterKey(src, i), new)
    BY <1>5, <1>7 DEF MergesIn
  <2>2. SetNamed(n, IterKey(src, i), new) \in NamedArrays(T)
    BY <1>7, IterKeyFacts, SetNamedFacts
  <2> QED
    BY <2>1, <2>2, <1>7 DEF new
<1> QED
  BY <1>3, <1>6, <1>7

\* The states of the loop.
IsRun(T, F, below, input, source, L) ==
  /\ L[0] = NewNamedArray(input)
  /\ \A i \in 1..Len(source.items) : L[i] = MergeItem(below, L[i - 1], NewNamedArray(source), i)
  /\ \A i \in 0..Len(source.items) : L[i] \in NamedArrays(T) \cup F
  /\ MergeNamed(below, input, source) =
       IF Failed(L[Len(source.items)]) THEN L[Len(source.items)]
       ELSE Array(L[Len(source.items)].arr)

\* mergeResource's loop over named arrays comes to an end, with a named array or
\* a failure.
LEMMA MergeNamedLoop ==
  ASSUME NEW T, NEW F, NEW below, MergesIn(T, F, below),
         NEW input, NEW source, input.items \in Seq(T), source.items \in Seq(T)
  PROVE  \E L : IsRun(T, F, below, input, source, L)
<1>0. /\ \A t \in T : ~Failed(t)
      /\ \A t \in F : Failed(t)
      /\ \A a, b \in T : below[<<a, b>>] \in T \cup F
  BY DEF MergesIn
<1> DEFINE src == NewNamedArray(source)
           len == Len(source.items)
           N == NamedArrays(T) \cup F
           Item(n, i) == MergeItem(below, n, src, i)
           base == NewNamedArray(input)
<1>1. base \in NamedArrays(T) /\ src \in NamedArrays(T) /\ src.arr = source.items /\ len \in Nat
  BY NewNamedArrayFacts
<1>2. DOMAIN src.arr = 1..len
  BY <1>1
<1> HIDE DEF base
<1>3. ASSUME NEW n \in N, NEW i \in 1..len PROVE Item(n, i) \in N
  <2>1. CASE n \in F
    BY <2>1, <1>0 DEF MergeItem
  <2>2. CASE n \in NamedArrays(T)
    <3>1. i \in DOMAIN src.arr /\ src \in NamedArrays(T)
      BY <1>1, <1>2, <1>3
    <3> HIDE DEF src
    <3>2. \/ NewItem(below, n, src, i) \in F /\ MergeItem(below, n, src, i) = NewItem(below, n, src, i)
          \/ MergeItem(below, n, src, i) \in NamedArrays(T)
      BY <2>2, <3>1, <1>0, MergeItemCases
    <3> QED
      BY <3>2
  <2> QED
    BY <2>1, <2>2
<1> HIDE DEF src, len, Item
<1> DEFINE item == [q \in N \X (1..len) |-> Item(q[1], q[2])]
           Is(h) == h = [i \in 0..len |-> IF i = 0 THEN base ELSE Item(h[i - 1], i)]
<1>4. ASSUME NEW n \in N, NEW i \in 1..len PROVE item[<<n, i>>] = Item(n, i)
  <2> HIDE DEF N
  <2>1. <<n, i>> \in N \X (1..len)
    OBVIOUS
  <2> QED
    BY <2>1
<1>5. \A i \in 1..len : \A n \in N : item[<<n, i>>] \in N
  BY <1>3, <1>4
<1>6. base \in N /\ len \in Nat
  BY <1>1
<1> HIDE DEF N, item
<1>7. PICK g : IsLoop(N, len, item, g) /\ g[0] = base
  <2>1. LoopIn(N, len, base, item)
    BY <1>5, <1>6 DEF LoopIn
  <2> QED
    BY <2>1, LoopFunction
<1>8. ASSUME NEW h \in [0..len -> N], NEW i \in 1..len
      PROVE  item[<<h[i - 1], i>>] = Item(h[i - 1], i)
  <2>1. i - 1 \in 0..len
    BY <1>6
  <2> QED
    BY <2>1, <1>4, <1>8
<1>9. Is(g)
  <2>1. \A i \in 0..len : i # 0 => i \in 1..len
    OBVIOUS
  <2>2. \A i \in 0..len : g[i] = (IF i = 0 THEN base ELSE Item(g[i - 1], i))
    BY <1>7, <1>8, <2>1 DEF IsLoop
  <2> QED
    BY <1>7, <2>2 DEF IsLoop
<1>10. ASSUME NEW h, Is(h) PROVE h \in [0..len -> N]
  <2> DEFINE S == {i \in Nat : i <= len => h[i] \in N}
  <2>1. 0 \in S
    BY <1>6, <1>10
  <2>2. ASSUME NEW i \in S PROVE i + 1 \in S
    <3>1. CASE i + 1 <= len
      <4>1. i + 1 \in 0..len /\ i + 1 \in 1..len /\ i + 1 # 0 /\ (i + 1) - 1 = i
        BY <3>1, <1>6 DEF S
      <4>a. h[i] \in N
        BY <3>1, <1>6 DEF S
      <4>2. h[i + 1] = Item(h[i], i + 1)
        BY <4>1, <1>10
      <4>3. Item(h[i], i + 1) \in N
        BY <4>1, <4>a, <1>3
      <4> QED
        BY <4>2, <4>3
    <3> QED
      BY <3>1
  <2> HIDE DEF S
  <2>3. S \in SUBSET Nat
    BY DEF S
  <2>4. S = Nat
    BY <2>1, <2>2, <2>3, SetInduction
  <2>5. \A i \in 0..len : i \in Nat /\ i <= len
    OBVIOUS
  <2>6. \A i \in 0..len : h[i] \in N
    BY <2>4, <2>5 DEF S
  <2> QED
    BY <2>6, <1>10
<1>11. ASSUME NEW h, Is(h) PROVE h = g
  <2>1. h \in [0..len -> N]
    BY <1>10, <1>11
  <2>2. h[0] = base
    BY <1>6, <1>11
  <2>3. ASSUME NEW i \in 1..len PROVE h[i] = item[<<h[i - 1], i>>]
    <3>1. i \in 0..len /\ i # 0
      BY <1>6
    <3>2. h[i] = Item(h[i - 1], i)
      BY <3>1, <1>11
    <3> QED
      BY <3>2, <2>1, <1>8
  <2> HIDE DEF Is
  <2> QED
    <3>1. IsLoop(N, len, item, h)
      BY <1>6, <2>1, <2>3 DEF IsLoop
    <3> QED
      BY <1>7, <2>2, <3>1, LoopUnique
<1> DEFINE loop == CHOOSE h : Is(h)
<1>13. MergeNamed(below, input, source) =
         IF Failed(loop[len]) THEN loop[len] ELSE Array(loop[len].arr)
  BY Zenon DEF MergeNamed, src, len, Item, base
<1> HIDE DEF Is
<1>14. Is(loop)
  BY <1>9, Zenon
<1>15. loop = g
  BY <1>11, <1>14
<1> HIDE DEF loop
<1>16. /\ g[0] = base
       /\ \A i \in 1..len : g[i] = Item(g[i - 1], i)
  <2>1. 0 \in 0..len /\ \A i \in 1..len : i \in 0..len /\ i # 0
    BY <1>6
  <2> QED
    BY <2>1, <1>9 DEF Is
<1> QED
  <2>1. \A i \in 0..len : g[i] \in N
    BY <1>7 DEF IsLoop
  <2> QED
    BY <2>1, <1>13, <1>15, <1>16, Zenon DEF src, len, Item, base, N, IsRun

-----------------------------------------------------------------------------
(* Merging                                                                 *)

\* What is merged, and what becomes of it if nothing fails.
BothKeys(input, source) == Keys(input) \cap Keys(source)
AtKey(below, input, source, k) == below[<<input.at[k], source.at[k]>>]
MergedKey(below, input, source, k) ==
  IF k \in BothKeys(input, source)
  THEN IF AtKey(below, input, source, k) = Null THEN Absent ELSE AtKey(below, input, source, k)
  ELSE IF source.at[k] # Absent THEN source.at[k] ELSE input.at[k]
MergedMap(below, input, source) == Map([k \in Key |-> MergedKey(below, input, source, k)])

BothItems(input, source) == DOMAIN input.items \cap DOMAIN source.items
AtItem(below, input, source, i) == below[<<input.items[i], source.items[i]>>]
Longer(input, source) ==
  IF Len(input.items) > Len(source.items) THEN input.items ELSE source.items
MergedArray(below, input, source) ==
  Array([i \in DOMAIN Longer(input, source) |->
           IF i \in BothItems(input, source) THEN AtItem(below, input, source, i)
           ELSE Longer(input, source)[i]])

\* mergeMap fails with the merge of one key, or merges each key both have
\* (map.go:8).
LEMMA MergeMapCases ==
  ASSUME NEW below, NEW input, NEW source, IsMap(source)
  PROVE  \/ \E k \in BothKeys(input, source) :
              /\ Failed(AtKey(below, input, source, k))
              /\ MergeMap(below, input, source) = AtKey(below, input, source, k)
         \/ /\ \A k \in BothKeys(input, source) : ~Failed(AtKey(below, input, source, k))
            /\ MergeMap(below, input, source) = MergedMap(below, input, source)
<1> DEFINE both == Keys(input) \cap Keys(source)
           Both(k) == below[<<input.at[k], source.at[k]>>]
           f == [k \in Key |-> IF k \in both THEN Both(k) ELSE Absent]
           new == SetMap(f)
           Rest0(k) == IF source.at[k] # Absent THEN source.at[k] ELSE input.at[k]
<1>1. MergeMap(below, input, source) =
        IF Failed(new) THEN new
        ELSE Map([k \in Key |-> IF k \in both THEN new.at[k] ELSE Rest0(k)])
  BY DEF MergeMap
<1>2. both \subseteq Key /\ (\A k \in Key \ both : f[k] = Absent) /\ (\A k \in both : f[k] = Both(k))
  BY DEF Keys
<1>3. ~Failed(Absent)
  BY DEF Failed, Absent
<1> HIDE DEF both, Both, f, Rest0
<1>4. CASE \E k \in Key : Failed(f[k]) /\ new = f[k]
  <2>1. PICK k \in Key : Failed(f[k]) /\ new = f[k]
    BY <1>4
  <2>2. k \in both /\ f[k] = Both(k)
    BY <2>1, <1>2, <1>3
  <2> HIDE DEF new
  <2>3. MergeMap(below, input, source) = Both(k)
    BY <2>1, <2>2, <1>1
  <2> QED
    BY <2>1, <2>2, <2>3 DEF both, Both, BothKeys, AtKey
<1>5. CASE /\ \A k \in Key : ~Failed(f[k])
           /\ new = Map([k \in Key |-> IF f[k] = Null THEN Absent ELSE f[k]])
  <2> HIDE DEF new
  <2>1. ~Failed(new) /\ \A k \in Key : new.at[k] = IF f[k] = Null THEN Absent ELSE f[k]
    BY <1>5 DEF Failed, Map
  <2>2. \A k \in both : ~Failed(Both(k)) /\ new.at[k] = IF Both(k) = Null THEN Absent ELSE Both(k)
    BY <2>1, <1>2, <1>5
  <2>3. MergeMap(below, input, source) =
          Map([k \in Key |-> IF k \in both THEN new.at[k] ELSE Rest0(k)])
    BY <1>1, <2>1
  <2>4. [k \in Key |-> IF k \in both THEN new.at[k] ELSE Rest0(k)] =
          [k \in Key |-> IF k \in both THEN IF Both(k) = Null THEN Absent ELSE Both(k) ELSE Rest0(k)]
    BY <2>2
  <2>5. MergeMap(below, input, source) =
          Map([k \in Key |-> IF k \in both THEN IF Both(k) = Null THEN Absent ELSE Both(k) ELSE Rest0(k)])
    BY <2>3, <2>4
  <2> QED
    BY <2>2, <2>5 DEF both, Both, Rest0, BothKeys, AtKey, MergedKey, MergedMap
<1>6. \/ \E k \in Key : Failed(f[k]) /\ new = f[k]
      \/ /\ \A k \in Key : ~Failed(f[k])
         /\ new = Map([k \in Key |-> IF f[k] = Null THEN Absent ELSE f[k]])
  BY SetMapCases
<1> QED
  BY <1>4, <1>5, <1>6

\* mergeArray fails with one position, panics for a null, or merges each
\* position both have (array.go:10).
LEMMA MergeArrayCases ==
  ASSUME NEW below, NEW input, NEW source, IsArray(source)
  PROVE  \/ \E i \in BothItems(input, source) :
              /\ Failed(AtItem(below, input, source, i))
              /\ MergeArray(below, input, source) = AtItem(below, input, source, i)
         \/ /\ \E i \in BothItems(input, source) : AtItem(below, input, source, i) = Null
            /\ MergeArray(below, input, source) = Panic
         \/ /\ \A i \in BothItems(input, source) :
                 ~Failed(AtItem(below, input, source, i)) /\ AtItem(below, input, source, i) # Null
            /\ MergeArray(below, input, source) = MergedArray(below, input, source)
<1> DEFINE both == DOMAIN input.items \cap DOMAIN source.items
           Both(i) == below[<<input.items[i], source.items[i]>>]
           longer == IF Len(input.items) > Len(source.items) THEN input.items ELSE source.items
           f == [i \in both |-> Both(i)]
           new == SetArray(f)
<1>1. MergeArray(below, input, source) =
        IF Failed(new) THEN new
        ELSE Array([i \in DOMAIN longer |-> IF i \in DOMAIN new.items THEN new.items[i] ELSE longer[i]])
  BY DEF MergeArray
<1>2. DOMAIN f = both /\ \A i \in both : f[i] = Both(i)
  OBVIOUS
<1>3. Failed(Panic)
  BY DEF Failed, Panic
<1> HIDE DEF both, Both, f, longer
<1>4. CASE \E i \in DOMAIN f : Failed(f[i]) /\ new = f[i]
  <2>1. PICK i \in both : Failed(Both(i)) /\ new = Both(i)
    BY <1>4, <1>2
  <2> HIDE DEF new
  <2>2. MergeArray(below, input, source) = Both(i)
    BY <2>1, <1>1
  <2> QED
    BY <2>1, <2>2 DEF both, Both, BothItems, AtItem
<1>5. CASE (\E i \in DOMAIN f : f[i] = Null) /\ new = Panic
  <2> HIDE DEF new
  <2>1. PICK i \in both : Both(i) = Null
    BY <1>5, <1>2
  <2>2. MergeArray(below, input, source) = Panic
    BY <1>5, <1>3, <1>1
  <2> QED
    BY <2>1, <2>2 DEF both, Both, BothItems, AtItem
<1>6. CASE (\A i \in DOMAIN f : ~Failed(f[i]) /\ f[i] # Null) /\ new = Array(f)
  <2> HIDE DEF new
  <2>1. ~Failed(new) /\ new.items = f
    BY <1>6 DEF Failed, Array
  <2>2. \A i \in both : ~Failed(Both(i)) /\ Both(i) # Null
    BY <1>2, <1>6
  <2>3. MergeArray(below, input, source) =
          Array([i \in DOMAIN longer |-> IF i \in both THEN Both(i) ELSE longer[i]])
    BY <1>1, <1>2, <2>1
  <2> QED
    BY <2>2, <2>3 DEF both, Both, longer, BothItems, AtItem, Longer, MergedArray
<1>7. \/ \E i \in DOMAIN f : Failed(f[i]) /\ new = f[i]
      \/ (\E i \in DOMAIN f : f[i] = Null) /\ new = Panic
      \/ (\A i \in DOMAIN f : ~Failed(f[i]) /\ f[i] # Null) /\ new = Array(f)
  BY SetArrayCases
<1> QED
  BY <1>4, <1>5, <1>6, <1>7

\* The documents of one kind, the values they have at their keys, and the
\* failures they lead to.
Family(leaves, inMaps) == leaves \in SUBSET Leaves /\ inMaps \in SUBSET {Null}
Values(leaves, inMaps, n) == Trees(leaves, inMaps)[n] \cup inMaps
Panics(leaves) == IF Null \in leaves THEN {Panic} ELSE {}

\* A family of documents is one of documents.
LEMMA FamilyDocuments ==
  ASSUME NEW l, NEW m, Family(l, m), NEW n \in Nat
  PROVE  Values(l, m, n) \subseteq Document[n]
<1>1. Null \in Leaves /\ l \subseteq Leaves /\ m \subseteq {} \cup Leaves
  BY DEF Leaves, Family
<1>2. Trees(l, m)[n] \subseteq Document[n]
  BY <1>1, TreeSubset DEF Document
<1>3. Null \in Document[n]
  BY <1>1, TreeLeaf DEF Document
<1> QED
  BY <1>2, <1>3 DEF Values, Family

\* A value of a map in a family is a leaf, a map or an array of the family.
LEMMA ValueCases ==
  ASSUME NEW l, NEW m, Family(l, m), NEW n \in Nat, NEW v \in Values(l, m, n)
  PROVE  /\ ~Failed(v) /\ v # Absent
         /\ \/ v \in l \cup m /\ ~IsMap(v) /\ ~IsArray(v)
            \/ \E k \in Nat :
              /\ n = k + 1
              /\ \/ /\ IsMap(v) /\ ~IsArray(v) /\ v = Map(v.at) /\ v # Null
                    /\ v.at \in [Key -> {Absent} \cup Values(l, m, k)]
                 \/ /\ IsArray(v) /\ ~IsMap(v) /\ v = Array(v.items) /\ v # Null
                    /\ v.items \in Seq(Trees(l, m)[k])
<1>1. CASE v \in m
  <2>1. v = Null
    BY <1>1 DEF Family
  <2> QED
    BY <1>1, <2>1 DEF Null, Failed, Absent, IsMap, IsArray
<1>2. CASE v \in Trees(l, m)[n]
  <2>1. ~Failed(v) /\ v # Absent
    BY <1>2, TreeFacts DEF Family
  <2>2. ~IsMap(Null) /\ ~IsArray(Null)
    BY DEF Null, IsMap, IsArray
  <2>3. \A k \in Nat : {Absent} \cup m \cup Trees(l, m)[k] = {Absent} \cup Values(l, m, k)
    BY DEF Values
  <2>4. \/ v \in l /\ ~IsMap(v) /\ ~IsArray(v)
        \/ \E k \in Nat :
              /\ n = k + 1
              /\ \/ /\ IsMap(v) /\ ~IsArray(v) /\ v = Map(v.at)
                    /\ v.at \in [Key -> {Absent} \cup m \cup Trees(l, m)[k]]
                 \/ /\ IsArray(v) /\ ~IsMap(v) /\ v = Array(v.items)
                    /\ v.items \in Seq(Trees(l, m)[k])
    BY <1>2, TreeCases DEF Family
  <2> QED
    BY <2>1, <2>2, <2>3, <2>4
<1> QED
  BY <1>1, <1>2 DEF Values

\* A map of such values belongs to the family.
LEMMA MapValue ==
  ASSUME NEW l, NEW m, NEW n \in Nat, NEW f \in [Key -> {Absent} \cup Values(l, m, n)]
  PROVE  Map(f) \in Trees(l, m)[n + 1]
<1>1. f \in [Key -> {Absent} \cup m \cup Trees(l, m)[n]]
  BY DEF Values
<1> QED
  BY <1>1, TreeMap

\* A merge of documents of a kind is of the kind, and null only where the
\* source is.
MergesWithin(l, m, n, below) ==
  \A a, b \in Values(l, m, n) :
    /\ below[<<a, b>>] \in Values(l, m, n) \cup Panics(l)
    /\ below[<<a, b>>] = Null => b = Null

\* A panic is a failure.
LEMMA PanicsFail ==
  ASSUME NEW l
  PROVE  \A p \in Panics(l) : Failed(p) /\ p # Null
BY DEF Panics, Failed, Panic, Null

\* Merging two maps of a family stays in it, or panics if its arrays may have
\* nulls.
LEMMA MergeMapClosed ==
  ASSUME NEW l, NEW m, Family(l, m), NEW n \in Nat, NEW below, MergesWithin(l, m, n, below),
         NEW a, NEW b, IsMap(a), IsMap(b),
         a.at \in [Key -> {Absent} \cup Values(l, m, n)],
         b.at \in [Key -> {Absent} \cup Values(l, m, n)]
  PROVE  MergeMap(below, a, b) \in (Trees(l, m)[n + 1] \ {Null}) \cup Panics(l)
<1> DEFINE both == BothKeys(a, b)
           Both(k) == AtKey(below, a, b, k)
           V == Values(l, m, n)
<1>1. ASSUME NEW k \in both PROVE Both(k) \in V \cup Panics(l)
  <2>1. a.at[k] \in V /\ b.at[k] \in V
    BY DEF Keys, BothKeys
  <2> QED
    BY <2>1 DEF MergesWithin, AtKey
<1>2. \A v \in V : ~Failed(v)
  BY ValueCases
<1>3. \A k \in Key : a.at[k] \in {Absent} \cup V /\ b.at[k] \in {Absent} \cup V
  OBVIOUS
<1> DEFINE result == MergeMap(below, a, b)
           f == [k \in Key |-> MergedKey(below, a, b, k)]
<1>4. \/ \E k \in both : Failed(Both(k)) /\ result = Both(k)
      \/ (\A k \in both : ~Failed(Both(k))) /\ result = Map(f)
  BY MergeMapCases DEF MergedMap
<1> HIDE DEF result, both, Both, V
<1>5. CASE \E k \in both : Failed(Both(k)) /\ result = Both(k)
  BY <1>5, <1>1, <1>2 DEF result
<1>6. CASE (\A k \in both : ~Failed(Both(k))) /\ result = Map(f)
  <2>1. \A k \in both : Both(k) \in V
    BY <1>6, <1>1, PanicsFail
  <2>2. f \in [Key -> {Absent} \cup V]
    BY <2>1, <1>3 DEF MergedKey, both, Both
  <2> HIDE DEF f
  <2>3. Map(f) \in Trees(l, m)[n + 1]
    BY <2>2, MapValue DEF V
  <2>4. Map(f) # Null
    BY DEF Map, Null
  <2> QED
    BY <2>3, <2>4, <1>6 DEF result
<1> QED
  BY <1>4, <1>5, <1>6

\* The same of arrays merged by position.
LEMMA MergeArrayClosed ==
  ASSUME NEW l, NEW m, Family(l, m), NEW n \in Nat, NEW below, MergesWithin(l, m, n, below),
         NEW a, NEW b, IsArray(b),
         a.items \in Seq(Trees(l, m)[n]), b.items \in Seq(Trees(l, m)[n])
  PROVE  MergeArray(below, a, b) \in (Trees(l, m)[n + 1] \ {Null}) \cup Panics(l)
<1> DEFINE both == BothItems(a, b)
           Both(i) == AtItem(below, a, b, i)
           longer == Longer(a, b)
           T == Trees(l, m)[n]
           V == Values(l, m, n)
<1>1. /\ \A i \in DOMAIN a.items : a.items[i] \in T
      /\ \A i \in DOMAIN b.items : b.items[i] \in T
      /\ longer \in Seq(T)
  BY DEF Longer
<1>2. ASSUME NEW i \in both
      PROVE  Both(i) \in T \cup Panics(l) /\ (Both(i) = Null => Null \in l)
  <2>1. a.items[i] \in V /\ b.items[i] \in V /\ b.items[i] \in T
    BY <1>1 DEF Values, BothItems
  <2>2. Both(i) \in V \cup Panics(l) /\ (Both(i) = Null => b.items[i] = Null)
    BY <2>1 DEF MergesWithin, AtItem
  <2>3. b.items[i] = Null => Null \in l
    BY <2>1, TreeFacts DEF Family
  <2>4. Null \in l => Null \in T
    BY TreeLeaf
  <2> QED
    BY <2>2, <2>3, <2>4 DEF Values, Family
<1>3. \A v \in T : ~Failed(v)
  BY TreeFacts DEF Family
<1> DEFINE result == MergeArray(below, a, b)
           f == [i \in DOMAIN longer |-> IF i \in both THEN Both(i) ELSE longer[i]]
<1>4. \/ \E i \in both : Failed(Both(i)) /\ result = Both(i)
      \/ (\E i \in both : Both(i) = Null) /\ result = Panic
      \/ (\A i \in both : ~Failed(Both(i)) /\ Both(i) # Null) /\ result = Array(f)
  BY MergeArrayCases DEF MergedArray
<1> HIDE DEF result, both, Both, T, longer
<1>5. CASE \E i \in both : Failed(Both(i)) /\ result = Both(i)
  BY <1>5, <1>2, <1>3 DEF result
<1>6. CASE (\E i \in both : Both(i) = Null) /\ result = Panic
  BY <1>6, <1>2 DEF result, Panics
<1>7. CASE (\A i \in both : ~Failed(Both(i)) /\ Both(i) # Null) /\ result = Array(f)
  <2>1. \A i \in both : Both(i) \in T
    BY <1>7, <1>2, PanicsFail
  <2>2. DOMAIN longer = 1..Len(longer) /\ Len(longer) \in Nat /\ \A i \in DOMAIN longer : longer[i] \in T
    BY <1>1
  <2>3. f \in [1..Len(longer) -> T]
    BY <2>1, <2>2
  <2> HIDE DEF f
  <2>4. f \in Seq(T)
    BY <2>2, <2>3, SeqOfFunction
  <2>5. Array(f) # Null
    BY DEF Array, Null
  <2> QED
    BY <2>4, <2>5, <1>7, TreeArray DEF result, T
<1> QED
  BY <1>4, <1>5, <1>6, <1>7

\* The same of arrays merged by name.
LEMMA MergeNamedClosed ==
  ASSUME NEW l, NEW m, Family(l, m), NEW n \in Nat, NEW below, MergesWithin(l, m, n, below),
         NEW a, NEW b, a.items \in Seq(Trees(l, m)[n]), b.items \in Seq(Trees(l, m)[n])
  PROVE  MergeNamed(below, a, b) \in (Trees(l, m)[n + 1] \ {Null}) \cup Panics(l)
<1> DEFINE T == Trees(l, m)[n]
           F == Panics(l)
<1>1. (\A t \in T : ~Failed(t)) /\ (\A t \in F : Failed(t))
  BY TreeFacts, PanicsFail DEF Family
<1>2. ASSUME NEW x \in T, NEW y \in T PROVE below[<<x, y>>] \in T \cup F
  <2>1. x \in Values(l, m, n) /\ y \in Values(l, m, n)
    BY DEF Values
  <2>2. below[<<x, y>>] \in Values(l, m, n) \cup F /\ (below[<<x, y>>] = Null => y = Null)
    BY <2>1 DEF MergesWithin
  <2> QED
    BY <2>2 DEF Values, Family
<1> DEFINE len == Len(b.items)
<1>3. len \in Nat
  OBVIOUS
<1> HIDE DEF T, F
<1>4. PICK L : IsRun(T, F, below, a, b, L)
  <2>1. a.items \in Seq(T) /\ b.items \in Seq(T) /\ MergesIn(T, F, below)
    BY <1>1, <1>2 DEF T, MergesIn
  <2> QED
    BY <2>1, MergeNamedLoop
<1>5. L[len] \in NamedArrays(T) \cup F
  BY <1>3, <1>4 DEF IsRun
<1>6. CASE L[len] \in F
  BY <1>1, <1>4, <1>6, PanicsFail DEF F, IsRun
<1>7. CASE L[len] \in NamedArrays(T)
  <2>1. ~Failed(L[len]) /\ L[len].arr \in Seq(T)
    BY <1>7 DEF Failed, NamedArrays
  <2>2. Array(L[len].arr) \in Trees(l, m)[n + 1]
    BY <2>1, TreeArray DEF T
  <2>3. Array(L[len].arr) # Null
    BY DEF Array, Null
  <2> QED
    BY <1>4, <2>1, <2>2, <2>3 DEF IsRun
<1> QED
  BY <1>5, <1>6, <1>7

\* The same of the merge function; only a null of the source makes a null.
LEMMA MergeOneClosed ==
  ASSUME NEW l, NEW m, Family(l, m), NEW n \in Nat, NEW below, MergesWithin(l, m, n, below),
         NEW a \in Values(l, m, n + 1), NEW b \in Values(l, m, n + 1)
  PROVE  /\ MergeOne(below, a, b) \in Values(l, m, n + 1) \cup Panics(l)
         /\ MergeOne(below, a, b) = Null => b = Null
<1> DEFINE W == (Trees(l, m)[n + 1] \ {Null}) \cup Panics(l)
           result == MergeOne(below, a, b)
<1>1. W \subseteq Values(l, m, n + 1) \cup Panics(l) /\ Null \notin W
  BY PanicsFail DEF Values
<1>a. n + 1 \in Nat /\ \A k \in Nat : n + 1 = k + 1 => k = n
  OBVIOUS
<1>2. IsMap(a) => ~IsArray(a) /\ a.at \in [Key -> {Absent} \cup Values(l, m, n)]
  BY <1>a, ValueCases
<1>3. IsMap(b) => ~IsArray(b) /\ b.at \in [Key -> {Absent} \cup Values(l, m, n)]
  BY <1>a, ValueCases
<1>4. IsArray(a) => ~IsMap(a) /\ a.items \in Seq(Trees(l, m)[n])
  BY <1>a, ValueCases
<1>5. IsArray(b) => b.items \in Seq(Trees(l, m)[n])
  BY <1>a, ValueCases
<1>6. CASE result = b
  BY <1>6
<1>7. CASE IsNamed(a) /\ IsNamed(b)
  <2>1. result = MergeNamed(below, a, b) /\ IsArray(a) /\ IsArray(b)
    BY <1>7 DEF MergeOne, IsNamed
  <2>2. result \in W
    BY <2>1, <1>4, <1>5, MergeNamedClosed
  <2> HIDE DEF result, W
  <2> QED
    BY <2>2, <1>1 DEF result
<1>8. CASE ~(IsNamed(a) /\ IsNamed(b)) /\ result # b
  <2>1. result = Merge(below, a, b)
    BY <1>8 DEF MergeOne
  <2>2. \/ result = MergeArray(below, a, b) /\ IsArray(a)
        \/ result = MergeMap(below, a, b) /\ IsMap(a) /\ ~IsArray(a)
    <3>1. b # Null
      BY <1>8, <2>1, SMTT(30) DEF Merge
    <3> QED
      BY <3>1, <1>8, <2>1, <1>4 DEF Merge
  <2>3. IsArray(a) /\ result = MergeArray(below, a, b) => IsArray(b)
    BY <1>8 DEF MergeArray
  <2>4. IsMap(a) /\ result = MergeMap(below, a, b) => IsMap(b)
    BY <1>8 DEF MergeMap
  <2>5. ASSUME IsArray(a), result = MergeArray(below, a, b) PROVE result \in W
    <3>1. MergeArray(below, a, b) \in (Trees(l, m)[n + 1] \ {Null}) \cup Panics(l)
      BY <2>3, <2>5, <1>4, <1>5, MergeArrayClosed
    <3> QED
      BY <2>5, <3>1
  <2>6. ASSUME IsMap(a), result = MergeMap(below, a, b) PROVE result \in W
    <3>1. MergeMap(below, a, b) \in (Trees(l, m)[n + 1] \ {Null}) \cup Panics(l)
      BY <2>4, <2>6, <1>2, <1>3, MergeMapClosed
    <3> QED
      BY <2>6, <3>1
  <2>7. result \in W
    BY <2>2, <2>5, <2>6
  <2> HIDE DEF result, W
  <2> QED
    BY <2>7, <1>1 DEF result
<1> QED
  BY <1>6, <1>7, <1>8

\* A source without maps and arrays is taken as it is.
LEMMA MergeLeaf ==
  ASSUME NEW l, NEW m, Family(l, m), NEW below, NEW a \in Values(l, m, 0), NEW b
  PROVE  MergeOne(below, a, b) = b
<1>1. ~IsMap(a) /\ ~IsArray(a)
  <2>1. 0 \in Nat /\ \A k \in Nat : 0 # k + 1
    OBVIOUS
  <2> QED
    BY <2>1, ValueCases
<1> QED
  BY <1>1 DEF MergeOne, Merge, IsNamed

MergeLevel(n, below) == [p \in Document[n] \X Document[n] |-> MergeOne(below, p[1], p[2])]

\* Each level of the merge leads from documents to documents.
LEMMA MergeLevelTyped ==
  /\ MergesWithin(Leaves, {}, 0, MergeLevel(0, <<>>))
  /\ \A n \in Nat : \A below : MergesWithin(Leaves, {}, n, below) =>
       MergesWithin(Leaves, {}, n + 1, MergeLevel(n + 1, below))
<1>1. Family(Leaves, {}) /\ \A n : Values(Leaves, {}, n) = Document[n]
  BY DEF Family, Values, Document
<1>2. MergesWithin(Leaves, {}, 0, MergeLevel(0, <<>>))
  <2>1. ASSUME NEW a \in Document[0], NEW b \in Document[0]
        PROVE  MergeLevel(0, <<>>)[<<a, b>>] = b
    <3>1. MergeLevel(0, <<>>)[<<a, b>>] = MergeOne(<<>>, a, b)
      BY DEF MergeLevel
    <3> QED
      BY <3>1, <1>1, MergeLeaf
  <2> QED
    BY <2>1, <1>1 DEF MergesWithin
<1>3. ASSUME NEW n \in Nat, NEW below, MergesWithin(Leaves, {}, n, below)
      PROVE  MergesWithin(Leaves, {}, n + 1, MergeLevel(n + 1, below))
  <2>1. ASSUME NEW a \in Document[n + 1], NEW b \in Document[n + 1]
        PROVE  LET r == MergeLevel(n + 1, below)[<<a, b>>]
               IN  r \in Document[n + 1] \cup Panics(Leaves) /\ (r = Null => b = Null)
    <3>1. MergeLevel(n + 1, below)[<<a, b>>] = MergeOne(below, a, b)
      BY DEF MergeLevel
    <3> QED
      BY <3>1, <1>1, <1>3, MergeOneClosed
  <2> QED
    BY <2>1, <1>1 DEF MergesWithin
<1> QED
  BY <1>2, <1>3

\* The definition of MergeAt is met, level by level.
LEMMA MergeLevels ==
  /\ MergeAt[0] = MergeLevel(0, <<>>)
  /\ \A n \in Nat : MergeAt[n + 1] = MergeLevel(n + 1, MergeAt[n])
<1> DEFINE Merges == UNION {{t \in [Document[n] \X Document[n] -> Document[n] \cup {Panic}] :
                               MergesWithin(Leaves, {}, n, t)} : n \in Nat}
           R == [n \in Nat |-> {t \in [Document[n] \X Document[n] -> Document[n] \cup {Panic}] :
                                  MergesWithin(Leaves, {}, n, t)}]
           step == [q \in Nat \X (Merges \cup {<<>>}) |-> MergeLevel(q[1], q[2])]
<1>1. ASSUME NEW n \in Nat, NEW t \in Merges \cup {<<>>} PROVE step[<<n, t>>] = MergeLevel(n, t)
  <2> HIDE DEF Merges
  <2>1. <<n, t>> \in Nat \X (Merges \cup {<<>>})
    OBVIOUS
  <2> QED
    BY <2>1
<1>2. ASSUME NEW n \in Nat, NEW t, MergesWithin(Leaves, {}, n, MergeLevel(n, t))
      PROVE  MergeLevel(n, t) \in R[n]
  <2> DEFINE D == Document[n]
             M == MergeLevel(n, t)
  <2>1. ASSUME NEW p \in D \X D PROVE M[p] \in D \cup {Panic}
    <3>1. p = <<p[1], p[2]>> /\ p[1] \in D /\ p[2] \in D
      OBVIOUS
    <3>2. D = Values(Leaves, {}, n) /\ Panics(Leaves) \subseteq {Panic}
      BY DEF Values, Document, Panics
    <3>3. M[<<p[1], p[2]>>] \in D \cup {Panic}
      BY <3>1, <3>2, <1>2 DEF MergesWithin
    <3> QED
      BY <3>1, <3>3
  <2>2. M = [p \in D \X D |-> M[p]]
    BY DEF MergeLevel
  <2> HIDE DEF M, D
  <2>3. M \in [D \X D -> D \cup {Panic}]
    BY <2>1, <2>2
  <2> QED
    BY <2>3, <1>2 DEF M, D
<1>3. \A n \in Nat : \A t \in R[n] : MergesWithin(Leaves, {}, n, t) /\ t \in Merges
  OBVIOUS
<1> HIDE DEF R, step, Merges
<1>4. Steps(R, <<>>, step)
  <2>1. step[<<0, <<>> >>] \in R[0]
    BY <1>1, <1>2, MergeLevelTyped
  <2>2. ASSUME NEW n \in Nat, NEW t \in R[n] PROVE step[<<n + 1, t>>] \in R[n + 1]
    <3>1. MergesWithin(Leaves, {}, n, t) /\ t \in Merges \cup {<<>>} /\ n + 1 \in Nat
      BY <1>3
    <3>2. MergesWithin(Leaves, {}, n + 1, MergeLevel(n + 1, t))
      BY <3>1, MergeLevelTyped
    <3> QED
      BY <3>1, <3>2, <1>1, <1>2
  <2> QED
    BY <2>1, <2>2 DEF Steps
<1>5. PICK f : AreLevels(R, <<>>, step, f)
  BY <1>4, LevelFunction
<1>6. f[0] = MergeLevel(0, <<>>)
  BY <1>5, <1>1 DEF AreLevels
<1>7. ASSUME NEW n \in Nat PROVE f[n + 1] = MergeLevel(n + 1, f[n])
  <2>1. f[n] \in Merges /\ n + 1 \in Nat
    BY <1>5, <1>3 DEF AreLevels
  <2> QED
    BY <2>1, <1>5, <1>1 DEF AreLevels
<1> DEFINE Is(g) == g = [n \in Nat |-> MergeLevel(n, IF n = 0 THEN <<>> ELSE g[n - 1])]
<1>8. Is(f)
  <2>1. ASSUME NEW n \in Nat PROVE f[n] = MergeLevel(n, IF n = 0 THEN <<>> ELSE f[n - 1])
    <3>1. CASE n = 0
      BY <3>1, <1>6
    <3>2. CASE n # 0
      <4>1. n - 1 \in Nat /\ (n - 1) + 1 = n
        BY <3>2
      <4> QED
        BY <4>1, <3>2, <1>7
    <3> QED
      BY <3>1, <3>2
  <2>2. f = [n \in Nat |-> f[n]]
    BY <1>5 DEF AreLevels
  <2> QED
    BY <2>1, <2>2
<1>9. MergeAt = CHOOSE g : Is(g)
  BY Zenon DEF MergeAt, MergeLevel
<1> HIDE DEF Is
<1>10. Is(MergeAt)
  BY <1>8, <1>9, Zenon
<1>11. MergeAt = [n \in Nat |-> MergeLevel(n, IF n = 0 THEN <<>> ELSE MergeAt[n - 1])]
  BY <1>10, Zenon DEF Is
<1>12. ASSUME NEW n \in Nat PROVE MergeAt[n + 1] = MergeLevel(n + 1, MergeAt[n])
  <2>1. n + 1 \in Nat /\ n + 1 # 0 /\ (n + 1) - 1 = n
    OBVIOUS
  <2> QED
    BY <2>1, <1>11
<1> QED
  BY <1>11, <1>12

\* MergeAt of a level is MergeOne over the level below.
LEMMA MergeAtOne ==
  ASSUME NEW n \in Nat, NEW a \in Document[n + 1], NEW b \in Document[n + 1]
  PROVE  MergeAt[n + 1][<<a, b>>] = MergeOne(MergeAt[n], a, b)
<1>1. MergeAt[n + 1] = MergeLevel(n + 1, MergeAt[n])
  BY MergeLevels
<1>2. MergeLevel(n + 1, MergeAt[n])[<<a, b>>] = MergeOne(MergeAt[n], a, b)
  BY DEF MergeLevel
<1> QED
  BY <1>1, <1>2

\* At every level the merge stays in a family of documents.
LEMMA MergeAtClosed ==
  ASSUME NEW l, NEW m, Family(l, m), NEW n \in Nat
  PROVE  MergesWithin(l, m, n, MergeAt[n])
<1> DEFINE S == {k \in Nat : MergesWithin(l, m, k, MergeAt[k])}
<1>1. 0 \in S
  <2>1. ASSUME NEW a \in Values(l, m, 0), NEW b \in Values(l, m, 0)
        PROVE  MergeAt[0][<<a, b>>] = b
    <3>1. a \in Document[0] /\ b \in Document[0]
      BY FamilyDocuments
    <3>2. MergeAt[0][<<a, b>>] = MergeOne(<<>>, a, b)
      BY <3>1, MergeLevels DEF MergeLevel
    <3> QED
      BY <3>2, MergeLeaf
  <2> QED
    BY <2>1 DEF MergesWithin
<1>2. ASSUME NEW k \in S PROVE k + 1 \in S
  <2>1. k \in Nat /\ k + 1 \in Nat /\ MergesWithin(l, m, k, MergeAt[k])
    OBVIOUS
  <2>2. ASSUME NEW a \in Values(l, m, k + 1), NEW b \in Values(l, m, k + 1)
        PROVE  LET r == MergeAt[k + 1][<<a, b>>]
               IN  r \in Values(l, m, k + 1) \cup Panics(l) /\ (r = Null => b = Null)
    <3>1. a \in Document[k + 1] /\ b \in Document[k + 1]
      BY <2>1, FamilyDocuments
    <3>2. MergeAt[k + 1][<<a, b>>] = MergeOne(MergeAt[k], a, b)
      BY <2>1, <3>1, MergeAtOne
    <3> QED
      BY <2>1, <3>2, MergeOneClosed
  <2>3. MergesWithin(l, m, k + 1, MergeAt[k + 1])
    BY <2>2 DEF MergesWithin
  <2> QED
    BY <2>1, <2>3
<1> HIDE DEF S
<1>3. S \in SUBSET Nat
  BY DEF S
<1>4. S = Nat
  BY <1>1, <1>2, <1>3, SetInduction
<1> QED
  BY <1>4 DEF S

-----------------------------------------------------------------------------
(* Walking                                                                 *)

WalkedMap(below, v) ==
  Map([k \in Key |-> IF v.at[k] = Absent \/ below[v.at[k]] = Null THEN Absent ELSE below[v.at[k]]])

\* Walking over a map fails with one of its values or drops its nulls.
LEMMA WalkMapCases ==
  ASSUME NEW fn, NEW below, NEW v, IsMap(v)
  PROVE  \/ \E k \in Keys(v) : Failed(below[v.at[k]]) /\ WalkOne(fn, below, v) = below[v.at[k]]
         \/ /\ \A k \in Keys(v) : ~Failed(below[v.at[k]])
            /\ WalkOne(fn, below, v) = WalkedMap(below, v)
<1> DEFINE f == Each(below, v)
           F == [k \in Key |-> IF f[k] = Null THEN Absent ELSE f[k]]
           result == WalkOne(fn, below, v)
<1>1. result = SetMap(f)
  BY DEF WalkOne, IsMap, IsArray
<1>2. \A k \in Key : f[k] = IF v.at[k] = Absent THEN Absent ELSE below[v.at[k]]
  BY DEF Each
<1>3. ~Failed(Absent) /\ Absent # Null
  BY DEF Failed, Absent, Null
<1>4. \A k \in Key : k \in Keys(v) <=> v.at[k] # Absent
  BY DEF Keys
<1>5. \/ \E k \in Key : Failed(f[k]) /\ SetMap(f) = f[k]
      \/ (\A k \in Key : ~Failed(f[k])) /\ SetMap(f) = Map(F)
  BY SetMapCases
<1>6. F = [k \in Key |-> IF v.at[k] = Absent \/ below[v.at[k]] = Null THEN Absent ELSE below[v.at[k]]]
  BY <1>2, <1>3
<1>7. Map(F) = WalkedMap(below, v)
  BY <1>6 DEF WalkedMap
<1> HIDE DEF f, F, result
<1>8. CASE \E k \in Key : Failed(f[k]) /\ SetMap(f) = f[k]
  <2>1. PICK k \in Key : Failed(f[k]) /\ SetMap(f) = f[k]
    BY <1>8
  <2>2. k \in Keys(v) /\ f[k] = below[v.at[k]]
    BY <2>1, <1>2, <1>3, <1>4
  <2> QED
    BY <2>1, <2>2, <1>1 DEF result
<1>9. CASE (\A k \in Key : ~Failed(f[k])) /\ SetMap(f) = Map(F)
  <2>1. \A k \in Keys(v) : ~Failed(below[v.at[k]])
    BY <1>9, <1>2, <1>4 DEF Keys
  <2> QED
    BY <2>1, <1>1, <1>7, <1>9 DEF result
<1> QED
  BY <1>5, <1>8, <1>9

\* Walking over an array fails with one element, panics for a null or maps each.
LEMMA WalkArrayCases ==
  ASSUME NEW fn, NEW below, NEW v, IsArray(v)
  PROVE  \/ \E i \in DOMAIN v.items :
              Failed(below[v.items[i]]) /\ WalkOne(fn, below, v) = below[v.items[i]]
         \/ (\E i \in DOMAIN v.items : below[v.items[i]] = Null) /\ WalkOne(fn, below, v) = Panic
         \/ /\ \A i \in DOMAIN v.items : ~Failed(below[v.items[i]]) /\ below[v.items[i]] # Null
            /\ WalkOne(fn, below, v) = Array(EachItem(below, v))
<1> DEFINE f == EachItem(below, v)
           result == WalkOne(fn, below, v)
<1>1. result = SetArray(f)
  BY DEF WalkOne, IsMap, IsArray
<1>2. DOMAIN f = DOMAIN v.items /\ \A i \in DOMAIN v.items : f[i] = below[v.items[i]]
  BY DEF EachItem
<1>3. \/ \E i \in DOMAIN f : Failed(f[i]) /\ SetArray(f) = f[i]
      \/ (\E i \in DOMAIN f : f[i] = Null) /\ SetArray(f) = Panic
      \/ (\A i \in DOMAIN f : ~Failed(f[i]) /\ f[i] # Null) /\ SetArray(f) = Array(f)
  BY SetArrayCases
<1>4. \/ \E i \in DOMAIN f : Failed(f[i]) /\ result = f[i]
      \/ (\E i \in DOMAIN f : f[i] = Null) /\ result = Panic
      \/ (\A i \in DOMAIN f : ~Failed(f[i]) /\ f[i] # Null) /\ result = Array(f)
  BY <1>1, <1>3
<1> HIDE DEF f, result
<1>5. CASE \E i \in DOMAIN f : Failed(f[i]) /\ result = f[i]
  BY <1>5, <1>2 DEF result
<1>6. CASE (\E i \in DOMAIN f : f[i] = Null) /\ result = Panic
  BY <1>6, <1>2 DEF result
<1>7. CASE (\A i \in DOMAIN f : ~Failed(f[i]) /\ f[i] # Null) /\ result = Array(f)
  BY <1>7, <1>2 DEF result, f
<1> QED
  BY <1>4, <1>5, <1>6, <1>7

\* What a walk makes of the documents of a kind: no nulls, and leaves of
\* another kind.
Clean(leaves) == Trees(leaves \ {Null}, {})
LeavesBecome(fn, l, l2, errors) ==
  /\ l2 \in SUBSET Leaves
  /\ errors \in SUBSET {Error}
  /\ \A v \in l \ {Null} : Apply(fn, v) \in (l2 \ {Null}) \cup errors
WalksWithin(l, m, l2, errors, n, below) ==
  \A v \in Values(l, m, n) :
    IF v = Null THEN below[v] = Null ELSE below[v] \in Clean(l2)[n] \cup errors \cup Panics(l)

\* A null is left alone by every function.
LEMMA ApplyNull ==
  ASSUME NEW fn
  PROVE  Apply(fn, Null) = Null
<1>1. Null.is = "null"
  BY DEF Null
<1>2. RenderValue(Null) = Null /\ NormalizeValue(Null) = Null /\ MarshalValue(Null) = Null
  BY <1>1 DEF RenderValue, NormalizeValue, MarshalValue
<1> QED
  BY <1>2 DEF Apply

\* No document of a clean family is null.
LEMMA CleanFacts ==
  ASSUME NEW l \in SUBSET Leaves, NEW n \in Nat, NEW v \in Clean(l)[n]
  PROVE  ~Failed(v) /\ v # Null /\ v # Absent
BY TreeFacts DEF Clean

\* What a walk makes of a leaf.
LEMMA WalkLeaf ==
  ASSUME NEW fn, NEW l, NEW m, NEW l2, NEW errors, Family(l, m), LeavesBecome(fn, l, l2, errors),
         NEW below, NEW n \in Nat, NEW v \in l \cup m
  PROVE  IF v = Null THEN WalkOne(fn, below, v) = Null
         ELSE WalkOne(fn, below, v) \in Clean(l2)[n] \cup errors
<1>1. ~IsMap(v) /\ ~IsArray(v)
  BY LeafFacts DEF Family, Null, IsMap, IsArray
<1>2. WalkOne(fn, below, v) = Apply(fn, v)
  BY <1>1 DEF WalkOne
<1>3. CASE v = Null
  BY <1>2, <1>3, ApplyNull
<1>4. CASE v # Null
  <2>1. v \in l \ {Null}
    BY <1>4 DEF Family
  <2>2. Apply(fn, v) \in (l2 \ {Null}) \cup errors
    BY <2>1 DEF LeavesBecome
  <2>3. \A x \in l2 \ {Null} : x \in Clean(l2)[n]
    BY TreeLeaf DEF Clean
  <2> QED
    BY <1>2, <1>4, <2>2, <2>3
<1> QED
  BY <1>3, <1>4

\* A walk makes a clean document, an error of its function, or a panic.
LEMMA WalkOneClosed ==
  ASSUME NEW fn, NEW l, NEW m, NEW l2, NEW errors, Family(l, m), LeavesBecome(fn, l, l2, errors),
         NEW n \in Nat, NEW below, WalksWithin(l, m, l2, errors, n, below),
         NEW v \in Values(l, m, n + 1)
  PROVE  IF v = Null THEN WalkOne(fn, below, v) = Null
         ELSE WalkOne(fn, below, v) \in Clean(l2)[n + 1] \cup errors \cup Panics(l)
<1> DEFINE result == WalkOne(fn, below, v)
           Bad == errors \cup Panics(l)
           T == Clean(l2)[n]
<1>a. n + 1 \in Nat /\ \A k \in Nat : n + 1 = k + 1 => k = n
  OBVIOUS
<1>b. (\A b \in Bad : Failed(b) /\ b # Null) /\ (\A t \in T : ~Failed(t) /\ t # Null)
  BY PanicsFail, CleanFacts DEF LeavesBecome, Failed, Error, Null
<1>c. \A x \in Values(l, m, n) : IF x = Null THEN below[x] = Null ELSE below[x] \in T \cup Bad
  BY DEF WalksWithin
<1>d. ~Failed(Null)
  BY DEF Failed, Null
<1>1. CASE v \in l \cup m
  BY <1>1, <1>a, WalkLeaf
<1>2. CASE IsMap(v) /\ v # Null /\ v.at \in [Key -> {Absent} \cup Values(l, m, n)]
  <2>1. \A k \in Keys(v) : v.at[k] \in Values(l, m, n)
    BY <1>2 DEF Keys
  <2>2. \A k \in Keys(v) : below[v.at[k]] \in T \cup Bad \cup {Null}
    BY <2>1, <1>c
  <2>3. \/ \E k \in Keys(v) : Failed(below[v.at[k]]) /\ result = below[v.at[k]]
        \/ (\A k \in Keys(v) : ~Failed(below[v.at[k]])) /\ result = WalkedMap(below, v)
    BY <1>2, WalkMapCases
  <2> HIDE DEF result, Bad, T
  <2>4. CASE \E k \in Keys(v) : Failed(below[v.at[k]]) /\ result = below[v.at[k]]
    <3>1. result \in Bad
      BY <2>2, <2>4, <1>b, <1>d
    <3> QED
      BY <3>1, <1>2 DEF result, Bad
  <2>5. CASE (\A k \in Keys(v) : ~Failed(below[v.at[k]])) /\ result = WalkedMap(below, v)
    <3> DEFINE f == [k \in Key |-> IF v.at[k] = Absent \/ below[v.at[k]] = Null THEN Absent
                                   ELSE below[v.at[k]]]
    <3>1. \A k \in Keys(v) : below[v.at[k]] \in T \cup {Null}
      BY <2>2, <2>5, <1>b
    <3>2. f \in [Key -> {Absent} \cup {} \cup T]
      BY <3>1 DEF Keys
    <3>3. result = Map(f)
      BY <2>5 DEF WalkedMap
    <3> HIDE DEF f
    <3>4. Map(f) \in Clean(l2)[n + 1]
      BY <3>2, TreeMap DEF T, Clean
    <3> QED
      BY <3>3, <3>4, <1>2 DEF result
  <2> QED
    BY <2>3, <2>4, <2>5
<1>3. CASE IsArray(v) /\ v # Null /\ v.items \in Seq(Trees(l, m)[n])
  <2>1. \A i \in DOMAIN v.items : v.items[i] \in Trees(l, m)[n]
    BY <1>3
  <2>2. \A i \in DOMAIN v.items : v.items[i] \in Values(l, m, n) /\ (v.items[i] = Null => Null \in l)
    BY <2>1, TreeFacts DEF Values, Family
  <2>3. \A i \in DOMAIN v.items : /\ below[v.items[i]] \in T \cup Bad \cup {Null}
                                  /\ below[v.items[i]] = Null => Null \in l
    BY <2>2, <1>b, <1>c
  <2>4. \/ \E i \in DOMAIN v.items : Failed(below[v.items[i]]) /\ result = below[v.items[i]]
        \/ (\E i \in DOMAIN v.items : below[v.items[i]] = Null) /\ result = Panic
        \/ /\ \A i \in DOMAIN v.items : ~Failed(below[v.items[i]]) /\ below[v.items[i]] # Null
           /\ result = Array(EachItem(below, v))
    BY <1>3, WalkArrayCases
  <2> HIDE DEF result, Bad, T
  <2>5. CASE \E i \in DOMAIN v.items : Failed(below[v.items[i]]) /\ result = below[v.items[i]]
    <3>1. result \in Bad
      BY <2>3, <2>5, <1>b, <1>d
    <3> QED
      BY <3>1, <1>3 DEF result, Bad
  <2>6. CASE (\E i \in DOMAIN v.items : below[v.items[i]] = Null) /\ result = Panic
    <3>1. result \in Panics(l)
      BY <2>3, <2>6 DEF Panics
    <3> QED
      BY <3>1, <1>3 DEF result
  <2>7. CASE /\ \A i \in DOMAIN v.items : ~Failed(below[v.items[i]]) /\ below[v.items[i]] # Null
             /\ result = Array(EachItem(below, v))
    <3>1. \A i \in DOMAIN v.items : below[v.items[i]] \in T
      BY <2>3, <2>7, <1>b
    <3>2. DOMAIN v.items = 1..Len(v.items) /\ Len(v.items) \in Nat
      BY <1>3
    <3>3. EachItem(below, v) \in [1..Len(v.items) -> T]
      BY <3>1, <3>2 DEF EachItem
    <3>4. EachItem(below, v) \in Seq(T)
      BY <3>2, <3>3, SeqOfFunction
    <3>5. Array(EachItem(below, v)) \in Clean(l2)[n + 1]
      BY <3>4, TreeArray DEF T, Clean
    <3> QED
      BY <2>7, <3>5, <1>3 DEF result
  <2> QED
    BY <2>4, <2>5, <2>6, <2>7
<1> QED
  BY <1>1, <1>2, <1>3, <1>a, ValueCases

UIDs == [is : {"uid"}, value : Value]

\* What the three functions make of the leaves (reducer.go:81, reducer.go:93).
LEMMA ApplyLeaf ==
  ASSUME NEW v \in Leaves, v # Null
  PROVE  /\ \A fn : Apply(fn, v) \in (Leaves \ {Null}) \cup {Error}
         /\ Apply("copy", v) = v
         /\ v \in Scalars => \A fn : Apply(fn, v) = v
         /\ v \in UIDs => Apply("normalize", v) \in Scalars
         /\ v \in Strings => Apply("render", v) \in Scalars \cup {Error}
<1>1. \/ v \in [is : {"scalar"}, value : Value]
      \/ v \in [is : {"template"}, value : Value]
      \/ v \in [is : {"uid"}, value : Value]
      \/ v = BadTemplate
  BY DEF Leaves
<1>2. \A x \in Value : Scalar(x) \in Scalars /\ Scalar(x) \in Leaves \ {Null}
  BY DEF Scalar, Scalars, Leaves, Null
<1>3. ASSUME NEW fn PROVE Apply(fn, v) \in (Leaves \ {Null}) \cup {Error}
  <2>1. RenderValue(v) \in (Leaves \ {Null}) \cup {Error}
    BY <1>1, <1>2 DEF RenderValue, BadTemplate
  <2>2. NormalizeValue(v) \in Leaves \ {Null} /\ MarshalValue(v) \in Leaves \ {Null}
    <3>1. v.is = "uid" => v.value \in Value
      BY <1>1 DEF BadTemplate
    <3> QED
      BY <3>1, <1>2 DEF NormalizeValue, MarshalValue
  <2> QED
    BY <2>1, <2>2 DEF Apply
<1>4. Apply("copy", v) = v
  BY DEF Apply
<1>5. v \in Scalars => \A fn : Apply(fn, v) = v
  <2>1. SUFFICES ASSUME v \in Scalars PROVE \A fn : Apply(fn, v) = v
    OBVIOUS
  <2>2. RenderValue(v) = v /\ NormalizeValue(v) = v /\ MarshalValue(v) = v
    BY <2>1 DEF Scalars, RenderValue, NormalizeValue, MarshalValue
  <2> QED
    BY <2>2 DEF Apply
<1>6. v \in UIDs => Apply("normalize", v) \in Scalars
  BY <1>2 DEF Apply, NormalizeValue, UIDs
<1>7. v \in Strings => Apply("render", v) \in Scalars \cup {Error}
  <2>1. v \in Strings => RenderValue(v) \in Scalars \cup {Error}
    BY <1>1, <1>2 DEF Strings, Scalars, RenderValue, BadTemplate
  <2> QED
    BY <2>1 DEF Apply
<1> QED
  BY <1>3, <1>4, <1>5, <1>6, <1>7

WalkLevel(fn, n, below) == [v \in Document[n] |-> WalkOne(fn, below, v)]
AnyWalk(n, below) == WalksWithin(Leaves, {}, Leaves, {Error}, n, below)

\* All documents are such a family, for any function.
LEMMA AnyFamily ==
  /\ Family(Leaves, {})
  /\ \A n : Values(Leaves, {}, n) = Document[n]
  /\ \A fn : LeavesBecome(fn, Leaves, Leaves, {Error})
  /\ \A n \in Nat : Clean(Leaves)[n] \subseteq Document[n]
  /\ Panics(Leaves) = {Panic}
<1>1. \A n \in Nat : Clean(Leaves)[n] \subseteq Document[n]
  BY TreeSubset DEF Clean, Document
<1>2. \A fn : LeavesBecome(fn, Leaves, Leaves, {Error})
  BY ApplyLeaf DEF LeavesBecome
<1> QED
  BY <1>1, <1>2 DEF Family, Values, Document, Panics, Leaves

\* Each level of a walk leads from documents to documents.
LEMMA WalkLevelTyped ==
  ASSUME NEW fn
  PROVE  /\ AnyWalk(0, WalkLevel(fn, 0, <<>>))
         /\ \A n \in Nat : \A below : AnyWalk(n, below) => AnyWalk(n + 1, WalkLevel(fn, n + 1, below))
<1> USE AnyFamily
<1>1. AnyWalk(0, WalkLevel(fn, 0, <<>>))
  <2>1. ASSUME NEW v \in Document[0]
        PROVE  IF v = Null THEN WalkLevel(fn, 0, <<>>)[v] = Null
               ELSE WalkLevel(fn, 0, <<>>)[v] \in Clean(Leaves)[0] \cup {Error}
    <3>1. WalkLevel(fn, 0, <<>>)[v] = WalkOne(fn, <<>>, v)
      BY DEF WalkLevel
    <3>2. v \in Leaves \cup {}
      BY TreeLevels DEF Document
    <3>3. LeavesBecome(fn, Leaves, Leaves, {Error})
      OBVIOUS
    <3>4. IF v = Null THEN WalkOne(fn, <<>>, v) = Null
          ELSE WalkOne(fn, <<>>, v) \in Clean(Leaves)[0] \cup {Error}
      BY <3>2, <3>3, WalkLeaf, Zenon
    <3> QED
      BY <3>1, <3>4
  <2> QED
    BY <2>1 DEF AnyWalk, WalksWithin
<1>2. ASSUME NEW n \in Nat, NEW below, AnyWalk(n, below)
      PROVE  AnyWalk(n + 1, WalkLevel(fn, n + 1, below))
  <2>1. ASSUME NEW v \in Document[n + 1]
        PROVE  LET r == WalkLevel(fn, n + 1, below)[v]
               IN  IF v = Null THEN r = Null
                   ELSE r \in Clean(Leaves)[n + 1] \cup {Error} \cup Panics(Leaves)
    <3>1. WalkLevel(fn, n + 1, below)[v] = WalkOne(fn, below, v)
      BY DEF WalkLevel
    <3>2. v \in Values(Leaves, {}, n + 1) /\ LeavesBecome(fn, Leaves, Leaves, {Error})
      OBVIOUS
    <3> QED
      BY <3>1, <3>2, <1>2, WalkOneClosed DEF AnyWalk
  <2> QED
    BY <2>1 DEF AnyWalk, WalksWithin
<1> QED
  BY <1>1, <1>2

\* The definition of Walk is met, level by level.
LEMMA WalkLevels ==
  ASSUME NEW fn
  PROVE  /\ Walk(fn)[0] = WalkLevel(fn, 0, <<>>)
         /\ \A n \in Nat : Walk(fn)[n + 1] = WalkLevel(fn, n + 1, Walk(fn)[n])
<1> DEFINE Out(n) == Document[n] \cup {Error, Panic}
           Walks == UNION {{t \in [Document[n] -> Out(n)] : AnyWalk(n, t)} : n \in Nat}
           R == [n \in Nat |-> {t \in [Document[n] -> Out(n)] : AnyWalk(n, t)}]
           step == [q \in Nat \X (Walks \cup {<<>>}) |-> WalkLevel(fn, q[1], q[2])]
<1>1. ASSUME NEW n \in Nat, NEW t \in Walks \cup {<<>>} PROVE step[<<n, t>>] = WalkLevel(fn, n, t)
  <2> HIDE DEF Walks
  <2>1. <<n, t>> \in Nat \X (Walks \cup {<<>>})
    OBVIOUS
  <2> QED
    BY <2>1
<1>2. ASSUME NEW n \in Nat, NEW t, AnyWalk(n, WalkLevel(fn, n, t))
      PROVE  WalkLevel(fn, n, t) \in R[n]
  <2> DEFINE D == Document[n]
             M == WalkLevel(fn, n, t)
  <2>1. ASSUME NEW v \in D PROVE M[v] \in D \cup {Error, Panic}
    <3>1. IF v = Null THEN M[v] = Null ELSE M[v] \in Clean(Leaves)[n] \cup {Error} \cup {Panic}
      BY <1>2, AnyFamily DEF AnyWalk, WalksWithin
    <3> QED
      BY <3>1, AnyFamily
  <2>2. M = [v \in D |-> M[v]]
    BY DEF WalkLevel
  <2> HIDE DEF M, D
  <2>3. M \in [D -> D \cup {Error, Panic}]
    BY <2>1, <2>2
  <2> QED
    BY <2>3, <1>2 DEF M, D
<1>3. \A n \in Nat : \A t \in R[n] : AnyWalk(n, t) /\ t \in Walks
  OBVIOUS
<1> HIDE DEF R, step, Walks
<1>4. Steps(R, <<>>, step)
  <2>1. step[<<0, <<>> >>] \in R[0]
    BY <1>1, <1>2, WalkLevelTyped
  <2>2. ASSUME NEW n \in Nat, NEW t \in R[n] PROVE step[<<n + 1, t>>] \in R[n + 1]
    <3>1. AnyWalk(n, t) /\ t \in Walks \cup {<<>>} /\ n + 1 \in Nat
      BY <1>3
    <3>2. AnyWalk(n + 1, WalkLevel(fn, n + 1, t))
      BY <3>1, WalkLevelTyped
    <3> QED
      BY <3>1, <3>2, <1>1, <1>2
  <2> QED
    BY <2>1, <2>2 DEF Steps
<1>5. PICK f : AreLevels(R, <<>>, step, f)
  BY <1>4, LevelFunction
<1>6. f[0] = WalkLevel(fn, 0, <<>>)
  BY <1>5, <1>1 DEF AreLevels
<1>7. ASSUME NEW n \in Nat PROVE f[n + 1] = WalkLevel(fn, n + 1, f[n])
  <2>1. f[n] \in Walks /\ n + 1 \in Nat
    BY <1>5, <1>3 DEF AreLevels
  <2> QED
    BY <2>1, <1>5, <1>1 DEF AreLevels
<1> DEFINE Is(g) == g = [n \in Nat |-> WalkLevel(fn, n, IF n = 0 THEN <<>> ELSE g[n - 1])]
<1>8. Is(f)
  <2>1. ASSUME NEW n \in Nat PROVE f[n] = WalkLevel(fn, n, IF n = 0 THEN <<>> ELSE f[n - 1])
    <3>1. CASE n = 0
      BY <3>1, <1>6
    <3>2. CASE n # 0
      <4>1. n - 1 \in Nat /\ (n - 1) + 1 = n
        BY <3>2
      <4> QED
        BY <4>1, <3>2, <1>7
    <3> QED
      BY <3>1, <3>2
  <2>2. f = [n \in Nat |-> f[n]]
    BY <1>5 DEF AreLevels
  <2> QED
    BY <2>1, <2>2
<1>9. Walk(fn) = CHOOSE g : Is(g)
  BY Zenon DEF Walk, WalkLevel
<1> HIDE DEF Is
<1>10. Is(Walk(fn))
  BY <1>8, <1>9, Zenon
<1>11. Walk(fn) = [n \in Nat |-> WalkLevel(fn, n, IF n = 0 THEN <<>> ELSE Walk(fn)[n - 1])]
  BY <1>10, Zenon DEF Is
<1> DEFINE W == Walk(fn)
<1> HIDE DEF W
<1>12. W = [n \in Nat |-> WalkLevel(fn, n, IF n = 0 THEN <<>> ELSE W[n - 1])]
  BY <1>11 DEF W
<1>13. ASSUME NEW n \in Nat PROVE W[n + 1] = WalkLevel(fn, n + 1, W[n])
  <2>1. n + 1 \in Nat /\ n + 1 # 0 /\ (n + 1) - 1 = n
    OBVIOUS
  <2> QED
    BY <2>1, <1>12
<1>14. W[0] = WalkLevel(fn, 0, <<>>)
  BY <1>12
<1> QED
  BY <1>13, <1>14 DEF W

\* Walk of a level is WalkOne over the level below.
LEMMA WalkAtOne ==
  ASSUME NEW fn, NEW n \in Nat, NEW v \in Document[n + 1]
  PROVE  Walk(fn)[n + 1][v] = WalkOne(fn, Walk(fn)[n], v)
<1>1. Walk(fn)[n + 1] = WalkLevel(fn, n + 1, Walk(fn)[n])
  BY WalkLevels
<1>2. WalkLevel(fn, n + 1, Walk(fn)[n])[v] = WalkOne(fn, Walk(fn)[n], v)
  BY DEF WalkLevel
<1> QED
  BY <1>1, <1>2

\* At every level a walk makes a clean document, an error of its function, or a
\* panic.
LEMMA WalkClosed ==
  ASSUME NEW fn, NEW l, NEW m, NEW l2, NEW errors, Family(l, m), LeavesBecome(fn, l, l2, errors),
         NEW n \in Nat
  PROVE  WalksWithin(l, m, l2, errors, n, Walk(fn)[n])
<1> DEFINE S == {k \in Nat : WalksWithin(l, m, l2, errors, k, Walk(fn)[k])}
<1>1. 0 \in S
  <2>1. ASSUME NEW v \in Values(l, m, 0)
        PROVE  IF v = Null THEN Walk(fn)[0][v] = Null
               ELSE Walk(fn)[0][v] \in Clean(l2)[0] \cup errors
    <3>1. v \in Document[0] /\ v \in l \cup m
      BY FamilyDocuments, TreeLevels DEF Values
    <3>a. WalkLevel(fn, 0, <<>>)[v] = WalkOne(fn, <<>>, v)
      BY <3>1 DEF WalkLevel
    <3>2. Walk(fn)[0][v] = WalkOne(fn, <<>>, v)
      BY <3>a, WalkLevels
    <3> QED
      BY <3>1, <3>2, WalkLeaf
  <2> QED
    BY <2>1 DEF WalksWithin
<1>2. ASSUME NEW k \in S PROVE k + 1 \in S
  <2>1. k \in Nat /\ k + 1 \in Nat /\ WalksWithin(l, m, l2, errors, k, Walk(fn)[k])
    OBVIOUS
  <2>2. ASSUME NEW v \in Values(l, m, k + 1)
        PROVE  LET r == Walk(fn)[k + 1][v]
               IN  IF v = Null THEN r = Null ELSE r \in Clean(l2)[k + 1] \cup errors \cup Panics(l)
    <3>1. v \in Document[k + 1]
      BY <2>1, FamilyDocuments
    <3>2. Walk(fn)[k + 1][v] = WalkOne(fn, Walk(fn)[k], v)
      BY <2>1, <3>1, WalkAtOne
    <3> QED
      BY <2>1, <3>2, WalkOneClosed
  <2>3. WalksWithin(l, m, l2, errors, k + 1, Walk(fn)[k + 1])
    BY <2>2 DEF WalksWithin
  <2> QED
    BY <2>1, <2>3
<1> HIDE DEF S
<1>3. S \in SUBSET Nat
  BY DEF S
<1>4. S = Nat
  BY <1>1, <1>2, <1>3, SetInduction
<1> QED
  BY <1>4 DEF S

-----------------------------------------------------------------------------
(* Comparing and storing                                                   *)

CompactLevel(fn, n, below) == [v \in Document[n] |-> CompactOne(fn, below, v)]
Compacts(n, below) == \A v \in Document[n] : below[v] \in Document[n]

\* What comparing and storing make of a leaf.
LEMMA CompactLeaf ==
  ASSUME NEW fn \in {"copy", "marshal"}, NEW below, NEW v \in Leaves
  PROVE  CompactOne(fn, below, v) = Apply(fn, v) /\ Apply(fn, v) \in Leaves
<1>1. ~IsMap(v) /\ ~IsArray(v)
  BY LeafFacts
<1>2. CompactOne(fn, below, v) = Apply(fn, v)
  BY <1>1 DEF CompactOne
<1>3. CASE v = Null
  BY <1>2, <1>3, ApplyNull
<1>4. CASE v # Null
  <2>1. Apply(fn, v) = v \/ Apply(fn, v) = MarshalValue(v)
    BY DEF Apply
  <2>2. MarshalValue(v) \in Leaves
    <3>1. v.is = "uid" => v.value \in Value
      BY <1>4 DEF Leaves, BadTemplate
    <3>2. \A x \in Value : Scalar(x) \in Leaves
      BY DEF Leaves, Scalar
    <3> QED
      BY <3>1, <3>2 DEF MarshalValue
  <2> QED
    BY <1>2, <2>1, <2>2
<1> QED
  BY <1>3, <1>4

\* A map is no array.
LEMMA KindCases ==
  ASSUME NEW l, NEW m, Family(l, m), NEW n \in Nat, NEW v \in Values(l, m, n + 1)
  PROVE  \/ v \in l \cup m /\ ~IsMap(v) /\ ~IsArray(v)
         \/ /\ IsMap(v) /\ ~IsArray(v) /\ v = Map(v.at) /\ v # Null
            /\ v.at \in [Key -> {Absent} \cup Values(l, m, n)]
         \/ /\ IsArray(v) /\ ~IsMap(v) /\ v = Array(v.items) /\ v # Null
            /\ v.items \in Seq(Trees(l, m)[n])
<1>1. n + 1 \in Nat /\ \A k \in Nat : n + 1 = k + 1 => k = n
  OBVIOUS
<1> QED
  BY <1>1, ValueCases

\* The three kinds of documents of a level.
LEMMA DocumentCases ==
  ASSUME NEW n \in Nat, NEW v \in Document[n + 1]
  PROVE  \/ v \in Leaves /\ ~IsMap(v) /\ ~IsArray(v)
         \/ /\ IsMap(v) /\ ~IsArray(v) /\ v = Map(v.at) /\ v # Null
            /\ v.at \in [Key -> {Absent} \cup Document[n]]
         \/ /\ IsArray(v) /\ ~IsMap(v) /\ v = Array(v.items) /\ v # Null
            /\ v.items \in Seq(Document[n])
<1>1. Family(Leaves, {}) /\ Values(Leaves, {}, n + 1) = Document[n + 1]
      /\ Values(Leaves, {}, n) = Document[n] /\ Trees(Leaves, {}) = Document
  BY AnyFamily DEF Document
<1>2. v \in Values(Leaves, {}, n + 1)
  BY <1>1
<1>3. \/ v \in Leaves \cup {} /\ ~IsMap(v) /\ ~IsArray(v)
      \/ /\ IsMap(v) /\ ~IsArray(v) /\ v = Map(v.at) /\ v # Null
         /\ v.at \in [Key -> {Absent} \cup Values(Leaves, {}, n)]
      \/ /\ IsArray(v) /\ ~IsMap(v) /\ v = Array(v.items) /\ v # Null
         /\ v.items \in Seq(Trees(Leaves, {})[n])
  BY <1>1, <1>2, KindCases, Zenon
<1> QED
  BY <1>1, <1>3

\* The comparable copy of a document is a document.
LEMMA CompactOneTyped ==
  ASSUME NEW fn \in {"copy", "marshal"}, NEW n \in Nat, NEW below, Compacts(n, below),
         NEW v \in Document[n + 1]
  PROVE  CompactOne(fn, below, v) \in Document[n + 1]
<1>a. n + 1 \in Nat /\ \A k \in Nat : n + 1 = k + 1 => k = n
  OBVIOUS
<1>1. CASE v \in Leaves
  BY <1>1, <1>a, CompactLeaf, TreeLeaf DEF Document
<1>2. CASE IsMap(v) /\ ~IsArray(v) /\ v.at \in [Key -> {Absent} \cup Document[n]]
  <2> DEFINE f == [k \in Key |-> IF v.at[k] \in {Null, Absent} THEN Absent ELSE below[v.at[k]]]
  <2>1. CompactOne(fn, below, v) = Map(f)
    BY <1>2 DEF CompactOne
  <2>2. \A k \in Key : v.at[k] \in {Absent} \cup Document[n]
    BY <1>2
  <2>3. f \in [Key -> {Absent} \cup {} \cup Document[n]]
    BY <2>2 DEF Compacts
  <2> HIDE DEF f
  <2> QED
    BY <2>1, <2>3, TreeMap DEF Document
<1>3. CASE IsArray(v) /\ v.items \in Seq(Document[n])
  <2>1. CompactOne(fn, below, v) = Array(EachItem(below, v))
    BY <1>3 DEF CompactOne, IsMap, IsArray
  <2>2. DOMAIN v.items = 1..Len(v.items) /\ Len(v.items) \in Nat
        /\ \A i \in DOMAIN v.items : v.items[i] \in Document[n]
    BY <1>3
  <2>3. EachItem(below, v) \in [1..Len(v.items) -> Document[n]]
    BY <2>2 DEF EachItem, Compacts
  <2>4. EachItem(below, v) \in Seq(Document[n])
    BY <2>2, <2>3, SeqOfFunction
  <2> QED
    BY <2>1, <2>4, TreeArray DEF Document
<1>4. \/ v \in Leaves
      \/ IsMap(v) /\ ~IsArray(v) /\ v.at \in [Key -> {Absent} \cup {} \cup Document[n]]
      \/ IsArray(v) /\ v.items \in Seq(Document[n])
  BY DocumentCases
<1> QED
  BY <1>1, <1>2, <1>3, <1>4

\* The same, level by level.
LEMMA CompactLevelTyped ==
  ASSUME NEW fn \in {"copy", "marshal"}
  PROVE  /\ Compacts(0, CompactLevel(fn, 0, <<>>))
         /\ \A n \in Nat : \A below : Compacts(n, below) => Compacts(n + 1, CompactLevel(fn, n + 1, below))
<1>1. ASSUME NEW v \in Document[0] PROVE CompactLevel(fn, 0, <<>>)[v] \in Document[0]
  <2>1. v \in Leaves /\ Document[0] = Leaves
    BY TreeLevels DEF Document
  <2>2. CompactLevel(fn, 0, <<>>)[v] = CompactOne(fn, <<>>, v)
    BY DEF CompactLevel
  <2> QED
    BY <2>1, <2>2, CompactLeaf
<1>2. ASSUME NEW n \in Nat, NEW below, Compacts(n, below), NEW v \in Document[n + 1]
      PROVE  CompactLevel(fn, n + 1, below)[v] \in Document[n + 1]
  <2>1. CompactLevel(fn, n + 1, below)[v] = CompactOne(fn, below, v)
    BY DEF CompactLevel
  <2> QED
    BY <2>1, <1>2, CompactOneTyped
<1> QED
  BY <1>1, <1>2 DEF Compacts

\* The definition of Compact is met, level by level.
LEMMA CompactLevels ==
  ASSUME NEW fn \in {"copy", "marshal"}
  PROVE  /\ Compact(fn)[0] = CompactLevel(fn, 0, <<>>)
         /\ \A n \in Nat : Compact(fn)[n + 1] = CompactLevel(fn, n + 1, Compact(fn)[n])
<1> DEFINE All == UNION {{t \in [Document[n] -> Document[n]] : Compacts(n, t)} : n \in Nat}
           R == [n \in Nat |-> {t \in [Document[n] -> Document[n]] : Compacts(n, t)}]
           step == [q \in Nat \X (All \cup {<<>>}) |-> CompactLevel(fn, q[1], q[2])]
<1>1. ASSUME NEW n \in Nat, NEW t \in All \cup {<<>>} PROVE step[<<n, t>>] = CompactLevel(fn, n, t)
  <2> HIDE DEF All
  <2>1. <<n, t>> \in Nat \X (All \cup {<<>>})
    OBVIOUS
  <2> QED
    BY <2>1
<1>2. ASSUME NEW n \in Nat, NEW t, Compacts(n, CompactLevel(fn, n, t))
      PROVE  CompactLevel(fn, n, t) \in R[n]
  <2> DEFINE D == Document[n]
             M == CompactLevel(fn, n, t)
  <2>1. \A v \in D : M[v] \in D
    BY <1>2 DEF Compacts
  <2>2. M = [v \in D |-> M[v]]
    BY DEF CompactLevel
  <2> HIDE DEF M, D
  <2>3. M \in [D -> D]
    BY <2>1, <2>2
  <2> QED
    BY <2>3, <1>2 DEF M, D
<1>3. \A n \in Nat : \A t \in R[n] : Compacts(n, t) /\ t \in All
  OBVIOUS
<1> HIDE DEF R, step, All
<1>4. Steps(R, <<>>, step)
  <2>1. step[<<0, <<>> >>] \in R[0]
    BY <1>1, <1>2, CompactLevelTyped
  <2>2. ASSUME NEW n \in Nat, NEW t \in R[n] PROVE step[<<n + 1, t>>] \in R[n + 1]
    <3>1. Compacts(n, t) /\ t \in All \cup {<<>>} /\ n + 1 \in Nat
      BY <1>3
    <3>2. Compacts(n + 1, CompactLevel(fn, n + 1, t))
      BY <3>1, CompactLevelTyped
    <3> QED
      BY <3>1, <3>2, <1>1, <1>2
  <2> QED
    BY <2>1, <2>2 DEF Steps
<1>5. PICK f : AreLevels(R, <<>>, step, f)
  BY <1>4, LevelFunction
<1>6. f[0] = CompactLevel(fn, 0, <<>>)
  BY <1>5, <1>1 DEF AreLevels
<1>7. ASSUME NEW n \in Nat PROVE f[n + 1] = CompactLevel(fn, n + 1, f[n])
  <2>1. f[n] \in All /\ n + 1 \in Nat
    BY <1>5, <1>3 DEF AreLevels
  <2> QED
    BY <2>1, <1>5, <1>1 DEF AreLevels
<1> DEFINE Is(g) == g = [n \in Nat |-> CompactLevel(fn, n, IF n = 0 THEN <<>> ELSE g[n - 1])]
<1>8. Is(f)
  <2>1. ASSUME NEW n \in Nat PROVE f[n] = CompactLevel(fn, n, IF n = 0 THEN <<>> ELSE f[n - 1])
    <3>1. CASE n = 0
      BY <3>1, <1>6
    <3>2. CASE n # 0
      <4>1. n - 1 \in Nat /\ (n - 1) + 1 = n
        BY <3>2
      <4> QED
        BY <4>1, <3>2, <1>7
    <3> QED
      BY <3>1, <3>2
  <2>2. f = [n \in Nat |-> f[n]]
    BY <1>5 DEF AreLevels
  <2> QED
    BY <2>1, <2>2
<1>9. Compact(fn) = CHOOSE g : Is(g)
  BY Zenon DEF Compact, CompactLevel
<1> HIDE DEF Is
<1>10. Is(Compact(fn))
  BY <1>8, <1>9, Zenon
<1>11. Compact(fn) = [n \in Nat |-> CompactLevel(fn, n, IF n = 0 THEN <<>> ELSE Compact(fn)[n - 1])]
  BY <1>10, Zenon DEF Is
<1> DEFINE C == Compact(fn)
<1> HIDE DEF C
<1>12. C = [n \in Nat |-> CompactLevel(fn, n, IF n = 0 THEN <<>> ELSE C[n - 1])]
  BY <1>11 DEF C
<1>13. ASSUME NEW n \in Nat PROVE C[n + 1] = CompactLevel(fn, n + 1, C[n])
  <2>1. n + 1 \in Nat /\ n + 1 # 0 /\ (n + 1) - 1 = n
    OBVIOUS
  <2> QED
    BY <2>1, <1>12
<1>14. C[0] = CompactLevel(fn, 0, <<>>)
  BY <1>12
<1> QED
  BY <1>13, <1>14 DEF C

\* Compact of a level is CompactOne over the level below.
LEMMA CompactAtOne ==
  ASSUME NEW fn \in {"copy", "marshal"}, NEW n \in Nat, NEW v \in Document[n + 1]
  PROVE  Compact(fn)[n + 1][v] = CompactOne(fn, Compact(fn)[n], v)
<1>1. Compact(fn)[n + 1] = CompactLevel(fn, n + 1, Compact(fn)[n])
  BY CompactLevels
<1>2. CompactLevel(fn, n + 1, Compact(fn)[n])[v] = CompactOne(fn, Compact(fn)[n], v)
  BY DEF CompactLevel
<1> QED
  BY <1>1, <1>2

\* And Apply at the lowest.
LEMMA CompactAtZero ==
  ASSUME NEW fn \in {"copy", "marshal"}, NEW v \in Document[0]
  PROVE  Compact(fn)[0][v] = Apply(fn, v)
<1>1. Compact(fn)[0] = CompactLevel(fn, 0, <<>>)
  BY CompactLevels
<1>2. CompactLevel(fn, 0, <<>>)[v] = CompactOne(fn, <<>>, v)
  BY DEF CompactLevel
<1>3. v \in Leaves
  BY TreeLevels DEF Document
<1> QED
  BY <1>1, <1>2, <1>3, CompactLeaf

JSONLeaves == Scalars \cup {Null}

\* JSON and clean JSON, as families of documents.
LEMMA JSONFamily ==
  /\ Family(JSONLeaves, {})
  /\ \A n : Values(JSONLeaves, {}, n) = JSON[n]
  /\ Trees(JSONLeaves, {}) = JSON
  /\ JSONLeaves \ {Null} = Scalars
  /\ Clean(JSONLeaves) = Clean(Scalars) /\ Clean(Scalars) = Trees(Scalars, {})
  /\ Scalars \in SUBSET Leaves /\ Null \notin Scalars
  /\ Panics(JSONLeaves) = {Panic}
  /\ \A n \in Nat : Clean(Scalars)[n] \subseteq JSON[n] /\ JSON[n] \subseteq Document[n]
<1>1. Scalars \in SUBSET Leaves /\ Null \notin Scalars
  BY DEF Scalars, Leaves, Null
<1>2. JSONLeaves \ {Null} = Scalars /\ Scalars \ {Null} = Scalars
  BY <1>1 DEF JSONLeaves
<1>3. Family(JSONLeaves, {}) /\ \A n : Values(JSONLeaves, {}, n) = JSON[n]
  BY <1>1 DEF Family, JSONLeaves, Leaves, Values, JSON
<1>4. Trees(JSONLeaves, {}) = JSON /\ Panics(JSONLeaves) = {Panic}
  BY DEF JSONLeaves, JSON, Panics
<1>5. Clean(JSONLeaves) = Clean(Scalars) /\ Clean(Scalars) = Trees(Scalars, {})
  BY <1>2 DEF Clean
<1>6. ASSUME NEW n \in Nat PROVE Clean(Scalars)[n] \subseteq JSON[n] /\ JSON[n] \subseteq Document[n]
  <2>1. Trees(Scalars, {})[n] \subseteq Trees(JSONLeaves, {})[n]
    BY TreeSubset DEF JSONLeaves
  <2>2. JSON[n] \subseteq Document[n]
    BY <1>3, FamilyDocuments
  <2> QED
    BY <2>1, <2>2, <1>4, <1>5
<1> QED
  BY <1>1, <1>2, <1>3, <1>4, <1>5, <1>6

\* The three kinds of clean documents.
LEMMA CleanCases ==
  ASSUME NEW l \in SUBSET Leaves, NEW n \in Nat, NEW v \in Clean(l)[n + 1]
  PROVE  \/ v \in l \ {Null} /\ ~IsMap(v) /\ ~IsArray(v)
         \/ /\ IsMap(v) /\ ~IsArray(v) /\ v = Map(v.at)
            /\ v.at \in [Key -> {Absent} \cup Clean(l)[n]]
         \/ /\ IsArray(v) /\ ~IsMap(v) /\ v = Array(v.items)
            /\ v.items \in Seq(Clean(l)[n])
<1>1. Family(l \ {Null}, {})
  BY DEF Family
<1>2. \A k : Values(l \ {Null}, {}, k) = Clean(l)[k]
  BY DEF Values, Clean
<1>3. v \in Values(l \ {Null}, {}, n + 1) /\ Trees(l \ {Null}, {}) = Clean(l)
  BY <1>2 DEF Clean
<1>4. \/ v \in (l \ {Null}) \cup {} /\ ~IsMap(v) /\ ~IsArray(v)
      \/ /\ IsMap(v) /\ ~IsArray(v) /\ v = Map(v.at) /\ v # Null
         /\ v.at \in [Key -> {Absent} \cup Values(l \ {Null}, {}, n)]
      \/ /\ IsArray(v) /\ ~IsMap(v) /\ v = Array(v.items) /\ v # Null
         /\ v.items \in Seq(Trees(l \ {Null}, {})[n])
  BY <1>1, <1>3, KindCases, Zenon
<1> QED
  BY <1>2, <1>3, <1>4

\* A clean document is a document.
LEMMA CleanDocuments ==
  ASSUME NEW l \in SUBSET Leaves, NEW n \in Nat
  PROVE  Clean(l)[n] \subseteq Document[n] /\ Clean(l)[0] = l \ {Null}
<1>1. Trees(l \ {Null}, {})[n] \subseteq Trees(Leaves, {})[n]
  BY TreeSubset
<1> QED
  BY <1>1, TreeLevels DEF Clean, Document

\* Walking over a clean document cannot panic: it keeps its keys and maps each
\* leaf.
LEMMA WalkClean ==
  ASSUME NEW fn, NEW l \in SUBSET Leaves, \A x \in l \ {Null} : Apply(fn, x) = x, NEW n \in Nat
  PROVE  \A v \in Clean(l)[n] : Walk(fn)[n][v] = v
<1> DEFINE S == {k \in Nat : \A v \in Clean(l)[k] : Walk(fn)[k][v] = v}
<1>1. 0 \in S
  <2>1. ASSUME NEW v \in Clean(l)[0] PROVE Walk(fn)[0][v] = v
    <3>1. v \in Document[0] /\ v \in l \ {Null}
      BY CleanDocuments
    <3>2. WalkLevel(fn, 0, <<>>)[v] = WalkOne(fn, <<>>, v)
      BY <3>1 DEF WalkLevel
    <3>3. WalkOne(fn, <<>>, v) = Apply(fn, v)
      BY <3>1, LeafFacts DEF WalkOne
    <3> QED
      BY <3>1, <3>2, <3>3, WalkLevels
  <2> QED
    BY <2>1
<1>2. ASSUME NEW k \in S PROVE k + 1 \in S
  <2> DEFINE W == Walk(fn)[k]
             C == Clean(l)[k]
  <2>1. k \in Nat /\ k + 1 \in Nat /\ (\A v \in C : W[v] = v) /\ \A v \in C : ~Failed(v) /\ v # Null /\ v # Absent
    BY CleanFacts
  <2>2. ASSUME NEW v \in Clean(l)[k + 1] PROVE Walk(fn)[k + 1][v] = v
    <3>1. v \in Document[k + 1]
      BY <2>1, CleanDocuments
    <3>2. Walk(fn)[k + 1][v] = WalkOne(fn, W, v)
      BY <2>1, <3>1, WalkAtOne
    <3> HIDE DEF W, C
    <3>3. CASE v \in l \ {Null} /\ ~IsMap(v) /\ ~IsArray(v)
      BY <3>2, <3>3 DEF WalkOne
    <3>4. CASE IsMap(v) /\ ~IsArray(v) /\ v = Map(v.at) /\ v.at \in [Key -> {Absent} \cup C]
      <4>1. \A key \in Keys(v) : v.at[key] \in C
        BY <3>4 DEF Keys
      <4>2. WalkOne(fn, W, v) = WalkedMap(W, v)
        BY <3>4, <4>1, <2>1, WalkMapCases
      <4>3. [key \in Key |-> IF v.at[key] = Absent \/ W[v.at[key]] = Null THEN Absent ELSE W[v.at[key]]]
            = [key \in Key |-> v.at[key]]
        BY <4>1, <2>1 DEF Keys
      <4>4. v.at = [key \in Key |-> v.at[key]]
        BY <3>4
      <4>5. WalkedMap(W, v) = Map(v.at)
        BY <4>3, <4>4 DEF WalkedMap
      <4> QED
        BY <3>2, <3>4, <4>2, <4>5
    <3>5. CASE IsArray(v) /\ ~IsMap(v) /\ v = Array(v.items) /\ v.items \in Seq(C)
      <4>1. \A i \in DOMAIN v.items : v.items[i] \in C
        BY <3>5
      <4>2. WalkOne(fn, W, v) = Array(EachItem(W, v))
        BY <3>5, <4>1, <2>1, WalkArrayCases
      <4>3. EachItem(W, v) = [i \in DOMAIN v.items |-> v.items[i]]
        BY <4>1, <2>1 DEF EachItem
      <4>4. v.items = [i \in DOMAIN v.items |-> v.items[i]]
        BY <3>5
      <4> QED
        BY <3>2, <3>5, <4>2, <4>3, <4>4
    <3> QED
      BY <2>1, <3>3, <3>4, <3>5, CleanCases DEF C
  <2> QED
    BY <2>1, <2>2
<1> HIDE DEF S
<1>3. S \in SUBSET Nat
  BY DEF S
<1>4. S = Nat
  BY <1>1, <1>2, <1>3, SetInduction
<1> QED
  BY <1>4 DEF S

\* A scalar is left alone by every function.
LEMMA ScalarsApply ==
  \A x \in Scalars : \A fn : Apply(fn, x) = x
<1>1. \A x \in Scalars : x \in Leaves /\ x # Null
  BY JSONFamily
<1> QED
  BY <1>1, ApplyLeaf

\* A clean document is its own comparable copy.
LEMMA CompactClean ==
  ASSUME NEW fn \in {"copy", "marshal"}, NEW n \in Nat
  PROVE  \A v \in Clean(Scalars)[n] : Compact(fn)[n][v] = v
<1> DEFINE l == Scalars
           S == {k \in Nat : \A v \in Clean(l)[k] : Compact(fn)[k][v] = v}
<1>0. l \in SUBSET Leaves
  BY JSONFamily
<1> HIDE DEF l
<1>1. 0 \in S
  <2>1. ASSUME NEW v \in Clean(l)[0] PROVE Compact(fn)[0][v] = v
    <3>1. v \in Document[0] /\ v \in l
      BY <1>0, CleanDocuments
    <3> QED
      BY <3>1, CompactAtZero, ScalarsApply DEF l
  <2> QED
    BY <2>1
<1>2. ASSUME NEW k \in S PROVE k + 1 \in S
  <2> DEFINE W == Compact(fn)[k]
             C == Clean(l)[k]
  <2>1. k \in Nat /\ k + 1 \in Nat /\ (\A v \in C : W[v] = v) /\ \A v \in C : v # Null /\ v # Absent
    BY <1>0, CleanFacts
  <2>2. ASSUME NEW v \in Clean(l)[k + 1] PROVE Compact(fn)[k + 1][v] = v
    <3>1. v \in Document[k + 1]
      BY <1>0, <2>1, CleanDocuments
    <3>2. Compact(fn)[k + 1][v] = CompactOne(fn, W, v)
      BY <2>1, <3>1, CompactAtOne
    <3> HIDE DEF W, C
    <3>3. CASE v \in l \ {Null} /\ ~IsMap(v) /\ ~IsArray(v)
      BY <3>2, <3>3, ScalarsApply DEF CompactOne, l
    <3>4. CASE IsMap(v) /\ ~IsArray(v) /\ v = Map(v.at) /\ v.at \in [Key -> {Absent} \cup C]
      <4>1. \A key \in Key : v.at[key] \in C \cup {Absent}
        BY <3>4
      <4>2. CompactOne(fn, W, v) =
              Map([key \in Key |-> IF v.at[key] \in {Null, Absent} THEN Absent ELSE W[v.at[key]]])
        BY <3>4 DEF CompactOne
      <4>3. [key \in Key |-> IF v.at[key] \in {Null, Absent} THEN Absent ELSE W[v.at[key]]]
            = [key \in Key |-> v.at[key]]
        BY <4>1, <2>1
      <4>4. v.at = [key \in Key |-> v.at[key]]
        BY <3>4
      <4> QED
        BY <3>2, <3>4, <4>2, <4>3, <4>4
    <3>5. CASE IsArray(v) /\ ~IsMap(v) /\ v = Array(v.items) /\ v.items \in Seq(C)
      <4>1. \A i \in DOMAIN v.items : v.items[i] \in C
        BY <3>5
      <4>2. CompactOne(fn, W, v) = Array(EachItem(W, v))
        BY <3>5 DEF CompactOne
      <4>3. EachItem(W, v) = [i \in DOMAIN v.items |-> v.items[i]]
        BY <4>1, <2>1 DEF EachItem
      <4>4. v.items = [i \in DOMAIN v.items |-> v.items[i]]
        BY <3>5
      <4> QED
        BY <3>2, <3>5, <4>2, <4>3, <4>4
    <3> QED
      BY <1>0, <2>1, <3>3, <3>4, <3>5, CleanCases DEF C
  <2> QED
    BY <2>1, <2>2
<1> HIDE DEF S
<1>3. S \in SUBSET Nat
  BY DEF S
<1>4. S = Nat
  BY <1>1, <1>2, <1>3, SetInduction
<1> QED
  BY <1>4 DEF S, l

\* The three kinds of JSON documents.
LEMMA JSONCases ==
  ASSUME NEW n \in Nat, NEW v \in JSON[n + 1]
  PROVE  \/ v \in JSONLeaves /\ ~IsMap(v) /\ ~IsArray(v)
         \/ /\ IsMap(v) /\ ~IsArray(v) /\ v = Map(v.at) /\ v # Null
            /\ v.at \in [Key -> {Absent} \cup JSON[n]]
         \/ /\ IsArray(v) /\ ~IsMap(v) /\ v = Array(v.items) /\ v # Null
            /\ v.items \in Seq(JSON[n])
<1>1. v \in Values(JSONLeaves, {}, n + 1)
  BY JSONFamily
<1>2. \/ v \in JSONLeaves \cup {} /\ ~IsMap(v) /\ ~IsArray(v)
      \/ /\ IsMap(v) /\ ~IsArray(v) /\ v = Map(v.at) /\ v # Null
         /\ v.at \in [Key -> {Absent} \cup Values(JSONLeaves, {}, n)]
      \/ /\ IsArray(v) /\ ~IsMap(v) /\ v = Array(v.items) /\ v # Null
         /\ v.items \in Seq(Trees(JSONLeaves, {})[n])
  BY <1>1, JSONFamily, KindCases, Zenon
<1>3. Values(JSONLeaves, {}, n) = JSON[n] /\ Trees(JSONLeaves, {}) = JSON
  BY JSONFamily
<1> QED
  BY <1>2, <1>3

\* A leaf of JSON is left alone by every function.
LEMMA JSONLeafApply ==
  ASSUME NEW fn, NEW v \in JSONLeaves
  PROVE  Apply(fn, v) = v
BY ApplyNull, ScalarsApply DEF JSONLeaves

\* A walk over JSON panics or makes clean JSON.
LEMMA JSONWalk ==
  ASSUME NEW fn, NEW n \in Nat, NEW v \in JSON[n]
  PROVE  IF v = Null THEN Walk(fn)[n][v] = Null ELSE Walk(fn)[n][v] \in Clean(Scalars)[n] \cup {Panic}
<1>1. LeavesBecome(fn, JSONLeaves, Scalars, {})
  <2>1. \A x \in JSONLeaves \ {Null} : Apply(fn, x) = x /\ x \in Scalars \ {Null}
    BY JSONLeafApply, JSONFamily
  <2> QED
    BY <2>1, JSONFamily DEF LeavesBecome
<1>2. WalksWithin(JSONLeaves, {}, Scalars, {}, n, Walk(fn)[n])
  BY <1>1, JSONFamily, WalkClosed
<1>3. v \in Values(JSONLeaves, {}, n) /\ Panics(JSONLeaves) = {Panic}
  BY JSONFamily
<1> QED
  BY <1>2, <1>3 DEF WalksWithin

\* A walk over JSON that does not panic makes its comparable copy.
LEMMA WalkIsCompact ==
  ASSUME NEW fn, NEW n \in Nat
  PROVE  \A v \in JSON[n] : ~Failed(Walk(fn)[n][v]) => Walk(fn)[n][v] = Compact("copy")[n][v]
<1> DEFINE S == {k \in Nat : \A v \in JSON[k] :
                   ~Failed(Walk(fn)[k][v]) => Walk(fn)[k][v] = Compact("copy")[k][v]}
<1>1. 0 \in S
  <2>1. ASSUME NEW v \in JSON[0] PROVE Walk(fn)[0][v] = Compact("copy")[0][v]
    <3>1. v \in Document[0] /\ v \in JSONLeaves
      BY JSONFamily, TreeLevels DEF JSON, JSONLeaves
    <3>2. WalkLevel(fn, 0, <<>>)[v] = WalkOne(fn, <<>>, v)
      BY <3>1 DEF WalkLevel
    <3>3. v \in Leaves
      BY <3>1, JSONFamily DEF JSONLeaves, Leaves
    <3>4. WalkOne(fn, <<>>, v) = Apply(fn, v)
      BY <3>3, LeafFacts DEF WalkOne
    <3>5. Compact("copy")[0][v] = Apply("copy", v)
      BY <3>1, CompactAtZero
    <3>6. Apply(fn, v) = v /\ Apply("copy", v) = v
      BY <3>1, JSONLeafApply
    <3> QED
      BY <3>2, <3>4, <3>5, <3>6, WalkLevels
  <2> QED
    BY <2>1
<1>2. ASSUME NEW k \in S PROVE k + 1 \in S
  <2> DEFINE W == Walk(fn)[k]
             C == Compact("copy")[k]
             J == JSON[k]
  <2>1. k \in Nat /\ k + 1 \in Nat /\ \A v \in J : ~Failed(W[v]) => W[v] = C[v]
    OBVIOUS
  <2>a. \A v \in J : W[v] = Null <=> v = Null
    <3>1. \A v \in J : IF v = Null THEN W[v] = Null ELSE W[v] \in Clean(Scalars)[k] \cup {Panic}
      BY <2>1, JSONWalk
    <3>2. Null \notin Clean(Scalars)[k] \cup {Panic}
      BY <2>1, CleanFacts, JSONFamily DEF Null, Panic
    <3> QED
      BY <3>1, <3>2
  <2>2. ASSUME NEW v \in JSON[k + 1], ~Failed(Walk(fn)[k + 1][v])
        PROVE  Walk(fn)[k + 1][v] = Compact("copy")[k + 1][v]
    <3>1. v \in Document[k + 1]
      BY <2>1, JSONFamily
    <3>2. Walk(fn)[k + 1][v] = WalkOne(fn, W, v) /\ Compact("copy")[k + 1][v] = CompactOne("copy", C, v)
      BY <2>1, <3>1, WalkAtOne, CompactAtOne
    <3>3. ~Failed(WalkOne(fn, W, v))
      BY <2>2, <3>2
    <3>4. Failed(Panic)
      BY DEF Failed, Panic
    <3> HIDE DEF W, C, J
    <3>5. CASE v \in JSONLeaves /\ ~IsMap(v) /\ ~IsArray(v)
      <4>1. WalkOne(fn, W, v) = Apply(fn, v) /\ CompactOne("copy", C, v) = Apply("copy", v)
        BY <3>5 DEF WalkOne, CompactOne
      <4> QED
        BY <3>2, <3>5, <4>1, JSONLeafApply
    <3>6. CASE IsMap(v) /\ ~IsArray(v) /\ v.at \in [Key -> {Absent} \cup J]
      <4>1. (\A key \in Keys(v) : ~Failed(W[v.at[key]])) /\ WalkOne(fn, W, v) = WalkedMap(W, v)
        BY <3>3, <3>6, WalkMapCases
      <4>2. CompactOne("copy", C, v) =
              Map([key \in Key |-> IF v.at[key] \in {Null, Absent} THEN Absent ELSE C[v.at[key]]])
        BY <3>6 DEF CompactOne
      <4>3. ASSUME NEW key \in Key
            PROVE  (IF v.at[key] \in {Null, Absent} THEN Absent ELSE C[v.at[key]])
                   = (IF v.at[key] = Absent \/ W[v.at[key]] = Null THEN Absent ELSE W[v.at[key]])
        <5>1. CASE v.at[key] = Absent
          BY <5>1
        <5>2. CASE v.at[key] # Absent
          <6>1. v.at[key] \in J /\ key \in Keys(v)
            BY <3>6, <5>2 DEF Keys
          <6>2. W[v.at[key]] = C[v.at[key]] /\ (W[v.at[key]] = Null <=> v.at[key] = Null)
            BY <6>1, <4>1, <2>1, <2>a
          <6> QED
            BY <5>2, <6>2
        <5> QED
          BY <5>1, <5>2
      <4>4. [key \in Key |-> IF v.at[key] \in {Null, Absent} THEN Absent ELSE C[v.at[key]]]
            = [key \in Key |-> IF v.at[key] = Absent \/ W[v.at[key]] = Null THEN Absent ELSE W[v.at[key]]]
        BY <4>3
      <4> QED
        BY <3>2, <4>1, <4>2, <4>4 DEF WalkedMap
    <3>7. CASE IsArray(v) /\ ~IsMap(v) /\ v.items \in Seq(J)
      <4>1. /\ \A i \in DOMAIN v.items : ~Failed(W[v.items[i]])
            /\ WalkOne(fn, W, v) = Array(EachItem(W, v))
        BY <3>3, <3>4, <3>7, WalkArrayCases
      <4>2. CompactOne("copy", C, v) = Array(EachItem(C, v))
        BY <3>7 DEF CompactOne
      <4>3. \A i \in DOMAIN v.items : W[v.items[i]] = C[v.items[i]]
        BY <3>7, <4>1, <2>1
      <4>4. EachItem(W, v) = EachItem(C, v)
        BY <4>3 DEF EachItem
      <4> QED
        BY <3>2, <4>1, <4>2, <4>4
    <3> QED
      BY <2>1, <3>5, <3>6, <3>7, JSONCases DEF J
  <2> QED
    BY <2>1, <2>2
<1> HIDE DEF S
<1>3. S \in SUBSET Nat
  BY DEF S
<1>4. S = Nat
  BY <1>1, <1>2, <1>3, SetInduction
<1> QED
  BY <1>4 DEF S

-----------------------------------------------------------------------------
(* Keys of objects                                                         *)

\* What the assumptions say of levels and keys.
LEMMA KeyFacts ==
  /\ {"metadata", "annotations", "revision", "name", "namespace", "ownerReferences",
      "controller", "uid", "resourceVersion", "status", "spec", "clusterIP", "ports",
      "nodePort"} \subseteq Key
  /\ ServerKeys \subseteq Key
  /\ Depth \in Nat /\ Depth - 1 \in Nat /\ Depth - 2 \in Nat /\ Depth - 3 \in Nat /\ Depth - 4 \in Nat
  /\ Depth = (Depth - 1) + 1 /\ Depth - 1 = (Depth - 2) + 1 /\ Depth - 2 = (Depth - 3) + 1
  /\ Depth - 3 = (Depth - 4) + 1
BY KeyAssumption, DepthAssumption DEF ServerKeys

With(v, k, x) == Map([v.at EXCEPT ![k] = x])

\* A map with one key set.
LEMMA WithFacts ==
  ASSUME NEW v, DOMAIN v.at = Key, NEW k \in Key, NEW x
  PROVE  /\ IsMap(With(v, k, x))
         /\ \A j \in Key : Lookup(With(v, k, x), j) =
              IF j = k THEN IF x = Absent THEN Null ELSE x ELSE IF v.at[j] = Absent THEN Null ELSE v.at[j]
<1>1. With(v, k, x).is = "map" /\ With(v, k, x).at = [v.at EXCEPT ![k] = x]
  BY DEF With, Map
<1>2. \A j \in Key : With(v, k, x).at[j] = IF j = k THEN x ELSE v.at[j]
  BY <1>1
<1> HIDE DEF With
<1> QED
  BY <1>1, <1>2 DEF IsMap, Lookup

\* A map with some keys taken away.
LEMMA WithoutFacts ==
  ASSUME NEW v, NEW ks
  PROVE  /\ IsMap(Without(v, ks))
         /\ \A j \in Key : Lookup(Without(v, ks), j) =
              IF j \in ks \/ v.at[j] = Absent THEN Null ELSE v.at[j]
<1>1. Without(v, ks).is = "map" /\ \A j \in Key : Without(v, ks).at[j] = IF j \in ks THEN Absent ELSE v.at[j]
  BY DEF Without, Map
<1> HIDE DEF Without
<1> QED
  BY <1>1 DEF IsMap, Lookup

\* The keys of a clean map.
LEMMA CleanMap ==
  ASSUME NEW l \in SUBSET Leaves, NEW n \in Nat, NEW v \in Clean(l)[n + 1], IsMap(v)
  PROVE  /\ v.at \in [Key -> {Absent} \cup Clean(l)[n]]
         /\ v = Map(v.at)
         /\ \A k \in Key : /\ Lookup(v, k) = IF v.at[k] = Absent THEN Null ELSE v.at[k]
                           /\ Lookup(v, k) \in Clean(l)[n] \cup {Null}
                           /\ ~Failed(v.at[k]) /\ v.at[k] # Null
                           /\ v.at[k] = Absent <=> Lookup(v, k) = Null
<1>1. v.at \in [Key -> {Absent} \cup Clean(l)[n]] /\ v = Map(v.at)
  BY CleanCases DEF IsMap
<1>2. \A x \in Clean(l)[n] : ~Failed(x) /\ x # Null /\ x # Absent
  BY CleanFacts
<1>3. ~Failed(Absent) /\ Absent # Null
  BY DEF Failed, Absent, Null
<1>4. \A k \in Key : v.at[k] \in {Absent} \cup Clean(l)[n]
  BY <1>1
<1> HIDE DEF IsMap
<1> QED
  BY <1>1, <1>2, <1>3, <1>4 DEF Lookup

\* A clean map with one key set is clean.
LEMMA CleanWith ==
  ASSUME NEW l \in SUBSET Leaves, NEW n \in Nat, NEW v, v.at \in [Key -> {Absent} \cup Clean(l)[n]],
         NEW k \in Key, NEW x \in Clean(l)[n] \cup {Absent}
  PROVE  With(v, k, x) \in Clean(l)[n + 1]
<1>1. [v.at EXCEPT ![k] = x] \in [Key -> {Absent} \cup {} \cup Clean(l)[n]]
  OBVIOUS
<1> QED
  BY <1>1, TreeMap DEF With, Clean

\* A clean map with some keys taken away is clean.
LEMMA CleanWithout ==
  ASSUME NEW l \in SUBSET Leaves, NEW n \in Nat, NEW v, v.at \in [Key -> {Absent} \cup Clean(l)[n]],
         NEW ks
  PROVE  Without(v, ks) \in Clean(l)[n + 1]
<1> DEFINE f == [k \in Key |-> IF k \in ks THEN Absent ELSE v.at[k]]
<1>1. f \in [Key -> {Absent} \cup {} \cup Clean(l)[n]]
  OBVIOUS
<1>2. Without(v, ks) = Map(f)
  BY DEF Without
<1> HIDE DEF f
<1>3. Map(f) \in Clean(l)[n + 1]
  BY <1>1, TreeMap DEF Clean
<1> QED
  BY <1>2, <1>3

\* Put, where no value is null.
LEMMA PutClean ==
  ASSUME NEW l \in SUBSET Leaves, NEW n \in Nat, NEW v, IsMap(v),
         v.at \in [Key -> {Absent} \cup Clean(l)[n]], NEW k \in Key, NEW new
  PROVE  Put(v, k, new) = IF Failed(new) THEN new ELSE With(v, k, IF new = Null THEN Absent ELSE new)
<1> DEFINE f == [v.at EXCEPT ![k] = new]
           x == IF new = Null THEN Absent ELSE new
<1>1. Put(v, k, new) = SetMap(f)
  <2>1. ~Failed(v)
    BY DEF IsMap, Failed
  <2> QED
    BY <2>1 DEF Put
<1>2. f[k] = new /\ \A j \in Key \ {k} : f[j] = v.at[j]
  OBVIOUS
<1>3. \A j \in Key \ {k} : ~Failed(f[j]) /\ f[j] # Null
  <2>1. \A y \in {Absent} \cup Clean(l)[n] : ~Failed(y) /\ y # Null
    BY CleanFacts DEF Absent, Null, Failed
  <2>2. \A j \in Key \ {k} : f[j] \in {Absent} \cup Clean(l)[n]
    BY <1>2
  <2> QED
    BY <2>1, <2>2
<1>4. DOMAIN v.at = Key
  OBVIOUS
<1> HIDE DEF f
<1>5. CASE Failed(new)
  <2>1. SetMap(f) = new
    BY <1>2, <1>3, <1>5, SetMapCases
  <2> QED
    BY <1>1, <1>5, <2>1
<1>6. CASE ~Failed(new)
  <2>1. SetMap(f) = Map([j \in Key |-> IF f[j] = Null THEN Absent ELSE f[j]])
    BY <1>2, <1>3, <1>6, SetMapCases
  <2>2. [j \in Key |-> IF f[j] = Null THEN Absent ELSE f[j]] = [v.at EXCEPT ![k] = x]
    <3>1. [v.at EXCEPT ![k] = x] = [j \in Key |-> IF j = k THEN x ELSE v.at[j]]
      BY <1>4
    <3>2. \A j \in Key : (IF f[j] = Null THEN Absent ELSE f[j]) = IF j = k THEN x ELSE v.at[j]
      BY <1>2, <1>3
    <3> QED
      BY <3>1, <3>2
  <2> QED
    BY <1>1, <1>6, <2>1, <2>2 DEF With
<1> QED
  BY <1>5, <1>6

\* A walk over a map is a walk over each of its keys.
LEMMA WalkLookup ==
  ASSUME NEW fn, NEW n \in Nat, NEW v \in Document[n + 1], IsMap(v),
         ~Failed(Walk(fn)[n + 1][v])
  PROVE  /\ IsMap(Walk(fn)[n + 1][v])
         /\ \A k \in Key : /\ Lookup(Walk(fn)[n + 1][v], k) = Walk(fn)[n][Lookup(v, k)]
                           /\ ~Failed(Walk(fn)[n][Lookup(v, k)])
<1> DEFINE W == Walk(fn)[n]
           r == Walk(fn)[n + 1][v]
<1>1. r = WalkOne(fn, W, v)
  BY WalkAtOne
<1>2. W[Null] = Null /\ ~Failed(Null)
  <2>1. WalksWithin(Leaves, {}, Leaves, {Error}, n, Walk(fn)[n])
    BY WalkClosed, AnyFamily
  <2>2. Null \in Values(Leaves, {}, n)
    <3>1. Null \in Leaves
      BY DEF Leaves
    <3>2. Null \in Document[n]
      BY <3>1, TreeLeaf DEF Document
    <3> QED
      BY <3>2, AnyFamily
  <2> QED
    BY <2>1, <2>2 DEF WalksWithin, Failed, Null
<1>3. (\A k \in Keys(v) : ~Failed(W[v.at[k]])) /\ r = WalkedMap(W, v)
  BY <1>1, WalkMapCases
<1> HIDE DEF W, r
<1>4. IsMap(r) /\ \A k \in Key : r.at[k] = IF v.at[k] = Absent \/ W[v.at[k]] = Null THEN Absent ELSE W[v.at[k]]
  <2>1. r.is = "map" /\ \A k \in Key : r.at[k] = IF v.at[k] = Absent \/ W[v.at[k]] = Null THEN Absent ELSE W[v.at[k]]
    BY <1>3 DEF WalkedMap, Map
  <2> QED
    BY <2>1 DEF IsMap
<1>5. ASSUME NEW k \in Key PROVE Lookup(r, k) = W[Lookup(v, k)] /\ ~Failed(W[Lookup(v, k)])
  <2>1. CASE v.at[k] = Absent
    BY <2>1, <1>2, <1>4 DEF Lookup
  <2>2. CASE v.at[k] # Absent
    <3>1. Lookup(v, k) = v.at[k] /\ k \in Keys(v)
      BY <2>2 DEF Lookup, Keys
    <3>2. ~Failed(W[v.at[k]])
      BY <3>1, <1>3
    <3>3. W[v.at[k]] # Absent
      <4>1. v.at[k] \in Document[n]
        <5>1. v.at \in [Key -> {Absent} \cup Document[n]]
          BY DocumentCases DEF IsMap
        <5> QED
          BY <5>1, <2>2
      <4>2. WalksWithin(Leaves, {}, Leaves, {Error}, n, Walk(fn)[n])
        BY WalkClosed, AnyFamily
      <4>3. W[v.at[k]] \in Clean(Leaves)[n] \cup {Error, Panic, Null}
        BY <4>1, <4>2, AnyFamily DEF WalksWithin, W
      <4>4. Absent \notin Clean(Leaves)[n] \cup {Error, Panic, Null}
        BY CleanFacts DEF Absent, Error, Panic, Null
      <4> QED
        BY <4>3, <4>4
    <3> QED
      BY <3>1, <3>2, <3>3, <1>4, <2>2 DEF Lookup
  <2> QED
    BY <2>1, <2>2
<1> QED
  BY <1>4, <1>5 DEF W, r

-----------------------------------------------------------------------------
(* The reducers of an object                                               *)

\* What is looked up in JSON is JSON.
LEMMA JSONLookup ==
  ASSUME NEW n \in Nat, NEW v \in JSON[n + 1], NEW k
  PROVE  k \in Key => Lookup(v, k) \in JSON[n]
<1> SUFFICES ASSUME k \in Key PROVE Lookup(v, k) \in JSON[n]
  OBVIOUS
<1>1. Null \in JSON[n]
  BY TreeLeaf DEF JSON
<1>2. IsMap(v) => v.at[k] \in {Absent} \cup JSON[n]
  BY JSONCases
<1> QED
  BY <1>1, <1>2 DEF Lookup

\* A walk over a document without UIDs and templates, where it succeeds.
LEMMA WalkObject ==
  ASSUME NEW fn, NEW v \in Objects(JSON[Depth])
  PROVE  LET r == Walk(fn)[Depth][v]
         IN  \/ r = Panic
             \/ /\ r \in Objects(Clean(Scalars)[Depth])
                /\ \A k \in Key : Lookup(r, k) = Compact("copy")[Depth - 1][Lookup(v, k)]
                /\ \A k \in Key : Fetch(r, "metadata", k) = Compact("copy")[Depth - 2][Fetch(v, "metadata", k)]
<1> DEFINE r == Walk(fn)[Depth][v]
           md == Lookup(v, "metadata")
<1>1. v \in JSON[Depth] /\ IsMap(v) /\ IsMap(md) /\ "metadata" \in Key
  BY KeyFacts DEF Objects
<1>2. v # Null /\ ~Failed(Null)
  BY <1>1 DEF IsMap, Null, Failed
<1>3. r \in Clean(Scalars)[Depth] \cup {Panic}
  BY <1>1, <1>2, JSONWalk, KeyFacts
<1>4. ASSUME r # Panic
      PROVE  /\ r \in Objects(Clean(Scalars)[Depth])
             /\ \A k \in Key : Lookup(r, k) = Compact("copy")[Depth - 1][Lookup(v, k)]
             /\ \A k \in Key : Fetch(r, "metadata", k) = Compact("copy")[Depth - 2][Fetch(v, "metadata", k)]
  <2>1. ~Failed(r)
    BY <1>3, <1>4, CleanFacts, JSONFamily, KeyFacts
  <2> DEFINE a == Depth - 1
             b == Depth - 2
  <2>2. a \in Nat /\ b \in Nat /\ Depth = a + 1 /\ a = b + 1
    BY KeyFacts
  <2> HIDE DEF a, b, r, md
  <2>3. v \in JSON[a + 1] /\ v \in Document[a + 1] /\ r = Walk(fn)[a + 1][v]
    BY <1>1, <2>2, JSONFamily DEF r
  <2>4. IsMap(r) /\ \A k \in Key : Lookup(r, k) = Walk(fn)[a][Lookup(v, k)] /\ ~Failed(Walk(fn)[a][Lookup(v, k)])
    BY <1>1, <2>1, <2>2, <2>3, WalkLookup, SMTT(30)
  <2>5. \A k \in Key : Lookup(v, k) \in JSON[a]
    BY <2>2, <2>3, JSONLookup
  <2>6. \A k \in Key : Lookup(r, k) = Compact("copy")[a][Lookup(v, k)]
    BY <2>2, <2>4, <2>5, WalkIsCompact
  <2>7. md \in JSON[b + 1] /\ md \in Document[b + 1] /\ ~Failed(Walk(fn)[b + 1][md])
        /\ Lookup(r, "metadata") = Walk(fn)[b + 1][md]
    BY <1>1, <2>2, <2>4, <2>5, JSONFamily DEF md
  <2>8. /\ IsMap(Lookup(r, "metadata"))
        /\ \A k \in Key : /\ Lookup(Lookup(r, "metadata"), k) = Walk(fn)[b][Lookup(md, k)]
                          /\ ~Failed(Walk(fn)[b][Lookup(md, k)])
    <3>1. IsMap(md)
      BY <1>1 DEF md
    <3>2. /\ IsMap(Walk(fn)[b + 1][md])
          /\ \A k \in Key : /\ Lookup(Walk(fn)[b + 1][md], k) = Walk(fn)[b][Lookup(md, k)]
                            /\ ~Failed(Walk(fn)[b][Lookup(md, k)])
      BY <3>1, <2>2, <2>7, WalkLookup
    <3> QED
      BY <3>2, <2>7
  <2>9. \A k \in Key : Lookup(md, k) \in JSON[b]
    BY <2>2, <2>7, JSONLookup
  <2>10. \A k \in Key : Fetch(r, "metadata", k) = Compact("copy")[b][Fetch(v, "metadata", k)]
    BY <2>2, <2>8, <2>9, WalkIsCompact DEF Fetch, md
  <2>11. r \in Objects(Clean(Scalars)[Depth])
    BY <1>3, <1>4, <2>4, <2>8 DEF Objects
  <2> QED
    BY <2>6, <2>10, <2>11 DEF a, b, r
<1> QED
  BY <1>4

\* DeepCopy of a clean document is that document.
LEMMA CleanCopy ==
  ASSUME NEW l \in SUBSET Leaves, NEW v \in Clean(l)[Depth]
  PROVE  DeepCopy(v) = v
<1>1. \A x \in l \ {Null} : Apply("copy", x) = x
  BY ApplyLeaf
<1> QED
  BY <1>1, WalkClean, KeyFacts DEF DeepCopy

\* SetNested of clean metadata sets one key of it.
LEMMA SetNestedIs ==
  ASSUME NEW v, NEW k1, NEW k2, NEW value
  PROVE  SetNested(v, k1, k2, value) =
           IF Failed(v) THEN v
           ELSE Put(DeepCopy(v), k1, Put(Lookup(DeepCopy(v), k1), k2, value))
BY DEF SetNested, ReduceNested2

\* What there is to say of a clean object and its metadata.
LEMMA CleanObject ==
  ASSUME NEW l \in SUBSET Leaves, NEW v \in Objects(Clean(l)[Depth])
  PROVE  /\ v \in Clean(l)[Depth] /\ IsMap(v) /\ ~Failed(v) /\ v # Null /\ v # Absent
         /\ v.at \in [Key -> {Absent} \cup Clean(l)[Depth - 1]]
         /\ v.at["metadata"] = Lookup(v, "metadata")
         /\ v.at["metadata"] \in Clean(l)[Depth - 1] /\ IsMap(v.at["metadata"])
         /\ v.at["metadata"].at \in [Key -> {Absent} \cup Clean(l)[Depth - 2]]
         /\ \A k \in Key : Lookup(v, k) = IF v.at[k] = Absent THEN Null ELSE v.at[k]
         /\ \A k \in Key : Lookup(v, k) \in Clean(l)[Depth - 1] \cup {Null}
<1>1. v \in Clean(l)[Depth] /\ IsMap(v) /\ IsMap(Lookup(v, "metadata"))
  BY DEF Objects
<1> DEFINE a == Depth - 1
           b == Depth - 2
<1>2. a \in Nat /\ b \in Nat /\ Depth = a + 1 /\ a = b + 1 /\ Depth \in Nat /\ "metadata" \in Key
  BY KeyFacts
<1> HIDE DEF a, b
<1>3. ~Failed(v) /\ v # Null /\ v # Absent
  BY <1>1, <1>2, CleanFacts
<1>4. v \in Clean(l)[a + 1]
  BY <1>1, <1>2
<1>5. /\ v.at \in [Key -> {Absent} \cup Clean(l)[a]]
      /\ \A k \in Key : /\ Lookup(v, k) = IF v.at[k] = Absent THEN Null ELSE v.at[k]
                        /\ Lookup(v, k) \in Clean(l)[a] \cup {Null}
  BY <1>1, <1>2, <1>4, CleanMap
<1>6. ~IsMap(Null)
  BY DEF IsMap, Null
<1>7. v.at["metadata"] = Lookup(v, "metadata") /\ v.at["metadata"] \in Clean(l)[a] /\ IsMap(v.at["metadata"])
  BY <1>1, <1>2, <1>5, <1>6
<1>8. v.at["metadata"] \in Clean(l)[b + 1]
  BY <1>2, <1>7
<1>9. v.at["metadata"].at \in [Key -> {Absent} \cup Clean(l)[b]]
  BY <1>2, <1>7, <1>8, CleanMap
<1> QED
  BY <1>1, <1>3, <1>5, <1>7, <1>9 DEF a, b

\* A clean object with one key of its metadata set.
LEMMA MetadataWith ==
  ASSUME NEW l \in SUBSET Leaves, NEW v \in Objects(Clean(l)[Depth]), NEW k \in Key,
         NEW x \in Clean(l)[Depth - 2] \cup {Absent}
  PROVE  LET r == With(v, "metadata", With(v.at["metadata"], k, x))
         IN  /\ r \in Objects(Clean(l)[Depth])
             /\ \A j \in Key \ {"metadata"} : Lookup(r, j) = Lookup(v, j)
             /\ \A j \in Key \ {k} : Fetch(r, "metadata", j) = Fetch(v, "metadata", j)
<1> DEFINE md == v.at["metadata"]
           m == With(md, k, x)
           r == With(v, "metadata", m)
<1> DEFINE a == Depth - 1
           b == Depth - 2
<1>1. a \in Nat /\ b \in Nat /\ Depth = a + 1 /\ a = b + 1 /\ "metadata" \in Key
  BY KeyFacts
<1>2. /\ v.at \in [Key -> {Absent} \cup Clean(l)[a]]
      /\ md.at \in [Key -> {Absent} \cup Clean(l)[b]] /\ IsMap(md)
      /\ Lookup(v, "metadata") = md
      /\ \A j \in Key : Lookup(v, j) = IF v.at[j] = Absent THEN Null ELSE v.at[j]
  BY CleanObject
<1>3. x \in Clean(l)[b] \cup {Absent}
  OBVIOUS
<1> HIDE DEF a, b, md
<1>4. m \in Clean(l)[b + 1] /\ IsMap(m)
  BY <1>1, <1>2, <1>3, CleanWith DEF With, Map, IsMap
<1>5. m \in Clean(l)[a] /\ m # Absent
  BY <1>1, <1>4 DEF IsMap, Absent
<1>6. \A j \in Key \ {k} : Lookup(m, j) = Lookup(md, j)
  <2>1. \A j \in Key : Lookup(m, j) =
          IF j = k THEN IF x = Absent THEN Null ELSE x ELSE IF md.at[j] = Absent THEN Null ELSE md.at[j]
    <3>1. DOMAIN md.at = Key
      BY <1>2
    <3> QED
      BY <3>1, WithFacts
  <2> HIDE DEF m
  <2> QED
    BY <1>2, <2>1 DEF Lookup
<1> HIDE DEF m
<1>7. r \in Clean(l)[a + 1] /\ IsMap(r) /\ Lookup(r, "metadata") = m
      /\ \A j \in Key \ {"metadata"} : Lookup(r, j) = Lookup(v, j)
  <2>1. r \in Clean(l)[a + 1]
    BY <1>1, <1>2, <1>5, CleanWith
  <2>2. /\ IsMap(r)
        /\ \A j \in Key : Lookup(r, j) =
             IF j = "metadata" THEN IF m = Absent THEN Null ELSE m
             ELSE IF v.at[j] = Absent THEN Null ELSE v.at[j]
    <3>1. DOMAIN v.at = Key
      BY <1>2
    <3> QED
      BY <3>1, <1>1, WithFacts
  <2> HIDE DEF r
  <2> QED
    BY <1>1, <1>2, <1>5, <2>1, <2>2
<1> HIDE DEF r
<1>8. r \in Objects(Clean(l)[Depth])
  BY <1>1, <1>4, <1>7 DEF Objects
<1>9. \A j \in Key \ {k} : Fetch(r, "metadata", j) = Fetch(v, "metadata", j)
  BY <1>2, <1>6, <1>7 DEF Fetch
<1> QED
  BY <1>7, <1>8, <1>9 DEF r, m, md

\* SetNested of a key of the metadata leaves all other keys alone.
LEMMA SetMetadata ==
  ASSUME NEW l \in SUBSET Leaves, NEW v \in Objects(Clean(l)[Depth]), NEW k \in Key,
         NEW value \in Clean(l)[Depth - 2]
  PROVE  LET r == SetNested(v, "metadata", k, value)
         IN  /\ r \in Objects(Clean(l)[Depth])
             /\ \A j \in Key \ {"metadata"} : Lookup(r, j) = Lookup(v, j)
             /\ \A j \in Key \ {k} : Fetch(r, "metadata", j) = Fetch(v, "metadata", j)
<1> DEFINE md == v.at["metadata"]
           a == Depth - 1
           b == Depth - 2
<1>1. a \in Nat /\ b \in Nat /\ Depth = a + 1 /\ a = b + 1 /\ "metadata" \in Key
  BY KeyFacts
<1>2. /\ v.at \in [Key -> {Absent} \cup Clean(l)[a]] /\ IsMap(v) /\ ~Failed(v)
      /\ md.at \in [Key -> {Absent} \cup Clean(l)[b]] /\ IsMap(md)
      /\ Lookup(v, "metadata") = md /\ v \in Clean(l)[Depth]
  BY CleanObject
<1>3. value \in Clean(l)[b] /\ ~Failed(value) /\ value # Null
  BY <1>1, CleanFacts
<1> HIDE DEF a, b, md
<1>4. Put(md, k, value) = With(md, k, value)
  BY <1>1, <1>2, <1>3, PutClean
<1>5. With(md, k, value) # Null /\ ~Failed(With(md, k, value))
  BY DEF With, Map, Null, Failed
<1>6. Put(v, "metadata", With(md, k, value)) = With(v, "metadata", With(md, k, value))
  BY <1>1, <1>2, <1>5, PutClean
<1>7. DeepCopy(v) = v
  BY <1>2, CleanCopy
<1>8. SetNested(v, "metadata", k, value) = With(v, "metadata", With(md, k, value))
  BY <1>2, <1>4, <1>6, <1>7, SetNestedIs
<1> QED
  BY <1>8, MetadataWith DEF md

\* The owner reference that the controller writes is a clean document but for
\* the UID in it.
LEMMA OwnerReferencesClean ==
  OwnerReferences(UID(SetUID)) \in Clean(Scalars \cup UIDs)[Depth - 2]
<1> DEFINE l == Scalars \cup UIDs
           d == Depth - 4
           owner == [name |-> Scalar(Name), uid |-> UID(SetUID), controller |-> Scalar("true")]
           f == [k \in Key |-> IF k \in DOMAIN owner THEN owner[k] ELSE Absent]
<1>1. d \in Nat /\ Depth - 2 = (d + 1) + 1 /\ d + 1 \in Nat
  BY KeyFacts
<1>2. {Scalar(Name), UID(SetUID), Scalar("true")} \subseteq l \ {Null}
  <2>1. \A x \in Value : Scalar(x) \in Scalars /\ Scalar(x) # Null /\ UID(x) \in UIDs /\ UID(x) # Null
    BY DEF Scalar, UID, Scalars, UIDs, Null
  <2> QED
    BY <2>1, ValueAssumption
<1>3. {Scalar(Name), UID(SetUID), Scalar("true")} \subseteq Clean(l)[d]
  BY <1>1, <1>2, TreeLeaf DEF Clean
<1> HIDE DEF l, d
<1>4. DOMAIN owner = {"name", "uid", "controller"}
  OBVIOUS
<1>5. \A k \in DOMAIN owner : owner[k] \in Clean(l)[d]
  BY <1>3, <1>4
<1> HIDE DEF owner
<1>6. f \in [Key -> {Absent} \cup {} \cup Clean(l)[d]]
  BY <1>5
<1>7. Map(f) = Object(owner)
  BY DEF Object
<1> HIDE DEF f
<1>8. Map(f) \in Clean(l)[d + 1]
  BY <1>1, <1>6, TreeMap DEF Clean
<1>9. <<Map(f)>> \in Seq(Clean(l)[d + 1])
  <2> DEFINE m == Map(f)
             T == Clean(l)[d + 1]
  <2>1. m \in T
    BY <1>8
  <2> HIDE DEF m, T
  <2>2. <<m>> \in Seq(T)
    BY <2>1
  <2> QED
    BY <2>2 DEF m, T
<1>10. Array(<<Map(f)>>) \in Clean(l)[(d + 1) + 1]
  BY <1>1, <1>9, TreeArray DEF Clean
<1>11. OwnerReferences(UID(SetUID)) = Array(<<Map(f)>>)
  BY <1>7 DEF OwnerReferences, owner
<1> QED
  BY <1>1, <1>10, <1>11 DEF l

\* Objects of fewer documents.
LEMMA ObjectsSubset ==
  ASSUME NEW l1, NEW l2, l1 \subseteq l2
  PROVE  Objects(Clean(l1)[Depth]) \subseteq Objects(Clean(l2)[Depth])
<1>1. l1 \ {Null} \subseteq l2 \ {Null}
  OBVIOUS
<1>2. Clean(l1)[Depth] \subseteq Clean(l2)[Depth]
  BY <1>1, TreeSubset, KeyFacts DEF Clean
<1> QED
  BY <1>2 DEF Objects

\* The names the controller writes are scalars.
LEMMA ScalarFacts ==
  \A x \in Value : Scalar(x) \in Scalars /\ Scalar(x) # Null /\ ~Failed(Scalar(x))
                   /\ \A n \in Nat : Scalar(x) \in Clean(Scalars)[n]
<1>1. \A x \in Value : Scalar(x) \in Scalars \ {Null} /\ ~Failed(Scalar(x))
  BY DEF Scalar, Scalars, Null, Failed
<1> QED
  BY <1>1, TreeLeaf DEF Clean

\* The comparable copy of a document with UIDs but without nulls.
LEMMA NormalizedObject ==
  ASSUME NEW v \in Objects(Clean(Scalars \cup UIDs)[Depth])
  PROVE  LET p == DeepMapValue("normalize", v)
         IN  /\ p \in Objects(Clean(Scalars)[Depth])
             /\ \A k \in Key : Lookup(v, k) \in Clean(Scalars)[Depth - 1] \cup {Null}
                                 => Lookup(p, k) = Lookup(v, k)
             /\ \A k \in Key : Fetch(v, "metadata", k) \in Clean(Scalars)[Depth - 2] \cup {Null}
                                 => Fetch(p, "metadata", k) = Fetch(v, "metadata", k)
<1> DEFINE l == Scalars \cup UIDs
           a == Depth - 1
           b == Depth - 2
           W(n) == Walk("normalize")[n]
           p == DeepMapValue("normalize", v)
           md == Lookup(v, "metadata")
<1>1. a \in Nat /\ b \in Nat /\ Depth = a + 1 /\ a = b + 1 /\ "metadata" \in Key /\ Depth \in Nat
  BY KeyFacts
<1>2. l \in SUBSET Leaves /\ Null \notin l
  BY JSONFamily DEF UIDs, Leaves, Null
<1>3. v \in Clean(l)[Depth] /\ IsMap(v) /\ ~Failed(v) /\ v # Null /\ IsMap(md)
  BY <1>2, CleanObject DEF Objects
<1>4. p = W(Depth)[v]
  BY <1>3 DEF DeepMapValue
<1>5. LeavesBecome("normalize", l, Scalars, {}) /\ Family(l, {}) /\ Panics(l) = {}
  <2>1. \A x \in l \ {Null} : Apply("normalize", x) \in Scalars \ {Null}
    BY <1>2, ApplyLeaf, JSONFamily
  <2> QED
    BY <1>2, <2>1, JSONFamily DEF LeavesBecome, Family, Panics
<1>6. \A n \in Nat : WalksWithin(l, {}, Scalars, {}, n, W(n))
  BY <1>5, WalkClosed
<1>7. Clean(l) = Trees(l, {}) /\ \A n : Values(l, {}, n) = Clean(l)[n]
  <2>1. l \ {Null} = l
    BY <1>2
  <2> QED
    BY <2>1 DEF Clean, Values
<1>8. \A n \in Nat : \A x \in Clean(l)[n] : W(n)[x] \in Clean(Scalars)[n] /\ ~Failed(W(n)[x])
  <2>1. ASSUME NEW n \in Nat, NEW x \in Clean(l)[n] PROVE W(n)[x] \in Clean(Scalars)[n]
    <3>1. x # Null /\ x \in Values(l, {}, n)
      BY <1>2, <1>7, CleanFacts
    <3> QED
      BY <3>1, <1>5, <1>6 DEF WalksWithin
  <2> QED
    BY <2>1, CleanFacts, JSONFamily
<1> HIDE DEF a, b, l, p, md
<1>9. \A n \in Nat : Clean(l)[n] \subseteq Document[n]
  BY <1>2, CleanDocuments
<1>10. \A n \in Nat : \A x \in Clean(Scalars)[n] \cup {Null} : W(n)[x] = x
  <2>1. \A n \in Nat : \A x \in Clean(Scalars)[n] : W(n)[x] = x
    BY WalkClean, ScalarsApply, JSONFamily
  <2>2. \A n \in Nat : W(n)[Null] = Null
    <3>1. ASSUME NEW n \in Nat PROVE W(n)[Null] = Null
      <4>1. Null \in JSON[n]
        BY TreeLeaf DEF JSON
      <4> QED
        BY <4>1, JSONWalk
    <3> QED
      BY <3>1
  <2> QED
    BY <2>1, <2>2
<1>11. p \in Clean(Scalars)[Depth] /\ ~Failed(p)
  BY <1>1, <1>3, <1>4, <1>8
<1>12. IsMap(p) /\ \A k \in Key : Lookup(p, k) = W(a)[Lookup(v, k)]
  <2>1. v \in Document[a + 1] /\ ~Failed(Walk("normalize")[a + 1][v]) /\ p = Walk("normalize")[a + 1][v]
    BY <1>1, <1>3, <1>4, <1>9, <1>11
  <2>2. /\ IsMap(Walk("normalize")[a + 1][v])
        /\ \A k \in Key : /\ Lookup(Walk("normalize")[a + 1][v], k) = Walk("normalize")[a][Lookup(v, k)]
                          /\ ~Failed(Walk("normalize")[a][Lookup(v, k)])
    <3>1. v \in Document[a + 1] /\ ~Failed(Walk("normalize")[a + 1][v]) /\ a \in Nat /\ IsMap(v)
      BY <2>1, <1>1, <1>3
    <3> QED
      BY <3>1, WalkLookup
  <2> QED
    BY <2>1, <2>2
<1>13. md \in Clean(l)[a]
  BY <1>2, CleanObject DEF a, l, md
<1>14. Lookup(p, "metadata") = Walk("normalize")[b + 1][md] /\ md \in Document[b + 1]
       /\ ~Failed(Walk("normalize")[b + 1][md])
  BY <1>1, <1>8, <1>9, <1>12, <1>13 DEF md
<1>15. /\ IsMap(Walk("normalize")[b + 1][md])
       /\ \A k \in Key : /\ Lookup(Walk("normalize")[b + 1][md], k) = Walk("normalize")[b][Lookup(md, k)]
                         /\ ~Failed(Walk("normalize")[b][Lookup(md, k)])
  BY <1>1, <1>3, <1>14, WalkLookup
<1>16. p \in Objects(Clean(Scalars)[Depth])
  BY <1>11, <1>12, <1>14, <1>15 DEF Objects
<1>17. \A k \in Key : Lookup(v, k) \in Clean(Scalars)[a] \cup {Null} => Lookup(p, k) = Lookup(v, k)
  BY <1>1, <1>10, <1>12
<1>18. \A k \in Key : Fetch(v, "metadata", k) \in Clean(Scalars)[b] \cup {Null}
                        => Fetch(p, "metadata", k) = Fetch(v, "metadata", k)
  BY <1>1, <1>10, <1>14, <1>15 DEF Fetch, md
<1> QED
  BY <1>16, <1>17, <1>18 DEF p, a, b

\* Every reducer passes a failure on (types.go:23).
LEMMA FailuresPass ==
  ASSUME NEW v, Failed(v)
  PROVE  /\ ~IsMap(v) /\ ~IsArray(v)
         /\ \A k, new : Put(v, k, new) = v
         /\ \A fn : DeepMapValue(fn, v) = v
<1>1. ~IsMap(v) /\ ~IsArray(v)
  BY DEF Failed, IsMap, IsArray
<1> QED
  BY <1>1 DEF Put, DeepMapValue

\* Setting name, namespace and owner and normalizing leaves the rest as it was,
\* without nulls; it panics only where DeepCopy does.
LEMMA PatchFacts ==
  ASSUME NEW v \in Objects(JSON[Depth])
  PROVE  LET p == DeepMapValue("normalize", Owned(v))
         IN  \/ p = Panic /\ DeepCopy(v) = Panic
             \/ /\ p \in Objects(Clean(Scalars)[Depth])
                /\ \A k \in Key \ {"metadata"} :
                     Lookup(p, k) = Compact("copy")[Depth - 1][Lookup(v, k)]
                /\ \A k \in Key \ {"name", "namespace", "ownerReferences"} :
                     Fetch(p, "metadata", k) = Compact("copy")[Depth - 2][Fetch(v, "metadata", k)]
<1> DEFINE c == DeepCopy(v)
           named == SetNested(v, "metadata", "name", Scalar(Name))
           placed == SetNested(named, "metadata", "namespace", Scalar(Namespace))
           owned == SetNested(placed, "metadata", "ownerReferences", OwnerReferences(UID(SetUID)))
           p == DeepMapValue("normalize", Owned(v))
           a == Depth - 1
           b == Depth - 2
           C == Compact("copy")
<1>1. Owned(v) = owned
  BY DEF Owned
<1>2. ~Failed(v) /\ Failed(Panic)
  BY DEF Objects, IsMap, Failed, Panic
<1>3. \/ c = Panic
      \/ /\ c \in Objects(Clean(Scalars)[Depth])
         /\ \A k \in Key : Lookup(c, k) = C[a][Lookup(v, k)]
         /\ \A k \in Key : Fetch(c, "metadata", k) = C[b][Fetch(v, "metadata", k)]
  BY WalkObject DEF DeepCopy
<1>4. CASE c = Panic
  <2>1. named = Panic
    BY <1>2, <1>4, SetNestedIs, FailuresPass
  <2>2. placed = Panic
    BY <1>2, <2>1, SetNestedIs
  <2>3. owned = Panic
    BY <1>2, <2>2, SetNestedIs
  <2>4. p = Panic
    BY <1>1, <1>2, <2>3, FailuresPass
  <2> QED
    BY <1>4, <2>4
<1>5. CASE /\ c \in Objects(Clean(Scalars)[Depth])
           /\ \A k \in Key : Lookup(c, k) = C[a][Lookup(v, k)]
           /\ \A k \in Key : Fetch(c, "metadata", k) = C[b][Fetch(v, "metadata", k)]
  <2> DEFINE l == Scalars \cup UIDs
             O == Objects(Clean(Scalars)[Depth])
  <2>1. Scalars \in SUBSET Leaves /\ l \in SUBSET Leaves
    BY JSONFamily DEF UIDs, Leaves
  <2>2. DeepCopy(c) = c /\ ~Failed(c)
    BY <1>5, <2>1, CleanCopy, CleanObject
  <2>3. named = SetNested(c, "metadata", "name", Scalar(Name))
    BY <1>2, <2>2, SetNestedIs
  <2>4. /\ {"name", "namespace", "ownerReferences"} \subseteq Key
        /\ Scalar(Name) \in Clean(Scalars)[b] /\ Scalar(Namespace) \in Clean(Scalars)[b]
    BY KeyFacts, ScalarFacts, ValueAssumption
  <2> HIDE DEF c, named
  <2>5. /\ named \in O
        /\ \A k \in Key \ {"metadata"} : Lookup(named, k) = Lookup(c, k)
        /\ \A k \in Key \ {"name"} : Fetch(named, "metadata", k) = Fetch(c, "metadata", k)
    <3> DEFINE r == SetNested(c, "metadata", "name", Scalar(Name))
    <3>1. /\ r \in Objects(Clean(Scalars)[Depth])
          /\ \A k \in Key \ {"metadata"} : Lookup(r, k) = Lookup(c, k)
          /\ \A k \in Key \ {"name"} : Fetch(r, "metadata", k) = Fetch(c, "metadata", k)
      BY <1>5, <2>1, <2>4, SetMetadata
    <3> QED
      BY <2>3, <3>1
  <2> HIDE DEF placed
  <2>6. /\ placed \in O
        /\ \A k \in Key \ {"metadata"} : Lookup(placed, k) = Lookup(named, k)
        /\ \A k \in Key \ {"namespace"} : Fetch(placed, "metadata", k) = Fetch(named, "metadata", k)
    BY <2>1, <2>4, <2>5, SetMetadata, ZenonT(30) DEF placed
  <2>7. placed \in Objects(Clean(l)[Depth])
    BY <2>6, ObjectsSubset
  <2>8. OwnerReferences(UID(SetUID)) \in Clean(l)[b]
    BY OwnerReferencesClean
  <2> HIDE DEF l, owned
  <2>9. /\ owned \in Objects(Clean(l)[Depth])
        /\ \A k \in Key \ {"metadata"} : Lookup(owned, k) = Lookup(placed, k)
        /\ \A k \in Key \ {"ownerReferences"} : Fetch(owned, "metadata", k) = Fetch(placed, "metadata", k)
    BY <2>1, <2>4, <2>7, <2>8, SetMetadata DEF owned
  <2>10. \A k \in Key : /\ Lookup(placed, k) \in Clean(Scalars)[a] \cup {Null}
                        /\ Fetch(placed, "metadata", k) \in Clean(Scalars)[b] \cup {Null}
    <3>1. \A k \in Key : Lookup(placed, k) \in Clean(Scalars)[a] \cup {Null}
      BY <2>1, <2>6, CleanObject
    <3>2. Lookup(placed, "metadata") \in Clean(Scalars)[b + 1] /\ IsMap(Lookup(placed, "metadata")) /\ b \in Nat
      BY <2>1, <2>6, CleanObject, KeyFacts
    <3>3. \A k \in Key : Fetch(placed, "metadata", k) \in Clean(Scalars)[b] \cup {Null}
      BY <2>1, <3>2, CleanMap DEF Fetch
    <3> QED
      BY <3>1, <3>3
  <2>11. p = DeepMapValue("normalize", owned)
    BY <1>1
  <2> HIDE DEF p
  <2>12. /\ p \in O
         /\ \A k \in Key : Lookup(owned, k) \in Clean(Scalars)[a] \cup {Null} => Lookup(p, k) = Lookup(owned, k)
         /\ \A k \in Key : Fetch(owned, "metadata", k) \in Clean(Scalars)[b] \cup {Null}
                             => Fetch(p, "metadata", k) = Fetch(owned, "metadata", k)
    BY <2>9, <2>11, NormalizedObject DEF l
  <2>13. \A k \in Key \ {"metadata"} : Lookup(p, k) = Lookup(c, k)
    BY <2>5, <2>6, <2>9, <2>10, <2>12
  <2>14. \A k \in Key \ {"name", "namespace", "ownerReferences"} :
           Fetch(p, "metadata", k) = Fetch(c, "metadata", k)
    BY <2>5, <2>6, <2>9, <2>10, <2>12
  <2> QED
    BY <1>5, <2>12, <2>13, <2>14 DEF p
<1> QED
  BY <1>3, <1>4, <1>5

-----------------------------------------------------------------------------
(* What is rendered                                                        *)

StringLeaves == Strings \cup {Null}

\* What a set may ask for, as families of documents.
LEMMA WrittenFamily ==
  /\ Family(StringLeaves, {}) /\ Family(Strings, {Null}) /\ Family(Scalars, {})
  /\ Panics(StringLeaves) = {Panic} /\ Panics(Strings) = {} /\ Panics(Scalars) = {}
  /\ StringLeaves \ {Null} = Strings
  /\ Strings \ {Null} = Strings
  /\ \A n : Values(StringLeaves, {}, n) = Written[n]
  /\ \A n : NoNullElement[n] \subseteq Values(Strings, {Null}, n)
  /\ LeavesBecome("render", StringLeaves, Scalars, {Error})
  /\ LeavesBecome("render", Strings, Scalars, {Error})
  /\ LeavesBecome("copy", Strings, Strings, {})
<1>1. Strings \subseteq Leaves /\ StringLeaves \subseteq Leaves /\ Scalars \subseteq Strings
  BY DEF Strings, StringLeaves, Leaves, Scalars
<1>2. Null \notin Strings /\ Null \notin Scalars
  BY DEF Strings, Scalars, Null, BadTemplate
<1>3. StringLeaves \ {Null} = Strings /\ Strings \ {Null} = Strings /\ Scalars \ {Null} = Scalars
  BY <1>2 DEF StringLeaves
<1>4. Family(StringLeaves, {}) /\ Family(Strings, {Null}) /\ Family(Scalars, {})
  BY <1>1 DEF Family
<1>5. Panics(StringLeaves) = {Panic} /\ Panics(Strings) = {} /\ Panics(Scalars) = {}
  BY <1>2 DEF Panics, StringLeaves
<1>6. \A n : Values(StringLeaves, {}, n) = Written[n]
  BY DEF Values, Written, StringLeaves
<1>7. \A n : NoNullElement[n] \subseteq Values(Strings, {Null}, n)
  BY DEF Values, NoNullElement
<1>8. \A v \in Strings : Apply("render", v) \in Scalars \cup {Error} /\ Apply("copy", v) = v
  BY <1>1, <1>2, ApplyLeaf
<1>9. Scalars \in SUBSET Leaves /\ Strings \in SUBSET Leaves
  BY <1>1
<1>10. LeavesBecome("render", StringLeaves, Scalars, {Error}) /\ LeavesBecome("render", Strings, Scalars, {Error})
  BY <1>3, <1>8, <1>9 DEF LeavesBecome
<1>11. LeavesBecome("copy", Strings, Strings, {})
  BY <1>3, <1>8, <1>9 DEF LeavesBecome
<1> QED
  BY <1>3, <1>4, <1>5, <1>6, <1>7, <1>10, <1>11

\* DeepCopy panics only for a null in an array (deep_copy.go:15).
LEMMA CopyPanics ==
  ASSUME NEW v \in NoNullElement[Depth]
  PROVE  DeepCopy(v) # Panic
<1>1. WalksWithin(Strings, {Null}, Strings, {}, Depth, Walk("copy")[Depth])
  BY WrittenFamily, WalkClosed, KeyFacts
<1>2. v \in Values(Strings, {Null}, Depth)
  BY WrittenFamily
<1>3. DeepCopy(v) = Null \/ DeepCopy(v) \in Clean(Strings)[Depth]
  BY <1>1, <1>2, WrittenFamily DEF WalksWithin, DeepCopy
<1>4. Strings \in SUBSET Leaves /\ Depth \in Nat
  BY WrittenFamily, KeyFacts DEF LeavesBecome
<1>5. \A x \in Clean(Strings)[Depth] : ~Failed(x)
  BY <1>4, CleanFacts
<1> QED
  BY <1>3, <1>5 DEF Null, Panic, Failed

\* Rendering makes clean JSON, an error of a template, or panics for a null in
\* an array (reducer.go:81).
LEMMA RenderedFacts ==
  ASSUME desired \in Desired
  PROVE  /\ Rendered \in Objects(Clean(Scalars)[Depth]) \cup {Error, Panic}
         /\ Rendered = Panic => desired \notin NoNullElement[Depth]
<1> DEFINE W(n) == Walk("render")[n]
           a == Depth - 1
           b == Depth - 2
           md == Lookup(desired, "metadata")
<1>1. desired \in Written[Depth] /\ IsMap(desired) /\ IsMap(md)
  BY DocumentsAssumption DEF Objects
<1>2. a \in Nat /\ b \in Nat /\ Depth = a + 1 /\ a = b + 1 /\ Depth \in Nat /\ "metadata" \in Key
  BY KeyFacts
<1>3. Rendered = W(Depth)[desired]
  <2>1. ~Failed(desired)
    BY <1>1 DEF Failed, IsMap
  <2> QED
    BY <1>1, <2>1 DEF Rendered, DeepMapValue
<1>4. desired # Null /\ desired \in Values(StringLeaves, {}, Depth)
  BY <1>1, WrittenFamily DEF IsMap, Null
<1>5. W(Depth)[desired] \in Clean(Scalars)[Depth] \cup {Error, Panic}
  <2>1. WalksWithin(StringLeaves, {}, Scalars, {Error}, Depth, W(Depth))
    BY <1>2, WrittenFamily, WalkClosed
  <2> QED
    BY <1>4, <2>1, WrittenFamily DEF WalksWithin
<1>6. desired \in NoNullElement[Depth] => W(Depth)[desired] \in Clean(Scalars)[Depth] \cup {Error}
  <2>1. WalksWithin(Strings, {Null}, Scalars, {Error}, Depth, W(Depth))
    BY <1>2, WrittenFamily, WalkClosed
  <2> QED
    BY <1>4, <2>1, WrittenFamily DEF WalksWithin
<1>7. \A x \in Clean(Scalars)[Depth] : ~Failed(x)
  BY <1>2, CleanFacts, JSONFamily
<1>8. Panic # Error /\ Failed(Panic)
  BY DEF Failed, Panic, Error
<1>9. Rendered = Panic => desired \notin NoNullElement[Depth]
  BY <1>3, <1>6, <1>7, <1>8
<1>10. ASSUME W(Depth)[desired] \in Clean(Scalars)[Depth]
       PROVE  IsMap(W(Depth)[desired]) /\ IsMap(Lookup(W(Depth)[desired], "metadata"))
  <2>1. ~Failed(Walk("render")[a + 1][desired]) /\ desired \in Document[a + 1] /\ a \in Nat /\ IsMap(desired)
    <3>1. Written[Depth] \subseteq Document[Depth]
      BY <1>2, WrittenFamily, FamilyDocuments
    <3> QED
      BY <1>1, <1>2, <1>7, <1>10, <3>1
  <2>2. /\ IsMap(Walk("render")[a + 1][desired])
        /\ \A k \in Key : /\ Lookup(Walk("render")[a + 1][desired], k) = Walk("render")[a][Lookup(desired, k)]
                          /\ ~Failed(Walk("render")[a][Lookup(desired, k)])
    BY <2>1, WalkLookup
  <2>3. Lookup(W(Depth)[desired], "metadata") = Walk("render")[a][md] /\ ~Failed(Walk("render")[a][md])
    BY <1>2, <2>2 DEF md
  <2>4. md \in Document[a]
    <3>1. md = desired.at["metadata"] /\ desired.at["metadata"] # Absent
      BY <1>1 DEF Lookup, md, IsMap, Null
    <3>2. desired.at \in [Key -> {Absent} \cup Document[a]]
      BY <2>1, DocumentCases, LeafFacts DEF IsMap
    <3> QED
      BY <1>2, <3>1, <3>2
  <2>5. ~Failed(Walk("render")[b + 1][md]) /\ md \in Document[b + 1] /\ b \in Nat /\ IsMap(md)
    BY <1>1, <1>2, <2>3, <2>4
  <2>6. IsMap(Walk("render")[b + 1][md])
    BY <2>5, WalkLookup
  <2> QED
    BY <1>2, <2>2, <2>3, <2>6
<1> QED
  BY <1>3, <1>5, <1>9, <1>10 DEF Objects

-----------------------------------------------------------------------------
(* Merging objects                                                         *)

LookedUp(v, k) == IF v.at[k] = Absent THEN Null ELSE v.at[k]
MergedLookup(below, a, b, k) ==
  IF k \in BothKeys(a, b) THEN AtKey(below, a, b, k)
  ELSE IF b.at[k] # Absent THEN b.at[k] ELSE LookedUp(a, k)

\* What each key of two merged maps is.
LEMMA MergeMaps ==
  ASSUME NEW n \in Nat, NEW a \in Document[n + 1], NEW b \in Document[n + 1], IsMap(a), IsMap(b)
  PROVE  LET r == MergeAt[n + 1][<<a, b>>]
         IN  \/ Failed(r)
             \/ /\ IsMap(r)
                /\ \A k \in Key : Lookup(r, k) = MergedLookup(MergeAt[n], a, b, k)
                /\ \A k \in BothKeys(a, b) : ~Failed(AtKey(MergeAt[n], a, b, k))
<1> DEFINE M == MergeAt[n]
           r == MergeAt[n + 1][<<a, b>>]
<1>1. ~IsArray(a) /\ ~IsArray(b) /\ b # Null
  BY DEF IsMap, IsArray, Null
<1>2. r = MergeMap(M, a, b)
  <2>1. r = MergeOne(M, a, b)
    BY MergeAtOne
  <2>2. MergeOne(M, a, b) = Merge(M, a, b)
    BY <1>1 DEF MergeOne, IsNamed
  <2>3. Merge(M, a, b) = MergeMap(M, a, b)
    BY <1>1 DEF Merge
  <2> QED
    BY <2>1, <2>2, <2>3
<1>3. a.at \in [Key -> {Absent} \cup Document[n]] /\ b.at \in [Key -> {Absent} \cup Document[n]]
  BY DocumentCases, LeafFacts DEF IsMap
<1>4. MergesWithin(Leaves, {}, n, M)
  BY MergeAtClosed, AnyFamily
<1> HIDE DEF M, r
<1>5. CASE \E k \in BothKeys(a, b) : Failed(AtKey(M, a, b, k)) /\ r = AtKey(M, a, b, k)
  BY <1>5 DEF r
<1>6. CASE /\ \A k \in BothKeys(a, b) : ~Failed(AtKey(M, a, b, k))
           /\ r = MergedMap(M, a, b)
  <2>1. r.is = "map" /\ \A k \in Key : r.at[k] = MergedKey(M, a, b, k)
    BY <1>6 DEF MergedMap, Map
  <2>2. IsMap(r)
    BY <2>1 DEF IsMap
  <2>3. ASSUME NEW k \in BothKeys(a, b) PROVE AtKey(M, a, b, k) # Absent
    <3>1. k \in Key /\ a.at[k] \in Document[n] /\ b.at[k] \in Document[n]
      BY <1>3 DEF BothKeys, Keys
    <3>2. AtKey(M, a, b, k) \in Values(Leaves, {}, n) \cup Panics(Leaves)
      BY <3>1, <1>4, AnyFamily DEF MergesWithin, AtKey
    <3>3. AtKey(M, a, b, k) \in Document[n] \cup {Panic}
      BY <3>2, AnyFamily
    <3>4. Absent \notin Document[n]
      <4>1. \A v \in Values(Leaves, {}, n) : v # Absent
        BY AnyFamily, ValueCases
      <4> QED
        BY <4>1, AnyFamily
    <3> QED
      BY <3>3, <3>4 DEF Panic, Absent
  <2>4. ASSUME NEW k \in Key PROVE Lookup(r, k) = MergedLookup(M, a, b, k)
    <3>1. Lookup(r, k) = IF MergedKey(M, a, b, k) = Absent THEN Null ELSE MergedKey(M, a, b, k)
      BY <2>1, <2>2 DEF Lookup
    <3>2. CASE k \in BothKeys(a, b)
      BY <3>1, <3>2, <2>3 DEF MergedKey, MergedLookup
    <3>3. CASE k \notin BothKeys(a, b)
      BY <3>1, <3>3 DEF MergedKey, MergedLookup, LookedUp
    <3> QED
      BY <3>2, <3>3
  <2> QED
    BY <2>2, <2>4, <1>6 DEF M, r
<1> QED
  BY <1>2, <1>5, <1>6, MergeMapCases DEF M, r

\* Merged over nothing a document stays as it is.
LEMMA MergeOfNull ==
  ASSUME NEW b \in Document[Depth]
  PROVE  mergeResource(Null, b) = b
<1>1. ~Failed(Null) /\ ~IsArray(Null) /\ ~IsMap(Null)
  BY DEF Failed, Null, IsArray, IsMap
<1>2. Null \in Document[Depth]
  BY TreeLeaf, KeyFacts DEF Document, Leaves
<1>3. MergeAt[Depth][<<Null, b>>] = MergeOne(MergeAt[Depth - 1], Null, b)
  BY <1>2, MergeAtOne, KeyFacts
<1>4. MergeOne(MergeAt[Depth - 1], Null, b) = b
  BY <1>1 DEF MergeOne, IsNamed, Merge
<1> QED
  BY <1>1, <1>3, <1>4 DEF mergeResource, MergeFunc

\* What there is to say of a JSON object and its metadata.
LEMMA ObjectFacts ==
  ASSUME NEW v \in Objects(JSON[Depth])
  PROVE  /\ v \in JSON[Depth] /\ v \in Document[Depth] /\ IsMap(v) /\ ~Failed(v) /\ v # Null
         /\ v.at \in [Key -> {Absent} \cup JSON[Depth - 1]]
         /\ v.at["metadata"] = Lookup(v, "metadata") /\ v.at["metadata"] # Absent
         /\ v.at["metadata"] \in JSON[Depth - 1] /\ v.at["metadata"] \in Document[Depth - 1]
         /\ IsMap(v.at["metadata"])
         /\ \A k \in Key : Lookup(v, k) = LookedUp(v, k)
<1>1. v \in JSON[Depth] /\ IsMap(v) /\ IsMap(Lookup(v, "metadata"))
  BY DEF Objects
<1>2. v \in Document[Depth]
  BY <1>1, JSONFamily, KeyFacts
<1>3. ~Failed(v) /\ v # Null
  BY <1>1 DEF Failed, IsMap, Null
<1>4. v.at \in [Key -> {Absent} \cup JSON[Depth - 1]]
  <2>1. v \in JSON[(Depth - 1) + 1] /\ Depth - 1 \in Nat
    BY <1>1, KeyFacts
  <2> QED
    BY <1>1, <2>1, JSONCases
<1>5. \A k \in Key : Lookup(v, k) = LookedUp(v, k)
  BY <1>1 DEF Lookup, LookedUp
<1>6. "metadata" \in Key
  BY KeyFacts
<1>7. v.at["metadata"] # Absent /\ v.at["metadata"] = Lookup(v, "metadata")
  BY <1>1, <1>5, <1>6 DEF IsMap, LookedUp, Null
<1>8. v.at["metadata"] \in JSON[Depth - 1]
  BY <1>4, <1>6, <1>7
<1>9. v.at["metadata"] \in Document[Depth - 1]
  BY <1>8, JSONFamily, KeyFacts
<1> QED
  BY <1>1, <1>2, <1>3, <1>4, <1>5, <1>7, <1>8, <1>9

\* Documents without a null in an array merge into such a document.
LEMMA NoNullFacts ==
  /\ Clean(Scalars)[Depth] \subseteq NoNullElement[Depth]
  /\ \A v \in NoNullElement[Depth] : ~Failed(v) /\ v # Null
  /\ \A a, b \in NoNullElement[Depth] : mergeResource(a, b) \in NoNullElement[Depth] \cup {Null}
<1>1. Clean(Scalars)[Depth] \subseteq NoNullElement[Depth]
  <2>1. Scalars \subseteq Strings
    BY DEF Scalars, Strings
  <2>2. Trees(Scalars, {})[Depth] \subseteq Trees(Strings, {Null})[Depth]
    BY <2>1, TreeSubset, KeyFacts
  <2> QED
    BY <2>2, JSONFamily DEF NoNullElement
<1>2. Strings \in SUBSET Leaves /\ Null \notin Strings /\ Depth \in Nat
  BY WrittenFamily, KeyFacts DEF LeavesBecome
<1>3. \A v \in NoNullElement[Depth] : ~Failed(v) /\ v # Null
  <2>1. ASSUME NEW v \in Trees(Strings, {Null})[Depth] PROVE ~Failed(v) /\ v # Null
    BY <1>2, TreeFacts
  <2> QED
    BY <2>1 DEF NoNullElement
<1>4. ASSUME NEW a \in NoNullElement[Depth], NEW b \in NoNullElement[Depth]
      PROVE  mergeResource(a, b) \in NoNullElement[Depth] \cup {Null}
  <2>1. mergeResource(a, b) = MergeAt[Depth][<<a, b>>]
    BY <1>3 DEF mergeResource, MergeFunc
  <2>2. MergesWithin(Strings, {Null}, Depth, MergeAt[Depth])
    BY <1>2, WrittenFamily, MergeAtClosed
  <2>3. a \in Values(Strings, {Null}, Depth) /\ b \in Values(Strings, {Null}, Depth)
    BY WrittenFamily
  <2>4. MergeAt[Depth][<<a, b>>] \in Values(Strings, {Null}, Depth) \cup Panics(Strings)
    BY <2>2, <2>3 DEF MergesWithin
  <2> QED
    BY <2>1, <2>4, WrittenFamily DEF Values, NoNullElement
<1> QED
  BY <1>1, <1>3, <1>4

\* Two merged objects are an object, merged key by key, metadata included, or
\* panic for a null in an array.
LEMMA MergedObjects ==
  ASSUME NEW v \in Objects(JSON[Depth]), NEW o \in Objects(JSON[Depth])
  PROVE  LET r == mergeResource(v, o)
         IN  /\ \/ r = Panic
                \/ /\ r \in Objects(JSON[Depth])
                   /\ \A k \in Key : Lookup(r, k) = MergedLookup(MergeAt[Depth - 1], v, o, k)
                   /\ \A k \in Key : Fetch(r, "metadata", k) =
                        MergedLookup(MergeAt[Depth - 2], v.at["metadata"], o.at["metadata"], k)
             /\ v \in NoNullElement[Depth] /\ o \in NoNullElement[Depth] => r \in NoNullElement[Depth]
<1> DEFINE r == mergeResource(v, o)
           a == Depth - 1
           b == Depth - 2
           w == v.at["metadata"]
           x == o.at["metadata"]
<1>1. a \in Nat /\ b \in Nat /\ Depth = a + 1 /\ a = b + 1 /\ Depth \in Nat /\ "metadata" \in Key
  BY KeyFacts
<1>2. r = MergeAt[Depth][<<v, o>>]
  BY ObjectFacts DEF mergeResource, MergeFunc
<1>3. r \in JSON[Depth] \cup {Panic} /\ r # Null
  <2>1. MergesWithin(JSONLeaves, {}, Depth, MergeAt[Depth])
    BY <1>1, JSONFamily, MergeAtClosed
  <2>2. v \in Values(JSONLeaves, {}, Depth) /\ o \in Values(JSONLeaves, {}, Depth) /\ o # Null
    BY ObjectFacts, JSONFamily
  <2> QED
    BY <1>2, <2>1, <2>2, JSONFamily DEF MergesWithin
<1>4. v \in NoNullElement[Depth] /\ o \in NoNullElement[Depth] => r \in NoNullElement[Depth]
  BY <1>3, NoNullFacts
<1>5. ASSUME r # Panic
      PROVE  /\ r \in Objects(JSON[Depth])
             /\ \A k \in Key : Lookup(r, k) = MergedLookup(MergeAt[a], v, o, k)
             /\ \A k \in Key : Fetch(r, "metadata", k) = MergedLookup(MergeAt[b], w, x, k)
  <2>1. ~Failed(r)
    <3>1. r \in Trees(JSONLeaves, {})[Depth] /\ JSONLeaves \in SUBSET Leaves
      BY <1>3, <1>5, JSONFamily DEF Family
    <3> QED
      BY <1>1, <3>1, TreeFacts
  <2>2. /\ IsMap(r)
        /\ \A k \in Key : Lookup(r, k) = MergedLookup(MergeAt[a], v, o, k)
        /\ \A k \in BothKeys(v, o) : ~Failed(AtKey(MergeAt[a], v, o, k))
    <3>1. v \in Document[a + 1] /\ o \in Document[a + 1] /\ IsMap(v) /\ IsMap(o)
          /\ ~Failed(MergeAt[a + 1][<<v, o>>])
      BY <1>1, <1>2, <2>1, ObjectFacts
    <3>2. /\ IsMap(MergeAt[a + 1][<<v, o>>])
          /\ \A k \in Key : Lookup(MergeAt[a + 1][<<v, o>>], k) = MergedLookup(MergeAt[a], v, o, k)
          /\ \A k \in BothKeys(v, o) : ~Failed(AtKey(MergeAt[a], v, o, k))
      BY <1>1, <3>1, MergeMaps
    <3> QED
      BY <1>1, <1>2, <3>2
  <2>3. Lookup(r, "metadata") = MergeAt[b + 1][<<w, x>>] /\ ~Failed(MergeAt[b + 1][<<w, x>>])
    <3>1. "metadata" \in BothKeys(v, o)
      BY <1>1, ObjectFacts DEF BothKeys, Keys
    <3> QED
      BY <1>1, <2>2, <3>1 DEF MergedLookup, AtKey
  <2>4. /\ IsMap(MergeAt[b + 1][<<w, x>>])
        /\ \A k \in Key : Lookup(MergeAt[b + 1][<<w, x>>], k) = MergedLookup(MergeAt[b], w, x, k)
    <3>1. w \in Document[b + 1] /\ x \in Document[b + 1] /\ IsMap(w) /\ IsMap(x)
      BY <1>1, ObjectFacts
    <3> HIDE DEF w, x
    <3>2. /\ IsMap(MergeAt[b + 1][<<w, x>>])
          /\ \A k \in Key : Lookup(MergeAt[b + 1][<<w, x>>], k) = MergedLookup(MergeAt[b], w, x, k)
          /\ \A k \in BothKeys(w, x) : ~Failed(AtKey(MergeAt[b], w, x, k))
      BY <1>1, <2>3, <3>1, MergeMaps
    <3> QED
      BY <3>2
  <2> QED
    BY <1>3, <1>5, <2>2, <2>3, <2>4 DEF Objects, Fetch
<1> QED
  BY <1>4, <1>5

-----------------------------------------------------------------------------
(* What a new object is copied from                                        *)

\* deleteKeys takes its keys away and leaves a clean document (reducer.go:14).
LEMMA CleanDelete ==
  ASSUME NEW l \in SUBSET Leaves, NEW n \in Nat, NEW x \in Clean(l)[n], NEW ks
  PROVE  /\ deleteKeys(x, ks) \in Clean(l)[n]
         /\ \A k \in ks : k \in Key => Lookup(deleteKeys(x, ks), k) = Null
<1>1. CASE IsMap(x)
  <2>1. deleteKeys(x, ks) = Without(x, ks)
    BY <1>1 DEF deleteKeys
  <2>2. PICK m \in Nat : n = m + 1 /\ x.at \in [Key -> {Absent} \cup Clean(l)[m]]
    <3>1. l \ {Null} \in SUBSET Leaves /\ x \in Trees(l \ {Null}, {})[n]
      BY DEF Clean
    <3>2. \E m \in Nat : n = m + 1 /\ x.at \in [Key -> {Absent} \cup {} \cup Trees(l \ {Null}, {})[m]]
      BY <1>1, <3>1, TreeCases, ZenonT(30) DEF IsMap, IsArray
    <3>3. PICK m \in Nat : n = m + 1 /\ x.at \in [Key -> {Absent} \cup {} \cup Trees(l \ {Null}, {})[m]]
      BY <3>2
    <3>4. {Absent} \cup {} \cup Trees(l \ {Null}, {})[m] = {Absent} \cup Clean(l)[m]
      BY DEF Clean
    <3> QED
      BY <3>3, <3>4
  <2>3. Without(x, ks) \in Clean(l)[m + 1]
    BY <2>2, CleanWithout
  <2>4. \A k \in ks : k \in Key => Lookup(Without(x, ks), k) = Null
    BY WithoutFacts
  <2> QED
    BY <2>1, <2>2, <2>3, <2>4
<1>2. CASE ~IsMap(x)
  BY <1>2 DEF deleteKeys, Lookup
<1> QED
  BY <1>1, <1>2

\* A clean object with other metadata.
LEMMA WithMetadata ==
  ASSUME NEW l \in SUBSET Leaves, NEW v \in Objects(Clean(l)[Depth]),
         NEW md \in Clean(l)[Depth - 1], IsMap(md)
  PROVE  LET r == Put(v, "metadata", md)
         IN  /\ r \in Objects(Clean(l)[Depth])
             /\ \A k \in Key \ {"metadata"} : Lookup(r, k) = Lookup(v, k)
             /\ Lookup(r, "metadata") = md
<1> DEFINE r == Put(v, "metadata", md)
           a == Depth - 1
<1>1. a \in Nat /\ Depth = a + 1 /\ "metadata" \in Key
  BY KeyFacts
<1>2. IsMap(v) /\ v.at \in [Key -> {Absent} \cup Clean(l)[a]] /\ DOMAIN v.at = Key
  BY CleanObject
<1>3. ~Failed(md) /\ md # Null /\ md # Absent
  BY <1>1, CleanFacts
<1>4. r = With(v, "metadata", md)
  BY <1>1, <1>2, <1>3, PutClean
<1>5. With(v, "metadata", md) \in Clean(l)[Depth]
  BY <1>1, <1>2, CleanWith
<1>6. /\ IsMap(r)
      /\ \A j \in Key : Lookup(r, j) =
           IF j = "metadata" THEN md ELSE IF v.at[j] = Absent THEN Null ELSE v.at[j]
  BY <1>1, <1>2, <1>3, <1>4, WithFacts
<1>7. \A k \in Key : Lookup(v, k) = IF v.at[k] = Absent THEN Null ELSE v.at[k]
  BY CleanObject
<1> QED
  BY <1>1, <1>4, <1>5, <1>6, <1>7 DEF Objects

\* The original without status, identity and revision is otherwise its
\* comparable copy (reconciler.go:155).
LEMMA FromOriginalFacts ==
  ASSUME original \in Originals
  PROVE  LET r == FromOriginal(Null)
         IN  \/ r = Panic /\ original \notin NoNullElement[Depth]
             \/ /\ r \in Objects(Clean(Scalars)[Depth])
                /\ Lookup(r, "status") = Null
                /\ \A k \in ServerKeys : Fetch(r, "metadata", k) = Null
                /\ \A k \in Key \ {"metadata", "status"} :
                     Lookup(r, k) = Compact("copy")[Depth - 1][Lookup(original, k)]
<1> DEFINE r == FromOriginal(Null)
           s == Without(original, {"status"})
           c == DeepCopy(s)
           anonymous == Put(c, "metadata", NoServerKeys(Lookup(c, "metadata")))
           C == Compact("copy")[Depth - 1]
           a == Depth - 1
           b == Depth - 2
           O == Objects(Clean(Scalars)[Depth])
<1>1. a \in Nat /\ b \in Nat /\ Depth = a + 1 /\ a = b + 1 /\ Depth \in Nat
      /\ {"metadata", "status", "annotations"} \subseteq Key /\ ServerKeys \subseteq Key
  BY KeyFacts
<1>2. original \in Objects(JSON[Depth])
  BY DocumentsAssumption
<1>3. mergeResource(Null, original) = original /\ FilterKey(original, {"status"}) = s
  <2>1. original \in Document[Depth] /\ IsMap(original) /\ ~Failed(original)
    BY <1>2, ObjectFacts
  <2> QED
    BY <2>1, MergeOfNull DEF FilterKey
<1>4. s \in Objects(JSON[Depth]) /\ Lookup(s, "status") = Null
      /\ \A k \in Key \ {"status"} : Lookup(s, k) = Lookup(original, k)
  <2>1. original.at \in [Key -> {Absent} \cup JSON[a]] /\ \A k \in Key : Lookup(original, k) = LookedUp(original, k)
    BY <1>2, ObjectFacts
  <2>2. IsMap(s) /\ \A j \in Key : Lookup(s, j) =
              IF j \in {"status"} \/ original.at[j] = Absent THEN Null ELSE original.at[j]
    BY WithoutFacts
  <2>3. \A k \in Key \ {"status"} : Lookup(s, k) = Lookup(original, k)
    BY <2>1, <2>2 DEF LookedUp
  <2>4. IsMap(Lookup(s, "metadata"))
    BY <1>1, <1>2, <2>3, ObjectFacts
  <2>5. s \in JSON[a + 1]
    <3>1. [k \in Key |-> IF k \in {"status"} THEN Absent ELSE original.at[k]]
            \in [Key -> {Absent} \cup {} \cup Trees(JSONLeaves, {})[a]]
      BY <2>1, JSONFamily
    <3>2. s = Map([k \in Key |-> IF k \in {"status"} THEN Absent ELSE original.at[k]])
      BY DEF Without
    <3> QED
      BY <1>1, <3>1, <3>2, TreeMap, JSONFamily
  <2> QED
    BY <1>1, <2>2, <2>3, <2>4, <2>5 DEF Objects
<1>5. original \in NoNullElement[Depth] => s \in NoNullElement[Depth]
  <2> SUFFICES ASSUME original \in Trees(Strings, {Null})[a + 1]
               PROVE  s \in Trees(Strings, {Null})[a + 1]
    BY <1>1 DEF NoNullElement
  <2>1. IsMap(original) /\ Strings \in SUBSET Leaves
    BY <1>2, ObjectFacts, WrittenFamily DEF LeavesBecome
  <2>2. original.at \in [Key -> {Absent} \cup Values(Strings, {Null}, a)]
    <3>1. original \in Values(Strings, {Null}, a + 1) /\ Family(Strings, {Null}) /\ a \in Nat
      BY <1>1, WrittenFamily DEF Values
    <3>2. \A x \in Strings \cup {Null} : ~IsMap(x)
      BY <2>1, LeafFacts DEF Null, IsMap
    <3> QED
      BY <2>1, <3>1, <3>2, KindCases DEF IsMap, IsArray
  <2>3. [k \in Key |-> IF k \in {"status"} THEN Absent ELSE original.at[k]]
            \in [Key -> {Absent} \cup Values(Strings, {Null}, a)]
    BY <2>2
  <2>4. Map([k \in Key |-> IF k \in {"status"} THEN Absent ELSE original.at[k]]) \in Trees(Strings, {Null})[a + 1]
    BY <1>1, <2>3, MapValue
  <2>5. s = Map([k \in Key |-> IF k \in {"status"} THEN Absent ELSE original.at[k]])
    BY DEF Without
  <2> QED
    BY <2>4, <2>5
<1>6. r = ReduceNested2(anonymous, "metadata", "annotations", NoRevision)
  <2>1. ~Failed(s)
    BY <1>4, ObjectFacts
  <2>2. ReduceNested(s, "metadata", NoServerKeys) = anonymous
    BY <2>1 DEF ReduceNested
  <2> QED
    BY <1>3, <2>2 DEF FromOriginal
<1> HIDE DEF r, s, c, anonymous
<1>7. \/ c = Panic
      \/ c \in O /\ \A k \in Key : Lookup(c, k) = C[Lookup(s, k)]
  BY <1>4, WalkObject DEF DeepCopy, c
<1>8. CASE c = Panic
  <2>1. original \notin NoNullElement[Depth]
    BY <1>5, <1>8, CopyPanics DEF c
  <2>2. Failed(Panic)
    BY DEF Failed, Panic
  <2>3. anonymous = Panic
    BY <2>2, <1>8, FailuresPass DEF anonymous
  <2>4. r = Panic
    BY <1>6, <2>2, <2>3 DEF ReduceNested2
  <2> QED
    BY <2>1, <2>4 DEF r
<1>9. CASE c \in O /\ \A k \in Key : Lookup(c, k) = C[Lookup(s, k)]
  <2> DEFINE md == Lookup(c, "metadata")
             x == NoRevision(Lookup(NoServerKeys(md), "annotations"))
             end == Put(NoServerKeys(md), "annotations", x)
  <2>1. Scalars \in SUBSET Leaves
    BY JSONFamily
  <2>2. md \in Clean(Scalars)[a] /\ IsMap(md)
    BY <1>9, <2>1, CleanObject
  <2>3. NoServerKeys(md) \in Clean(Scalars)[a] /\ IsMap(NoServerKeys(md))
        /\ \A k \in ServerKeys : Lookup(NoServerKeys(md), k) = Null
    <3>1. NoServerKeys(md) = Without(md, ServerKeys)
      BY <2>2 DEF NoServerKeys, deleteKeys
    <3>2. IsMap(Without(md, ServerKeys))
      BY WithoutFacts
    <3>3. /\ deleteKeys(md, ServerKeys) \in Clean(Scalars)[a]
          /\ \A k \in ServerKeys : k \in Key => Lookup(deleteKeys(md, ServerKeys), k) = Null
      BY <1>1, <2>1, <2>2, CleanDelete
    <3> QED
      BY <1>1, <3>1, <3>2, <3>3 DEF NoServerKeys
  <2> HIDE DEF md
  <2>4. /\ anonymous \in O
        /\ \A k \in Key \ {"metadata"} : Lookup(anonymous, k) = Lookup(c, k)
        /\ Lookup(anonymous, "metadata") = NoServerKeys(md)
    BY <1>9, <2>1, <2>3, WithMetadata DEF anonymous, md
  <2>5. r = Put(anonymous, "metadata", end)
    <3>1. DeepCopy(anonymous) = anonymous /\ ~Failed(anonymous)
      BY <2>1, <2>4, CleanObject, CleanCopy
    <3> QED
      BY <1>6, <2>4, <3>1 DEF ReduceNested2
  <2>6. x \in Clean(Scalars)[b] \cup {Null}
    <3>1. Lookup(NoServerKeys(md), "annotations") \in Clean(Scalars)[b] \cup {Null}
      BY <1>1, <2>1, <2>3, CleanMap
    <3>2. \A y \in Clean(Scalars)[b] : NoRevision(y) \in Clean(Scalars)[b]
      BY <1>1, <2>1, CleanDelete DEF NoRevision
    <3>3. NoRevision(Null) = Null
      BY DEF NoRevision, deleteKeys, IsMap, Null
    <3> QED
      BY <3>1, <3>2, <3>3
  <2> HIDE DEF x
  <2>7. /\ end \in Clean(Scalars)[a] /\ IsMap(end)
        /\ \A k \in Key \ {"annotations"} : Lookup(end, k) = Lookup(NoServerKeys(md), k)
    <3> DEFINE n == NoServerKeys(md)
               y == IF x = Null THEN Absent ELSE x
    <3>1. ~Failed(x)
      <4>1. \A z \in Clean(Scalars)[b] : ~Failed(z)
        BY <1>1, <2>1, CleanFacts
      <4> QED
        BY <2>6, <4>1 DEF Failed, Null
    <3>2. n.at \in [Key -> {Absent} \cup Clean(Scalars)[b]] /\ DOMAIN n.at = Key
          /\ \A k \in Key : Lookup(n, k) = IF n.at[k] = Absent THEN Null ELSE n.at[k]
      BY <1>1, <2>1, <2>3, CleanMap
    <3>3. n.at \in [Key -> {Absent} \cup Clean(Scalars)[b]] /\ IsMap(n) /\ "annotations" \in Key /\ b \in Nat
      BY <1>1, <2>3, <3>2
    <3> HIDE DEF n, y
    <3>4. Put(n, "annotations", x) = With(n, "annotations", y)
      BY <2>1, <3>1, <3>3, PutClean DEF y
    <3>5. y \in Clean(Scalars)[b] \cup {Absent}
      BY <2>6 DEF y
    <3>6. With(n, "annotations", y) \in Clean(Scalars)[b + 1]
      BY <2>1, <3>3, <3>5, CleanWith
    <3>7. /\ IsMap(With(n, "annotations", y))
          /\ \A j \in Key : Lookup(With(n, "annotations", y), j) =
              IF j = "annotations" THEN IF y = Absent THEN Null ELSE y ELSE IF n.at[j] = Absent THEN Null ELSE n.at[j]
      BY <3>2, <3>3, WithFacts
    <3>8. \A k \in Key \ {"annotations"} : Lookup(With(n, "annotations", y), k) = Lookup(n, k)
      BY <3>2, <3>7
    <3> QED
      BY <1>1, <3>4, <3>6, <3>7, <3>8 DEF n
  <2> HIDE DEF end
  <2>8. /\ r \in O
        /\ \A k \in Key \ {"metadata"} : Lookup(r, k) = Lookup(anonymous, k)
        /\ Lookup(r, "metadata") = end
    BY <2>1, <2>4, <2>5, <2>7, WithMetadata
  <2>9. \A k \in Key \ {"metadata"} : Lookup(r, k) = C[Lookup(s, k)]
    BY <1>9, <2>4, <2>8
  <2>10. C[Null] = Null
    <3>1. Null \in JSON[a]
      BY <1>1, TreeLeaf DEF JSON
    <3>2. Walk("copy")[a][Null] = Null
      BY <1>1, <3>1, JSONWalk
    <3> QED
      BY <1>1, <3>1, <3>2, WalkIsCompact DEF Failed, Null
  <2>11. Lookup(r, "status") = Null
    BY <1>1, <1>4, <2>9, <2>10
  <2>12. \A k \in ServerKeys : Fetch(r, "metadata", k) = Null
    BY <1>1, <2>3, <2>7, <2>8 DEF Fetch, ServerKeys
  <2>13. \A k \in Key \ {"metadata", "status"} : Lookup(r, k) = C[Lookup(original, k)]
    BY <1>4, <2>9
  <2> QED
    BY <2>8, <2>11, <2>12, <2>13 DEF r
<1> QED
  BY <1>7, <1>8, <1>9

\* No port is left with a node port (reconciler.go:182).
LEMMA PortsFacts ==
  ASSUME NEW n \in Nat, NEW p \in Clean(Scalars)[n] \cup {Null}
  PROVE  LET r == NoNodePorts(p)
         IN  \/ r = Error /\ ~IsArray(p)
             \/ /\ r \in Clean(Scalars)[n]
                /\ IsArray(r) => \A i \in DOMAIN r.items : Lookup(r.items[i], "nodePort") = Null
                /\ IsArray(r) => /\ IsArray(p) /\ Len(r.items) = Len(p.items)
                                 /\ \A i \in DOMAIN r.items : r.items[i] = NoNodePort(p.items[i])
                /\ \A k \in Key : Lookup(r, k) = NoNodePort(Lookup(p, k))
<1> DEFINE r == NoNodePorts(p)
<1>1. Scalars \in SUBSET Leaves /\ "nodePort" \in Key /\ NoNodePort(Null) = Null
  BY JSONFamily, KeyFacts DEF NoNodePort, deleteKeys, IsMap, Null
<1>2. CASE ~IsArray(p) /\ ~IsMap(p)
  BY <1>2 DEF NoNodePorts, MapReduceValue
<1>3. ASSUME IsArray(p) \/ IsMap(p)
      PROVE  p \in Clean(Scalars)[n] /\ \E m \in Nat :
               /\ n = m + 1
               /\ IsArray(p) => p.items \in Seq(Clean(Scalars)[m])
               /\ IsMap(p) => p.at \in [Key -> {Absent} \cup Clean(Scalars)[m]]
  <2>1. p \in Clean(Scalars)[n]
    BY <1>3 DEF IsArray, IsMap, Null
  <2>2. p \in Trees(Scalars, {})[n]
    BY <2>1, JSONFamily
  <2>3. \E m \in Nat :
               /\ n = m + 1
               /\ IsArray(p) => p.items \in Seq(Trees(Scalars, {})[m])
               /\ IsMap(p) => p.at \in [Key -> {Absent} \cup {} \cup Trees(Scalars, {})[m]]
    <3>1. \/ p \in Scalars /\ ~IsMap(p) /\ ~IsArray(p)
          \/ \E k \in Nat :
              /\ n = k + 1
              /\ \/ /\ IsMap(p) /\ ~IsArray(p) /\ p = Map(p.at)
                    /\ p.at \in [Key -> {Absent} \cup {} \cup Trees(Scalars, {})[k]]
                 \/ /\ IsArray(p) /\ ~IsMap(p) /\ p = Array(p.items)
                    /\ p.items \in Seq(Trees(Scalars, {})[k])
      BY <1>1, <2>2, TreeCases, Zenon
    <3> QED
      BY <1>3, <3>1
  <2> QED
    BY <2>1, <2>3, JSONFamily
<1>4. CASE IsArray(p)
  <2>1. p \in Clean(Scalars)[n] /\ \E m \in Nat : n = m + 1 /\ p.items \in Seq(Clean(Scalars)[m])
    BY <1>3, <1>4
  <2>2. PICK m \in Nat : n = m + 1 /\ p.items \in Seq(Clean(Scalars)[m])
    BY <2>1
  <2> DEFINE s == [i \in DOMAIN p.items |-> NoNodePort(p.items[i])]
  <2>3. r = SetArray(s)
    <3>1. ~IsMap(p)
      BY <1>4 DEF IsMap, IsArray
    <3> QED
      BY <1>4, <3>1 DEF NoNodePorts, MapReduceValue
  <2>4. \A i \in DOMAIN s : /\ s[i] \in Clean(Scalars)[m] /\ Lookup(s[i], "nodePort") = Null
                            /\ ~Failed(s[i]) /\ s[i] # Null
    <3>1. ASSUME NEW i \in DOMAIN s
          PROVE  /\ s[i] \in Clean(Scalars)[m] /\ Lookup(s[i], "nodePort") = Null
                 /\ ~Failed(s[i]) /\ s[i] # Null
      <4>1. p.items[i] \in Clean(Scalars)[m] /\ s[i] = deleteKeys(p.items[i], {"nodePort"})
        BY <2>2 DEF NoNodePort
      <4>2. /\ deleteKeys(p.items[i], {"nodePort"}) \in Clean(Scalars)[m]
            /\ \A k \in {"nodePort"} : k \in Key => Lookup(deleteKeys(p.items[i], {"nodePort"}), k) = Null
        BY <1>1, <4>1, CleanDelete
      <4> QED
        BY <1>1, <4>1, <4>2, CleanFacts
    <3> QED
      BY <3>1
  <2>5. s \in Seq(Clean(Scalars)[m])
    <3>1. DOMAIN s = 1..Len(p.items) /\ Len(p.items) \in Nat
      BY <2>2
    <3>2. s \in [1..Len(p.items) -> Clean(Scalars)[m]]
      BY <2>4, <3>1
    <3> QED
      BY <3>1, <3>2, SeqOfFunction
  <2> HIDE DEF s
  <2>6. r = Array(s)
    BY <2>3, <2>4, SetArrayCases
  <2>7. Array(s) \in Clean(Scalars)[n]
    <3>1. Scalars \ {Null} = Scalars /\ Clean(Scalars) = Trees(Scalars, {})
      BY JSONFamily
    <3> QED
      BY <2>2, <2>5, <3>1, TreeArray
  <2>8. Array(s).items = s /\ ~IsMap(Array(s)) /\ ~IsMap(p)
    BY <1>4 DEF Array, IsMap, IsArray
  <2>9. Len(s) = Len(p.items) /\ \A i \in DOMAIN s : s[i] = NoNodePort(p.items[i])
    <3>1. DOMAIN s = 1..Len(p.items) /\ Len(p.items) \in Nat
      BY <2>2 DEF s
    <3>2. Len(s) = Len(p.items)
      BY <2>5, <3>1
    <3> QED
      BY <3>2 DEF s
  <2>10. \A k \in Key : Lookup(Array(s), k) = Null /\ Lookup(p, k) = Null
    BY <2>8 DEF Lookup
  <2> HIDE DEF r
  <2>11. /\ r \in Clean(Scalars)[n]
         /\ \A i \in DOMAIN r.items : Lookup(r.items[i], "nodePort") = Null
         /\ Len(r.items) = Len(p.items)
         /\ \A i \in DOMAIN r.items : r.items[i] = NoNodePort(p.items[i])
    BY <2>4, <2>6, <2>7, <2>8, <2>9
  <2>12. \A k \in Key : Lookup(r, k) = NoNodePort(Lookup(p, k))
    BY <1>1, <2>6, <2>10
  <2> QED
    BY <1>4, <2>11, <2>12 DEF r
<1>5. CASE IsMap(p)
  <2>1. ~IsArray(p)
    BY <1>5 DEF IsMap, IsArray
  <2>2. p \in Clean(Scalars)[n] /\ \E m \in Nat : n = m + 1 /\ p.at \in [Key -> {Absent} \cup Clean(Scalars)[m]]
    BY <1>3, <1>5
  <2>3. PICK m \in Nat : n = m + 1 /\ p.at \in [Key -> {Absent} \cup Clean(Scalars)[m]]
    BY <2>2
  <2> DEFINE f == [k \in Key |-> IF p.at[k] = Absent THEN Absent ELSE NoNodePort(p.at[k])]
             g == [k \in Key |-> IF f[k] = Null THEN Absent ELSE f[k]]
  <2>4. r = SetMap(f)
    BY <1>5, <2>1 DEF NoNodePorts, MapReduceValue
  <2>5. \A k \in Key : f[k] \in {Absent} \cup Clean(Scalars)[m] /\ ~Failed(f[k]) /\ f[k] # Null
    <3>1. ASSUME NEW k \in Key
          PROVE  f[k] \in {Absent} \cup Clean(Scalars)[m] /\ ~Failed(f[k]) /\ f[k] # Null
      <4>1. CASE p.at[k] = Absent
        BY <4>1 DEF Failed, Absent, Null
      <4>2. CASE p.at[k] # Absent
        <5>1. p.at[k] \in Clean(Scalars)[m] /\ f[k] = deleteKeys(p.at[k], {"nodePort"})
          BY <2>3, <4>2 DEF NoNodePort
        <5>2. deleteKeys(p.at[k], {"nodePort"}) \in Clean(Scalars)[m]
          BY <1>1, <5>1, CleanDelete
        <5> QED
          BY <1>1, <5>1, <5>2, CleanFacts
      <4> QED
        BY <4>1, <4>2
    <3> QED
      BY <3>1
  <2>6. g \in [Key -> {Absent} \cup {} \cup Trees(Scalars, {})[m]]
    BY <2>5, JSONFamily
  <2>7. r = Map(g)
    <3> HIDE DEF f
    <3> QED
      BY <2>4, <2>5, SetMapCases
  <2>8. Map(g) \in Clean(Scalars)[n] /\ ~IsArray(Map(g))
    <3> HIDE DEF g
    <3>1. Map(g) \in Clean(Scalars)[n]
      BY <2>3, <2>6, TreeMap, JSONFamily
    <3>2. ~IsArray(Map(g))
      BY DEF IsArray, Map
    <3> QED
      BY <3>1, <3>2
  <2>9. ASSUME NEW k \in Key PROVE Lookup(Map(g), k) = NoNodePort(Lookup(p, k))
    <3>1. f[k] # Null /\ g[k] = f[k] /\ Map(g).at[k] = g[k] /\ IsMap(Map(g))
      BY <2>5 DEF Map, IsMap
    <3>2. CASE p.at[k] = Absent
      <4>1. g[k] = Absent
        BY <3>1, <3>2, SMTT(30)
      <4>2. Lookup(Map(g), k) = Null /\ Lookup(p, k) = Null
        BY <3>1, <3>2, <4>1 DEF Lookup
      <4> QED
        BY <1>1, <4>2
    <3>3. CASE p.at[k] # Absent
      <4>1. Lookup(p, k) = p.at[k] /\ f[k] = NoNodePort(p.at[k])
        BY <1>5, <3>3 DEF Lookup
      <4>2. f[k] # Absent
        <5>1. p.at[k] \in Clean(Scalars)[m]
          BY <2>3, <3>3
        <5>2. deleteKeys(p.at[k], {"nodePort"}) \in Clean(Scalars)[m]
          BY <1>1, <5>1, CleanDelete, SMTT(30)
        <5> QED
          BY <1>1, <4>1, <5>2, CleanFacts DEF NoNodePort
      <4>3. Lookup(Map(g), k) = f[k]
        BY <3>1, <4>2 DEF Lookup
      <4> QED
        BY <4>1, <4>3
    <3> QED
      BY <3>2, <3>3
  <2> HIDE DEF g
  <2> QED
    BY <2>7, <2>8, <2>9
<1> QED
  BY <1>2, <1>4, <1>5

\* A clean object with another spec.
LEMMA PutObject ==
  ASSUME NEW v \in Objects(Clean(Scalars)[Depth]), NEW k \in Key \ {"metadata"},
         NEW x \in Clean(Scalars)[Depth - 1] \cup {Null}
  PROVE  LET r == Put(v, k, x)
         IN  /\ r \in Objects(Clean(Scalars)[Depth])
             /\ \A j \in Key \ {k} : Lookup(r, j) = Lookup(v, j)
             /\ Lookup(r, k) = x
<1> DEFINE r == Put(v, k, x)
           y == IF x = Null THEN Absent ELSE x
           a == Depth - 1
<1>1. a \in Nat /\ Depth = a + 1 /\ "metadata" \in Key /\ Scalars \in SUBSET Leaves
  BY KeyFacts, JSONFamily
<1>2. IsMap(v) /\ v.at \in [Key -> {Absent} \cup Clean(Scalars)[a]] /\ DOMAIN v.at = Key
      /\ (\A j \in Key : Lookup(v, j) = IF v.at[j] = Absent THEN Null ELSE v.at[j])
      /\ IsMap(Lookup(v, "metadata"))
  BY <1>1, CleanObject
<1>3. ~Failed(x) /\ x # Absent
  <2>1. \A z \in Clean(Scalars)[a] : ~Failed(z) /\ z # Absent
    BY <1>1, CleanFacts
  <2> QED
    BY <2>1 DEF Failed, Null, Absent
<1>4. r = With(v, k, y)
  BY <1>1, <1>2, <1>3, PutClean
<1>5. With(v, k, y) \in Clean(Scalars)[Depth]
  <2>1. y \in Clean(Scalars)[a] \cup {Absent}
    OBVIOUS
  <2> HIDE DEF y
  <2> QED
    BY <1>1, <1>2, <2>1, CleanWith
<1>6. /\ IsMap(With(v, k, y))
      /\ \A j \in Key : Lookup(With(v, k, y), j) =
           IF j = k THEN IF y = Absent THEN Null ELSE y ELSE IF v.at[j] = Absent THEN Null ELSE v.at[j]
  <2> HIDE DEF y
  <2> QED
    BY <1>2, WithFacts
<1> QED
  BY <1>1, <1>2, <1>3, <1>4, <1>5, <1>6 DEF Objects

\* A Service is left without cluster IP and node ports, or fails for want of
\* ports (reconciler.go:174).
LEMMA ForServiceFacts ==
  ASSUME NEW v \in Objects(Clean(Scalars)[Depth])
  PROVE  LET r == ForService(v)
         IN  \/ r = Error /\ ~IsArray(Fetch(v, "spec", "ports"))
             \/ /\ r \in Objects(Clean(Scalars)[Depth])
                /\ \A k \in Key \ {"spec"} : Lookup(r, k) = Lookup(v, k)
                /\ Fetch(r, "spec", "clusterIP") = Null
                /\ IsArray(Fetch(r, "spec", "ports")) =>
                     \A i \in DOMAIN Fetch(r, "spec", "ports").items :
                       Lookup(Fetch(r, "spec", "ports").items[i], "nodePort") = Null
                /\ IsMap(Lookup(r, "spec")) /\ IsMap(Lookup(v, "spec"))
                /\ Fetch(r, "spec", "ports") = NoNodePorts(Fetch(v, "spec", "ports"))
                /\ \A k \in Key \ {"clusterIP", "ports"} : Fetch(r, "spec", k) = Fetch(v, "spec", k)
<1> DEFINE r == ForService(v)
           spec == Lookup(v, "spec")
           first == Put(v, "spec", NoClusterIP(spec))
           O == Objects(Clean(Scalars)[Depth])
           a == Depth - 1
           b == Depth - 2
<1>1. a \in Nat /\ b \in Nat /\ Depth = a + 1 /\ a = b + 1 /\ Scalars \in SUBSET Leaves
      /\ {"metadata", "spec", "ports", "clusterIP"} \subseteq Key
  BY KeyFacts, JSONFamily
<1>2. v \in Clean(Scalars)[Depth] /\ IsMap(v) /\ ~Failed(v) /\ DeepCopy(v) = v
      /\ v.at \in [Key -> {Absent} \cup Clean(Scalars)[a]]
      /\ spec \in Clean(Scalars)[a] \cup {Null}
  BY <1>1, CleanObject, CleanCopy
<1>3. r = ReduceNested2(first, "spec", "ports", NoNodePorts)
  BY <1>2 DEF ForService, ReduceNested
<1> HIDE DEF r, first
<1>4. CASE ~IsMap(spec)
  <2>1. ~Failed(spec)
    <3>1. \A z \in Clean(Scalars)[a] : ~Failed(z)
      BY <1>1, CleanFacts
    <3> QED
      BY <1>2, <3>1 DEF Failed, Null
  <2>2. NoClusterIP(spec) = Error /\ Failed(Error)
    BY <1>4, <2>1 DEF NoClusterIP, FilterKey, Failed, Error
  <2>3. first = Error
    <3>1. Put(v, "spec", NoClusterIP(spec)) =
            IF Failed(NoClusterIP(spec)) THEN NoClusterIP(spec)
            ELSE With(v, "spec", IF NoClusterIP(spec) = Null THEN Absent ELSE NoClusterIP(spec))
      BY <1>1, <1>2, PutClean
    <3> QED
      BY <2>2, <3>1 DEF first
  <2>4. r = Error
    BY <1>3, <2>2, <2>3 DEF ReduceNested2
  <2>5. ~IsArray(Fetch(v, "spec", "ports"))
    BY <1>4 DEF Fetch, Lookup, IsArray, Null
  <2> QED
    BY <2>4, <2>5 DEF r
<1>5. CASE IsMap(spec)
  <2> DEFINE s == Without(spec, {"clusterIP"})
             p == Lookup(s, "ports")
             x == NoNodePorts(p)
             end == Put(s, "ports", x)
  <2>1. spec \in Clean(Scalars)[b + 1] /\ spec.at \in [Key -> {Absent} \cup Clean(Scalars)[b]]
    <3>1. spec \in Clean(Scalars)[b + 1]
      BY <1>1, <1>2, <1>5 DEF IsMap, Null
    <3> QED
      BY <1>1, <1>5, <3>1, CleanMap
  <2>2. s \in Clean(Scalars)[b + 1] /\ IsMap(s) /\ Lookup(s, "clusterIP") = Null
        /\ p = Lookup(spec, "ports") /\ s \in Clean(Scalars)[a]
        /\ \A j \in Key \ {"clusterIP"} : Lookup(s, j) = Lookup(spec, j)
    <3>1. s \in Clean(Scalars)[b + 1]
      BY <1>1, <2>1, CleanWithout
    <3>2. IsMap(s) /\ \A j \in Key : Lookup(s, j) =
              IF j \in {"clusterIP"} \/ spec.at[j] = Absent THEN Null ELSE spec.at[j]
      BY WithoutFacts
    <3>3. \A j \in Key : Lookup(spec, j) = IF spec.at[j] = Absent THEN Null ELSE spec.at[j]
      BY <1>5 DEF Lookup
    <3> QED
      BY <1>1, <3>1, <3>2, <3>3
  <2> HIDE DEF s
  <2>3. NoClusterIP(spec) = s
    BY <1>5 DEF NoClusterIP, FilterKey, s, Failed, IsMap
  <2>4. /\ first \in O
        /\ \A j \in Key \ {"spec"} : Lookup(first, j) = Lookup(v, j)
        /\ Lookup(first, "spec") = s
    <3>1. s \in Clean(Scalars)[Depth - 1] \cup {Null} /\ "spec" \in Key \ {"metadata"}
      BY <1>1, <2>2
    <3> QED
      BY <2>3, <3>1, PutObject DEF first
  <2>5. r = Put(first, "spec", end)
    <3>1. DeepCopy(first) = first /\ ~Failed(first)
      BY <1>1, <2>4, CleanObject, CleanCopy
    <3> QED
      BY <1>3, <2>4, <3>1 DEF ReduceNested2
  <2>6. p \in Clean(Scalars)[b] \cup {Null}
    BY <1>1, <2>2, CleanMap
  <2>7. s.at \in [Key -> {Absent} \cup Clean(Scalars)[b]]
    BY <1>1, <2>2, CleanMap
  <2>8. end = IF Failed(x) THEN x ELSE With(s, "ports", IF x = Null THEN Absent ELSE x)
    <3> HIDE DEF x
    <3> QED
      BY <1>1, <2>2, <2>7, PutClean
  <2>9. CASE x = Error /\ ~IsArray(p)
    <3>1. Failed(Error)
      BY DEF Failed, Error
    <3>2. end = Error
      BY <2>8, <2>9, <3>1
    <3> HIDE DEF end
    <3>3. IsMap(first) /\ first.at \in [Key -> {Absent} \cup Clean(Scalars)[a]]
      BY <1>1, <2>4, CleanObject
    <3>4. Put(first, "spec", end) = IF Failed(end) THEN end ELSE With(first, "spec", IF end = Null THEN Absent ELSE end)
      BY <1>1, <3>3, PutClean
    <3>5. r = Error
      BY <2>5, <3>1, <3>2, <3>4
    <3>6. p = Fetch(v, "spec", "ports")
      BY <2>2 DEF Fetch
    <3> QED
      BY <2>9, <3>5, <3>6 DEF r
  <2>10. CASE /\ x \in Clean(Scalars)[b]
              /\ IsArray(x) => \A i \in DOMAIN x.items : Lookup(x.items[i], "nodePort") = Null
    <3> HIDE DEF x
    <3>1. ~Failed(x) /\ x # Null /\ x # Absent
      BY <1>1, <2>10, CleanFacts
    <3>2. end = With(s, "ports", x)
      BY <2>8, <3>1
    <3> HIDE DEF end
    <3>3. end \in Clean(Scalars)[a] /\ IsMap(end)
      <4>1. With(s, "ports", x) \in Clean(Scalars)[b + 1]
        BY <1>1, <2>7, <2>10, CleanWith
      <4>2. IsMap(With(s, "ports", x))
        BY <1>1, <2>7, WithFacts
      <4> QED
        BY <1>1, <3>2, <4>1, <4>2
    <3>4. /\ Lookup(end, "ports") = x /\ Lookup(end, "clusterIP") = Null
          /\ \A j \in Key \ {"clusterIP", "ports"} : Lookup(end, j) = Lookup(spec, j)
      <4>1. \A j \in Key : Lookup(With(s, "ports", x), j) =
              IF j = "ports" THEN IF x = Absent THEN Null ELSE x ELSE IF s.at[j] = Absent THEN Null ELSE s.at[j]
        BY <1>1, <2>7, WithFacts
      <4>2. (IF s.at["clusterIP"] = Absent THEN Null ELSE s.at["clusterIP"]) = Null
        BY <2>2 DEF Lookup
      <4>3. \A j \in Key : Lookup(s, j) = IF s.at[j] = Absent THEN Null ELSE s.at[j]
        BY <2>2 DEF Lookup
      <4>4. \A j \in Key \ {"clusterIP", "ports"} : Lookup(end, j) = Lookup(spec, j)
        BY <2>2, <3>2, <4>1, <4>3
      <4> QED
        BY <1>1, <3>1, <3>2, <4>1, <4>2, <4>4
    <3>5. /\ r \in O
          /\ \A j \in Key \ {"spec"} : Lookup(r, j) = Lookup(first, j)
          /\ Lookup(r, "spec") = end
      <4>1. end \in Clean(Scalars)[Depth - 1] \cup {Null} /\ "spec" \in Key \ {"metadata"}
        BY <1>1, <3>3
      <4> QED
        BY <2>4, <2>5, <4>1, PutObject
    <3>6. /\ Fetch(r, "spec", "ports") = x /\ Fetch(r, "spec", "clusterIP") = Null
          /\ \A j \in Key \ {"clusterIP", "ports"} : Fetch(r, "spec", j) = Fetch(v, "spec", j)
      BY <3>4, <3>5 DEF Fetch
    <3>7. \A j \in Key \ {"spec"} : Lookup(r, j) = Lookup(v, j)
      BY <2>4, <3>5
    <3>8. x = NoNodePorts(Fetch(v, "spec", "ports")) /\ IsMap(Lookup(r, "spec")) /\ IsMap(Lookup(v, "spec"))
      BY <1>5, <2>2, <3>3, <3>5 DEF Fetch, x
    <3> QED
      BY <2>10, <3>5, <3>6, <3>7, <3>8 DEF r
  <2>11. \/ x = Error /\ ~IsArray(p)
         \/ /\ x \in Clean(Scalars)[b]
            /\ IsArray(x) => \A i \in DOMAIN x.items : Lookup(x.items[i], "nodePort") = Null
    <3> HIDE DEF p
    <3> QED
      BY <1>1, <2>6, PortsFacts
  <2> QED
    BY <2>9, <2>10, <2>11
<1> QED
  BY <1>4, <1>5

-----------------------------------------------------------------------------
(* The comparable copy keeps the shape of a document                       *)

\* Comparable copies are documents.
LEMMA CompactTyped ==
  ASSUME NEW fn \in {"copy", "marshal"}
  PROVE  \A n \in Nat : Compacts(n, Compact(fn)[n])
<1> DEFINE S == {n \in Nat : Compacts(n, Compact(fn)[n])}
<1>1. 0 \in S
  BY CompactLevels, CompactLevelTyped
<1>2. ASSUME NEW n \in S PROVE n + 1 \in S
  BY <1>2, CompactLevels, CompactLevelTyped
<1>3. S = Nat
  <2>1. S \in SUBSET Nat
    OBVIOUS
  <2> HIDE DEF S
  <2> QED
    BY <1>1, <1>2, <2>1, SetInduction
<1> QED
  BY <1>3

\* A null is its own comparable copy.
LEMMA CompactNull ==
  ASSUME NEW n \in Nat
  PROVE  /\ Null \in JSON[n]
         /\ Compact("copy")[n][Null] = Null
<1>1. Null \in JSON[n]
  BY TreeLeaf DEF JSON
<1>2. Walk("copy")[n][Null] = Null
  BY <1>1, JSONWalk
<1> QED
  BY <1>1, <1>2, WalkIsCompact DEF Failed, Null

CompactedMap(below, v) ==
  Map([k \in Key |-> IF v.at[k] \in {Null, Absent} THEN Absent ELSE below[v.at[k]]])

\* The copy of a map, of an array and of what is neither.
LEMMA CompactCases ==
  ASSUME NEW n \in Nat, NEW v \in Document[n + 1]
  PROVE  LET c == Compact("copy")[n + 1][v]
             C == Compact("copy")[n]
         IN  \/ /\ IsMap(v) /\ IsMap(c) /\ ~IsArray(v) /\ ~IsArray(c)
                /\ v.at \in [Key -> {Absent} \cup Document[n]]
                /\ \A k \in Key : c.at[k] = IF v.at[k] \in {Null, Absent} THEN Absent ELSE C[v.at[k]]
                /\ \A k \in Key : v.at[k] # Absent => C[v.at[k]] \in Document[n]
             \/ /\ IsArray(v) /\ IsArray(c) /\ ~IsMap(v) /\ ~IsMap(c)
                /\ v.items \in Seq(Document[n])
                /\ DOMAIN c.items = DOMAIN v.items
                /\ \A i \in DOMAIN v.items : c.items[i] = C[v.items[i]]
             \/ /\ ~IsMap(v) /\ ~IsArray(v) /\ c = v /\ v \in Leaves
<1> DEFINE c == Compact("copy")[n + 1][v]
           C == Compact("copy")[n]
<1>1. c = CompactOne("copy", C, v)
  BY CompactAtOne
<1>2. Compacts(n, C)
  BY CompactTyped
<1> HIDE DEF c, C
<1>3. CASE v \in Leaves /\ ~IsMap(v) /\ ~IsArray(v)
  <2>1. c = Apply("copy", v)
    BY <1>1, <1>3 DEF CompactOne
  <2>2. Apply("copy", v) = v
    BY DEF Apply
  <2> QED
    BY <1>3, <2>1, <2>2 DEF c
<1>4. CASE IsMap(v) /\ ~IsArray(v) /\ v.at \in [Key -> {Absent} \cup Document[n]]
  <2>1. c = CompactedMap(C, v)
    BY <1>1, <1>4 DEF CompactOne, CompactedMap
  <2>2. c.is = "map" /\ \A k \in Key : c.at[k] = IF v.at[k] \in {Null, Absent} THEN Absent ELSE C[v.at[k]]
    BY <2>1 DEF CompactedMap, Map
  <2>3. \A k \in Key : v.at[k] # Absent => C[v.at[k]] \in Document[n]
    BY <1>2, <1>4 DEF Compacts
  <2>4. IsMap(c) /\ ~IsArray(c)
    BY <2>2 DEF IsMap, IsArray
  <2> QED
    BY <1>4, <2>2, <2>3, <2>4 DEF c, C
<1>5. CASE IsArray(v) /\ ~IsMap(v) /\ v.items \in Seq(Document[n])
  <2>1. c = Array(EachItem(C, v))
    BY <1>1, <1>5 DEF CompactOne
  <2>2. c.is = "array" /\ c.items = EachItem(C, v)
    BY <2>1 DEF Array
  <2>3. IsArray(c) /\ ~IsMap(c)
    BY <2>2 DEF IsMap, IsArray
  <2>4. DOMAIN c.items = DOMAIN v.items /\ \A i \in DOMAIN v.items : c.items[i] = C[v.items[i]]
    BY <2>2 DEF EachItem
  <2> QED
    BY <1>5, <2>3, <2>4 DEF c, C
<1> QED
  BY <1>3, <1>4, <1>5, DocumentCases

\* A comparable copy is a map, or an array, if the document is.
LEMMA CompactKind ==
  ASSUME NEW n \in Nat, NEW v \in Document[n]
  PROVE  /\ IsMap(Compact("copy")[n][v]) <=> IsMap(v)
         /\ IsArray(Compact("copy")[n][v]) <=> IsArray(v)
<1>1. CASE n = 0
  <2>1. Compact("copy")[0][v] = v
    <3>1. Compact("copy")[0][v] = Apply("copy", v)
      BY <1>1, CompactAtZero
    <3> QED
      BY <3>1 DEF Apply
  <2> QED
    BY <1>1, <2>1
<1>2. CASE n # 0
  <2>1. PICK m \in Nat : n = m + 1
    <3>1. n - 1 \in Nat /\ n = (n - 1) + 1
      BY <1>2
    <3> QED
      BY <3>1
  <2>2. v \in Document[m + 1]
    BY <2>1
  <2>3. /\ IsMap(Compact("copy")[m + 1][v]) <=> IsMap(v)
        /\ IsArray(Compact("copy")[m + 1][v]) <=> IsArray(v)
    BY <2>2, CompactCases
  <2> QED
    BY <2>1, <2>3
<1> QED
  BY <1>1, <1>2

\* And has the comparable copy of what the document has for a key.
LEMMA CompactLookup ==
  ASSUME NEW n \in Nat, NEW v \in Document[n + 1], NEW k \in Key
  PROVE  Lookup(Compact("copy")[n + 1][v], k) = Compact("copy")[n][Lookup(v, k)]
<1> DEFINE c == Compact("copy")[n + 1][v]
           C == Compact("copy")[n]
<1>1. C[Null] = Null
  BY CompactNull
<1>2. CASE IsMap(v)
  <2>1. /\ IsMap(c)
        /\ c.at[k] = IF v.at[k] \in {Null, Absent} THEN Absent ELSE C[v.at[k]]
        /\ v.at[k] # Absent => C[v.at[k]] \in Document[n]
    BY <1>2, CompactCases
  <2>2. Absent \notin Document[n]
    <3>1. \A x \in Values(Leaves, {}, n) : x # Absent
      BY AnyFamily, ValueCases
    <3> QED
      BY <3>1, AnyFamily
  <2> HIDE DEF c, C
  <2>3. ASSUME v.at[k] = Absent PROVE Lookup(c, k) = C[Lookup(v, k)]
    BY <1>1, <1>2, <2>1, <2>3 DEF Lookup
  <2>4. ASSUME v.at[k] = Null PROVE Lookup(c, k) = C[Lookup(v, k)]
    BY <1>1, <1>2, <2>1, <2>4 DEF Lookup
  <2>5. ASSUME v.at[k] \notin {Null, Absent} PROVE Lookup(c, k) = C[Lookup(v, k)]
    BY <1>2, <2>1, <2>2, <2>5 DEF Lookup
  <2>6. Lookup(c, k) = C[Lookup(v, k)]
    BY <2>3, <2>4, <2>5
  <2> QED
    BY <2>6 DEF c, C
<1>3. CASE ~IsMap(v)
  <2>1. ~IsMap(c)
    BY <1>3, CompactCases
  <2> QED
    BY <1>1, <1>3, <2>1 DEF Lookup
<1> QED
  BY <1>2, <1>3

-----------------------------------------------------------------------------
(* The patch                                                               *)

Breaks(v) == v # Absent /\ v \notin NoNullElement[Depth]
NoPorts == gvk = "Service" /\ original # Absent /\ ~IsArray(Fetch(original, "spec", "ports"))

CarriesNothing(v) ==
  /\ Lookup(v, "status") = Null
  /\ \A k \in ServerKeys : Fetch(v, "metadata", k) = Null
  /\ gvk = "Service" =>
       /\ Fetch(v, "spec", "clusterIP") = Null
       /\ IsArray(Fetch(v, "spec", "ports")) =>
            \A i \in DOMAIN Fetch(v, "spec", "ports").items :
              Lookup(Fetch(v, "spec", "ports").items[i], "nodePort") = Null

\* Fetching the ports is looking them up in the spec.
LEMMA SpecPorts ==
  ASSUME original \in Originals, NEW r, Lookup(r, "spec") = Compact("copy")[Depth - 1][Lookup(original, "spec")]
  PROVE  IsArray(Fetch(r, "spec", "ports")) <=> IsArray(Fetch(original, "spec", "ports"))
<1> DEFINE a == Depth - 1
           b == Depth - 2
           s == Lookup(original, "spec")
<1>1. a \in Nat /\ b \in Nat /\ Depth = a + 1 /\ a = b + 1 /\ {"spec", "ports"} \subseteq Key
  BY KeyFacts
<1>2. original \in JSON[a + 1]
  BY <1>1, DocumentsAssumption DEF Objects
<1>3. s \in JSON[b + 1]
  BY <1>1, <1>2, JSONLookup
<1>4. s \in Document[b + 1] /\ Lookup(s, "ports") \in Document[b]
  BY <1>1, <1>3, JSONLookup, JSONFamily
<1>5. Lookup(r, "spec") = Compact("copy")[b + 1][s]
  BY <1>1
<1> HIDE DEF s
<1>6. Lookup(Compact("copy")[b + 1][s], "ports") = Compact("copy")[b][Lookup(s, "ports")]
  BY <1>1, <1>4, CompactLookup
<1>7. IsArray(Compact("copy")[b][Lookup(s, "ports")]) <=> IsArray(Lookup(s, "ports"))
  BY <1>1, <1>4, CompactKind
<1> QED
  BY <1>5, <1>6, <1>7 DEF Fetch, s

\* What a new object is copied from carries no identity; it fails only for want
\* of ports, and panics only for a null in an array.
LEMMA CopiedFacts ==
  ASSUME original \in Originals \cup {Absent}
  PROVE  \/ Copied = Null /\ original = Absent
         \/ Copied = Panic /\ Breaks(original)
         \/ Copied = Error /\ NoPorts
         \/ Copied \in Objects(Clean(Scalars)[Depth]) /\ CarriesNothing(Copied)
<1> DEFINE c == FromOriginal(Null)
<1>1. CASE original = Absent
  BY <1>1 DEF Copied
<1>2. CASE original # Absent
  <2>1. original \in Originals
    BY <1>2
  <2>2. \/ c = Panic /\ original \notin NoNullElement[Depth]
        \/ /\ c \in Objects(Clean(Scalars)[Depth])
           /\ Lookup(c, "status") = Null
           /\ \A k \in ServerKeys : Fetch(c, "metadata", k) = Null
           /\ Lookup(c, "spec") = Compact("copy")[Depth - 1][Lookup(original, "spec")]
    BY <2>1, FromOriginalFacts, KeyFacts
  <2>3. Copied = IF gvk = "Service" THEN ForService(c) ELSE c
    BY <1>2 DEF Copied
  <2> HIDE DEF c
  <2>4. CASE c = Panic /\ original \notin NoNullElement[Depth]
    <3>1. Failed(Panic)
      BY DEF Failed, Panic
    <3>2. ReduceNested(Panic, "spec", NoClusterIP) = Panic
      BY <3>1 DEF ReduceNested
    <3>3. ReduceNested2(Panic, "spec", "ports", NoNodePorts) = Panic
      BY <3>1 DEF ReduceNested2
    <3>4. ForService(Panic) = Panic
      BY <3>2, <3>3 DEF ForService
    <3> QED
      BY <1>2, <2>3, <2>4, <3>4 DEF Breaks
  <2>5. CASE /\ c \in Objects(Clean(Scalars)[Depth])
             /\ Lookup(c, "status") = Null
             /\ \A k \in ServerKeys : Fetch(c, "metadata", k) = Null
             /\ Lookup(c, "spec") = Compact("copy")[Depth - 1][Lookup(original, "spec")]
    <3>1. CASE gvk # "Service"
      BY <2>3, <2>5, <3>1 DEF CarriesNothing
    <3>2. CASE gvk = "Service"
      <4>1. Copied = ForService(c)
        BY <2>3, <3>2
      <4>2. \/ Copied = Error /\ ~IsArray(Fetch(c, "spec", "ports"))
            \/ /\ Copied \in Objects(Clean(Scalars)[Depth])
               /\ \A k \in Key \ {"spec"} : Lookup(Copied, k) = Lookup(c, k)
               /\ Fetch(Copied, "spec", "clusterIP") = Null
               /\ IsArray(Fetch(Copied, "spec", "ports")) =>
                    \A i \in DOMAIN Fetch(Copied, "spec", "ports").items :
                      Lookup(Fetch(Copied, "spec", "ports").items[i], "nodePort") = Null
        BY <2>5, <4>1, ForServiceFacts
      <4>3. ASSUME ~IsArray(Fetch(c, "spec", "ports")) PROVE NoPorts
        BY <1>2, <2>1, <2>5, <3>2, <4>3, SpecPorts DEF NoPorts
      <4>4. ASSUME \A k \in Key \ {"spec"} : Lookup(Copied, k) = Lookup(c, k)
            PROVE  Lookup(Copied, "status") = Null /\ \A k \in ServerKeys : Fetch(Copied, "metadata", k) = Null
        BY <2>5, <4>4, KeyFacts DEF Fetch
      <4> QED
        BY <4>2, <4>3, <4>4 DEF CarriesNothing
    <3> QED
      BY <3>1, <3>2
  <2> QED
    BY <2>2, <2>4, <2>5
<1> QED
  BY <1>1, <1>2

\* What the set's resource is merged into.
Base == IF applied = Absent THEN Copied ELSE mergeResource(Copied, applied)

\* The rendered resource is merged last.
LEMMA MergedIs ==
  ASSUME NEW rendered
  PROVE  Merged(applied, Copied, rendered) = mergeResource(Base, rendered)
BY DEF Merged, Base

\* A clean object is an object of JSON without nulls.
LEMMA CleanObjects ==
  /\ Objects(Clean(Scalars)[Depth]) \subseteq Objects(JSON[Depth])
  /\ Objects(Clean(Scalars)[Depth]) \subseteq NoNullElement[Depth]
  /\ \A v \in Objects(Clean(Scalars)[Depth]) : ~Failed(v) /\ ~Breaks(v)
<1>1. Clean(Scalars)[Depth] \subseteq JSON[Depth] /\ Clean(Scalars)[Depth] \subseteq NoNullElement[Depth]
  BY JSONFamily, KeyFacts, NoNullFacts
<1>2. \A v \in NoNullElement[Depth] : ~Failed(v)
  BY NoNullFacts
<1> QED
  BY <1>1, <1>2 DEF Objects, Breaks

\* What the rendered resource is merged over.
LEMMA BaseFacts ==
  ASSUME original \in Originals \cup {Absent}, applied \in Objects(JSON[Depth]) \cup {Absent}
  PROVE  \/ Base = Null /\ original = Absent /\ applied = Absent
         \/ Base = Panic /\ (Breaks(original) \/ Breaks(applied))
         \/ Base = Error /\ NoPorts
         \/ Base \in Objects(JSON[Depth]) /\ (Breaks(Base) => Breaks(applied))
<1> USE DEF Base
<1>1. Failed(Panic) /\ Failed(Error) /\ ~Failed(Null)
  BY DEF Failed, Panic, Error, Null
<1>2. CASE applied = Absent
  BY <1>2, CopiedFacts, CleanObjects
<1>3. CASE applied # Absent
  <2>1. applied \in Objects(JSON[Depth])
    BY <1>3
  <2>2. \A v : Failed(v) => mergeResource(v, applied) = v
    BY DEF mergeResource
  <2>3. CASE Copied = Null
    <3>1. mergeResource(Null, applied) = applied
      BY <2>1, ObjectFacts, MergeOfNull
    <3> QED
      BY <1>3, <2>1, <2>3, <3>1
  <2>4. CASE Copied \in Objects(Clean(Scalars)[Depth])
    <3> DEFINE r == mergeResource(Copied, applied)
    <3>1. Copied \in Objects(JSON[Depth]) /\ Copied \in NoNullElement[Depth]
      BY <2>4, CleanObjects
    <3>2. /\ r = Panic \/ r \in Objects(JSON[Depth])
          /\ Copied \in NoNullElement[Depth] /\ applied \in NoNullElement[Depth] => r \in NoNullElement[Depth]
      BY <2>1, <3>1, MergedObjects
    <3>3. Panic \notin NoNullElement[Depth]
      BY <1>1, NoNullFacts
    <3> QED
      BY <1>3, <3>1, <3>2, <3>3 DEF Breaks
  <2>5. CASE Copied \in {Panic, Error}
    BY <1>1, <1>3, <2>2, <2>5, CopiedFacts, CleanObjects DEF Null, Panic, Error
  <2> QED
    BY <2>3, <2>4, <2>5, CopiedFacts
<1> QED
  BY <1>2, <1>3

\* What the merge makes of that base and the rendered resource.
LEMMA MergedFacts ==
  ASSUME original \in Originals \cup {Absent}, applied \in Objects(JSON[Depth]) \cup {Absent},
         NEW rendered \in Objects(Clean(Scalars)[Depth])
  PROVE  LET r == Merged(applied, Copied, rendered)
         IN  \/ r = Panic /\ (Breaks(original) \/ Breaks(applied))
             \/ r = Error /\ NoPorts
             \/ /\ Base = Null \/ Base \in Objects(JSON[Depth])
                /\ r = mergeResource(Base, rendered)
                /\ r \in Objects(JSON[Depth])
                /\ Breaks(r) => Breaks(applied)
<1> DEFINE r == Merged(applied, Copied, rendered)
<1>1. r = mergeResource(Base, rendered)
  BY MergedIs
<1>2. Failed(Panic) /\ Failed(Error) /\ ~Failed(Null)
  BY DEF Failed, Panic, Error, Null
<1>3. rendered \in Objects(JSON[Depth]) /\ rendered \in NoNullElement[Depth] /\ ~Breaks(rendered)
  BY CleanObjects
<1> HIDE DEF r
<1>4. CASE Base = Null
  <2>1. r = rendered
    BY <1>1, <1>3, <1>4, ObjectFacts, MergeOfNull
  <2> QED
    BY <1>1, <1>3, <1>4, <2>1 DEF r
<1>5. CASE Base \in {Panic, Error}
  <2>1. r = Base
    BY <1>1, <1>2, <1>5 DEF mergeResource
  <2>2. Base \notin Objects(JSON[Depth]) /\ Base # Null
    BY <1>2, <1>5, ObjectFacts
  <2>3. Panic # Error
    BY DEF Panic, Error
  <2> QED
    BY <1>5, <2>1, <2>2, <2>3, BaseFacts DEF r
<1>6. CASE Base \in Objects(JSON[Depth]) /\ (Breaks(Base) => Breaks(applied))
  <2>1. /\ r = Panic \/ r \in Objects(JSON[Depth])
        /\ Base \in NoNullElement[Depth] /\ rendered \in NoNullElement[Depth] => r \in NoNullElement[Depth]
    BY <1>1, <1>3, <1>6, MergedObjects
  <2>2. Panic \notin NoNullElement[Depth]
    BY <1>2, NoNullFacts
  <2>3. Base # Absent
    BY <1>6, ObjectFacts DEF IsMap, Absent
  <2> QED
    BY <1>1, <1>3, <1>6, <2>1, <2>2, <2>3 DEF Breaks, r
<1> QED
  BY <1>4, <1>5, <1>6, BaseFacts

\* What is sent: the merge without nulls, but for name, namespace and owner; or
\* why there is nothing to send.
LEMMA PatchCases ==
  ASSUME original \in Originals \cup {Absent}, applied \in Objects(JSON[Depth]) \cup {Absent},
         NEW rendered \in Objects(Clean(Scalars)[Depth])
  PROVE  LET r == Merged(applied, Copied, rendered)
             p == Patch(rendered)
         IN  \/ p = Panic /\ (Breaks(original) \/ Breaks(applied))
             \/ p = Error /\ NoPorts
             \/ /\ Base = Null \/ Base \in Objects(JSON[Depth])
                /\ r = mergeResource(Base, rendered)
                /\ r \in Objects(JSON[Depth])
                /\ p \in Objects(Clean(Scalars)[Depth])
                /\ \A k \in Key \ {"metadata"} :
                     Lookup(p, k) = Compact("copy")[Depth - 1][Lookup(r, k)]
                /\ \A k \in Key \ {"name", "namespace", "ownerReferences"} :
                     Fetch(p, "metadata", k) = Compact("copy")[Depth - 2][Fetch(r, "metadata", k)]
<1> DEFINE r == Merged(applied, Copied, rendered)
           p == Patch(rendered)
<1>1. p = DeepMapValue("normalize", Owned(r))
  BY DEF Patch, PatchOf
<1> HIDE DEF r, p
<1>2. \/ r = Panic /\ (Breaks(original) \/ Breaks(applied))
      \/ r = Error /\ NoPorts
      \/ /\ Base = Null \/ Base \in Objects(JSON[Depth])
         /\ r = mergeResource(Base, rendered)
         /\ r \in Objects(JSON[Depth])
         /\ Breaks(r) => Breaks(applied)
  BY MergedFacts DEF r
<1>3. ASSUME Failed(r) PROVE p = r
  <2>1. \A v, k, x : Failed(v) => SetNested(v, "metadata", k, x) = v
    BY SetNestedIs
  <2>2. Owned(r) = r
    BY <1>3, <2>1 DEF Owned
  <2> QED
    BY <1>1, <1>3, <2>2, FailuresPass
<1>4. CASE r \in {Panic, Error}
  <2>1. Failed(r) /\ Panic # Error
    BY <1>4 DEF Failed, Panic, Error
  <2>2. r \notin Objects(JSON[Depth])
    BY <2>1, ObjectFacts
  <2> QED
    BY <1>2, <1>3, <2>1, <2>2 DEF r, p
<1>5. CASE /\ Base = Null \/ Base \in Objects(JSON[Depth])
           /\ r = mergeResource(Base, rendered)
           /\ r \in Objects(JSON[Depth])
           /\ Breaks(r) => Breaks(applied)
  <2>1. \/ p = Panic /\ DeepCopy(r) = Panic
        \/ /\ p \in Objects(Clean(Scalars)[Depth])
           /\ \A k \in Key \ {"metadata"} : Lookup(p, k) = Compact("copy")[Depth - 1][Lookup(r, k)]
           /\ \A k \in Key \ {"name", "namespace", "ownerReferences"} :
                Fetch(p, "metadata", k) = Compact("copy")[Depth - 2][Fetch(r, "metadata", k)]
    BY <1>1, <1>5, PatchFacts
  <2>2. DeepCopy(r) = Panic => Breaks(r)
    BY <1>5, CopyPanics, ObjectFacts DEF Breaks, IsMap, Absent
  <2> QED
    BY <1>5, <2>1, <2>2 DEF r, p
<1> QED
  BY <1>2, <1>4, <1>5

-----------------------------------------------------------------------------
(* What the API server stores                                              *)

\* A clean object with one key of its spec set.
LEMMA WithSpec ==
  ASSUME NEW v \in Objects(Clean(Scalars)[Depth]), NEW k \in Key, NEW x \in Clean(Scalars)[Depth - 2],
         IsMap(Lookup(v, "spec"))
  PROVE  LET s == With(v.at["spec"], k, x)
             r == With(v, "spec", s)
         IN  /\ r \in Objects(Clean(Scalars)[Depth])
             /\ \A j \in Key \ {"spec"} : Lookup(r, j) = Lookup(v, j)
             /\ Lookup(r, "spec") = s
             /\ s \in Clean(Scalars)[Depth - 1]
             /\ IsMap(s) /\ \A j \in Key \ {k} : Lookup(s, j) = Fetch(v, "spec", j)
<1> DEFINE spec == v.at["spec"]
           s == With(spec, k, x)
           r == With(v, "spec", s)
           a == Depth - 1
           b == Depth - 2
<1>1. a \in Nat /\ b \in Nat /\ Depth = a + 1 /\ a = b + 1 /\ Scalars \in SUBSET Leaves
      /\ {"metadata", "spec"} \subseteq Key
  BY KeyFacts, JSONFamily
<1>2. IsMap(v) /\ v.at \in [Key -> {Absent} \cup Clean(Scalars)[a]] /\ DOMAIN v.at = Key
      /\ (\A j \in Key : Lookup(v, j) = IF v.at[j] = Absent THEN Null ELSE v.at[j])
      /\ IsMap(Lookup(v, "metadata"))
  BY <1>1, CleanObject
<1>3. spec = Lookup(v, "spec") /\ spec \in Clean(Scalars)[b + 1] /\ IsMap(spec)
  <2>1. v.at["spec"] # Absent
    BY <1>1, <1>2 DEF IsMap, Null
  <2> QED
    BY <1>1, <1>2, <2>1
<1>4. spec.at \in [Key -> {Absent} \cup Clean(Scalars)[b]] /\ DOMAIN spec.at = Key
      /\ \A j \in Key : Lookup(spec, j) = IF spec.at[j] = Absent THEN Null ELSE spec.at[j]
  BY <1>1, <1>3, CleanMap
<1> HIDE DEF spec
<1>5. s \in Clean(Scalars)[a]
  BY <1>1, <1>4, CleanWith
<1>6. IsMap(s) /\ \A j \in Key : Lookup(s, j) =
              IF j = k THEN IF x = Absent THEN Null ELSE x ELSE IF spec.at[j] = Absent THEN Null ELSE spec.at[j]
  BY <1>4, WithFacts
<1> HIDE DEF s
<1>7. r \in Clean(Scalars)[Depth]
  BY <1>1, <1>2, <1>5, CleanWith
<1>8. s # Absent
  BY <1>1, <1>5, CleanFacts
<1>9. IsMap(r) /\ \A j \in Key : Lookup(r, j) =
              IF j = "spec" THEN IF s = Absent THEN Null ELSE s ELSE IF v.at[j] = Absent THEN Null ELSE v.at[j]
  BY <1>1, <1>2, WithFacts
<1>10. r \in Objects(Clean(Scalars)[Depth])
  BY <1>1, <1>2, <1>7, <1>9 DEF Objects
<1> QED
  BY <1>1, <1>2, <1>3, <1>4, <1>5, <1>6, <1>8, <1>9, <1>10 DEF Fetch, s, spec

\* A default is set only for a key that is not there.
LEMMA WithDefaultIs ==
  ASSUME NEW v, NEW k1 \in Key, NEW k2 \in Key, NEW x
  PROVE  \/ WithDefault(v, k1, k2, x) = v
         \/ /\ IsMap(Lookup(v, k1)) /\ v.at[k1].at[k2] = Absent
            /\ WithDefault(v, k1, k2, x) = With(v, k1, With(v.at[k1], k2, x))
<1>1. CASE IsMap(Lookup(v, k1)) /\ k2 \notin Keys(v.at[k1])
  <2>1. v.at[k1].at[k2] = Absent
    BY <1>1 DEF Keys
  <2>2. WithDefault(v, k1, k2, x) = Map([v.at EXCEPT ![k1] = Map([v.at[k1].at EXCEPT ![k2] = x])])
    BY <1>1 DEF WithDefault
  <2> QED
    BY <1>1, <2>1, <2>2 DEF With
<1>2. CASE ~(IsMap(Lookup(v, k1)) /\ k2 \notin Keys(v.at[k1]))
  BY <1>2 DEF WithDefault
<1> QED
  BY <1>1, <1>2

\* The API server stores what it is sent, but for the uid and the cluster IP
\* that it assigns.
LEMMA StoredFacts ==
  ASSUME NEW p \in Objects(Clean(Scalars)[Depth])
  PROVE  /\ Stored(p) \in Objects(Clean(Scalars)[Depth])
         /\ \A k \in Key \ {"metadata", "spec"} : Lookup(Stored(p), k) = Lookup(p, k)
         /\ \/ Lookup(Stored(p), "spec") = Lookup(p, "spec")
            \/ /\ IsMap(Lookup(p, "spec")) /\ IsMap(Lookup(Stored(p), "spec"))
               /\ Fetch(p, "spec", "clusterIP") = Null
               /\ \A j \in Key \ {"clusterIP"} : Fetch(Stored(p), "spec", j) = Fetch(p, "spec", j)
<1> DEFINE O == Objects(Clean(Scalars)[Depth])
           known == WithDefault(Decoded(p), "metadata", "uid", Scalar(ObjectUID))
           end == WithDefault(known, "spec", "clusterIP", Scalar(ClusterIP))
<1>1. {"metadata", "uid", "spec", "clusterIP"} \subseteq Key /\ Depth \in Nat /\ Depth - 2 \in Nat
      /\ Scalars \in SUBSET Leaves
  BY KeyFacts, JSONFamily
<1>2. Scalar(ObjectUID) \in Clean(Scalars)[Depth - 2] /\ Scalar(ClusterIP) \in Clean(Scalars)[Depth - 2]
  BY <1>1, ScalarFacts, ValueAssumption
<1>3. Decoded(p) = p
  BY <1>1, CompactClean DEF Decoded, Objects
<1>4. known \in O /\ \A j \in Key \ {"metadata"} : Lookup(known, j) = Lookup(p, j)
  <2>1. CASE known = p
    BY <2>1
  <2>2. CASE known = With(p, "metadata", With(p.at["metadata"], "uid", Scalar(ObjectUID)))
    <3> DEFINE r == With(p, "metadata", With(p.at["metadata"], "uid", Scalar(ObjectUID)))
    <3>1. /\ r \in O
          /\ \A j \in Key \ {"metadata"} : Lookup(r, j) = Lookup(p, j)
      BY <1>1, <1>2, MetadataWith
    <3> QED
      BY <2>2, <3>1
  <2> QED
    BY <1>1, <1>3, <2>1, <2>2, WithDefaultIs
<1> HIDE DEF known
<1>5. CASE Stored(p) = known
  BY <1>1, <1>4, <1>5
<1>6. ASSUME IsMap(Lookup(known, "spec")), known.at["spec"].at["clusterIP"] = Absent,
             Stored(p) = With(known, "spec", With(known.at["spec"], "clusterIP", Scalar(ClusterIP)))
      PROVE  /\ Stored(p) \in O
             /\ \A j \in Key \ {"spec"} : Lookup(Stored(p), j) = Lookup(known, j)
             /\ IsMap(Lookup(Stored(p), "spec"))
             /\ Fetch(known, "spec", "clusterIP") = Null
             /\ \A j \in Key \ {"clusterIP"} : Fetch(Stored(p), "spec", j) = Fetch(known, "spec", j)
  <2> DEFINE s == With(known.at["spec"], "clusterIP", Scalar(ClusterIP))
             r == With(known, "spec", s)
  <2>1. /\ r \in Objects(Clean(Scalars)[Depth])
        /\ \A j \in Key \ {"spec"} : Lookup(r, j) = Lookup(known, j)
        /\ Lookup(r, "spec") = s
        /\ IsMap(s) /\ \A j \in Key \ {"clusterIP"} : Lookup(s, j) = Fetch(known, "spec", j)
    BY <1>1, <1>2, <1>4, <1>6, WithSpec
  <2>2. Fetch(known, "spec", "clusterIP") = Null
    <3>1. Lookup(known, "spec") = known.at["spec"]
      BY <1>6 DEF Lookup, IsMap, Null
    <3> QED
      BY <1>6, <3>1 DEF Fetch, Lookup
  <2> QED
    BY <1>6, <2>1, <2>2 DEF Fetch
<1>7. \/ Stored(p) = known
      \/ /\ IsMap(Lookup(known, "spec")) /\ known.at["spec"].at["clusterIP"] = Absent
         /\ Stored(p) = With(known, "spec", With(known.at["spec"], "clusterIP", Scalar(ClusterIP)))
  <2>1. Stored(p) = known \/ Stored(p) = end
    BY DEF Stored, known
  <2> QED
    BY <1>1, <2>1, WithDefaultIs
<1>8. CASE /\ IsMap(Lookup(known, "spec")) /\ known.at["spec"].at["clusterIP"] = Absent
           /\ Stored(p) = With(known, "spec", With(known.at["spec"], "clusterIP", Scalar(ClusterIP)))
  BY <1>1, <1>4, <1>6, <1>8 DEF Fetch
<1> QED
  BY <1>5, <1>7, <1>8

\* A user leaves an object an object.
LEMMA UserEditFacts ==
  ASSUME NEW u \in Objects(JSON[Depth]), NEW o \in Objects(JSON[Depth])
  PROVE  [u EXCEPT !.at["metadata"] = o.at["metadata"]] \in Objects(JSON[Depth])
<1> DEFINE a == Depth - 1
           x == o.at["metadata"]
           f == [u.at EXCEPT !["metadata"] = x]
<1>1. a \in Nat /\ Depth = a + 1 /\ "metadata" \in Key
  BY KeyFacts
<1>2. u.at \in [Key -> {Absent} \cup JSON[a]] /\ IsMap(u) /\ x \in JSON[a] /\ IsMap(x) /\ x # Absent
  BY ObjectFacts
<1>3. u = Map(u.at)
  <2>1. u \in JSON[a + 1]
    BY <1>1, ObjectFacts
  <2> QED
    BY <1>1, <1>2, <2>1, JSONCases
<1>4. [u EXCEPT !.at["metadata"] = x] = Map(f)
  BY <1>3 DEF Map
<1>5. f \in [Key -> {Absent} \cup {} \cup Trees(JSONLeaves, {})[a]]
  BY <1>2, JSONFamily
<1>6. f["metadata"] = x
  BY <1>1, <1>2
<1> HIDE DEF f, x
<1>7. Map(f) \in JSON[Depth]
  BY <1>1, <1>5, TreeMap, JSONFamily
<1>8. IsMap(Map(f)) /\ Lookup(Map(f), "metadata") = x
  BY <1>2, <1>6 DEF Map, IsMap, Lookup
<1> QED
  BY <1>2, <1>4, <1>7, <1>8 DEF Objects, x

-----------------------------------------------------------------------------
(* What a step does                                                        *)

\* What rendering ends with in a reachable state.
LEMMA RenderedCases ==
  ASSUME TypeOK
  PROVE  \/ Rendered \in Objects(Clean(Scalars)[Depth])
         \/ Rendered = Error
         \/ Rendered = Panic /\ Breaks(desired)
<1>1. desired \in Desired
  BY DEF TypeOK
<1>2. desired # Absent
  BY <1>1, DocumentsAssumption DEF Objects, IsMap, Absent
<1> QED
  BY <1>1, <1>2, RenderedFacts DEF Breaks

\* Every Reconcile is one of five.
LEMMA ReconcileCases ==
  ASSUME TypeOK, Reconcile
  PROVE  /\ rounds < MaxRounds
         /\ \/ Fails(Rendered)
            \/ ~Failed(Rendered) /\ NotManaged
            \/ ~Failed(Rendered) /\ Fails(Patch(Rendered))
            \/ /\ ~Failed(Rendered) /\ ~Failed(Patch(Rendered))
               /\ Rendered \in Objects(Clean(Scalars)[Depth])
               /\ Patch(Rendered) \in Objects(Clean(Scalars)[Depth])
               /\ \/ Unchanged(Patch(Rendered))
                  \/ UpdateObject(Patch(Rendered))
                  \/ CreateObject(Patch(Rendered))
<1>1. Failed(Error) /\ Failed(Panic)
  BY DEF Failed, Error, Panic
<1>2. original \in Originals \cup {Absent} /\ applied \in Objects(JSON[Depth]) \cup {Absent}
  BY DEF TypeOK
<1>3. ASSUME ~Failed(Rendered) PROVE Rendered \in Objects(Clean(Scalars)[Depth])
  BY <1>1, <1>3, RenderedCases
<1>4. ASSUME ~Failed(Rendered), ~Failed(Patch(Rendered)) PROVE Patch(Rendered) \in Objects(Clean(Scalars)[Depth])
  BY <1>1, <1>2, <1>3, <1>4, PatchCases
<1> HIDE DEF TypeOK
<1>5. /\ rounds < MaxRounds
      /\ \/ Fails(Rendered)
         \/ ~Failed(Rendered) /\ NotManaged
         \/ ~Failed(Rendered) /\ Fails(Patch(Rendered))
         \/ /\ ~Failed(Rendered) /\ ~Failed(Patch(Rendered))
            /\ \/ Unchanged(Patch(Rendered))
               \/ UpdateObject(Patch(Rendered))
               \/ CreateObject(Patch(Rendered))
  BY DEF Reconcile
<1> QED
  BY <1>3, <1>4, <1>5

\* A Reconcile that fails does not succeed.
LEMMA FailsOutcome ==
  ASSUME NEW v, Failed(v)
  PROVE  v.is \in {"error", "panic"} /\ v.is \notin Success
BY DEF Failed, Success

-----------------------------------------------------------------------------
(* Types                                                                   *)

\* Every step keeps the types.
LEMMA TypeStep ==
  ASSUME TypeOK, [Next]_vars
  PROVE  TypeOK'
<1> DEFINE O == Objects(JSON[Depth])
<1>1. MaxRounds \in Nat /\ MaxEdits \in Nat
  BY BoundsAssumption
<1>2. ASSUME NEW what \in Success \cup {"none", "error", "panic", "not_managed"}, End(what),
             rounds < MaxRounds, {applied', call'} \subseteq O \cup {Absent}
      PROVE  TypeOK'
  <2>1. rounds' \in 0..MaxRounds
    <3>1. rounds \in 0..MaxRounds /\ (rounds' = 0 \/ rounds' = rounds + 1)
      BY <1>2 DEF End, TypeOK
    <3> QED
      BY <1>1, <1>2, <3>1
  <2> QED
    BY <1>2, <2>1 DEF TypeOK, End
<1>3. applied \in O \cup {Absent}
  BY DEF TypeOK
<1>4. CASE Reconcile
  <2>1. ASSUME NEW v, Fails(v) PROVE TypeOK'
    <3>1. v.is \in Success \cup {"none", "error", "panic", "not_managed"}
      BY <2>1, FailsOutcome DEF Fails
    <3>2. End(v.is) /\ rounds < MaxRounds /\ {applied', call'} \subseteq O \cup {Absent}
      BY <1>3, <1>4, <2>1, ReconcileCases DEF Fails, NoCall
    <3> QED
      BY <1>2, <3>1, <3>2
  <2>2. CASE NotManaged
    BY <1>2, <1>3, <1>4, <2>2, ReconcileCases DEF NotManaged, NoCall
  <2>3. CASE Unchanged(Patch(Rendered))
    BY <1>2, <1>3, <1>4, <2>3, ReconcileCases DEF Unchanged, NoCall, Success
  <2>4. ASSUME NEW p \in Objects(Clean(Scalars)[Depth]), NEW what \in Success, Send(p, what) PROVE TypeOK'
    <3>1. p \in O /\ Stored(p) \in O
      BY StoredFacts, CleanObjects
    <3>2. End(what) /\ {applied', call'} \subseteq O \cup {Absent}
      BY <2>4, <3>1 DEF Send
    <3> QED
      BY <1>2, <1>4, <3>2, ReconcileCases
  <2>5. "updated" \in Success /\ "created" \in Success
    BY DEF Success
  <2>6. ASSUME Patch(Rendered) \in Objects(Clean(Scalars)[Depth]),
               UpdateObject(Patch(Rendered)) \/ CreateObject(Patch(Rendered))
        PROVE  TypeOK'
    BY <2>4, <2>5, <2>6 DEF UpdateObject, CreateObject
  <2> QED
    BY <1>4, <2>1, <2>2, <2>3, <2>6, ReconcileCases
<1>5. ASSUME Edit, original' \in Originals \cup {Absent}, desired' \in Desired, gvk' = gvk,
             applied' \in O \cup {Absent}
      PROVE  TypeOK'
  <2>1. edits' \in 0..MaxEdits /\ rounds' \in 0..MaxRounds
    <3>1. edits \in 0..MaxEdits /\ edits < MaxEdits /\ edits' = edits + 1 /\ rounds' = 0
      BY <1>5 DEF Edit, TypeOK
    <3> QED
      BY <1>1, <3>1
  <2> QED
    BY <1>5, <2>1 DEF TypeOK, Edit
<1>6. ASSUME NEW d \in Desired, EditSet(d) PROVE TypeOK'
  BY <1>3, <1>5, <1>6 DEF EditSet, TypeOK
<1>7. ASSUME NEW o \in Originals, EditOriginal(o) PROVE TypeOK'
  BY <1>3, <1>5, <1>7 DEF EditOriginal, TypeOK
<1>8. ASSUME NEW u \in UserObjects, UserEdit(u) PROVE TypeOK'
  <2>1. u \in O
    BY DocumentsAssumption
  <2>2. applied # Absent => [u EXCEPT !.at["metadata"] = applied.at["metadata"]] \in O
    BY <1>3, <2>1, UserEditFacts
  <2>3. applied' \in O \cup {Absent}
    BY <1>8, <2>1, <2>2 DEF UserEdit
  <2> QED
    BY <1>5, <1>8, <2>3 DEF UserEdit, TypeOK
<1>9. CASE UNCHANGED vars
  BY <1>9 DEF TypeOK, vars
<1> QED
  BY <1>4, <1>6, <1>7, <1>8, <1>9 DEF Next

\* What is sent to the API server and what it stores is JSON, rendered and
\* normalized, and every object keeps its metadata, for any documents of any
\* depth (reconciler.go:207).
THEOREM TypeCorrect == Spec => []TypeOK
<1>1. Init => TypeOK
  BY BoundsAssumption DEF Init, TypeOK
<1>2. TypeOK /\ [Next]_vars => TypeOK'
  BY TypeStep
<1> QED
  BY <1>1, <1>2, PTL DEF Spec

-----------------------------------------------------------------------------
(* Failures                                                                *)

\* A step that does not end a Reconcile leaves no outcome behind.
LEMMA OtherSteps ==
  ASSUME [Next]_vars
  PROVE  Reconcile \/ outcome' = "none" \/ UNCHANGED vars
BY DEF Next, EditSet, EditOriginal, UserEdit, Edit

\* Every step that fails has its reason in the state before.
LEMMA FailureStep ==
  ASSUME TypeOK, FailsOnlyFor, [Next]_vars
  PROVE  FailsOnlyFor'
<1>1. ASSUME UNCHANGED <<gvk, original, desired, applied>>,
             outcome' = "error" => Rendered = Error \/ NoPorts,
             outcome' = "panic" => Breaks(desired) \/ Breaks(original) \/ Breaks(applied)
      PROVE  FailsOnlyFor'
  <2>1. Rendered' = Rendered /\ Documents' = Documents
    BY <1>1 DEF Rendered, Documents
  <2>2. NoPorts => gvk' = "Service" /\ original' # Absent /\ ~IsArray(Fetch(original', "spec", "ports"))
    BY <1>1 DEF NoPorts
  <2>3. outcome' = "panic" => \E v \in Documents' : v \notin NoNullElement[Depth]
    BY <1>1, <2>1 DEF Breaks, Documents
  <2> QED
    BY <1>1, <2>1, <2>2, <2>3 DEF FailsOnlyFor
<1>2. ASSUME outcome' \notin {"error", "panic"} PROVE FailsOnlyFor'
  BY <1>2 DEF FailsOnlyFor
<1>3. CASE Reconcile
  <2>1. original \in Originals \cup {Absent} /\ applied \in Objects(JSON[Depth]) \cup {Absent}
    BY DEF TypeOK
  <2>2. Error.is = "error" /\ Panic.is = "panic"
    BY DEF Error, Panic
  <2>3. ASSUME NEW v, Fails(v) PROVE outcome' = v.is /\ UNCHANGED <<gvk, original, desired, applied>> /\ Failed(v)
    BY <2>3 DEF Fails, End, NoCall
  <2>4. CASE Fails(Rendered)
    <3>1. \/ Rendered = Error
          \/ Rendered = Panic /\ Breaks(desired)
      BY <2>3, <2>4, CleanObjects, RenderedCases
    <3> QED
      BY <1>1, <2>2, <2>3, <2>4, <3>1
  <2>5. CASE ~Failed(Rendered) /\ Fails(Patch(Rendered))
    <3>1. Rendered \in Objects(Clean(Scalars)[Depth])
      BY <2>5, RenderedCases DEF Failed, Error, Panic
    <3>2. \/ Patch(Rendered) = Panic /\ (Breaks(original) \/ Breaks(applied))
          \/ Patch(Rendered) = Error /\ NoPorts
      BY <2>1, <2>3, <2>5, <3>1, CleanObjects, PatchCases
    <3> QED
      BY <1>1, <2>2, <2>3, <2>5, <3>2
  <2>6. CASE NotManaged
    BY <1>2, <2>6 DEF NotManaged, End
  <2>7. CASE \/ Unchanged(Patch(Rendered))
             \/ UpdateObject(Patch(Rendered))
             \/ CreateObject(Patch(Rendered))
    BY <1>2, <2>7 DEF Unchanged, UpdateObject, CreateObject, Send, End
  <2> QED
    BY <1>3, <2>4, <2>5, <2>6, <2>7, ReconcileCases
<1>4. CASE UNCHANGED vars
  BY <1>4 DEF vars, FailsOnlyFor, Rendered, Documents
<1> QED
  BY <1>2, <1>3, <1>4, OtherSteps

\* Reconcile gives a resource up only for a template that does not render or an
\* original Service without ports, and panics only for a null in an array
\* (reducer/map.go:31).
THEOREM FailuresJustified == Spec => []FailsOnlyFor
<1>1. Init => FailsOnlyFor
  BY DEF Init, FailsOnlyFor
<1>2. TypeOK /\ FailsOnlyFor /\ [Next]_vars => FailsOnlyFor'
  BY FailureStep
<1> QED
  BY <1>1, <1>2, TypeCorrect, PTL DEF Spec

-----------------------------------------------------------------------------
(* Merging other than two maps                                             *)

\* Two documents of different kinds are not merged: the source is taken.
LEMMA MergeOther ==
  ASSUME NEW n \in Nat, NEW a \in Document[n + 1], NEW b \in Document[n + 1],
         ~(IsMap(a) /\ IsMap(b)), ~(IsArray(a) /\ IsArray(b))
  PROVE  MergeAt[n + 1][<<a, b>>] = b
<1> DEFINE M == MergeAt[n]
<1>1. MergeAt[n + 1][<<a, b>>] = MergeOne(M, a, b)
  BY MergeAtOne
<1> HIDE DEF M
<1>2. MergeOne(M, a, b) = Merge(M, a, b)
  BY DEF MergeOne, IsNamed
<1>3. Merge(M, a, b) = b
  <2>1. CASE IsArray(a)
    <3>1. ~IsMap(a) /\ ~IsArray(b)
      BY <2>1 DEF IsMap, IsArray
    <3> QED
      BY <2>1, <3>1 DEF Merge, MergeArray
  <2>2. CASE IsMap(a)
    <3>1. ~IsArray(a) /\ ~IsMap(b)
      BY <2>2 DEF IsMap, IsArray
    <3> QED
      BY <2>2, <3>1 DEF Merge, MergeMap
  <2>3. CASE ~IsArray(a) /\ ~IsMap(a)
    BY <2>3 DEF Merge
  <2> QED
    BY <2>1, <2>2, <2>3
<1> QED
  BY <1>1, <1>2, <1>3

\* The merge at a level leads from documents to documents or panics.
LEMMA MergeLevelIn ==
  ASSUME NEW n \in Nat
  PROVE  MergesIn(Document[n], {Panic}, MergeAt[n])
<1>1. \A t \in Document[n] : ~Failed(t)
  BY AnyFamily, ValueCases
<1>2. Failed(Panic)
  BY DEF Failed, Panic
<1>3. MergesWithin(Leaves, {}, n, MergeAt[n])
  BY AnyFamily, MergeAtClosed
<1>4. \A a, b \in Document[n] : MergeAt[n][<<a, b>>] \in Document[n] \cup {Panic}
  BY <1>3, AnyFamily DEF MergesWithin
<1> QED
  BY <1>1, <1>2, <1>4 DEF MergesIn

\* Two arrays: by name, by position, or not at all.
LEMMA MergeArrays ==
  ASSUME NEW n \in Nat, NEW a \in Document[n + 1], NEW b \in Document[n + 1], IsArray(a), IsArray(b)
  PROVE  LET r == MergeAt[n + 1][<<a, b>>]
         IN  \/ Failed(r)
             \/ /\ IsNamed(a) /\ IsNamed(b)
                /\ \E L : /\ IsRun(Document[n], {Panic}, MergeAt[n], a, b, L)
                          /\ L[Len(b.items)] \in NamedArrays(Document[n])
                          /\ r = Array(L[Len(b.items)].arr)
             \/ /\ ~(IsNamed(a) /\ IsNamed(b))
                /\ \A i \in BothItems(a, b) :
                     ~Failed(AtItem(MergeAt[n], a, b, i)) /\ AtItem(MergeAt[n], a, b, i) # Null
                /\ r = MergedArray(MergeAt[n], a, b)
<1> DEFINE M == MergeAt[n]
           T == Document[n]
           r == MergeAt[n + 1][<<a, b>>]
<1>1. r = MergeOne(M, a, b) /\ ~IsMap(a) /\ ~IsMap(b) /\ b # Null
  BY MergeAtOne DEF IsArray, IsMap, Null
<1>2. MergesIn(T, {Panic}, M)
  BY MergeLevelIn
<1>3. a.items \in Seq(T) /\ b.items \in Seq(T)
  BY DocumentCases, LeafFacts DEF IsArray
<1> HIDE DEF M, T, r
<1>4. CASE IsNamed(a) /\ IsNamed(b)
  <2>1. r = MergeNamed(M, a, b)
    BY <1>1, <1>4 DEF MergeOne
  <2>2. PICK L : IsRun(T, {Panic}, M, a, b, L)
    BY <1>2, <1>3, MergeNamedLoop
  <2>3. Len(b.items) \in 0..Len(b.items)
    BY <1>3
  <2>4. L[Len(b.items)] \in NamedArrays(T) \cup {Panic}
    BY <2>2, <2>3 DEF IsRun
  <2>5. MergeNamed(M, a, b) = IF Failed(L[Len(b.items)]) THEN L[Len(b.items)] ELSE Array(L[Len(b.items)].arr)
    BY <2>2 DEF IsRun
  <2>6. Failed(Panic)
    BY DEF Failed, Panic
  <2>7. ASSUME ~Failed(r)
        PROVE  L[Len(b.items)] \in NamedArrays(T) /\ r = Array(L[Len(b.items)].arr)
    BY <2>1, <2>4, <2>5, <2>6, <2>7
  <2> QED
    BY <1>4, <2>2, <2>7 DEF r, T, M
<1>5. CASE ~(IsNamed(a) /\ IsNamed(b))
  <2>1. r = MergeArray(M, a, b)
    BY <1>1, <1>5 DEF MergeOne, Merge
  <2>2. Failed(Panic)
    BY DEF Failed, Panic
  <2> QED
    BY <1>5, <2>1, <2>2, MergeArrayCases DEF r, M
<1> QED
  BY <1>4, <1>5

\* Merged arrays are an array or fail.
LEMMA MergeArraysKind ==
  ASSUME NEW n \in Nat, NEW a \in Document[n + 1], NEW b \in Document[n + 1], IsArray(a), IsArray(b)
  PROVE  Failed(MergeAt[n + 1][<<a, b>>]) \/ IsArray(MergeAt[n + 1][<<a, b>>])
<1> DEFINE r == MergeAt[n + 1][<<a, b>>]
<1>1. \A s : IsArray(Array(s))
  BY DEF Array, IsArray
<1>2. IsArray(MergedArray(MergeAt[n], a, b))
  BY <1>1 DEF MergedArray
<1>3. \/ Failed(r)
      \/ \E L : r = Array(L[Len(b.items)].arr)
      \/ r = MergedArray(MergeAt[n], a, b)
  BY MergeArrays
<1> HIDE DEF r
<1>4. Failed(r) \/ IsArray(r)
  BY <1>1, <1>2, <1>3
<1> QED
  BY <1>4 DEF r

\* A scalar in the result is the source's.
LEMMA MergeScalar ==
  ASSUME NEW n \in Nat, NEW a \in Document[n], NEW b \in Document[n],
         MergeAt[n][<<a, b>>] \in Scalars
  PROVE  MergeAt[n][<<a, b>>] = b
<1>0. \A s \in Scalars : ~IsMap(s) /\ ~IsArray(s) /\ ~Failed(s)
  BY DEF Scalars, IsMap, IsArray, Failed
<1>1. CASE n = 0
  <2>1. MergeAt[0][<<a, b>>] = MergeOne(<<>>, a, b)
    BY <1>1, MergeLevels DEF MergeLevel
  <2>2. a \in Values(Leaves, {}, 0)
    BY <1>1, AnyFamily
  <2> QED
    BY <1>1, <2>1, <2>2, AnyFamily, MergeLeaf
<1>2. CASE n # 0
  <2>1. PICK m \in Nat : n = m + 1
    <3>1. n - 1 \in Nat /\ n = (n - 1) + 1
      BY <1>2
    <3> QED
      BY <3>1
  <2> DEFINE r == MergeAt[m + 1][<<a, b>>]
  <2>2. a \in Document[m + 1] /\ b \in Document[m + 1] /\ ~IsMap(r) /\ ~IsArray(r) /\ ~Failed(r)
    BY <1>0, <2>1
  <2>3. ~(IsMap(a) /\ IsMap(b))
    BY <2>2, MergeMaps
  <2>4. ~(IsArray(a) /\ IsArray(b))
    BY <2>2, MergeArraysKind
  <2> QED
    BY <2>1, <2>2, <2>3, <2>4, MergeOther
<1> QED
  BY <1>1, <1>2

-----------------------------------------------------------------------------
(* A scalar of a merged document comes from one of the two                 *)

From(v, k, S) == Lookup(v, k) \in Scalars => Lookup(v, k) \in S

\* A scalar under a key of a merged document comes from one of the two.
LEMMA FromMerge ==
  ASSUME NEW n \in Nat, NEW a \in Document[n], NEW b \in Document[n], NEW k \in Key, NEW S,
         From(a, k, S), From(b, k, S)
  PROVE  From(MergeAt[n][<<a, b>>], k, S)
<1>0. Null \notin Scalars
  BY JSONFamily
<1>1. CASE n = 0
  <2>1. MergeAt[0][<<a, b>>] = MergeOne(<<>>, a, b)
    BY <1>1, MergeLevels DEF MergeLevel
  <2>2. a \in Values(Leaves, {}, 0)
    BY <1>1, AnyFamily
  <2> QED
    BY <1>1, <2>1, <2>2, AnyFamily, MergeLeaf
<1>2. CASE n # 0
  <2>1. PICK m \in Nat : n = m + 1
    <3>1. n - 1 \in Nat /\ n = (n - 1) + 1
      BY <1>2
    <3> QED
      BY <3>1
  <2> DEFINE r == MergeAt[m + 1][<<a, b>>]
  <2>2. a \in Document[m + 1] /\ b \in Document[m + 1]
    BY <2>1
  <2>3. ASSUME ~IsMap(r) PROVE From(r, k, S)
    BY <1>0, <2>3 DEF From, Lookup
  <2>4. ASSUME IsMap(a), IsMap(b) PROVE From(r, k, S)
    <3>1. CASE Failed(r)
      BY <3>1, <2>3 DEF Failed, IsMap
    <3>2. CASE Lookup(r, k) = MergedLookup(MergeAt[m], a, b, k)
      <4>1. CASE k \in BothKeys(a, b)
        <5>1. a.at[k] \in Document[m] /\ b.at[k] \in Document[m]
          <6>1. a.at \in [Key -> {Absent} \cup Document[m]] /\ b.at \in [Key -> {Absent} \cup Document[m]]
            BY <2>2, <2>4, DocumentCases, LeafFacts DEF IsMap
          <6> QED
            BY <4>1, <6>1 DEF BothKeys, Keys
        <5>2. Lookup(r, k) = MergeAt[m][<<a.at[k], b.at[k]>>]
          BY <3>2, <4>1 DEF MergedLookup, AtKey
        <5>3. Lookup(r, k) \in Scalars => Lookup(r, k) = b.at[k]
          BY <5>1, <5>2, MergeScalar
        <5>4. Lookup(b, k) = b.at[k]
          BY <2>4, <4>1 DEF Lookup, BothKeys, Keys
        <5> HIDE DEF r
        <5> QED
          BY <5>3, <5>4 DEF From
      <4>2. CASE k \notin BothKeys(a, b)
        <5>1. Lookup(r, k) \in {Lookup(a, k), Lookup(b, k)}
          BY <2>4, <3>2, <4>2 DEF MergedLookup, LookedUp, Lookup
        <5> HIDE DEF r
        <5> QED
          BY <5>1 DEF From
      <4> QED
        BY <4>1, <4>2
    <3> QED
      BY <2>2, <2>4, <3>1, <3>2, MergeMaps
  <2>5. ASSUME IsArray(a), IsArray(b) PROVE From(r, k, S)
    <3>1. Failed(r) \/ IsArray(r)
      BY <2>2, <2>5, MergeArraysKind
    <3>2. ~IsMap(r)
      BY <3>1 DEF Failed, IsArray, IsMap
    <3> QED
      BY <2>3, <3>2
  <2>6. ASSUME ~(IsMap(a) /\ IsMap(b)), ~(IsArray(a) /\ IsArray(b)) PROVE From(r, k, S)
    <3>1. r = b
      BY <2>2, <2>6, MergeOther
    <3> QED
      BY <3>1
  <2> QED
    BY <2>1, <2>4, <2>5, <2>6
<1> QED
  BY <1>1, <1>2

\* The same of the elements of merged arrays.
LEMMA FromArrays ==
  ASSUME NEW n \in Nat, NEW a \in Document[n + 1], NEW b \in Document[n + 1], IsArray(a), IsArray(b),
         NEW k \in Key, NEW S,
         \A i \in DOMAIN a.items : From(a.items[i], k, S),
         \A i \in DOMAIN b.items : From(b.items[i], k, S)
  PROVE  LET r == MergeAt[n + 1][<<a, b>>]
         IN  \/ Failed(r)
             \/ IsArray(r) /\ \A i \in DOMAIN r.items : From(r.items[i], k, S)
<1> DEFINE M == MergeAt[n]
           T == Document[n]
           r == MergeAt[n + 1][<<a, b>>]
<1>1. a.items \in Seq(T) /\ b.items \in Seq(T)
  BY DocumentCases, LeafFacts DEF IsArray
<1>2. \A x, y \in T : From(x, k, S) /\ From(y, k, S) => From(M[<<x, y>>], k, S)
  BY FromMerge
<1> HIDE DEF M, T, r
<1>3. ASSUME NEW L, IsRun(T, {Panic}, M, a, b, L),
             L[Len(b.items)] \in NamedArrays(T), r = Array(L[Len(b.items)].arr)
      PROVE  IsArray(r) /\ \A i \in DOMAIN r.items : From(r.items[i], k, S)
  <2> DEFINE src == NewNamedArray(b)
             OK(x) == x \in NamedArrays(T) => \A j \in DOMAIN x.arr : From(x.arr[j], k, S)
             I == {i \in Nat : i <= Len(b.items) => OK(L[i])}
  <2>1. MergesIn(T, {Panic}, M)
    BY MergeLevelIn DEF T, M
  <2>2. src \in NamedArrays(T) /\ src.arr = b.items /\ Len(b.items) \in Nat
        /\ DOMAIN b.items = 1..Len(b.items)
    BY <1>1, NewNamedArrayFacts, SMTT(30)
  <2>3. \A i \in 1..Len(b.items) : L[i] = MergeItem(M, L[i - 1], src, i)
    BY <1>3 DEF IsRun
  <2>4. \A i \in 0..Len(b.items) : L[i] \in NamedArrays(T) \cup {Panic}
    BY <1>3 DEF IsRun
  <2>5. 0 \in I
    <3>1. L[0] = NewNamedArray(a) /\ NewNamedArray(a).arr = a.items
      BY <1>1, <1>3, NewNamedArrayFacts DEF IsRun
    <3> QED
      BY <3>1
  <2>6. ASSUME NEW i \in I PROVE i + 1 \in I
    <3> SUFFICES ASSUME i + 1 <= Len(b.items) PROVE OK(L[i + 1])
      OBVIOUS
    <3>1. i \in Nat /\ i \in 0..Len(b.items) /\ i + 1 \in 1..Len(b.items) /\ (i + 1) - 1 = i
      BY <2>2
    <3>2. OK(L[i]) /\ L[i] \in NamedArrays(T) \cup {Panic}
      BY <2>4, <3>1
    <3>3. L[i + 1] = MergeItem(M, L[i], src, i + 1)
      BY <2>3, <3>1
    <3>4. CASE L[i] = Panic
      <4>1. Failed(Panic) /\ Panic \notin NamedArrays(T)
        BY DEF Failed, Panic, NamedArrays
      <4> QED
        BY <3>3, <3>4, <4>1 DEF MergeItem
    <3>5. CASE L[i] \in NamedArrays(T)
      <4> DEFINE N == L[i]
                 new == NewItem(M, N, src, i + 1)
      <4>1. i + 1 \in DOMAIN src.arr /\ src.arr[i + 1] \in T /\ From(src.arr[i + 1], k, S)
        BY <1>1, <2>2, <3>1
      <4>2. From(new, k, S)
        <5>1. CASE IterKey(src, i + 1) \in DOMAIN N.keys
          <6>1. N.keys[IterKey(src, i + 1)] \in DOMAIN N.arr /\ N.arr \in Seq(T)
            BY <3>5, <5>1 DEF NamedArrays
          <6> DEFINE x == N.arr[N.keys[IterKey(src, i + 1)]]
          <6>2. x \in T /\ From(x, k, S)
            BY <3>2, <3>5, <6>1
          <6>3. new = M[<<x, src.arr[i + 1]>>]
            BY <5>1 DEF NewItem
          <6> HIDE DEF src, N, new
          <6> QED
            BY <1>2, <4>1, <6>2, <6>3
        <5>2. CASE IterKey(src, i + 1) \notin DOMAIN N.keys
          BY <4>1, <5>2 DEF NewItem
        <5> QED
          BY <5>1, <5>2
      <4>3. CASE new \in {Panic} /\ MergeItem(M, N, src, i + 1) = new
        <5>1. Panic \notin NamedArrays(T)
          BY DEF Panic, NamedArrays
        <5> QED
          BY <3>3, <4>3, <5>1
      <4>4. CASE /\ new \in T
                 /\ MergeItem(M, N, src, i + 1) = SetNamed(N, IterKey(src, i + 1), new)
        <5>1. IterKey(src, i + 1) \in Names(T)
          BY <2>2, IterKeyFacts
        <5> HIDE DEF src, N, new
        <5>2. \A j \in DOMAIN SetNamed(N, IterKey(src, i + 1), new).arr :
                \/ SetNamed(N, IterKey(src, i + 1), new).arr[j] = new
                \/ (j \in DOMAIN N.arr /\ SetNamed(N, IterKey(src, i + 1), new).arr[j] = N.arr[j])
          BY <3>5, <4>4, <5>1, SetNamedFacts DEF N
        <5>3. \A j \in DOMAIN N.arr : From(N.arr[j], k, S)
          BY <3>2, <3>5 DEF N
        <5>4. L[i + 1] = SetNamed(N, IterKey(src, i + 1), new)
          BY <3>3, <4>4 DEF N
        <5> QED
          BY <4>2, <5>2, <5>3, <5>4
      <4> QED
        <5>1. N \in NamedArrays(T) /\ src \in NamedArrays(T) /\ i + 1 \in DOMAIN src.arr
          BY <2>2, <3>5, <4>1
        <5> HIDE DEF src, N
        <5>2. \/ /\ NewItem(M, N, src, i + 1) \in {Panic}
                 /\ MergeItem(M, N, src, i + 1) = NewItem(M, N, src, i + 1)
              \/ /\ NewItem(M, N, src, i + 1) \in T
                 /\ MergeItem(M, N, src, i + 1) =
                      SetNamed(N, IterKey(src, i + 1), NewItem(M, N, src, i + 1))
          BY <2>1, <5>1, MergeItemCases
        <5> QED
          BY <4>3, <4>4, <5>2
    <3> QED
      BY <3>2, <3>4, <3>5
  <2>7. I = Nat
    <3>1. I \in SUBSET Nat
      OBVIOUS
    <3> HIDE DEF I
    <3> QED
      BY <2>5, <2>6, <3>1, SetInduction
  <2>8. OK(L[Len(b.items)])
    <3>1. Len(b.items) \in I /\ Len(b.items) <= Len(b.items)
      BY <2>2, <2>7
    <3> QED
      BY <3>1
  <2>9. r.is = "array" /\ r.items = L[Len(b.items)].arr
    BY <1>3 DEF Array
  <2> QED
    BY <1>3, <2>8, <2>9 DEF IsArray
<1>4. ASSUME r = MergedArray(M, a, b)
      PROVE  IsArray(r) /\ \A i \in DOMAIN r.items : From(r.items[i], k, S)
  <2>1. r.is = "array" /\ DOMAIN r.items = DOMAIN Longer(a, b)
        /\ \A i \in DOMAIN Longer(a, b) :
             r.items[i] = IF i \in BothItems(a, b) THEN AtItem(M, a, b, i) ELSE Longer(a, b)[i]
    BY <1>4 DEF MergedArray, Array
  <2>2. ASSUME NEW i \in DOMAIN Longer(a, b) PROVE From(r.items[i], k, S)
    <3>1. CASE i \in BothItems(a, b)
      <4>1. a.items[i] \in T /\ b.items[i] \in T /\ i \in DOMAIN a.items /\ i \in DOMAIN b.items
        BY <1>1, <3>1 DEF BothItems
      <4>2. From(M[<<a.items[i], b.items[i]>>], k, S)
        BY <1>2, <4>1
      <4> QED
        BY <2>1, <2>2, <3>1, <4>2 DEF AtItem
    <3>2. CASE i \notin BothItems(a, b)
      BY <2>1, <2>2, <3>2 DEF Longer
    <3> QED
      BY <3>1, <3>2
  <2> QED
    BY <2>1, <2>2 DEF IsArray
<1>5. \/ Failed(r)
      \/ \E L : /\ IsRun(T, {Panic}, M, a, b, L)
                /\ L[Len(b.items)] \in NamedArrays(T)
                /\ r = Array(L[Len(b.items)].arr)
      \/ r = MergedArray(M, a, b)
  BY MergeArrays DEF r, T, M
<1> QED
  BY <1>3, <1>4, <1>5 DEF r

-----------------------------------------------------------------------------
(* What a new object carries                                               *)

\* CopiesNoIdentity of the object that is sent and the rendered resource.
NoIdentity(p, rendered) ==
  /\ Lookup(p, "status") \in {Null, Lookup(rendered, "status")}
  /\ \A k \in ServerKeys : Fetch(p, "metadata", k) \in {Null, Fetch(rendered, "metadata", k)}
  /\ gvk = "Service" =>
       /\ Fetch(p, "spec", "clusterIP") \in {Null, Fetch(rendered, "spec", "clusterIP")}
       /\ LET ports == Fetch(p, "spec", "ports")
              own == Fetch(rendered, "spec", "ports")
              Port(x) == Lookup(x, "nodePort")
          IN  IsArray(ports) => \A i \in DOMAIN ports.items :
                Port(ports.items[i]) \in Scalars =>
                  IsArray(own) /\ \E j \in DOMAIN own.items :
                                    Port(own.items[j]) = Port(ports.items[i])

NodePorts(ports) ==
  IF IsArray(ports) THEN {Lookup(ports.items[i], "nodePort") : i \in DOMAIN ports.items} ELSE {}
PortsFrom(ports, S) ==
  IsArray(ports) => \A i \in DOMAIN ports.items : From(ports.items[i], "nodePort", S)

\* What is clean, or null, is its own comparable copy.
LEMMA CompactSame ==
  ASSUME NEW n \in Nat, NEW x \in Clean(Scalars)[n] \cup {Null}
  PROVE  Compact("copy")[n][x] = x
BY CompactClean, CompactNull

\* A scalar of the comparable copy was there before.
LEMMA CompactScalar ==
  ASSUME NEW n \in Nat, NEW x \in Document[n], Compact("copy")[n][x] \in Scalars
  PROVE  Compact("copy")[n][x] = x
<1>1. \A s \in Scalars : ~IsMap(s) /\ ~IsArray(s)
  BY DEF Scalars, IsMap, IsArray
<1>2. CASE n = 0
  BY <1>2, CompactAtZero DEF Apply
<1>3. CASE n # 0
  <2>1. PICK m \in Nat : n = m + 1
    <3>1. n - 1 \in Nat /\ n = (n - 1) + 1
      BY <1>3
    <3> QED
      BY <3>1
  <2>2. x \in Document[m + 1] /\ ~IsMap(Compact("copy")[m + 1][x]) /\ ~IsArray(Compact("copy")[m + 1][x])
    BY <1>1, <2>1
  <2>3. Compact("copy")[m + 1][x] = x
    BY <2>2, CompactCases
  <2> QED
    BY <2>1, <2>3
<1> QED
  BY <1>2, <1>3

\* The specs of the copied object and of the set's resource, merged.
LEMMA SpecMerge ==
  ASSUME NEW n \in Nat, NEW c \in Clean(Scalars)[n + 2], NEW d \in Clean(Scalars)[n + 2],
         Lookup(c, "clusterIP") = Null, PortsFrom(Lookup(c, "ports"), {})
  PROVE  LET x == MergeAt[n + 2][<<c, d>>]
         IN  /\ Lookup(x, "clusterIP") \in {Null, Lookup(d, "clusterIP")}
             /\ PortsFrom(Lookup(x, "ports"), NodePorts(Lookup(d, "ports")))
<1> DEFINE x == MergeAt[n + 2][<<c, d>>]
           M == MergeAt[n + 1]
           S == NodePorts(Lookup(d, "ports"))
<1>1. n + 1 \in Nat /\ n + 2 = (n + 1) + 1 /\ {"clusterIP", "ports", "nodePort"} \subseteq Key /\ Scalars \in SUBSET Leaves
  BY KeyFacts, JSONFamily
<1>2. c \in Document[n + 2] /\ d \in Document[n + 2]
  BY <1>1, JSONFamily
<1>3. PortsFrom(Lookup(d, "ports"), S)
  BY DEF PortsFrom, NodePorts, From
<1> HIDE DEF x, M, S
<1>4. ASSUME ~IsMap(x)
      PROVE  Lookup(x, "clusterIP") = Null /\ PortsFrom(Lookup(x, "ports"), S)
  BY <1>4 DEF Lookup, PortsFrom, IsArray, Null
<1>5. CASE ~(IsMap(c) /\ IsMap(d)) /\ ~(IsArray(c) /\ IsArray(d))
  <2>1. x = d
    BY <1>1, <1>2, <1>5, MergeOther DEF x
  <2> QED
    BY <1>3, <2>1 DEF x, S
<1>6. CASE IsArray(c) /\ IsArray(d)
  <2>1. Failed(x) \/ IsArray(x)
    BY <1>1, <1>2, <1>6, MergeArraysKind DEF x
  <2>2. ~IsMap(x)
    BY <2>1 DEF Failed, IsArray, IsMap
  <2> QED
    BY <1>4, <2>2 DEF x, S
<1>7. CASE IsMap(c) /\ IsMap(d)
  <2>1. \/ Failed(x)
        \/ \A k \in Key : Lookup(x, k) = MergedLookup(M, c, d, k)
    BY <1>1, <1>2, <1>7, MergeMaps DEF x, M
  <2>2. CASE Failed(x)
    <3>1. ~IsMap(x)
      BY <2>2 DEF Failed, IsMap
    <3> QED
      BY <1>4, <3>1 DEF x, S
  <2>3. CASE \A k \in Key : Lookup(x, k) = MergedLookup(M, c, d, k)
    <3>1. /\ c.at \in [Key -> {Absent} \cup Clean(Scalars)[n + 1]]
          /\ d.at \in [Key -> {Absent} \cup Clean(Scalars)[n + 1]]
          /\ \A k \in Key : Lookup(c, k) = LookedUp(c, k) /\ (c.at[k] = Absent <=> Lookup(c, k) = Null)
          /\ \A k \in Key : Lookup(d, k) = LookedUp(d, k)
      <4>1. c \in Clean(Scalars)[(n + 1) + 1] /\ d \in Clean(Scalars)[(n + 1) + 1]
        BY <1>1
      <4> QED
        BY <1>1, <1>7, <4>1, CleanMap DEF LookedUp
    <3>2. Lookup(x, "clusterIP") \in {Null, Lookup(d, "clusterIP")}
      BY <1>1, <2>3, <3>1 DEF MergedLookup, BothKeys, Keys, LookedUp
    <3>3. CASE "ports" \notin BothKeys(c, d)
      <4>1. Lookup(x, "ports") \in {Lookup(c, "ports"), Lookup(d, "ports")}
        BY <1>1, <2>3, <3>1, <3>3 DEF MergedLookup, LookedUp
      <4>2. PortsFrom(Lookup(c, "ports"), S)
        BY DEF PortsFrom, From
      <4> QED
        BY <1>3, <3>2, <4>1, <4>2 DEF x, S
    <3>4. CASE "ports" \in BothKeys(c, d)
      <4> DEFINE pc == c.at["ports"]
                 pd == d.at["ports"]
                 y == MergeAt[n + 1][<<pc, pd>>]
      <4>1. pc \in Document[n + 1] /\ pd \in Document[n + 1] /\ pc = Lookup(c, "ports") /\ pd = Lookup(d, "ports")
        <5>1. pc # Absent /\ pd # Absent
          BY <3>4 DEF BothKeys, Keys
        <5>2. pc \in Clean(Scalars)[n + 1] /\ pd \in Clean(Scalars)[n + 1]
          BY <1>1, <3>1, <5>1
        <5> QED
          BY <1>1, <1>7, <5>1, <5>2, JSONFamily DEF Lookup
      <4>2. Lookup(x, "ports") = y
        BY <1>1, <2>3, <3>4 DEF MergedLookup, AtKey, M
      <4> HIDE DEF pc, pd, y
      <4>3. ASSUME ~IsArray(y) PROVE PortsFrom(y, S)
        BY <4>3 DEF PortsFrom
      <4>4. ASSUME IsArray(pc), IsArray(pd) PROVE PortsFrom(y, S)
        <5>1. /\ \A i \in DOMAIN pc.items : From(pc.items[i], "nodePort", S)
              /\ \A i \in DOMAIN pd.items : From(pd.items[i], "nodePort", S)
          BY <1>3, <4>1, <4>4 DEF PortsFrom, From
        <5>2. \/ Failed(y)
              \/ IsArray(y) /\ \A i \in DOMAIN y.items : From(y.items[i], "nodePort", S)
          BY <1>1, <4>1, <4>4, <5>1, FromArrays DEF y
        <5>3. Failed(y) => ~IsArray(y)
          BY DEF Failed, IsArray
        <5> QED
          BY <4>3, <5>2, <5>3 DEF PortsFrom
      <4>5. ASSUME IsMap(pc), IsMap(pd) PROVE PortsFrom(y, S)
        <5>1. Failed(y) \/ IsMap(y)
          BY <4>1, <4>5, MergeMaps DEF y
        <5>2. ~IsArray(y)
          BY <5>1 DEF Failed, IsArray, IsMap
        <5> QED
          BY <4>3, <5>2
      <4>6. ASSUME ~(IsMap(pc) /\ IsMap(pd)), ~(IsArray(pc) /\ IsArray(pd)) PROVE PortsFrom(y, S)
        <5>1. y = pd
          BY <4>1, <4>6, MergeOther DEF y
        <5> QED
          BY <1>3, <4>1, <5>1
      <4> QED
        BY <3>2, <4>2, <4>4, <4>5, <4>6 DEF x, S
    <3> QED
      BY <3>3, <3>4
  <2> QED
    BY <2>1, <2>2, <2>3
<1> QED
  BY <1>5, <1>6, <1>7

\* A key that the input does not have is the source's.
LEMMA SilentKey ==
  ASSUME NEW below, NEW a, NEW b, NEW k, a.at[k] = Absent
  PROVE  MergedLookup(below, a, b, k) = LookedUp(b, k)
BY DEF MergedLookup, BothKeys, Keys, LookedUp

\* What the comparable copy of the ports has was there before.
LEMMA CompactPorts ==
  ASSUME NEW n \in Nat, NEW y \in Document[n + 2], NEW S, PortsFrom(y, S)
  PROVE  PortsFrom(Compact("copy")[n + 2][y], S)
<1> DEFINE z == Compact("copy")[n + 2][y]
<1>1. n + 1 \in Nat /\ n + 2 = (n + 1) + 1 /\ "nodePort" \in Key
  BY KeyFacts
<1>2. SUFFICES ASSUME IsArray(z), NEW i \in DOMAIN z.items PROVE From(z.items[i], "nodePort", S)
  BY DEF PortsFrom
<1>3. /\ IsArray(y) /\ y.items \in Seq(Document[n + 1])
      /\ DOMAIN z.items = DOMAIN y.items
      /\ z.items[i] = Compact("copy")[n + 1][y.items[i]]
  <2>1. y \in Document[(n + 1) + 1] /\ IsArray(Compact("copy")[(n + 1) + 1][y])
    BY <1>1, <1>2
  <2>2. /\ IsArray(y) /\ y.items \in Seq(Document[n + 1])
        /\ DOMAIN Compact("copy")[(n + 1) + 1][y].items = DOMAIN y.items
        /\ \A j \in DOMAIN y.items : Compact("copy")[(n + 1) + 1][y].items[j] = Compact("copy")[n + 1][y.items[j]]
    BY <1>1, <2>1, CompactCases
  <2> QED
    BY <1>1, <1>2, <2>2
<1> HIDE DEF z
<1> DEFINE item == y.items[i]
           old == Lookup(item, "nodePort")
           new == Lookup(z.items[i], "nodePort")
<1>4. item \in Document[n + 1] /\ From(item, "nodePort", S)
  BY <1>2, <1>3 DEF PortsFrom
<1>5. old \in Document[n]
  <2>1. CASE IsMap(item) /\ item.at["nodePort"] # Absent
    <3>1. item.at \in [Key -> {Absent} \cup Document[n]]
      BY <1>4, <2>1, DocumentCases, LeafFacts DEF IsMap
    <3> QED
      BY <1>1, <2>1, <3>1 DEF Lookup
  <2>2. CASE ~(IsMap(item) /\ item.at["nodePort"] # Absent)
    <3>1. Null \in Document[n]
      BY TreeLeaf DEF Document, Leaves
    <3> QED
      BY <2>2, <3>1 DEF Lookup
  <2> QED
    BY <2>1, <2>2
<1>6. new = Compact("copy")[n][old]
  BY <1>1, <1>3, <1>4, CompactLookup
<1> HIDE DEF item, old
<1>7. new \in Scalars => new = old
  BY <1>5, <1>6, CompactScalar
<1> QED
  BY <1>4, <1>7 DEF From, old

\* What is sent to be created names no cluster IP, node port, status or identity
\* but the set's.
LEMMA NewObject ==
  ASSUME original \in Originals \cup {Absent}, applied = Absent,
         NEW rendered \in Objects(Clean(Scalars)[Depth]), ~Failed(Patch(rendered))
  PROVE  NoIdentity(Patch(rendered), rendered)
<1> DEFINE p == Patch(rendered)
           r == Merged(applied, Copied, rendered)
           C(n) == Compact("copy")[n]
           a == Depth - 1
           b == Depth - 2
           e == Depth - 4
           spec == Lookup(r, "spec")
           ports == Lookup(spec, "ports")
           sd == Lookup(rendered, "spec")
           S == NodePorts(Lookup(sd, "ports"))
<1>1. a \in Nat /\ b \in Nat /\ e \in Nat /\ Depth = a + 1 /\ a = b + 1 /\ b = e + 2 /\ Depth \in Nat
      /\ e + 1 \in Nat /\ Scalars \in SUBSET Leaves
      /\ {"metadata", "status", "spec", "clusterIP", "ports", "nodePort"} \subseteq Key /\ ServerKeys \subseteq Key
  BY KeyFacts, JSONFamily
<1>2. applied \in Objects(JSON[Depth]) \cup {Absent} /\ ~Breaks(applied) /\ Base = Copied
  BY DEF Breaks, Base
<1>3. Failed(Panic) /\ Failed(Error)
  BY DEF Failed, Panic, Error
<1>4. /\ Base = Null \/ Base \in Objects(JSON[Depth])
      /\ r = mergeResource(Base, rendered)
      /\ r \in Objects(JSON[Depth])
      /\ p \in Objects(Clean(Scalars)[Depth])
      /\ \A k \in Key \ {"metadata"} : Lookup(p, k) = C(a)[Lookup(r, k)]
      /\ \A k \in Key \ {"name", "namespace", "ownerReferences"} :
           Fetch(p, "metadata", k) = C(b)[Fetch(r, "metadata", k)]
  BY <1>2, <1>3, PatchCases
<1>5. Copied = Null \/ (Copied \in Objects(Clean(Scalars)[Depth]) /\ CarriesNothing(Copied))
  <2>1. Panic \notin Objects(JSON[Depth]) /\ Error \notin Objects(JSON[Depth]) /\ Panic # Null /\ Error # Null
    BY <1>3, ObjectFacts DEF Failed, Null
  <2> QED
    BY <1>2, <1>4, <2>1, CopiedFacts
<1>6. /\ rendered \in Objects(JSON[Depth])
      /\ rendered.at \in [Key -> {Absent} \cup Clean(Scalars)[a]]
      /\ rendered.at["metadata"] = Lookup(rendered, "metadata")
      /\ rendered.at["metadata"] \in Clean(Scalars)[b + 1] /\ IsMap(rendered.at["metadata"])
      /\ \A k \in Key : Lookup(rendered, k) = LookedUp(rendered, k)
      /\ \A k \in Key : Lookup(rendered, k) \in Clean(Scalars)[a] \cup {Null}
      /\ \A k \in Key : Fetch(rendered, "metadata", k) = LookedUp(rendered.at["metadata"], k)
      /\ \A k \in Key : Fetch(rendered, "metadata", k) \in Clean(Scalars)[b] \cup {Null}
  <2>1. rendered \in Objects(JSON[Depth])
    BY CleanObjects
  <2>2. /\ rendered.at \in [Key -> {Absent} \cup Clean(Scalars)[a]]
        /\ rendered.at["metadata"] = Lookup(rendered, "metadata")
        /\ rendered.at["metadata"] \in Clean(Scalars)[a] /\ IsMap(rendered.at["metadata"])
        /\ \A k \in Key : Lookup(rendered, k) \in Clean(Scalars)[a] \cup {Null}
    BY <1>1, CleanObject
  <2>3. \A k \in Key : Lookup(rendered, k) = LookedUp(rendered, k)
    BY <2>1, ObjectFacts
  <2> DEFINE md == rendered.at["metadata"]
  <2>4. \A k \in Key : Lookup(md, k) = LookedUp(md, k) /\ Lookup(md, k) \in Clean(Scalars)[b] \cup {Null}
    <3>1. md \in Clean(Scalars)[b + 1] /\ IsMap(md)
      BY <1>1, <2>2
    <3> HIDE DEF md
    <3> QED
      BY <1>1, <3>1, CleanMap DEF LookedUp
  <2> QED
    BY <1>1, <2>1, <2>2, <2>3, <2>4 DEF Fetch
<1>7. \A n \in Nat : \A x \in Clean(Scalars)[n] \cup {Null} : C(n)[x] = x
  BY CompactSame
<1>8. /\ Lookup(r, "status") \in {Null, Lookup(rendered, "status")}
      /\ \A k \in ServerKeys : Fetch(r, "metadata", k) \in {Null, Fetch(rendered, "metadata", k)}
      /\ gvk = "Service" => /\ Lookup(spec, "clusterIP") \in {Null, Lookup(sd, "clusterIP")}
                            /\ PortsFrom(ports, S)
  <2>0. PortsFrom(Lookup(sd, "ports"), S)
    BY DEF PortsFrom, NodePorts, From
  <2>1. CASE Copied = Null
    <3>1. r = rendered
      BY <1>2, <1>4, <1>6, <2>1, ObjectFacts, MergeOfNull
    <3> QED
      BY <2>0, <3>1
  <2>2. CASE Copied \in Objects(Clean(Scalars)[Depth]) /\ CarriesNothing(Copied)
    <3> DEFINE c == Copied
    <3>1. r = mergeResource(c, rendered) /\ c \in Objects(JSON[Depth]) /\ r # Panic
      BY <1>2, <1>3, <1>4, <2>2, CleanObjects, ObjectFacts
    <3> HIDE DEF r
    <3>2. /\ \A k \in Key : Lookup(r, k) = MergedLookup(MergeAt[a], c, rendered, k)
          /\ \A k \in Key : Fetch(r, "metadata", k) =
               MergedLookup(MergeAt[b], c.at["metadata"], rendered.at["metadata"], k)
      BY <1>6, <3>1, MergedObjects
    <3>3. /\ c.at \in [Key -> {Absent} \cup Clean(Scalars)[a]]
          /\ c.at["metadata"] = Lookup(c, "metadata") /\ c.at["metadata"] \in Clean(Scalars)[b + 1]
          /\ IsMap(c.at["metadata"])
          /\ \A k \in Key : Lookup(c, k) = LookedUp(c, k)
      BY <1>1, <2>2, <3>1, CleanObject, ObjectFacts
    <3>4. \A k \in Key : (c.at[k] # Absent => c.at[k] # Null)
      <4>1. \A x \in Clean(Scalars)[a] : x # Null
        BY <1>1, CleanFacts
      <4> QED
        BY <3>3, <4>1
    <3>5. Lookup(r, "status") = Lookup(rendered, "status")
      <4>1. c.at["status"] = Absent
        BY <1>1, <2>2, <3>3, <3>4 DEF CarriesNothing, LookedUp
      <4> HIDE DEF c
      <4> QED
        BY <1>1, <1>6, <3>2, <4>1, SilentKey
    <3>6. ASSUME NEW k \in ServerKeys PROVE Fetch(r, "metadata", k) = Fetch(rendered, "metadata", k)
      <4> DEFINE md == c.at["metadata"]
      <4>1. Lookup(md, k) = Null /\ k \in Key
        BY <1>1, <2>2, <3>3 DEF CarriesNothing, Fetch
      <4>2. md.at[k] = Absent
        BY <1>1, <3>3, <4>1, CleanMap, SMTT(30)
      <4> HIDE DEF md
      <4>3. MergedLookup(MergeAt[b], md, rendered.at["metadata"], k) = LookedUp(rendered.at["metadata"], k)
        BY <4>2, SilentKey
      <4> QED
        BY <1>6, <3>2, <4>1, <4>3 DEF md
    <3>7. ASSUME gvk = "Service"
          PROVE  Lookup(spec, "clusterIP") \in {Null, Lookup(sd, "clusterIP")} /\ PortsFrom(ports, S)
      <4> DEFINE sc == Lookup(c, "spec")
      <4>1. Lookup(sc, "clusterIP") = Null /\ PortsFrom(Lookup(sc, "ports"), {}) /\ PortsFrom(Lookup(sc, "ports"), S)
        BY <2>2, <3>7, JSONFamily DEF CarriesNothing, Fetch, PortsFrom, From
      <4>2. spec = MergedLookup(MergeAt[a], c, rendered, "spec")
        BY <1>1, <3>2
      <4>3. CASE "spec" \in BothKeys(c, rendered)
        <5>1. c.at["spec"] # Absent /\ rendered.at["spec"] # Absent
          BY <4>3 DEF BothKeys, Keys
        <5>2. sc = c.at["spec"] /\ sd = rendered.at["spec"]
          BY <1>1, <1>6, <3>3, <5>1 DEF LookedUp
        <5>3. sc \in Clean(Scalars)[e + 3] /\ sd \in Clean(Scalars)[e + 3]
          <6>1. a = e + 3
            BY <1>1
          <6> QED
            BY <1>1, <1>6, <3>3, <5>1, <5>2, <6>1
        <5>4. spec = MergeAt[e + 3][<<sc, sd>>]
          <6>1. a = e + 3
            BY <1>1
          <6> QED
            BY <4>2, <4>3, <5>2, <6>1 DEF MergedLookup, AtKey
        <5>5. e + 1 \in Nat /\ (e + 1) + 2 = e + 3
          BY <1>1
        <5>6. spec = MergeAt[(e + 1) + 2][<<sc, sd>>] /\ sc \in Clean(Scalars)[(e + 1) + 2] /\ sd \in Clean(Scalars)[(e + 1) + 2]
          BY <5>3, <5>4, <5>5
        <5> HIDE DEF sc, sd, spec, e
        <5> QED
          BY <4>1, <5>5, <5>6, SpecMerge
      <4>4. CASE "spec" \notin BothKeys(c, rendered)
        <5>1. spec \in {sc, sd}
          BY <1>1, <1>6, <3>3, <4>2, <4>4 DEF MergedLookup, LookedUp
        <5> HIDE DEF spec, sc, sd
        <5> QED
          BY <2>0, <4>1, <5>1
      <4> QED
        BY <4>3, <4>4
    <3> QED
      BY <3>5, <3>6, <3>7
  <2> QED
    BY <1>5, <2>1, <2>2
<1>9. Lookup(p, "status") \in {Null, Lookup(rendered, "status")}
  BY <1>1, <1>4, <1>6, <1>7, <1>8
<1>10. \A k \in ServerKeys : Fetch(p, "metadata", k) \in {Null, Fetch(rendered, "metadata", k)}
  <2> SUFFICES ASSUME NEW k \in ServerKeys
               PROVE  Fetch(p, "metadata", k) \in {Null, Fetch(rendered, "metadata", k)}
    OBVIOUS
  <2>1. k \in Key \ {"name", "namespace", "ownerReferences"} /\ k \in Key
    BY <1>1 DEF ServerKeys
  <2> DEFINE x == Fetch(r, "metadata", k)
             y == Fetch(rendered, "metadata", k)
  <2>2. Fetch(p, "metadata", k) = Compact("copy")[b][x] /\ x \in {Null, y} /\ y \in Clean(Scalars)[b] \cup {Null}
    BY <1>4, <1>6, <1>8, <2>1
  <2> HIDE DEF x, y, p
  <2>3. x \in Clean(Scalars)[b] \cup {Null}
    BY <2>2
  <2>4. Compact("copy")[b][x] = x
    BY <1>1, <2>3, CompactSame
  <2> QED
    BY <2>2, <2>4 DEF y
<1>11. spec \in Document[b + 1] /\ ports \in Document[e + 2] /\ Lookup(spec, "clusterIP") \in Document[b]
  <2>1. r \in JSON[a + 1]
    BY <1>1, <1>4 DEF Objects
  <2>2. spec \in JSON[b + 1]
    BY <1>1, <2>1, JSONLookup
  <2>3. ports \in JSON[b] /\ Lookup(spec, "clusterIP") \in JSON[b]
    BY <1>1, <2>2, JSONLookup
  <2> QED
    BY <1>1, <2>2, <2>3, JSONFamily
<1>12. Lookup(p, "spec") = C(b + 1)[spec]
  BY <1>1, <1>4
<1> HIDE DEF p, r, spec, ports, sd, S
<1>13. /\ Fetch(p, "spec", "clusterIP") = C(b)[Lookup(spec, "clusterIP")]
       /\ Fetch(p, "spec", "ports") = C(b)[ports]
  BY <1>1, <1>11, <1>12, CompactLookup DEF Fetch, ports
<1>14. ASSUME gvk = "Service" PROVE Fetch(p, "spec", "clusterIP") \in {Null, Lookup(sd, "clusterIP")}
  <2>1. Lookup(sd, "clusterIP") \in Clean(Scalars)[b] \cup {Null}
    <3>1. CASE IsMap(sd)
      <4>1. sd \in Clean(Scalars)[b + 1]
        BY <1>1, <1>6, <3>1 DEF sd, IsMap, Null
      <4> QED
        BY <1>1, <3>1, <4>1, CleanMap
    <3>2. CASE ~IsMap(sd)
      BY <3>2 DEF Lookup
    <3> QED
      BY <3>1, <3>2
  <2> QED
    BY <1>1, <1>7, <1>8, <1>13, <1>14, <2>1
<1>15. ASSUME gvk = "Service" PROVE PortsFrom(Fetch(p, "spec", "ports"), S)
  <2>1. PortsFrom(Compact("copy")[e + 2][ports], S)
    BY <1>1, <1>8, <1>11, <1>15, CompactPorts
  <2> QED
    BY <1>1, <1>13, <2>1
<1>16. Fetch(rendered, "spec", "clusterIP") = Lookup(sd, "clusterIP") /\ S = NodePorts(Fetch(rendered, "spec", "ports"))
  BY DEF Fetch, sd, S
<1>17. NoIdentity(p, rendered)
  BY <1>9, <1>10, <1>14, <1>15, <1>16 DEF NoIdentity, PortsFrom, From, NodePorts
<1> QED
  BY <1>17 DEF p

\* Every step that creates an object leaves the original's identity behind.
LEMMA IdentityStep ==
  ASSUME TypeOK, CopiesNoIdentity, [Next]_vars
  PROVE  CopiesNoIdentity'
<1>1. ASSUME outcome' # "created" PROVE CopiesNoIdentity'
  BY <1>1 DEF CopiesNoIdentity
<1>2. CASE Reconcile
  <2>1. ASSUME NEW v, Fails(v) PROVE outcome' # "created"
    BY <2>1, FailsOutcome DEF Fails, End
  <2>2. CASE NotManaged
    BY <1>1, <2>2 DEF NotManaged, End
  <2>3. CASE Unchanged(Patch(Rendered))
    BY <1>1, <2>3 DEF Unchanged, End
  <2>4. CASE UpdateObject(Patch(Rendered))
    BY <1>1, <2>4 DEF UpdateObject, Send, End
  <2>5. CASE /\ ~Failed(Patch(Rendered))
             /\ Rendered \in Objects(Clean(Scalars)[Depth])
             /\ CreateObject(Patch(Rendered))
    <3>1. applied = Absent /\ call' = Patch(Rendered) /\ UNCHANGED <<gvk, desired>>
      BY <2>5 DEF CreateObject, Send, End
    <3>2. original \in Originals \cup {Absent}
      BY DEF TypeOK
    <3>3. NoIdentity(Patch(Rendered), Rendered)
      BY <2>5, <3>1, <3>2, NewObject
    <3>4. Rendered' = Rendered
      BY <3>1 DEF Rendered
    <3> QED
      BY <3>1, <3>3, <3>4 DEF NoIdentity, CopiesNoIdentity
  <2> QED
    BY <1>1, <1>2, <2>1, <2>2, <2>3, <2>4, <2>5, ReconcileCases
<1>3. CASE UNCHANGED vars
  BY <1>3 DEF vars, CopiesNoIdentity, Rendered
<1> QED
  BY <1>1, <1>2, <1>3, OtherSteps

\* A created object carries no status, identity, cluster IP or node port of the
\* object it was copied from, only the set's own (reconciler.go:159-184).
THEOREM IdentityStaysBehind == Spec => []CopiesNoIdentity
<1>1. Init => CopiesNoIdentity
  BY DEF Init, CopiesNoIdentity
<1>2. TypeOK /\ CopiesNoIdentity /\ [Next]_vars => CopiesNoIdentity'
  BY IdentityStep
<1> QED
  BY <1>1, <1>2, TypeCorrect, PTL DEF Spec

-----------------------------------------------------------------------------
(* Covering, level by level                                                *)

CoversLevel(n, below) == [p \in Document[n] \X Document[n] |-> CoversOne(below, p[1], p[2])]

\* Covering, by the kind of what is asked for.
LEMMA CoversOneCases ==
  ASSUME NEW below, NEW v, NEW d
  PROVE  /\ d = Null => CoversOne(below, v, d)
         /\ IsMap(d) => (CoversOne(below, v, d) <=>
              IsMap(v) /\ \A k \in Keys(d) : below[<<Lookup(v, k), d.at[k]>>])
         /\ IsArray(d) => (CoversOne(below, v, d) <=>
              IsArray(v) /\ \A i \in DOMAIN d.items :
                       IF IsNamed(d) /\ IsNamed(v)
                       THEN IsLast(d, i) =>
                              \E j \in DOMAIN v.items : below[<<v.items[j], d.items[i]>>]
                       ELSE i \in DOMAIN v.items /\ below[<<v.items[i], d.items[i]>>])
         /\ (d # Null /\ ~IsMap(d) /\ ~IsArray(d)) => (CoversOne(below, v, d) <=> v = d)
<1>1. CASE d = Null
  BY <1>1 DEF CoversOne, IsMap, IsArray, Null
<1>2. CASE IsMap(d)
  <2>1. d # Null /\ ~IsArray(d)
    BY <1>2 DEF IsMap, IsArray, Null
  <2> QED
    BY <1>2, <2>1, Zenon DEF CoversOne
<1>3. CASE IsArray(d)
  <2>1. d # Null /\ ~IsMap(d)
    BY <1>3 DEF IsMap, IsArray, Null
  <2> QED
    BY <1>3, <2>1, Zenon DEF CoversOne
<1>4. CASE d # Null /\ ~IsMap(d) /\ ~IsArray(d)
  BY <1>4 DEF CoversOne
<1> QED
  BY <1>1, <1>2, <1>3, <1>4

\* Covering is true or false.
LEMMA CoversBoolean ==
  ASSUME NEW below, NEW v, NEW d
  PROVE  CoversOne(below, v, d) \in BOOLEAN
<1>1. CASE d = Null
  <2>1. CoversOne(below, v, d) = TRUE
    BY <1>1 DEF CoversOne, IsMap, IsArray, Null
  <2> QED
    BY <2>1
<1>2. CASE IsMap(d)
  <2>1. d # Null /\ ~IsArray(d)
    BY <1>2 DEF IsMap, IsArray, Null
  <2>2. CoversOne(below, v, d) = (IsMap(v) /\ \A k \in Keys(d) : below[<<Lookup(v, k), d.at[k]>>])
    BY <1>2, <2>1, Zenon DEF CoversOne
  <2> QED
    BY <2>2, Zenon
<1>3. CASE IsArray(d)
  <2>1. d # Null /\ ~IsMap(d)
    BY <1>3 DEF IsMap, IsArray, Null
  <2>2. CoversOne(below, v, d) = (IsArray(v) /\ \A i \in DOMAIN d.items :
                       IF IsNamed(d) /\ IsNamed(v)
                       THEN IsLast(d, i) =>
                              \E j \in DOMAIN v.items : below[<<v.items[j], d.items[i]>>]
                       ELSE i \in DOMAIN v.items /\ below[<<v.items[i], d.items[i]>>])
    BY <1>3, <2>1, Zenon DEF CoversOne
  <2> QED
    BY <2>2, Zenon
<1>4. CASE d # Null /\ ~IsMap(d) /\ ~IsArray(d)
  <2>1. CoversOne(below, v, d) = (v = d)
    BY <1>4 DEF CoversOne
  <2> QED
    BY <2>1
<1> QED
  BY <1>1, <1>2, <1>3, <1>4

\* The definition of CoversAt is met, level by level.
LEMMA CoversLevels ==
  /\ CoversAt[0] = CoversLevel(0, <<>>)
  /\ \A n \in Nat : CoversAt[n + 1] = CoversLevel(n + 1, CoversAt[n])
<1> DEFINE All == UNION {[Document[n] \X Document[n] -> BOOLEAN] : n \in Nat}
           R == [n \in Nat |-> [Document[n] \X Document[n] -> BOOLEAN]]
           step == [q \in Nat \X (All \cup {<<>>}) |-> CoversLevel(q[1], q[2])]
<1>1. ASSUME NEW n \in Nat, NEW t \in All \cup {<<>>} PROVE step[<<n, t>>] = CoversLevel(n, t)
  <2> HIDE DEF All
  <2>1. <<n, t>> \in Nat \X (All \cup {<<>>})
    OBVIOUS
  <2> QED
    BY <2>1
<1>2. ASSUME NEW n \in Nat, NEW t PROVE CoversLevel(n, t) \in R[n]
  <2> DEFINE D == Document[n] \X Document[n]
             M == CoversLevel(n, t)
  <2>1. ASSUME NEW p \in D PROVE M[p] \in BOOLEAN
    <3>1. M[p] = CoversOne(t, p[1], p[2])
      BY DEF CoversLevel
    <3> QED
      BY <3>1, CoversBoolean
  <2>2. M = [p \in D |-> M[p]]
    BY DEF CoversLevel
  <2> HIDE DEF M, D
  <2>3. M \in [D -> BOOLEAN]
    BY <2>1, <2>2
  <2> QED
    BY <2>3 DEF M, D
<1>3. \A n \in Nat : \A t \in R[n] : t \in All
  OBVIOUS
<1> HIDE DEF R, step, All
<1>4. Steps(R, <<>>, step)
  <2>1. step[<<0, <<>> >>] \in R[0]
    BY <1>1, <1>2
  <2>2. ASSUME NEW n \in Nat, NEW t \in R[n] PROVE step[<<n + 1, t>>] \in R[n + 1]
    <3>1. t \in All \cup {<<>>} /\ n + 1 \in Nat
      BY <1>3
    <3> QED
      BY <3>1, <1>1, <1>2
  <2> QED
    BY <2>1, <2>2 DEF Steps
<1>5. PICK f : AreLevels(R, <<>>, step, f)
  BY <1>4, LevelFunction
<1>6. f[0] = CoversLevel(0, <<>>)
  BY <1>5, <1>1 DEF AreLevels
<1>7. ASSUME NEW n \in Nat PROVE f[n + 1] = CoversLevel(n + 1, f[n])
  <2>1. f[n] \in All /\ n + 1 \in Nat
    BY <1>5, <1>3 DEF AreLevels
  <2> QED
    BY <2>1, <1>5, <1>1 DEF AreLevels
<1> DEFINE Is(g) == g = [n \in Nat |-> CoversLevel(n, IF n = 0 THEN <<>> ELSE g[n - 1])]
<1>8. Is(f)
  <2>1. ASSUME NEW n \in Nat PROVE f[n] = CoversLevel(n, IF n = 0 THEN <<>> ELSE f[n - 1])
    <3>1. CASE n = 0
      BY <3>1, <1>6
    <3>2. CASE n # 0
      <4>1. n - 1 \in Nat /\ (n - 1) + 1 = n
        BY <3>2
      <4> QED
        BY <4>1, <3>2, <1>7
    <3> QED
      BY <3>1, <3>2
  <2>2. f = [n \in Nat |-> f[n]]
    BY <1>5 DEF AreLevels
  <2> QED
    BY <2>1, <2>2
<1>9. CoversAt = CHOOSE g : Is(g)
  BY Zenon DEF CoversAt, CoversLevel
<1> HIDE DEF Is
<1>10. Is(CoversAt)
  BY <1>8, <1>9, Zenon
<1>11. CoversAt = [n \in Nat |-> CoversLevel(n, IF n = 0 THEN <<>> ELSE CoversAt[n - 1])]
  BY <1>10, Zenon DEF Is
<1>12. ASSUME NEW n \in Nat PROVE CoversAt[n + 1] = CoversLevel(n + 1, CoversAt[n])
  <2>1. n + 1 \in Nat /\ n + 1 # 0 /\ (n + 1) - 1 = n
    OBVIOUS
  <2> QED
    BY <2>1, <1>11
<1> QED
  BY <1>11, <1>12

\* v covers d, documents of at most n levels.
Cover(n, v, d) == CoversAt[n][<<v, d>>]

\* At the lowest level covering is being the same, unless nothing is asked for.
LEMMA CoverLeaf ==
  ASSUME NEW v \in Document[0], NEW d \in Document[0]
  PROVE  Cover(0, v, d) <=> d = Null \/ v = d
<1>1. CoversAt[0][<<v, d>>] = CoversOne(<<>>, v, d)
  <2>1. <<v, d>> \in Document[0] \X Document[0]
    OBVIOUS
  <2>2. CoversLevel(0, <<>>)[<<v, d>>] = CoversOne(<<>>, <<v, d>>[1], <<v, d>>[2])
    BY <2>1 DEF CoversLevel
  <2> QED
    BY <2>2, CoversLevels
<1>2. d \in Leaves
  BY TreeLevels DEF Document
<1>3. ~IsMap(d) /\ ~IsArray(d)
  BY <1>2, LeafFacts
<1> QED
  BY <1>1, <1>3, CoversOneCases DEF Cover

\* At the others it is covering by key, by name or by position.
LEMMA CoverCases ==
  ASSUME NEW n \in Nat, NEW v \in Document[n + 1], NEW d \in Document[n + 1]
  PROVE  /\ IsMap(d) => (Cover(n + 1, v, d) <=>
              IsMap(v) /\ \A k \in Keys(d) : Cover(n, Lookup(v, k), d.at[k]))
         /\ IsArray(d) => (Cover(n + 1, v, d) <=>
              IsArray(v) /\ \A i \in DOMAIN d.items :
                       IF IsNamed(d) /\ IsNamed(v)
                       THEN IsLast(d, i) => \E j \in DOMAIN v.items : Cover(n, v.items[j], d.items[i])
                       ELSE i \in DOMAIN v.items /\ Cover(n, v.items[i], d.items[i]))
         /\ (~IsMap(d) /\ ~IsArray(d)) => (Cover(n + 1, v, d) <=> d = Null \/ v = d)
<1>1. CoversAt[n + 1][<<v, d>>] = CoversOne(CoversAt[n], v, d)
  <2>1. <<v, d>> \in Document[n + 1] \X Document[n + 1]
    OBVIOUS
  <2>2. CoversLevel(n + 1, CoversAt[n])[<<v, d>>] = CoversOne(CoversAt[n], <<v, d>>[1], <<v, d>>[2])
    BY <2>1 DEF CoversLevel
  <2> QED
    BY <2>2, CoversLevels
<1>2. Cover(n + 1, v, d) <=> CoversOne(CoversAt[n], v, d)
  BY <1>1 DEF Cover
<1>3. CASE IsMap(d)
  <2>1. ~IsArray(d)
    BY <1>3 DEF IsMap, IsArray
  <2>2. CoversOne(CoversAt[n], v, d) <=> IsMap(v) /\ \A k \in Keys(d) : CoversAt[n][<<Lookup(v, k), d.at[k]>>]
    BY <1>3, CoversOneCases, Zenon
  <2> QED
    BY <1>2, <1>3, <2>1, <2>2, Zenon DEF Cover
<1>4. CASE IsArray(d)
  <2>1. ~IsMap(d)
    BY <1>4 DEF IsMap, IsArray
  <2>2. CoversOne(CoversAt[n], v, d) <=>
         IsArray(v) /\ \A i \in DOMAIN d.items :
                       IF IsNamed(d) /\ IsNamed(v)
                       THEN IsLast(d, i) =>
                              \E j \in DOMAIN v.items : CoversAt[n][<<v.items[j], d.items[i]>>]
                       ELSE i \in DOMAIN v.items /\ CoversAt[n][<<v.items[i], d.items[i]>>]
    BY <1>4, CoversOneCases, Zenon
  <2> QED
    BY <1>2, <1>4, <2>1, <2>2, Zenon DEF Cover
<1>5. CASE ~IsMap(d) /\ ~IsArray(d)
  BY <1>2, <1>5, CoversOneCases
<1> QED
  BY <1>3, <1>4, <1>5

\* The keys of a map and the items of an array of JSON.
LEMMA JSONMap ==
  ASSUME NEW n \in Nat, NEW v \in JSON[n + 1], IsMap(v)
  PROVE  v.at \in [Key -> {Absent} \cup JSON[n]]
BY JSONCases

LEMMA JSONArray ==
  ASSUME NEW n \in Nat, NEW v \in JSON[n + 1], IsArray(v)
  PROVE  v.items \in Seq(JSON[n])
BY JSONCases

\* JSON covers itself.
LEMMA CoverSelf ==
  \A n \in Nat : \A x \in JSON[n] : Cover(n, x, x)
<1> DEFINE S == {n \in Nat : \A x \in JSON[n] : Cover(n, x, x)}
<1>0. \A n \in Nat : JSON[n] \subseteq Document[n]
  BY JSONFamily
<1>1. 0 \in S
  BY <1>0, CoverLeaf
<1>2. ASSUME NEW n \in S PROVE n + 1 \in S
  <2>1. n \in Nat /\ \A x \in JSON[n] : Cover(n, x, x)
    OBVIOUS
  <2>2. ASSUME NEW x \in JSON[n + 1] PROVE Cover(n + 1, x, x)
    <3>1. x \in Document[n + 1]
      BY <1>0, <2>1
    <3>2. CASE IsMap(x)
      <4>1. \A k \in Keys(x) : Lookup(x, k) = x.at[k] /\ x.at[k] \in JSON[n]
        <5>1. x.at \in [Key -> {Absent} \cup JSON[n]]
          BY <2>1, <3>2, JSONMap
        <5> QED
          BY <3>2, <5>1 DEF Lookup, Keys
      <4>2. \A k \in Keys(x) : Cover(n, Lookup(x, k), x.at[k])
        BY <2>1, <4>1
      <4> QED
        BY <2>1, <3>1, <3>2, <4>2, CoverCases
    <3>3. CASE IsArray(x)
      <4>1. \A i \in DOMAIN x.items : Cover(n, x.items[i], x.items[i])
        <5>1. x.items \in Seq(JSON[n])
          BY <2>1, <3>3, JSONArray
        <5> QED
          BY <2>1, <5>1
      <4> QED
        BY <2>1, <3>1, <3>3, <4>1, CoverCases
    <3>4. CASE ~IsMap(x) /\ ~IsArray(x)
      BY <2>1, <3>1, <3>4, CoverCases
    <3> QED
      BY <3>2, <3>3, <3>4
  <2> QED
    BY <2>1, <2>2
<1>3. S = Nat
  <2>1. S \in SUBSET Nat
    OBVIOUS
  <2> HIDE DEF S
  <2> QED
    BY <1>1, <1>2, <2>1, SetInduction
<1> QED
  BY <1>3

\* Nothing does not cover a clean document.
LEMMA NoneCovers ==
  ASSUME NEW n \in Nat, NEW d \in Clean(Scalars)[n]
  PROVE  ~Cover(n, Null, d)
<1>1. d \in Document[n] /\ Null \in Document[n] /\ d # Null /\ Scalars \in SUBSET Leaves
  BY JSONFamily, CleanFacts, TreeLeaf DEF Document, Leaves
<1>2. ~IsMap(Null) /\ ~IsArray(Null)
  BY DEF IsMap, IsArray, Null
<1>3. CASE n = 0
  BY <1>1, <1>3, CoverLeaf
<1>4. CASE n # 0
  <2>1. PICK m \in Nat : n = m + 1
    <3>1. n - 1 \in Nat /\ n = (n - 1) + 1
      BY <1>4
    <3> QED
      BY <3>1
  <2>2. d \in Document[m + 1] /\ Null \in Document[m + 1]
    BY <1>1, <2>1
  <2>3. ~Cover(m + 1, Null, d)
    BY <1>1, <1>2, <2>2, CoverCases
  <2> QED
    BY <2>1, <2>3
<1> QED
  BY <1>3, <1>4

\* A comparable copy is of its document's kind, that of a scalar the scalar.
LEMMA CompactIs ==
  ASSUME NEW n \in Nat, NEW v \in Document[n]
  PROVE  /\ Compact("copy")[n][v].is = v.is
         /\ v.is \in {"scalar", "template"} => Compact("copy")[n][v] = v
<1>1. CASE n = 0
  BY <1>1, CompactAtZero DEF Apply
<1>2. CASE n # 0
  <2>1. PICK m \in Nat : n = m + 1
    <3>1. n - 1 \in Nat /\ n = (n - 1) + 1
      BY <1>2
    <3> QED
      BY <3>1
  <2>2. v \in Document[m + 1]
    BY <2>1
  <2>3. /\ Compact("copy")[m + 1][v].is = v.is
        /\ v.is \in {"scalar", "template"} => Compact("copy")[m + 1][v] = v
    BY <2>2, CompactCases DEF IsMap, IsArray
  <2> QED
    BY <2>1, <2>3
<1> QED
  BY <1>1, <1>2

\* What is looked up in a document is a document.
LEMMA LookupDocument ==
  ASSUME NEW n \in Nat, NEW v \in Document[n + 1], NEW k \in Key
  PROVE  Lookup(v, k) \in Document[n]
<1>1. CASE IsMap(v) /\ v.at[k] # Absent
  <2>1. v.at \in [Key -> {Absent} \cup Document[n]]
    BY <1>1, DocumentCases, LeafFacts DEF IsMap
  <2> QED
    BY <1>1, <2>1 DEF Lookup
<1>2. CASE ~(IsMap(v) /\ v.at[k] # Absent)
  <2>1. Null \in Document[n]
    BY TreeLeaf DEF Document, Leaves
  <2> QED
    BY <1>2, <2>1 DEF Lookup
<1> QED
  BY <1>1, <1>2

\* A comparable copy has a name if its document does.
LEMMA CompactHasName ==
  ASSUME NEW n \in Nat, NEW v \in Document[n]
  PROVE  HasName(Compact("copy")[n][v]) <=> HasName(v)
<1>1. CASE n = 0
  <2>1. Compact("copy")[0][v] = v
    BY <1>1, CompactAtZero DEF Apply
  <2> QED
    BY <1>1, <2>1
<1>2. CASE n # 0
  <2>1. PICK m \in Nat : n = m + 1
    <3>1. n - 1 \in Nat /\ n = (n - 1) + 1
      BY <1>2
    <3> QED
      BY <3>1
  <2> DEFINE c == Compact("copy")[m + 1][v]
  <2>2. v \in Document[m + 1] /\ "name" \in Key
    BY <2>1, KeyFacts
  <2>3. Lookup(c, "name") = Compact("copy")[m][Lookup(v, "name")] /\ Lookup(v, "name") \in Document[m]
    BY <2>2, CompactLookup, LookupDocument
  <2>4. /\ Lookup(c, "name").is = Lookup(v, "name").is
        /\ Lookup(v, "name").is \in {"scalar", "template"} => Lookup(c, "name") = Lookup(v, "name")
    BY <2>3, CompactIs
  <2>5. IsMap(c) <=> IsMap(v)
    BY <2>2, CompactKind
  <2>6. HasName(c) <=> HasName(v)
    BY <2>4, <2>5 DEF HasName
  <2> QED
    BY <2>1, <2>6
<1> QED
  BY <1>1, <1>2

\* Whether the comparable copy covers d is whether the document does.
LEMMA CoverCompact ==
  \A n \in Nat : \A v \in Document[n], d \in JSON[n] :
    Cover(n, Compact("copy")[n][v], d) <=> Cover(n, v, d)
<1> DEFINE S == {n \in Nat : \A v \in Document[n], d \in JSON[n] :
                               Cover(n, Compact("copy")[n][v], d) <=> Cover(n, v, d)}
<1>0. \A n \in Nat : JSON[n] \subseteq Document[n]
  BY JSONFamily
<1>1. 0 \in S
  <2>1. \A v \in Document[0] : Compact("copy")[0][v] = v
    BY CompactAtZero DEF Apply
  <2> QED
    BY <2>1
<1>2. ASSUME NEW n \in S PROVE n + 1 \in S
  <2>1. n \in Nat /\ \A v \in Document[n], d \in JSON[n] :
                               Cover(n, Compact("copy")[n][v], d) <=> Cover(n, v, d)
    OBVIOUS
  <2>2. ASSUME NEW v \in Document[n + 1], NEW d \in JSON[n + 1]
        PROVE  Cover(n + 1, Compact("copy")[n + 1][v], d) <=> Cover(n + 1, v, d)
    <3> DEFINE c == Compact("copy")[n + 1][v]
               C == Compact("copy")[n]
    <3>1. d \in Document[n + 1] /\ c \in Document[n + 1] /\ n + 1 \in Nat
      <4>1. n + 1 \in Nat /\ \A m \in Nat : Compacts(m, Compact("copy")[m])
        BY <2>1, CompactTyped
      <4>2. Compacts(n + 1, Compact("copy")[n + 1])
        BY <4>1
      <4> QED
        BY <1>0, <4>1, <4>2 DEF Compacts
    <3>2. (IsMap(c) <=> IsMap(v)) /\ (IsArray(c) <=> IsArray(v))
      BY <2>1, CompactKind
    <3>3. CASE IsMap(d)
      <4>1. d.at \in [Key -> {Absent} \cup JSON[n]]
        BY <2>1, <3>3, JSONMap
      <4>2. ASSUME NEW k \in Keys(d) PROVE Cover(n, Lookup(c, k), d.at[k]) <=> Cover(n, Lookup(v, k), d.at[k])
        <5>1. k \in Key /\ d.at[k] \in JSON[n]
          BY <4>1 DEF Keys
        <5>2. Lookup(c, k) = C[Lookup(v, k)] /\ Lookup(v, k) \in Document[n]
          BY <2>1, <5>1, CompactLookup, LookupDocument
        <5> HIDE DEF c
        <5> QED
          BY <2>1, <5>1, <5>2
      <4> HIDE DEF c
      <4>3. Cover(n + 1, c, d) <=> IsMap(c) /\ \A k \in Keys(d) : Cover(n, Lookup(c, k), d.at[k])
        BY <2>1, <3>1, <3>3, CoverCases
      <4>4. Cover(n + 1, v, d) <=> IsMap(v) /\ \A k \in Keys(d) : Cover(n, Lookup(v, k), d.at[k])
        BY <2>1, <3>1, <3>3, CoverCases
      <4>5. Cover(n + 1, c, d) <=> Cover(n + 1, v, d)
        BY <3>2, <4>2, <4>3, <4>4
      <4> QED
        BY <4>5 DEF c
    <3>4. CASE IsArray(d)
      <4> DEFINE L(x) == \A i \in DOMAIN d.items :
                       IF IsNamed(d) /\ IsNamed(x)
                       THEN IsLast(d, i) => \E j \in DOMAIN x.items : Cover(n, x.items[j], d.items[i])
                       ELSE i \in DOMAIN x.items /\ Cover(n, x.items[i], d.items[i])
      <4>1. d.items \in Seq(JSON[n])
        BY <2>1, <3>4, JSONArray
      <4>2. ASSUME IsArray(v) PROVE L(c) <=> L(v)
        <5>1. /\ v.items \in Seq(Document[n]) /\ IsArray(c)
              /\ DOMAIN c.items = DOMAIN v.items
              /\ \A i \in DOMAIN v.items : c.items[i] = C[v.items[i]]
          BY <2>1, <4>2, CompactCases DEF IsArray, IsMap
        <5>2. \A i \in DOMAIN v.items : v.items[i] \in Document[n]
          BY <5>1
        <5> HIDE DEF c
        <5>3. \A i \in DOMAIN v.items : HasName(c.items[i]) <=> HasName(v.items[i])
          BY <2>1, <5>1, <5>2, CompactHasName
        <5>4. IsNamed(c) <=> IsNamed(v)
          BY <4>2, <5>1, <5>3 DEF IsNamed
        <5>5. \A i \in DOMAIN d.items : \A j \in DOMAIN v.items :
                Cover(n, c.items[j], d.items[i]) <=> Cover(n, v.items[j], d.items[i])
          <6>1. \A i \in DOMAIN d.items : d.items[i] \in JSON[n]
            BY <4>1
          <6> QED
            BY <2>1, <5>1, <5>2, <6>1
        <5> QED
          BY <5>1, <5>4, <5>5
      <4> HIDE DEF c
      <4>3. Cover(n + 1, c, d) <=> IsArray(c) /\ L(c)
        BY <2>1, <3>1, <3>4, CoverCases
      <4>4. Cover(n + 1, v, d) <=> IsArray(v) /\ L(v)
        BY <2>1, <3>1, <3>4, CoverCases
      <4> HIDE DEF L
      <4>5. Cover(n + 1, c, d) <=> Cover(n + 1, v, d)
        BY <3>2, <4>2, <4>3, <4>4
      <4> QED
        BY <4>5 DEF c
    <3>5. CASE ~IsMap(d) /\ ~IsArray(d)
      <4>1. c = d <=> v = d
        <5>1. CASE ~IsMap(v) /\ ~IsArray(v)
          BY <2>1, <5>1, CompactCases
        <5>2. CASE IsMap(v) \/ IsArray(v)
          BY <3>2, <3>5, <5>2
        <5> QED
          BY <5>1, <5>2
      <4>2. (Cover(n + 1, c, d) <=> d = Null \/ c = d) /\ (Cover(n + 1, v, d) <=> d = Null \/ v = d)
        BY <2>1, <3>1, <3>5, CoverCases
      <4> QED
        BY <4>1, <4>2
    <3> QED
      BY <3>3, <3>4, <3>5
  <2> QED
    BY <2>1, <2>2
<1>3. S = Nat
  <2>1. S \in SUBSET Nat
    OBVIOUS
  <2> HIDE DEF S
  <2> QED
    BY <1>1, <1>2, <2>1, SetInduction
<1> QED
  BY <1>3

-----------------------------------------------------------------------------
(* What is merged over a document is covered by the result                 *)

\* What is merged over a leaf is taken as it is.
LEMMA MergeOntoLeaf ==
  ASSUME NEW n \in Nat, NEW a \in Document[n], NEW b \in Document[n], ~IsMap(b), ~IsArray(b)
  PROVE  MergeAt[n][<<a, b>>] = b
<1>1. CASE n = 0
  <2>1. MergeAt[0][<<a, b>>] = MergeOne(<<>>, a, b)
    BY <1>1, MergeLevels DEF MergeLevel
  <2>2. a \in Values(Leaves, {}, 0)
    BY <1>1, AnyFamily
  <2> QED
    BY <1>1, <2>1, <2>2, AnyFamily, MergeLeaf
<1>2. CASE n # 0
  <2>1. PICK m \in Nat : n = m + 1
    <3>1. n - 1 \in Nat /\ n = (n - 1) + 1
      BY <1>2
    <3> QED
      BY <3>1
  <2>2. a \in Document[m + 1] /\ b \in Document[m + 1]
    BY <2>1
  <2> QED
    BY <2>1, <2>2, MergeOther
<1> QED
  BY <1>1, <1>2

\* Two elements with names merge to one of the second name.
LEMMA MergeHasName ==
  ASSUME NEW n \in Nat, NEW a \in Document[n], NEW b \in Document[n], HasName(a), HasName(b),
         ~Failed(MergeAt[n][<<a, b>>])
  PROVE  HasName(MergeAt[n][<<a, b>>])
<1>1. n # 0
  <2>1. n = 0 => a \in Leaves
    BY TreeLevels DEF Document
  <2> QED
    BY <2>1, LeafFacts DEF HasName
<1>2. PICK m \in Nat : n = m + 1
  <2>1. n - 1 \in Nat /\ n = (n - 1) + 1
    BY <1>1
  <2> QED
    BY <2>1
<1> DEFINE r == MergeAt[m + 1][<<a, b>>]
           na == a.at["name"]
           nb == b.at["name"]
<1>3. a \in Document[m + 1] /\ b \in Document[m + 1] /\ IsMap(a) /\ IsMap(b) /\ ~Failed(r) /\ "name" \in Key
  BY <1>2, KeyFacts DEF HasName
<1>4. IsMap(r) /\ Lookup(r, "name") = MergedLookup(MergeAt[m], a, b, "name")
  BY <1>3, MergeMaps
<1>5. na # Absent /\ nb # Absent /\ na = Lookup(a, "name") /\ nb = Lookup(b, "name")
  BY <1>3 DEF HasName, Lookup, Null
<1>6. na \in Document[m] /\ nb \in Document[m] /\ nb.is \in {"scalar", "template"} /\ nb.value \notin Number
  BY <1>3, <1>5, LookupDocument DEF HasName
<1> HIDE DEF r
<1>7. Lookup(r, "name") = MergeAt[m][<<na, nb>>]
  BY <1>3, <1>4, <1>5 DEF MergedLookup, BothKeys, Keys, AtKey
<1>8. ~IsMap(nb) /\ ~IsArray(nb)
  BY <1>6 DEF IsMap, IsArray
<1> HIDE DEF na, nb
<1>9. Lookup(r, "name") = nb
  BY <1>6, <1>7, <1>8, MergeOntoLeaf
<1>10. HasName(r)
  BY <1>4, <1>6, <1>9 DEF HasName
<1> QED
  BY <1>2, <1>10 DEF r

\* A name is never empty.
LEMMA NameInValue ==
  ASSUME NEW n \in Nat, NEW v \in Document[n], HasName(v)
  PROVE  NameIn(v) # ""
<1>1. n # 0
  <2>1. n = 0 => v \in Leaves
    BY TreeLevels DEF Document
  <2> QED
    BY <2>1, LeafFacts DEF HasName
<1>2. PICK m \in Nat : n = m + 1
  <2>1. n - 1 \in Nat /\ n = (n - 1) + 1
    BY <1>1
  <2> QED
    BY <2>1
<1> DEFINE name == Lookup(v, "name")
<1>3. name \in Document[m] /\ name.is \in {"scalar", "template"}
  BY <1>2, LookupDocument, KeyFacts DEF HasName
<1> HIDE DEF name
<1>4. name \in Leaves
  <2>1. CASE m = 0
    BY <1>3, <2>1, TreeLevels DEF Document
  <2>2. CASE m # 0
    <3>1. PICK k \in Nat : m = k + 1
      <4>1. m - 1 \in Nat /\ m = (m - 1) + 1
        BY <1>2, <2>2
      <4> QED
        BY <4>1
    <3>2. name \in Document[k + 1] /\ ~IsMap(name) /\ ~IsArray(name)
      BY <1>3, <3>1 DEF IsMap, IsArray
    <3> QED
      BY <3>2, DocumentCases
  <2> QED
    BY <2>1, <2>2
<1>5. name.value \in Value
  BY <1>3, <1>4 DEF Leaves, BadTemplate, Null
<1> QED
  BY <1>5, ValueAssumption DEF NameIn, name

\* The iterator names the last element of each name.
LEMMA LastHasKey ==
  ASSUME NEW n \in Nat, NEW b, b.items \in Seq(Document[n]), IsNamed(b), NEW j \in DOMAIN b.items, IsLast(b, j)
  PROVE  LET src == NewNamedArray(b)
         IN  IterKey(src, j) # "" /\ IterKey(src, j) \in DOMAIN src.keys /\ src.keys[IterKey(src, j)] = j
<1> DEFINE src == NewNamedArray(b)
           name == NameIn(b.items[j])
<1>1. /\ src \in NamedArrays(Document[n])
      /\ DOMAIN src.keys = {NameIn(b.items[i]) : i \in DOMAIN b.items}
      /\ \A k \in DOMAIN src.keys : NameIn(b.items[src.keys[k]]) = k /\ IsLast(b, src.keys[k])
      /\ src.arr = b.items
  BY NewNamedArrayFacts
<1>2. name \in DOMAIN src.keys
  BY <1>1
<1>3. src.keys[name] \in DOMAIN b.items
  BY <1>1, <1>2 DEF NamedArrays
<1>4. DOMAIN b.items = 1..Len(b.items) /\ Len(b.items) \in Nat
  OBVIOUS
<1> HIDE DEF src
<1>5. src.keys[name] = j
  <2>1. NameIn(b.items[src.keys[name]]) = name /\ IsLast(b, src.keys[name])
    BY <1>1, <1>2
  <2>2. j <= src.keys[name] /\ src.keys[name] <= j
    BY <1>3, <2>1 DEF IsLast
  <2> QED
    BY <1>3, <1>4, <2>2
<1>6. IterKey(src, j) = name
  BY <1>1, <1>2, <1>5, IterKeyFacts
<1>7. name # ""
  <2>1. b.items[j] \in Document[n] /\ HasName(b.items[j])
    BY <1>4 DEF IsNamed
  <2> QED
    BY <2>1, NameInValue
<1> QED
  BY <1>2, <1>5, <1>6, <1>7 DEF src

\* After i turns of the loop: the elements have names, and the last element of
\* each name so far is covered by the one of that name.
Held(n, b, i, N) ==
  /\ \A m \in DOMAIN N.arr : HasName(N.arr[m])
  /\ \A j \in 1..i : IsLast(b, j) =>
       /\ IterKey(NewNamedArray(b), j) \in DOMAIN N.keys
       /\ Cover(n, N.arr[N.keys[IterKey(NewNamedArray(b), j)]], b.items[j])

MergeCoversAt(n) ==
  \A x \in Document[n], y \in JSON[n] :
    ~Failed(MergeAt[n][<<x, y>>]) => Cover(n, MergeAt[n][<<x, y>>], y)

\* A turn of the loop that merges the last element of a name makes the array
\* hold it, and loses no element held before.
LEMMA HeldStep ==
  ASSUME NEW n \in Nat, MergeCoversAt(n), NEW b, b.items \in Seq(JSON[n]), IsNamed(b),
         NEW N \in NamedArrays(Document[n]), NEW i \in Nat, i + 1 \in DOMAIN b.items, Held(n, b, i, N),
         LET src == NewNamedArray(b)
             new == NewItem(MergeAt[n], N, src, i + 1)
         IN  new \in Document[n]
  PROVE  LET src == NewNamedArray(b)
             new == NewItem(MergeAt[n], N, src, i + 1)
         IN  Held(n, b, i + 1, SetNamed(N, IterKey(src, i + 1), new))
<1> DEFINE src == NewNamedArray(b)
           T == Document[n]
           M == MergeAt[n]
           key == IterKey(src, i + 1)
           new == NewItem(M, N, src, i + 1)
           next == SetNamed(N, key, new)
           item == b.items[i + 1]
<1>1. b.items \in Seq(T) /\ JSON[n] \subseteq T
  BY JSONFamily
<1>2. src \in NamedArrays(T) /\ src.arr = b.items /\ DOMAIN b.items = 1..Len(b.items)
  BY <1>1, NewNamedArrayFacts
<1>3. item \in JSON[n] /\ HasName(item) /\ item = src.arr[i + 1] /\ new \in T /\ key \in Names(T)
  <2>1. key \in Names(T)
    BY <1>2, IterKeyFacts
  <2>2. item \in JSON[n] /\ HasName(item)
    BY <1>2 DEF IsNamed
  <2> QED
    BY <1>2, <2>1, <2>2
<1>4. \A t \in T : ~Failed(t)
  BY AnyFamily, ValueCases
<1>5. N.arr \in Seq(T) /\ \A k \in DOMAIN N.keys : N.keys[k] \in DOMAIN N.arr
  BY DEF NamedArrays
<1>6. HasName(new) /\ Cover(n, new, item)
  <2>1. CASE key \in DOMAIN N.keys
    <3> DEFINE old == N.arr[N.keys[key]]
    <3>1. old \in T /\ HasName(old)
      BY <1>5, <2>1 DEF Held
    <3>2. new = M[<<old, item>>]
      BY <1>3, <2>1 DEF NewItem
    <3> HIDE DEF old, new, item
    <3>3. ~Failed(M[<<old, item>>]) /\ item \in T
      BY <1>1, <1>3, <1>4, <3>2
    <3>4. HasName(M[<<old, item>>])
      BY <1>3, <3>1, <3>3, MergeHasName
    <3>5. Cover(n, M[<<old, item>>], item)
      BY <1>3, <3>1, <3>3 DEF MergeCoversAt
    <3> QED
      BY <3>2, <3>4, <3>5
  <2>2. CASE key \notin DOMAIN N.keys
    <3>1. new = item
      BY <1>3, <2>2 DEF NewItem
    <3>2. Cover(n, item, item)
      BY <1>3, CoverSelf
    <3> QED
      BY <1>3, <3>1, <3>2
  <2> QED
    BY <2>1, <2>2
<1>7. /\ DOMAIN next.keys = DOMAIN N.keys \cup {key}
      /\ next.arr[next.keys[key]] = new
      /\ \A k \in DOMAIN N.keys : k # key => next.arr[next.keys[k]] = N.arr[N.keys[k]]
      /\ \A m \in DOMAIN next.arr : next.arr[m] = new \/ (m \in DOMAIN N.arr /\ next.arr[m] = N.arr[m])
  <2> HIDE DEF key, new
  <2> QED
    BY <1>3, SetNamedFacts
<1>8. \A j \in 1..(i + 1) : IsLast(b, j) => IterKey(src, j) \in DOMAIN src.keys /\ src.keys[IterKey(src, j)] = j
  <2>1. \A j \in 1..(i + 1) : j \in DOMAIN b.items
    BY <1>2
  <2> QED
    BY <1>1, <2>1, LastHasKey
<1> HIDE DEF src, new, key, next, item
<1>9. \A m \in DOMAIN next.arr : HasName(next.arr[m])
  BY <1>6, <1>7 DEF Held
<1>10. ASSUME NEW j \in 1..(i + 1), IsLast(b, j)
       PROVE  IterKey(src, j) \in DOMAIN next.keys /\ Cover(n, next.arr[next.keys[IterKey(src, j)]], b.items[j])
  <2>1. CASE j = i + 1
    BY <1>6, <1>7, <2>1 DEF key, item
  <2>2. CASE j # i + 1
    <3>1. j \in 1..i
      BY <2>2
    <3>2. IterKey(src, j) \in DOMAIN N.keys /\ Cover(n, N.arr[N.keys[IterKey(src, j)]], b.items[j])
      BY <1>10, <3>1 DEF Held, src
    <3>3. IterKey(src, j) # key
      <4>1. src.keys[IterKey(src, j)] = j /\ IterKey(src, j) \in DOMAIN src.keys
        BY <1>8, <1>10
      <4>2. ASSUME key \in DOMAIN src.keys PROVE src.keys[key] = i + 1
        <5>1. \/ IterKey(src, i + 1) \in DOMAIN src.keys /\ src.keys[IterKey(src, i + 1)] = i + 1
              \/ IterKey(src, i + 1) = "" /\ \A k \in DOMAIN src.keys : src.keys[k] # i + 1
          BY <1>2, IterKeyFacts
        <5>2. "" \notin DOMAIN src.keys
          <6>1. DOMAIN src.keys = {NameIn(b.items[m]) : m \in DOMAIN b.items}
            BY <1>1, NewNamedArrayFacts DEF src
          <6>2. \A m \in DOMAIN b.items : b.items[m] \in T /\ HasName(b.items[m])
            BY <1>1 DEF IsNamed
          <6>3. \A m \in DOMAIN b.items : NameIn(b.items[m]) # ""
            BY <6>2, NameInValue
          <6> QED
            BY <6>1, <6>3
        <5> QED
          BY <4>2, <5>1, <5>2 DEF key
      <4> QED
        BY <2>2, <4>1, <4>2
    <3> QED
      BY <1>7, <3>2, <3>3
  <2> QED
    BY <2>1, <2>2
<1>11. Held(n, b, i + 1, next)
  BY <1>9, <1>10 DEF Held, src
<1> QED
  BY <1>11 DEF next, key, new, src

\* After the loop the array holds the last element of each name of the source.
LEMMA NamedCovers ==
  ASSUME NEW n \in Nat, MergeCoversAt(n), NEW a \in Document[n + 1], NEW b \in JSON[n + 1],
         IsNamed(a), IsNamed(b), NEW L, IsRun(Document[n], {Panic}, MergeAt[n], a, b, L),
         L[Len(b.items)] \in NamedArrays(Document[n])
  PROVE  Held(n, b, Len(b.items), L[Len(b.items)])
<1> DEFINE src == NewNamedArray(b)
           T == Document[n]
           M == MergeAt[n]
           OK(i) == L[i] \in NamedArrays(T) => Held(n, b, i, L[i])
           I == {i \in Nat : i <= Len(b.items) => OK(i)}
<1>1. a.items \in Seq(T) /\ b.items \in Seq(JSON[n]) /\ b.items \in Seq(T)
  <2>1. a.items \in Seq(T)
    BY DocumentCases, LeafFacts DEF IsNamed, IsArray
  <2>2. JSON[n] \subseteq T
    BY JSONFamily
  <2>3. b.items \in Seq(JSON[n])
    BY JSONArray DEF IsNamed
  <2> QED
    BY <2>1, <2>2, <2>3
<1>2. src \in NamedArrays(T) /\ src.arr = b.items /\ Len(b.items) \in Nat
        /\ DOMAIN b.items = 1..Len(b.items)
  BY <1>1, NewNamedArrayFacts
<1>3. \A i \in 1..Len(b.items) : L[i] = MergeItem(M, L[i - 1], src, i)
  BY DEF IsRun
<1>4. \A i \in 0..Len(b.items) : L[i] \in NamedArrays(T) \cup {Panic}
  BY DEF IsRun
<1>5. MergesIn(T, {Panic}, M)
  BY MergeLevelIn
<1>6. Failed(Panic) /\ Panic \notin NamedArrays(T)
  BY DEF Failed, Panic, NamedArrays
<1>7. 0 \in I
  <2>1. L[0] = NewNamedArray(a) /\ NewNamedArray(a).arr = a.items
    BY <1>1, NewNamedArrayFacts DEF IsRun
  <2>2. \A m \in DOMAIN L[0].arr : HasName(L[0].arr[m])
    BY <2>1 DEF IsNamed
  <2>3. 1..0 = {}
    OBVIOUS
  <2>4. Held(n, b, 0, L[0])
    BY <2>2, <2>3 DEF Held
  <2> QED
    BY <2>4
<1>8. ASSUME NEW i \in I PROVE i + 1 \in I
  <2> SUFFICES ASSUME i + 1 <= Len(b.items), L[i + 1] \in NamedArrays(T) PROVE Held(n, b, i + 1, L[i + 1])
    OBVIOUS
  <2>1. i \in Nat /\ i \in 0..Len(b.items) /\ i + 1 \in 1..Len(b.items) /\ (i + 1) - 1 = i /\ i + 1 \in DOMAIN b.items
    BY <1>2
  <2>2. OK(i) /\ L[i] \in NamedArrays(T) \cup {Panic}
    BY <1>4, <2>1
  <2>3. L[i + 1] = MergeItem(M, L[i], src, i + 1)
    BY <1>3, <2>1
  <2>4. L[i] # Panic
    BY <1>6, <2>3 DEF MergeItem
  <2> DEFINE N == L[i]
             new == NewItem(M, N, src, i + 1)
  <2>5. N \in NamedArrays(T) /\ Held(n, b, i, N)
    BY <2>2, <2>4
  <2>6. new \in T /\ L[i + 1] = SetNamed(N, IterKey(src, i + 1), new)
    <3>1. N \in NamedArrays(T) /\ src \in NamedArrays(T) /\ i + 1 \in DOMAIN src.arr
      BY <1>2, <2>1, <2>5
    <3> HIDE DEF src, N
    <3>2. \/ /\ NewItem(M, N, src, i + 1) \in {Panic}
             /\ MergeItem(M, N, src, i + 1) = NewItem(M, N, src, i + 1)
          \/ /\ NewItem(M, N, src, i + 1) \in T
             /\ MergeItem(M, N, src, i + 1) =
                  SetNamed(N, IterKey(src, i + 1), NewItem(M, N, src, i + 1))
      BY <1>5, <3>1, MergeItemCases
    <3>3. MergeItem(M, N, src, i + 1) # Panic
      BY <1>6, <2>3 DEF N
    <3> QED
      BY <2>3, <3>2, <3>3 DEF N
  <2> HIDE DEF N
  <2>7. Held(n, b, i + 1, SetNamed(N, IterKey(src, i + 1), new))
    BY <1>1, <2>1, <2>5, <2>6, HeldStep
  <2> QED
    BY <2>6, <2>7
<1>9. I = Nat
  <2>1. I \in SUBSET Nat
    OBVIOUS
  <2> HIDE DEF I
  <2> QED
    BY <1>7, <1>8, <2>1, SetInduction
<1>10. Len(b.items) \in I /\ Len(b.items) <= Len(b.items)
  BY <1>2, <1>9
<1> QED
  BY <1>10

\* What is merged over anything is covered by the result, at every level.
LEMMA MergeCovers ==
  \A n \in Nat : MergeCoversAt(n)
<1> DEFINE S == {n \in Nat : MergeCoversAt(n)}
<1>0. \A n \in Nat : JSON[n] \subseteq Document[n]
  BY JSONFamily
<1>1. 0 \in S
  <2>1. ASSUME NEW x \in Document[0], NEW y \in JSON[0] PROVE Cover(0, MergeAt[0][<<x, y>>], y)
    <3>1. y \in Document[0] /\ y \in Leaves
      BY <1>0, TreeLevels DEF Document
    <3>2. MergeAt[0][<<x, y>>] = y
      BY <3>1, LeafFacts, MergeOntoLeaf
    <3> QED
      BY <3>1, <3>2, CoverLeaf
  <2> QED
    BY <2>1 DEF MergeCoversAt
<1>2. ASSUME NEW n \in S PROVE n + 1 \in S
  <2>1. n \in Nat /\ MergeCoversAt(n)
    OBVIOUS
  <2>2. ASSUME NEW x \in Document[n + 1], NEW y \in JSON[n + 1],
               ~Failed(MergeAt[n + 1][<<x, y>>])
        PROVE  Cover(n + 1, MergeAt[n + 1][<<x, y>>], y)
    <3> DEFINE r == MergeAt[n + 1][<<x, y>>]
               M == MergeAt[n]
    <3>1. y \in Document[n + 1] /\ n + 1 \in Nat
      BY <1>0, <2>1
    <3>2. r \in Document[n + 1]
      <4>1. MergesIn(Document[n + 1], {Panic}, MergeAt[n + 1])
        BY <3>1, MergeLevelIn
      <4>2. r \in Document[n + 1] \cup {Panic} /\ Failed(Panic)
        BY <3>1, <4>1 DEF MergesIn
      <4> QED
        BY <2>2, <4>2
    <3>3. CASE IsMap(x) /\ IsMap(y)
      <4>1. /\ IsMap(r)
            /\ \A k \in Key : Lookup(r, k) = MergedLookup(M, x, y, k)
            /\ \A k \in BothKeys(x, y) : ~Failed(AtKey(M, x, y, k))
        BY <2>1, <2>2, <3>1, <3>3, MergeMaps
      <4>2. x.at \in [Key -> {Absent} \cup Document[n]] /\ y.at \in [Key -> {Absent} \cup JSON[n]]
        BY <1>0, <2>1, <3>3, DocumentCases, LeafFacts, JSONMap DEF IsMap
      <4> HIDE DEF r
      <4>3. ASSUME NEW k \in Keys(y) PROVE Cover(n, Lookup(r, k), y.at[k])
        <5>1. k \in Key /\ y.at[k] # Absent /\ y.at[k] \in JSON[n]
          BY <4>2 DEF Keys
        <5>2. CASE k \in BothKeys(x, y)
          <6>1. x.at[k] \in Document[n]
            BY <4>2, <5>2 DEF BothKeys, Keys
          <6>2. Lookup(r, k) = M[<<x.at[k], y.at[k]>>] /\ ~Failed(M[<<x.at[k], y.at[k]>>])
            BY <4>1, <5>1, <5>2 DEF MergedLookup, AtKey
          <6>3. Cover(n, M[<<x.at[k], y.at[k]>>], y.at[k])
            BY <2>1, <5>1, <6>1, <6>2 DEF MergeCoversAt
          <6> QED
            BY <6>2, <6>3
        <5>3. CASE k \notin BothKeys(x, y)
          <6>1. Lookup(r, k) = y.at[k]
            BY <4>1, <5>1, <5>3 DEF MergedLookup
          <6>2. Cover(n, y.at[k], y.at[k])
            BY <2>1, <5>1, CoverSelf
          <6> QED
            BY <6>1, <6>2
        <5> QED
          BY <5>2, <5>3
      <4>4. Cover(n + 1, r, y)
        BY <2>1, <3>1, <3>2, <3>3, <4>1, <4>3, CoverCases
      <4> QED
        BY <4>4 DEF r
    <3>4. CASE IsArray(x) /\ IsArray(y)
      <4>1. x.items \in Seq(Document[n]) /\ y.items \in Seq(JSON[n])
        <5>1. x.items \in Seq(Document[n])
          BY <2>1, <3>4, DocumentCases, LeafFacts DEF IsArray
        <5>2. y.items \in Seq(JSON[n])
          BY <2>1, <3>4, JSONArray
        <5> QED
          BY <5>1, <5>2
      <4> HIDE DEF r
      <4>2. ASSUME IsNamed(x), IsNamed(y), NEW L, IsRun(Document[n], {Panic}, M, x, y, L),
                   L[Len(y.items)] \in NamedArrays(Document[n]), r = Array(L[Len(y.items)].arr)
            PROVE  Cover(n + 1, r, y)
        <5> DEFINE N == L[Len(y.items)]
        <5>1. Held(n, y, Len(y.items), N)
          BY <2>1, <4>2, NamedCovers
        <5>2. IsArray(r) /\ r.items = N.arr
          BY <4>2 DEF IsArray, Array
        <5>3. IsNamed(r)
          BY <5>1, <5>2 DEF IsNamed, Held
        <5>4. ASSUME NEW i \in DOMAIN y.items, IsLast(y, i)
              PROVE  \E j \in DOMAIN r.items : Cover(n, r.items[j], y.items[i])
          <6>1. i \in 1..Len(y.items)
            BY <4>1
          <6> DEFINE key == IterKey(NewNamedArray(y), i)
          <6>2. key \in DOMAIN N.keys /\ Cover(n, N.arr[N.keys[key]], y.items[i])
            BY <5>1, <5>4, <6>1 DEF Held
          <6>3. N.keys[key] \in DOMAIN N.arr
            BY <4>2, <6>2 DEF NamedArrays
          <6> QED
            BY <5>2, <6>2, <6>3
        <5> QED
          BY <2>1, <3>1, <3>2, <3>4, <4>2, <5>2, <5>3, <5>4, CoverCases
      <4>3. ASSUME ~(IsNamed(x) /\ IsNamed(y)), r = MergedArray(M, x, y),
                   \A i \in BothItems(x, y) : ~Failed(AtItem(M, x, y, i))
            PROVE  Cover(n + 1, r, y)
        <5>1. r.is = "array" /\ DOMAIN r.items = DOMAIN Longer(x, y)
              /\ \A i \in DOMAIN Longer(x, y) :
                   r.items[i] = IF i \in BothItems(x, y) THEN AtItem(M, x, y, i) ELSE Longer(x, y)[i]
          BY <4>3 DEF MergedArray, Array
        <5>2. ASSUME NEW i \in DOMAIN y.items PROVE i \in DOMAIN r.items /\ Cover(n, r.items[i], y.items[i])
          <6>1. y.items[i] \in JSON[n] /\ DOMAIN y.items = 1..Len(y.items) /\ Len(y.items) \in Nat
                /\ DOMAIN x.items = 1..Len(x.items) /\ Len(x.items) \in Nat
            BY <4>1
          <6>2. i \in DOMAIN Longer(x, y)
            BY <5>2, <6>1 DEF Longer
          <6>3. CASE i \in BothItems(x, y)
            <7>1. x.items[i] \in Document[n]
              BY <4>1, <6>3 DEF BothItems
            <7>2. ~Failed(M[<<x.items[i], y.items[i]>>]) /\ r.items[i] = M[<<x.items[i], y.items[i]>>]
              BY <4>3, <5>1, <6>2, <6>3 DEF AtItem
            <7>3. Cover(n, M[<<x.items[i], y.items[i]>>], y.items[i])
              BY <2>1, <6>1, <7>1, <7>2 DEF MergeCoversAt
            <7> QED
              BY <5>1, <6>2, <7>2, <7>3
          <6>4. CASE i \notin BothItems(x, y)
            <7>1. Longer(x, y) = y.items
              BY <5>2, <6>1, <6>4 DEF Longer, BothItems
            <7>2. Cover(n, y.items[i], y.items[i])
              BY <2>1, <6>1, CoverSelf
            <7> QED
              BY <5>1, <6>2, <6>4, <7>1, <7>2
          <6> QED
            BY <6>3, <6>4
        <5>3. IsArray(r)
          BY <5>1 DEF IsArray
        <5> QED
          BY <2>1, <3>1, <3>2, <3>4, <5>2, <5>3, CoverCases
      <4>4. \/ /\ IsNamed(x) /\ IsNamed(y)
               /\ \E L : /\ IsRun(Document[n], {Panic}, M, x, y, L)
                         /\ L[Len(y.items)] \in NamedArrays(Document[n])
                         /\ r = Array(L[Len(y.items)].arr)
            \/ /\ ~(IsNamed(x) /\ IsNamed(y))
               /\ \A i \in BothItems(x, y) : ~Failed(AtItem(M, x, y, i))
               /\ r = MergedArray(M, x, y)
        BY <2>1, <2>2, <3>1, <3>4, MergeArrays DEF r
      <4>5. Cover(n + 1, r, y)
        BY <4>2, <4>3, <4>4
      <4> QED
        BY <4>5 DEF r
    <3>5. CASE ~(IsMap(x) /\ IsMap(y)) /\ ~(IsArray(x) /\ IsArray(y))
      <4>1. r = y
        BY <2>1, <3>1, <3>5, MergeOther
      <4>2. Cover(n + 1, y, y)
        BY <3>1, CoverSelf
      <4> QED
        BY <4>1, <4>2
    <3> QED
      BY <3>3, <3>4, <3>5
  <2>3. MergeCoversAt(n + 1)
    BY <2>2 DEF MergeCoversAt
  <2> QED
    BY <2>1, <2>3
<1>3. S = Nat
  <2>1. S \in SUBSET Nat
    OBVIOUS
  <2> HIDE DEF S
  <2> QED
    BY <1>1, <1>2, <2>1, SetInduction
<1> QED
  BY <1>3


\* What the object has for each key of the resource, the metadata apart.
Asked(v, d) == \A k \in Keys(d) \ {"metadata"} : Cover(Depth - 1, Lookup(v, k), d.at[k])

\* An object without its metadata.
LEMMA RestFacts ==
  ASSUME NEW v \in Objects(JSON[Depth])
  PROVE  /\ Rest(v) \in Document[Depth]
         /\ IsMap(Rest(v))
         /\ \A k \in Key \ {"metadata"} : Lookup(Rest(v), k) = Lookup(v, k) /\ Rest(v).at[k] = v.at[k]
         /\ Keys(Rest(v)) = Keys(v) \ {"metadata"}
<1>1. v.at \in [Key -> {Absent} \cup JSON[Depth - 1]] /\ \A k \in Key : Lookup(v, k) = LookedUp(v, k)
  BY ObjectFacts
<1>2. IsMap(Rest(v)) /\ \A j \in Key : Lookup(Rest(v), j) =
              IF j \in {"metadata"} \/ v.at[j] = Absent THEN Null ELSE v.at[j]
  BY WithoutFacts DEF Rest
<1>3. \A k \in Key \ {"metadata"} : Lookup(Rest(v), k) = Lookup(v, k)
  BY <1>1, <1>2 DEF LookedUp
<1>4. \A k \in Key : Rest(v).at[k] = IF k \in {"metadata"} THEN Absent ELSE v.at[k]
  BY DEF Rest, Without, Map
<1>5. Keys(Rest(v)) = Keys(v) \ {"metadata"}
  BY <1>4 DEF Keys
<1>6. Rest(v) \in Document[Depth]
  <2>1. Depth - 1 \in Nat /\ Depth = (Depth - 1) + 1
    BY KeyFacts
  <2>2. [k \in Key |-> IF k \in {"metadata"} THEN Absent ELSE v.at[k]]
          \in [Key -> {Absent} \cup {} \cup Document[Depth - 1]]
    BY <1>1, <2>1, JSONFamily
  <2>3. Rest(v) \in Document[(Depth - 1) + 1]
    BY <2>1, <2>2, TreeMap DEF Rest, Without, Document
  <2> QED
    BY <2>1, <2>3
<1> QED
  BY <1>2, <1>3, <1>4, <1>5, <1>6

\* Covering the rest is covering each of its keys.
LEMMA AskedIs ==
  ASSUME NEW v \in Objects(JSON[Depth]), NEW d \in Objects(Clean(Scalars)[Depth])
  PROVE  Covers(Rest(v), Rest(d)) <=> Asked(v, d)
<1> DEFINE a == Depth - 1
<1>1. a \in Nat /\ Depth = a + 1
  BY KeyFacts
<1>2. d \in Objects(JSON[Depth])
  BY CleanObjects
<1>3. Rest(v) \in Document[a + 1] /\ Rest(d) \in Document[a + 1] /\ IsMap(Rest(v)) /\ IsMap(Rest(d))
  BY <1>1, <1>2, RestFacts
<1>4. Cover(a + 1, Rest(v), Rest(d)) <=> \A k \in Keys(Rest(d)) : Cover(a, Lookup(Rest(v), k), Rest(d).at[k])
  BY <1>1, <1>3, CoverCases
<1>5. /\ Keys(Rest(d)) = Keys(d) \ {"metadata"}
      /\ \A k \in Key \ {"metadata"} : Rest(d).at[k] = d.at[k]
      /\ \A k \in Key \ {"metadata"} : Lookup(Rest(v), k) = Lookup(v, k)
  BY <1>2, RestFacts
<1>6. Keys(d) \subseteq Key
  BY DEF Keys
<1>7. Cover(a + 1, Rest(v), Rest(d)) <=> Asked(v, d)
  BY <1>4, <1>5, <1>6 DEF Asked
<1> QED
  BY <1>1, <1>7 DEF Covers, Cover

\* The merge gives the set's resource the last word, whatever the base is.
LEMMA MergedAsked ==
  ASSUME NEW base, base = Null \/ base \in Objects(JSON[Depth]),
         NEW d \in Objects(Clean(Scalars)[Depth]),
         mergeResource(base, d) \in Objects(JSON[Depth])
  PROVE  Asked(mergeResource(base, d), d)
<1> DEFINE a == Depth - 1
           r == mergeResource(base, d)
<1>1. a \in Nat /\ Depth = a + 1 /\ Scalars \in SUBSET Leaves
  BY KeyFacts, JSONFamily
<1>2. /\ d.at \in [Key -> {Absent} \cup Clean(Scalars)[a]]
      /\ \A k \in Key : Lookup(d, k) = IF d.at[k] = Absent THEN Null ELSE d.at[k]
  <2>1. d \in Clean(Scalars)[a + 1] /\ IsMap(d)
    BY <1>1 DEF Objects
  <2> QED
    BY <1>1, <2>1, CleanMap
<1> SUFFICES ASSUME NEW k \in Keys(d) \ {"metadata"}
             PROVE  Cover(a, Lookup(r, k), d.at[k])
  BY DEF Asked
<1>3. k \in Key /\ d.at[k] # Absent /\ d.at[k] \in Clean(Scalars)[a]
  BY <1>2 DEF Keys
<1>4. Cover(a, d.at[k], d.at[k])
  BY <1>1, <1>3, CoverSelf, JSONFamily
<1>5. CASE base = Null
  <2>1. d \in Document[Depth]
    BY CleanObjects, ObjectFacts
  <2>2. r = d
    BY <1>5, <2>1, MergeOfNull
  <2> QED
    BY <1>2, <1>3, <1>4, <2>2
<1>6. CASE base \in Objects(JSON[Depth])
  <2>1. d \in Objects(JSON[Depth])
    BY CleanObjects
  <2>2. r = Panic \/ \A j \in Key : Lookup(r, j) = MergedLookup(MergeAt[Depth - 1], base, d, j)
    BY <1>6, <2>1, MergedObjects
  <2>3. r # Panic
    <3>1. ~Failed(r)
      BY ObjectFacts
    <3> QED
      BY <3>1 DEF Failed, Panic
  <2>4. Lookup(r, k) = MergedLookup(MergeAt[a], base, d, k)
    BY <1>3, <2>2, <2>3
  <2>5. CASE k \in BothKeys(base, d)
    <3>1. base.at[k] \in Document[a]
      <4>1. base.at \in [Key -> {Absent} \cup JSON[a]]
        BY <1>6, ObjectFacts
      <4>2. JSON[a] \subseteq Document[a]
        BY <1>1, JSONFamily
      <4> QED
        BY <2>5, <4>1, <4>2 DEF BothKeys, Keys
    <3>2. Lookup(r, k) = MergeAt[a][<<base.at[k], d.at[k]>>]
      BY <2>4, <2>5 DEF MergedLookup, AtKey
    <3>3. ~Failed(Lookup(r, k))
      <4>1. r \in JSON[a + 1]
        BY <1>1 DEF Objects
      <4>2. Lookup(r, k) \in JSON[a]
        BY <1>1, <1>3, <4>1, JSONLookup
      <4>3. Lookup(r, k) \in Trees(Leaves, {})[a]
        BY <1>1, <4>2, JSONFamily DEF Document
      <4> QED
        BY <1>1, <4>3, TreeFacts
    <3>4. MergeCoversAt(a) /\ d.at[k] \in JSON[a]
      BY <1>1, <1>3, MergeCovers, JSONFamily
    <3> QED
      BY <1>3, <3>1, <3>2, <3>3, <3>4 DEF MergeCoversAt
  <2>6. CASE k \notin BothKeys(base, d)
    <3>1. Lookup(r, k) = d.at[k]
      BY <1>3, <2>4, <2>6 DEF MergedLookup
    <3> QED
      BY <1>4, <3>1
  <2> QED
    BY <2>5, <2>6
<1> QED
  BY <1>5, <1>6

\* What is sent still has it: normalizing takes no value away.
LEMMA PatchAsked ==
  ASSUME original \in Originals \cup {Absent}, applied \in Objects(JSON[Depth]) \cup {Absent},
         NEW rendered \in Objects(Clean(Scalars)[Depth]), ~Failed(Patch(rendered))
  PROVE  Asked(Patch(rendered), rendered)
<1> DEFINE a == Depth - 1
           r == mergeResource(Base, rendered)
           p == Patch(rendered)
           d == rendered
<1>1. a \in Nat /\ Depth = a + 1 /\ Scalars \in SUBSET Leaves
  BY KeyFacts, JSONFamily
<1>2. Failed(Panic) /\ Failed(Error)
  BY DEF Failed, Panic, Error
<1>3. /\ Base = Null \/ Base \in Objects(JSON[Depth])
      /\ r \in Objects(JSON[Depth])
      /\ \A k \in Key \ {"metadata"} : Lookup(p, k) = Compact("copy")[a][Lookup(r, k)]
  <2> DEFINE m == Merged(applied, Copied, rendered)
  <2>1. \/ p = Panic /\ (Breaks(original) \/ Breaks(applied))
        \/ p = Error /\ NoPorts
        \/ /\ Base = Null \/ Base \in Objects(JSON[Depth])
           /\ m = mergeResource(Base, rendered)
           /\ m \in Objects(JSON[Depth])
           /\ p \in Objects(Clean(Scalars)[Depth])
           /\ \A k \in Key \ {"metadata"} :
                Lookup(p, k) = Compact("copy")[Depth - 1][Lookup(m, k)]
           /\ \A k \in Key \ {"name", "namespace", "ownerReferences"} :
                Fetch(p, "metadata", k) = Compact("copy")[Depth - 2][Fetch(m, "metadata", k)]
    BY PatchCases
  <2> HIDE DEF p, m
  <2>2. p # Panic /\ p # Error
    BY <1>2 DEF p
  <2> QED
    BY <2>1, <2>2
<1>4. Asked(r, d)
  BY <1>3, MergedAsked
<1> HIDE DEF p, r
<1> SUFFICES ASSUME NEW k \in Keys(d) \ {"metadata"}
             PROVE  Cover(a, Lookup(p, k), d.at[k])
  BY DEF Asked, p
<1>5. k \in Key /\ d.at[k] \in Clean(Scalars)[a]
  <2>1. d \in Clean(Scalars)[a + 1] /\ IsMap(d)
    BY <1>1 DEF Objects
  <2>2. d.at \in [Key -> {Absent} \cup Clean(Scalars)[a]]
    BY <1>1, <2>1, CleanMap
  <2> QED
    BY <2>2 DEF Keys
<1>6. Cover(a, Lookup(r, k), d.at[k])
  BY <1>4 DEF Asked
<1>7. Lookup(r, k) \in Document[a]
  <2>1. r \in Document[a + 1]
    BY <1>1, <1>3, ObjectFacts
  <2> QED
    BY <1>1, <1>5, <2>1, LookupDocument
<1>8. Lookup(p, k) = Compact("copy")[a][Lookup(r, k)]
  BY <1>3, <1>5
<1> QED
  BY <1>1, <1>5, <1>6, <1>7, <1>8, CoverCompact, JSONFamily


\* The API server takes nothing away, and what it assigns is a cluster IP that
\* the resource does not ask for.
LEMMA StoredAsked ==
  ASSUME NEW p \in Objects(Clean(Scalars)[Depth]), NEW d \in Objects(Clean(Scalars)[Depth]),
         Asked(p, d)
  PROVE  Asked(Stored(p), d)
<1> DEFINE a == Depth - 1
           b == Depth - 2
           s == Stored(p)
<1>1. a \in Nat /\ b \in Nat /\ Depth = a + 1 /\ a = b + 1 /\ Scalars \in SUBSET Leaves
      /\ {"metadata", "spec", "clusterIP"} \subseteq Key
  BY KeyFacts, JSONFamily
<1>2. /\ s \in Objects(Clean(Scalars)[Depth])
      /\ \A k \in Key \ {"metadata", "spec"} : Lookup(s, k) = Lookup(p, k)
      /\ \/ Lookup(s, "spec") = Lookup(p, "spec")
         \/ /\ IsMap(Lookup(p, "spec")) /\ IsMap(Lookup(s, "spec"))
            /\ Fetch(p, "spec", "clusterIP") = Null
            /\ \A j \in Key \ {"clusterIP"} : Fetch(s, "spec", j) = Fetch(p, "spec", j)
  BY StoredFacts
<1> HIDE DEF s
<1> SUFFICES ASSUME NEW k \in Keys(d) \ {"metadata"}
             PROVE  Cover(a, Lookup(s, k), d.at[k])
  BY DEF Asked, s
<1>3. k \in Key /\ d.at[k] \in Clean(Scalars)[a]
  <2>1. d \in Clean(Scalars)[a + 1] /\ IsMap(d)
    BY <1>1 DEF Objects
  <2>2. d.at \in [Key -> {Absent} \cup Clean(Scalars)[a]]
    BY <1>1, <2>1, CleanMap
  <2> QED
    BY <2>2 DEF Keys
<1>4. Cover(a, Lookup(p, k), d.at[k])
  BY DEF Asked
<1>5. CASE Lookup(s, k) = Lookup(p, k)
  BY <1>4, <1>5
<1>6. CASE Lookup(s, k) # Lookup(p, k)
  <2> DEFINE sp == Lookup(p, "spec")
             ss == Lookup(s, "spec")
             sd == d.at[k]
  <2>1. /\ k = "spec" /\ IsMap(sp) /\ IsMap(ss)
        /\ Lookup(sp, "clusterIP") = Null
        /\ \A j \in Key \ {"clusterIP"} : Lookup(ss, j) = Lookup(sp, j)
    BY <1>2, <1>3, <1>6 DEF Fetch
  <2>2. sp \in Document[a] /\ ss \in Document[a]
    <3>1. p \in Document[a + 1] /\ s \in Document[a + 1]
      BY <1>1, <1>2, CleanObjects, ObjectFacts
    <3> QED
      BY <1>1, <3>1, LookupDocument
  <2>3. sd \in Document[b + 1] /\ sp \in Document[b + 1] /\ ss \in Document[b + 1]
        /\ sd \in Clean(Scalars)[b + 1]
    BY <1>1, <1>3, <2>2, CleanDocuments
  <2>4. Cover(b + 1, sp, sd)
    BY <1>1, <1>4, <2>1
  <2>5. ~IsArray(sp)
    BY <2>1 DEF IsMap, IsArray
  <2> HIDE DEF sp, ss, sd
  <2>6. CASE IsMap(sd)
    <3>1. \A j \in Keys(sd) : Cover(b, Lookup(sp, j), sd.at[j])
      BY <1>1, <2>3, <2>4, <2>6, CoverCases
    <3>2. ASSUME NEW j \in Keys(sd) PROVE Cover(b, Lookup(ss, j), sd.at[j])
      <4>1. sd.at[j] \in Clean(Scalars)[b] /\ j \in Key
        <5>1. sd.at \in [Key -> {Absent} \cup Clean(Scalars)[b]]
          BY <1>1, <2>3, <2>6, CleanMap
        <5> QED
          BY <5>1 DEF Keys
      <4>2. ~Cover(b, Null, sd.at[j])
        BY <1>1, <4>1, NoneCovers
      <4>3. Cover(b, Lookup(sp, j), sd.at[j])
        BY <3>1
      <4>4. j # "clusterIP"
        BY <2>1, <4>2, <4>3
      <4>5. Lookup(ss, j) = Lookup(sp, j)
        BY <2>1, <4>1, <4>4
      <4> QED
        BY <4>3, <4>5
    <3>3. Cover(b + 1, ss, sd)
      BY <1>1, <2>1, <2>3, <2>6, <3>2, CoverCases
    <3> QED
      BY <1>1, <2>1, <3>3 DEF ss, sd
  <2>7. CASE IsArray(sd)
    <3>1. IsArray(sp)
      BY <1>1, <2>3, <2>4, <2>7, CoverCases
    <3> QED
      BY <2>5, <3>1
  <2>8. CASE ~IsMap(sd) /\ ~IsArray(sd)
    <3>1. sp = sd
      BY <1>1, <2>3, <2>4, <2>8, CleanFacts, CoverCases
    <3> QED
      BY <2>1, <2>8, <3>1
  <2> QED
    BY <2>6, <2>7, <2>8
<1> QED
  BY <1>5, <1>6

\* An object that compares equal to the patch has it without being written.
LEMMA EqualAsked ==
  ASSUME NEW p \in Objects(Clean(Scalars)[Depth]), NEW v \in Objects(JSON[Depth]), equal(p, v),
         NEW d \in Objects(Clean(Scalars)[Depth]), Asked(p, d)
  PROVE  Asked(v, d)
<1> DEFINE a == Depth - 1
           C == Compact("copy")
<1>1. a \in Nat /\ Depth = a + 1 /\ Scalars \in SUBSET Leaves
  BY KeyFacts, JSONFamily
<1>2. p = C[a + 1][v]
  <2>1. C[Depth][p] = p
    <3>1. p \in Clean(Scalars)[Depth] /\ Depth \in Nat
      BY <1>1 DEF Objects
    <3> QED
      BY <3>1, CompactSame
  <2>2. C[Depth][p] = C[Depth][v]
    BY DEF equal, RemoveNilInMap
  <2> QED
    BY <1>1, <2>1, <2>2
<1> HIDE DEF C
<1> SUFFICES ASSUME NEW k \in Keys(d) \ {"metadata"}
             PROVE  Cover(a, Lookup(v, k), d.at[k])
  BY DEF Asked
<1>3. k \in Key /\ d.at[k] \in Clean(Scalars)[a]
  <2>1. d \in Clean(Scalars)[a + 1] /\ IsMap(d)
    BY <1>1 DEF Objects
  <2>2. d.at \in [Key -> {Absent} \cup Clean(Scalars)[a]]
    BY <1>1, <2>1, CleanMap
  <2> QED
    BY <2>2 DEF Keys
<1>4. Cover(a, Lookup(p, k), d.at[k])
  BY DEF Asked
<1>5. v \in Document[a + 1]
  BY <1>1, ObjectFacts
<1>6. Lookup(p, k) = C[a][Lookup(v, k)] /\ Lookup(v, k) \in Document[a]
  BY <1>1, <1>2, <1>3, <1>5, CompactLookup, LookupDocument DEF C
<1> QED
  BY <1>1, <1>3, <1>4, <1>6, CoverCompact, JSONFamily DEF C

\* Every Reconcile that succeeds leaves an object with what the set asks for.
LEMMA DesiredStep ==
  ASSUME TypeOK, DesiredHolds, [Next]_vars
  PROVE  DesiredHolds'
<1> USE DEF Success
<1>1. ASSUME outcome' \notin Success PROVE DesiredHolds'
  BY <1>1 DEF DesiredHolds, Done
<1>2. ASSUME NEW v \in Objects(JSON[Depth]), Rendered \in Objects(Clean(Scalars)[Depth]),
             Asked(v, Rendered), applied' = v, desired' = desired
      PROVE  DesiredHolds'
  <2>1. Covers(Rest(v), Rest(Rendered))
    BY <1>2, AskedIs
  <2>2. Rendered' = Rendered
    BY <1>2 DEF Rendered
  <2> QED
    BY <1>2, <2>1, <2>2 DEF DesiredHolds
<1>3. CASE Reconcile
  <2>1. ASSUME NEW v, Fails(v) PROVE outcome' \notin Success
    BY <2>1, FailsOutcome DEF Fails, End
  <2>2. CASE NotManaged
    BY <1>1, <2>2 DEF NotManaged, End
  <2>3. CASE /\ ~Failed(Rendered) /\ ~Failed(Patch(Rendered))
             /\ Rendered \in Objects(Clean(Scalars)[Depth])
             /\ Patch(Rendered) \in Objects(Clean(Scalars)[Depth])
             /\ \/ Unchanged(Patch(Rendered))
                \/ UpdateObject(Patch(Rendered))
                \/ CreateObject(Patch(Rendered))
    <3> DEFINE p == Patch(Rendered)
               d == Rendered
    <3>1. original \in Originals \cup {Absent} /\ applied \in Objects(JSON[Depth]) \cup {Absent}
      BY DEF TypeOK
    <3>2. Asked(p, d)
      BY <2>3, <3>1, PatchAsked
    <3>3. p \in Objects(Clean(Scalars)[Depth]) /\ d \in Objects(Clean(Scalars)[Depth])
          /\ (Unchanged(p) \/ UpdateObject(p) \/ CreateObject(p))
      BY <2>3
    <3>4. Stored(p) \in Objects(JSON[Depth]) /\ Asked(Stored(p), d)
      BY <3>2, <3>3, StoredFacts, StoredAsked, CleanObjects
    <3> HIDE DEF p, d
    <3>5. CASE Unchanged(p)
      <4>1. applied \in Objects(JSON[Depth]) /\ equal(p, applied) /\ applied' = applied /\ desired' = desired
        BY <3>1, <3>5 DEF Unchanged, End, NoCall
      <4>2. Asked(applied, d)
        BY <3>2, <3>3, <4>1, EqualAsked
      <4> QED
        BY <1>2, <3>3, <4>1, <4>2 DEF d
    <3>6. CASE UpdateObject(p) \/ CreateObject(p)
      <4>1. applied' = Stored(p) /\ desired' = desired
        BY <3>6 DEF UpdateObject, CreateObject, Send, End
      <4> QED
        BY <1>2, <3>3, <3>4, <4>1 DEF d
    <3> QED
      BY <3>3, <3>5, <3>6
  <2> QED
    BY <1>1, <1>3, <2>1, <2>2, <2>3, ReconcileCases
<1>4. CASE UNCHANGED vars
  BY <1>4 DEF vars, DesiredHolds, Done, Rendered
<1>5. CASE outcome' = "none"
  BY <1>1, <1>5
<1> QED
  BY <1>3, <1>4, <1>5, OtherSteps

\* After a Reconcile that succeeded the object has everything the set asks
\* for, whatever it was copied from and whatever users made of it: the set's
\* resource is merged last (reconciler.go:211), and neither what is written on
\* top of it nor what the API server completes takes any of it away.
THEOREM SetHasTheLastWord == Spec => []DesiredHolds
<1>1. Init => DesiredHolds
  BY DEF Init, DesiredHolds, Done, Success
<1>2. TypeOK /\ DesiredHolds /\ [Next]_vars => DesiredHolds'
  BY DesiredStep
<1> QED
  BY <1>1, <1>2, TypeCorrect, PTL DEF Spec

\* What is merged over nothing is taken as it is, at every level.
LEMMA MergeNull ==
  ASSUME NEW n \in Nat, NEW b \in Document[n]
  PROVE  MergeAt[n][<<Null, b>>] = b
<1>1. \A m \in Nat : Null \in Document[m]
  BY TreeLeaf DEF Document, Leaves
<1>2. ~IsMap(Null) /\ ~IsArray(Null)
  BY DEF IsMap, IsArray, Null
<1>3. CASE n = 0
  <2>1. b \in Leaves
    BY <1>3, TreeLevels DEF Document
  <2>2. ~IsMap(b) /\ ~IsArray(b)
    BY <2>1, LeafFacts
  <2> QED
    BY <1>1, <2>2, MergeOntoLeaf
<1>4. CASE n # 0
  <2>1. PICK m \in Nat : n = m + 1
    <3>1. n - 1 \in Nat /\ n = (n - 1) + 1
      BY <1>4
    <3> QED
      BY <3>1
  <2>2. Null \in Document[m + 1] /\ b \in Document[m + 1]
    BY <1>1, <2>1
  <2> QED
    BY <1>2, <2>1, <2>2, MergeOther
<1> QED
  BY <1>3, <1>4

\* A map merged over anything: each of its keys is merged over what was there,
\* and what it is silent about stays.
LEMMA MergeKeys ==
  ASSUME NEW n \in Nat, NEW a \in Document[n + 1], NEW b \in Document[n + 1], IsMap(b),
         ~Failed(MergeAt[n + 1][<<a, b>>])
  PROVE  LET r == MergeAt[n + 1][<<a, b>>]
         IN  /\ IsMap(r)
             /\ \A k \in Keys(b) : /\ Lookup(r, k) = MergeAt[n][<<Lookup(a, k), b.at[k]>>]
                                   /\ ~Failed(Lookup(r, k))
             /\ \A k \in Key \ Keys(b) : Lookup(r, k) = Lookup(a, k)
<1> DEFINE r == MergeAt[n + 1][<<a, b>>]
           M == MergeAt[n]
<1>1. b.at \in [Key -> {Absent} \cup Document[n]] /\ ~IsArray(b)
  BY DocumentCases, LeafFacts DEF IsMap, IsArray
<1>2. \A k \in Keys(b) : k \in Key /\ b.at[k] \in Document[n] /\ b.at[k] # Absent /\ Lookup(b, k) = b.at[k]
  BY <1>1 DEF Keys, Lookup
<1>3. \A k \in Keys(b) : ~Failed(b.at[k])
  BY <1>2, TreeFacts DEF Document
<1>4. CASE IsMap(a)
  <2>1. /\ IsMap(r)
        /\ \A k \in Key : Lookup(r, k) = MergedLookup(M, a, b, k)
        /\ \A k \in BothKeys(a, b) : ~Failed(AtKey(M, a, b, k))
    BY <1>4, MergeMaps
  <2> HIDE DEF r
  <2>2. ASSUME NEW k \in Keys(b)
        PROVE  Lookup(r, k) = M[<<Lookup(a, k), b.at[k]>>] /\ ~Failed(Lookup(r, k))
    <3>1. CASE k \in Keys(a)
      <4>1. k \in BothKeys(a, b) /\ Lookup(a, k) = a.at[k]
        BY <1>4, <3>1 DEF BothKeys, Keys, Lookup
      <4> QED
        BY <1>2, <2>1, <4>1 DEF MergedLookup, AtKey
    <3>2. CASE k \notin Keys(a)
      <4>1. Lookup(a, k) = Null /\ k \notin BothKeys(a, b)
        BY <1>2, <3>2 DEF BothKeys, Keys, Lookup
      <4>2. Lookup(r, k) = b.at[k]
        BY <1>2, <2>1, <4>1 DEF MergedLookup
      <4>3. M[<<Null, b.at[k]>>] = b.at[k]
        BY <1>2, MergeNull
      <4> QED
        BY <1>3, <4>1, <4>2, <4>3
    <3> QED
      BY <3>1, <3>2
  <2>3. ASSUME NEW k \in Key \ Keys(b) PROVE Lookup(r, k) = Lookup(a, k)
    <3>1. k \notin BothKeys(a, b) /\ b.at[k] = Absent
      BY DEF BothKeys, Keys
    <3>2. Lookup(a, k) = LookedUp(a, k)
      BY <1>4 DEF Lookup, LookedUp
    <3> QED
      BY <2>1, <3>1, <3>2 DEF MergedLookup
  <2> QED
    BY <2>1, <2>2, <2>3 DEF r
<1>5. CASE ~IsMap(a)
  <2>1. r = b
    BY <1>1, <1>5, MergeOther
  <2>2. \A k \in Key : Lookup(a, k) = Null
    BY <1>5 DEF Lookup
  <2>3. \A k \in Keys(b) : M[<<Null, b.at[k]>>] = b.at[k]
    BY <1>2, MergeNull
  <2>4. \A k \in Key \ Keys(b) : Lookup(b, k) = Null
    BY DEF Keys, Lookup
  <2> QED
    BY <1>2, <1>3, <2>1, <2>2, <2>3, <2>4
<1> QED
  BY <1>4, <1>5

-----------------------------------------------------------------------------
(* Covering does not depend on the level                                   *)

\* A document of a level is one of the next.
LEMMA NextLevel ==
  ASSUME NEW n \in Nat
  PROVE  Document[n] \subseteq Document[n + 1]
<1> DEFINE S == {m \in Nat : Document[m] \subseteq Document[m + 1]}
<1>1. 0 \in S
  <2>1. \A v \in Document[0] : v \in Leaves
    BY TreeLevels DEF Document
  <2>2. \A v \in Leaves : v \in Document[1]
    BY TreeLeaf DEF Document
  <2> QED
    BY <2>1, <2>2
<1>2. ASSUME NEW m \in S PROVE m + 1 \in S
  <2>1. m \in Nat /\ m + 1 \in Nat /\ Document[m] \subseteq Document[m + 1]
    OBVIOUS
  <2>2. ASSUME NEW v \in Document[m + 1] PROVE v \in Document[(m + 1) + 1]
    <3>1. CASE v \in Leaves
      BY <2>1, <3>1, TreeLeaf DEF Document
    <3>2. CASE v = Map(v.at) /\ v.at \in [Key -> {Absent} \cup Document[m]]
      <4>1. v.at \in [Key -> {Absent} \cup {} \cup Document[m + 1]]
        BY <2>1, <3>2
      <4>2. Map(v.at) \in Document[(m + 1) + 1]
        BY <2>1, <4>1, TreeMap DEF Document
      <4> QED
        BY <3>2, <4>2
    <3>3. CASE v = Array(v.items) /\ v.items \in Seq(Document[m])
      <4>1. v.items \in Seq(Document[m + 1])
        BY <2>1, <3>3
      <4>2. Array(v.items) \in Document[(m + 1) + 1]
        BY <2>1, <4>1, TreeArray DEF Document
      <4> QED
        BY <3>3, <4>2
    <3> QED
      BY <2>1, <3>1, <3>2, <3>3, DocumentCases
  <2> QED
    BY <2>1, <2>2
<1>3. S = Nat
  <2>1. S \in SUBSET Nat
    OBVIOUS
  <2> HIDE DEF S
  <2> QED
    BY <1>1, <1>2, <2>1, SetInduction
<1> QED
  BY <1>3

\* Covering is the same at the next level.
LEMMA CoverNext ==
  \A n \in Nat : \A v, d \in Document[n] : Cover(n + 1, v, d) <=> Cover(n, v, d)
<1> DEFINE S == {n \in Nat : \A v, d \in Document[n] : Cover(n + 1, v, d) <=> Cover(n, v, d)}
<1>1. 0 \in S
  <2>1. ASSUME NEW v \in Document[0], NEW d \in Document[0] PROVE Cover(0 + 1, v, d) <=> Cover(0, v, d)
    <3>1. v \in Document[0 + 1] /\ d \in Document[0 + 1]
      BY NextLevel
    <3>2. d \in Leaves
      BY TreeLevels DEF Document
    <3>3. ~IsMap(d) /\ ~IsArray(d)
      BY <3>2, LeafFacts
    <3>4. Cover(0 + 1, v, d) <=> d = Null \/ v = d
      BY <3>1, <3>3, CoverCases
    <3> QED
      BY <3>4, CoverLeaf
  <2> QED
    BY <2>1
<1>2. ASSUME NEW n \in S PROVE n + 1 \in S
  <2>1. n \in Nat /\ n + 1 \in Nat /\ \A v, d \in Document[n] : Cover(n + 1, v, d) <=> Cover(n, v, d)
    OBVIOUS
  <2>2. ASSUME NEW v \in Document[n + 1], NEW d \in Document[n + 1]
        PROVE  Cover((n + 1) + 1, v, d) <=> Cover(n + 1, v, d)
    <3>1. v \in Document[(n + 1) + 1] /\ d \in Document[(n + 1) + 1]
      BY <2>1, NextLevel
    <3>2. CASE IsMap(d)
      <4>1. Cover((n + 1) + 1, v, d) <=> IsMap(v) /\ \A k \in Keys(d) : Cover(n + 1, Lookup(v, k), d.at[k])
        BY <2>1, <3>1, <3>2, CoverCases
      <4>2. Cover(n + 1, v, d) <=> IsMap(v) /\ \A k \in Keys(d) : Cover(n, Lookup(v, k), d.at[k])
        BY <2>1, <3>2, CoverCases
      <4>3. ASSUME NEW k \in Keys(d) PROVE Lookup(v, k) \in Document[n] /\ d.at[k] \in Document[n]
        <5>1. k \in Key /\ Lookup(d, k) = d.at[k]
          BY <3>2 DEF Keys, Lookup
        <5>2. Lookup(v, k) \in Document[n] /\ Lookup(d, k) \in Document[n]
          BY <2>1, <5>1, LookupDocument
        <5> QED
          BY <5>1, <5>2
      <4> QED
        BY <2>1, <4>1, <4>2, <4>3
    <3>3. CASE IsArray(d)
      <4> DEFINE L(m) == \A i \in DOMAIN d.items :
                       IF IsNamed(d) /\ IsNamed(v)
                       THEN IsLast(d, i) => \E j \in DOMAIN v.items : Cover(m, v.items[j], d.items[i])
                       ELSE i \in DOMAIN v.items /\ Cover(m, v.items[i], d.items[i])
      <4>1. Cover((n + 1) + 1, v, d) <=> IsArray(v) /\ L(n + 1)
        BY <2>1, <3>1, <3>3, CoverCases
      <4>2. Cover(n + 1, v, d) <=> IsArray(v) /\ L(n)
        BY <2>1, <3>3, CoverCases
      <4>3. ASSUME IsArray(v) PROVE L(n + 1) <=> L(n)
        <5>1. v.items \in Seq(Document[n]) /\ d.items \in Seq(Document[n])
          BY <2>1, <3>3, <4>3, DocumentCases, LeafFacts DEF IsArray
        <5>2. \A i \in DOMAIN v.items : v.items[i] \in Document[n]
          BY <5>1
        <5>3. \A i \in DOMAIN d.items : d.items[i] \in Document[n]
          BY <5>1
        <5>4. \A j \in DOMAIN v.items, i \in DOMAIN d.items :
                Cover(n + 1, v.items[j], d.items[i]) <=> Cover(n, v.items[j], d.items[i])
          BY <2>1, <5>2, <5>3
        <5> QED
          BY <5>4
      <4> HIDE DEF L
      <4> QED
        BY <4>1, <4>2, <4>3
    <3>4. CASE ~IsMap(d) /\ ~IsArray(d)
      <4>1. Cover((n + 1) + 1, v, d) <=> d = Null \/ v = d
        BY <2>1, <3>1, <3>4, CoverCases
      <4>2. Cover(n + 1, v, d) <=> d = Null \/ v = d
        BY <2>1, <3>4, CoverCases
      <4> QED
        BY <4>1, <4>2
    <3> QED
      BY <3>2, <3>3, <3>4
  <2> QED
    BY <2>1, <2>2
<1>3. S = Nat
  <2>1. S \in SUBSET Nat
    OBVIOUS
  <2> HIDE DEF S
  <2> QED
    BY <1>1, <1>2, <2>1, SetInduction
<1> QED
  BY <1>3

\* So it is at all of them.
LEMMA CoverDepth ==
  ASSUME NEW n \in Nat, n <= Depth, NEW v \in Document[n], NEW d \in Document[n]
  PROVE  Covers(v, d) <=> Cover(n, v, d)
<1> DEFINE S == {m \in Nat : /\ v \in Document[n + m] /\ d \in Document[n + m]
                             /\ Cover(n + m, v, d) <=> Cover(n, v, d)}
<1>1. 0 \in S
  <2>1. n + 0 = n
    OBVIOUS
  <2> QED
    BY <2>1
<1>2. ASSUME NEW m \in S PROVE m + 1 \in S
  <2>1. m \in Nat /\ n + m \in Nat /\ n + (m + 1) = (n + m) + 1 /\ m + 1 \in Nat
    OBVIOUS
  <2>2. v \in Document[n + m] /\ d \in Document[n + m] /\ (Cover(n + m, v, d) <=> Cover(n, v, d))
    OBVIOUS
  <2>3. v \in Document[(n + m) + 1] /\ d \in Document[(n + m) + 1]
    BY <2>1, <2>2, NextLevel
  <2>4. Cover((n + m) + 1, v, d) <=> Cover(n + m, v, d)
    BY <2>1, <2>2, CoverNext
  <2> QED
    BY <2>1, <2>2, <2>3, <2>4
<1>3. S = Nat
  <2>1. S \in SUBSET Nat
    OBVIOUS
  <2> HIDE DEF S
  <2> QED
    BY <1>1, <1>2, <2>1, SetInduction
<1>4. Depth - n \in Nat /\ n + (Depth - n) = Depth
  BY KeyFacts
<1>5. Cover(Depth, v, d) <=> Cover(n, v, d)
  BY <1>3, <1>4
<1> QED
  BY <1>5 DEF Covers, Cover

\* Only nothing is asked of nothing.
LEMMA NullCovers ==
  ASSUME NEW n \in Nat, NEW d \in Document[n], Cover(n, Null, d)
  PROVE  d = Null
<1>1. \A m \in Nat : Null \in Document[m]
  BY TreeLeaf DEF Document, Leaves
<1>2. ~IsMap(Null) /\ ~IsArray(Null)
  BY DEF IsMap, IsArray, Null
<1>3. CASE n = 0
  BY <1>1, <1>3, CoverLeaf
<1>4. CASE n # 0
  <2>1. PICK m \in Nat : n = m + 1
    <3>1. n - 1 \in Nat /\ n = (n - 1) + 1
      BY <1>4
    <3> QED
      BY <3>1
  <2>2. d \in Document[m + 1] /\ Null \in Document[m + 1] /\ Cover(m + 1, Null, d)
    BY <1>1, <2>1
  <2> QED
    BY <1>2, <2>2, CoverCases
<1> QED
  BY <1>3, <1>4

\* Nothing is asked by a null.
LEMMA NullCovered ==
  ASSUME NEW n \in Nat, NEW v \in Document[n]
  PROVE  Cover(n, v, Null)
<1>1. \A m \in Nat : Null \in Document[m]
  BY TreeLeaf DEF Document, Leaves
<1>2. ~IsMap(Null) /\ ~IsArray(Null)
  BY DEF IsMap, IsArray, Null
<1>3. CASE n = 0
  BY <1>1, <1>3, CoverLeaf
<1>4. CASE n # 0
  <2>1. PICK m \in Nat : n = m + 1
    <3>1. n - 1 \in Nat /\ n = (n - 1) + 1
      BY <1>4
    <3> QED
      BY <3>1
  <2>2. v \in Document[m + 1] /\ Null \in Document[m + 1]
    BY <1>1, <2>1
  <2>3. Cover(m + 1, v, Null)
    BY <1>2, <2>2, CoverCases
  <2> QED
    BY <2>1, <2>3
<1> QED
  BY <1>3, <1>4

\* A document that covers one with a name has that name.
LEMMA CoverName ==
  ASSUME NEW n \in Nat, NEW v \in Document[n], NEW d \in Document[n], Cover(n, v, d), HasName(d)
  PROVE  HasName(v) /\ NameIn(v) = NameIn(d)
<1>1. n # 0
  <2>1. n = 0 => d \in Leaves
    BY TreeLevels DEF Document
  <2> QED
    BY <2>1, LeafFacts DEF HasName
<1>2. PICK m \in Nat : n = m + 1
  <2>1. n - 1 \in Nat /\ n = (n - 1) + 1
    BY <1>1
  <2> QED
    BY <2>1
<1> DEFINE name == Lookup(d, "name")
<1>3. v \in Document[m + 1] /\ d \in Document[m + 1] /\ IsMap(d) /\ Cover(m + 1, v, d)
      /\ name.is \in {"scalar", "template"} /\ "name" \in Key
  BY <1>2, KeyFacts DEF HasName
<1>4. "name" \in Keys(d) /\ d.at["name"] = name
  <2>1. name # Null
    BY <1>3 DEF Null
  <2> QED
    BY <1>3, <2>1 DEF Keys, Lookup
<1>5. IsMap(v) /\ Cover(m, Lookup(v, "name"), name)
  BY <1>3, <1>4, CoverCases
<1>6. Lookup(v, "name") \in Document[m] /\ name \in Document[m]
  BY <1>3, LookupDocument
<1>7. ~IsMap(name) /\ ~IsArray(name) /\ name # Null
  BY <1>3 DEF IsMap, IsArray, Null
<1> DEFINE other == Lookup(v, "name")
<1> HIDE DEF name, other
<1>8. other = name
  <2>1. CASE m = 0
    BY <1>5, <1>6, <1>7, <2>1, CoverLeaf DEF other
  <2>2. CASE m # 0
    <3>1. PICK k \in Nat : m = k + 1
      <4>1. m - 1 \in Nat /\ m = (m - 1) + 1
        BY <2>2
      <4> QED
        BY <4>1
    <3> QED
      BY <1>5, <1>6, <1>7, <3>1, CoverCases DEF other
  <2> QED
    BY <2>1, <2>2
<1> QED
  BY <1>3, <1>5, <1>8 DEF HasName, NameIn, name, other

\* The elements of a list of names are in what the list is merged into, if that
\* has names too or is no longer than the list.
LEMMA NamesMerged ==
  ASSUME NEW n \in Nat, NEW c \in Document[n + 1], NEW x \in JSON[n + 1], IsNamed(x),
         ~Failed(MergeAt[n + 1][<<c, x>>]), MergeAt[n + 1][<<c, x>>] \in Document[n + 1],
         IsArray(c) => IsNamed(c) \/ Len(c.items) <= Len(x.items)
  PROVE  LET r == MergeAt[n + 1][<<c, x>>]
         IN  /\ IsNamed(r)
             /\ \A i \in DOMAIN x.items : IsLast(x, i) =>
                  \E j \in DOMAIN r.items : Cover(n, r.items[j], x.items[i])
<1> DEFINE r == MergeAt[n + 1][<<c, x>>]
           M == MergeAt[n]
<1>1. x \in Document[n + 1] /\ n + 1 \in Nat /\ IsArray(x) /\ ~IsMap(x)
  <2>1. n + 1 \in Nat
    OBVIOUS
  <2>2. IsArray(x) /\ ~IsMap(x)
    BY DEF IsNamed, IsArray, IsMap
  <2> QED
    BY <2>1, <2>2, JSONFamily
<1>2. x.items \in Seq(Document[n]) /\ x.items \in Seq(JSON[n])
  <2>1. x.items \in Seq(JSON[n]) /\ JSON[n] \subseteq Document[n]
    BY <1>1, JSONArray, JSONFamily
  <2> QED
    BY <2>1
<1>3. Cover(n + 1, r, x)
  <2>1. MergeCoversAt(n + 1)
    BY <1>1, MergeCovers
  <2> QED
    BY <2>1 DEF MergeCoversAt
<1>4. IsArray(r) /\ \A i \in DOMAIN x.items :
                       IF IsNamed(x) /\ IsNamed(r)
                       THEN IsLast(x, i) => \E j \in DOMAIN r.items : Cover(n, r.items[j], x.items[i])
                       ELSE i \in DOMAIN r.items /\ Cover(n, r.items[i], x.items[i])
  <2> HIDE DEF r
  <2> QED
    BY <1>1, <1>3, CoverCases DEF r
<1>5. IsNamed(r)
  <2>1. CASE ~IsArray(c)
    <3>1. r = x
      BY <1>1, <2>1, MergeOther
    <3> QED
      BY <3>1
  <2>2. CASE IsArray(c)
    <3>1. c.items \in Seq(Document[n])
      BY <2>2, DocumentCases, LeafFacts DEF IsArray
    <3>2. CASE /\ IsNamed(c) /\ IsNamed(x)
               /\ \E L : /\ IsRun(Document[n], {Panic}, M, c, x, L)
                         /\ L[Len(x.items)] \in NamedArrays(Document[n])
                         /\ r = Array(L[Len(x.items)].arr)
      <4>1. PICK L : /\ IsRun(Document[n], {Panic}, M, c, x, L)
                     /\ L[Len(x.items)] \in NamedArrays(Document[n])
                     /\ r = Array(L[Len(x.items)].arr)
        BY <3>2
      <4>2. MergeCoversAt(n)
        BY MergeCovers
      <4>3. Held(n, x, Len(x.items), L[Len(x.items)])
        BY <3>2, <4>1, <4>2, NamedCovers
      <4>4. IsArray(r) /\ r.items = L[Len(x.items)].arr
        BY <4>1 DEF IsArray, Array
      <4> QED
        BY <4>3, <4>4 DEF Held, IsNamed
    <3>3. CASE ~(IsNamed(c) /\ IsNamed(x)) /\ r = MergedArray(M, c, x)
      <4>1. Longer(c, x) = x.items
        <5>1. Len(c.items) \in Nat /\ Len(x.items) \in Nat /\ Len(c.items) <= Len(x.items)
          BY <1>2, <2>2, <3>1, <3>3
        <5> QED
          BY <5>1 DEF Longer
      <4>2. DOMAIN r.items = DOMAIN x.items
        BY <3>3, <4>1 DEF MergedArray, Array
      <4> HIDE DEF r
      <4>3. SUFFICES ASSUME ~IsNamed(r) PROVE FALSE
        OBVIOUS
      <4>4. \A i \in DOMAIN x.items : i \in DOMAIN r.items /\ Cover(n, r.items[i], x.items[i])
        BY <1>4, <4>3
      <4>5. r.items \in Seq(Document[n])
        BY <1>4, DocumentCases, LeafFacts DEF IsArray, r
      <4>6. ASSUME NEW i \in DOMAIN r.items PROVE HasName(r.items[i])
        <5>1. i \in DOMAIN x.items /\ r.items[i] \in Document[n] /\ x.items[i] \in Document[n]
          BY <1>2, <4>2, <4>5
        <5>2. HasName(x.items[i]) /\ Cover(n, r.items[i], x.items[i])
          BY <4>4, <5>1 DEF IsNamed
        <5> QED
          BY <5>1, <5>2, CoverName
      <4> QED
        BY <1>4, <4>3, <4>6 DEF IsNamed
    <3> QED
      BY <1>1, <2>2, <3>2, <3>3, MergeArrays
  <2> QED
    BY <2>1, <2>2
<1> QED
  BY <1>4, <1>5

\* Setting an element leaves those at other places where they are.
LEMMA SetNamedKeeps ==
  ASSUME NEW T, NEW n \in NamedArrays(T), NEW key \in Names(T), NEW value \in T,
         NEW p \in DOMAIN n.arr, key \in DOMAIN n.keys => n.keys[key] # p
  PROVE  LET new == SetNamed(n, key, value)
         IN  /\ p \in DOMAIN new.arr
             /\ new.arr[p] = n.arr[p]
             /\ \A k \in DOMAIN new.keys : new.keys[k] = p => k \in DOMAIN n.keys /\ n.keys[k] = p
<1>1. n.arr \in Seq(T) /\ \A k \in DOMAIN n.keys : n.keys[k] \in DOMAIN n.arr
  BY DEF NamedArrays
<1>2. DOMAIN n.arr = 1..Len(n.arr) /\ Len(n.arr) \in Nat
  BY <1>1
<1>3. CASE key \in DOMAIN n.keys
  <2>1. SetNamed(n, key, value) =
          [is |-> "named_array", keys |-> n.keys,
           arr |-> [i \in DOMAIN n.arr |-> IF i = n.keys[key] THEN value ELSE n.arr[i]]]
    BY <1>3 DEF SetNamed, NamedArray
  <2> QED
    BY <1>3, <2>1
<1>4. CASE key \notin DOMAIN n.keys
  <2> DEFINE new == SetNamed(n, key, value)
  <2>1. new = [is |-> "named_array", arr |-> Append(n.arr, value),
               keys |-> [k \in DOMAIN n.keys \cup {key} |-> IF k = key THEN Len(n.arr) + 1 ELSE n.keys[k]]]
    BY <1>4 DEF SetNamed, NamedArray
  <2> HIDE DEF new
  <2>2. p \in DOMAIN new.arr /\ new.arr[p] = n.arr[p]
    BY <1>1, <1>2, <2>1
  <2>3. \A k \in DOMAIN new.keys : new.keys[k] = p => k \in DOMAIN n.keys /\ n.keys[k] = p
    BY <1>2, <2>1
  <2> QED
    BY <2>2, <2>3 DEF new
<1> QED
  BY <1>3, <1>4

\* An element whose name the source does not have stays where it is.
LEMMA OthersStay ==
  ASSUME NEW n \in Nat, NEW a \in Document[n + 1], NEW b \in Document[n + 1], IsNamed(a), IsNamed(b),
         NEW p \in DOMAIN a.items,
         \A j \in DOMAIN b.items : NameIn(b.items[j]) # NameIn(a.items[p]),
         ~Failed(MergeAt[n + 1][<<a, b>>])
  PROVE  LET r == MergeAt[n + 1][<<a, b>>]
         IN  IsArray(r) /\ p \in DOMAIN r.items /\ r.items[p] = a.items[p]
<1> DEFINE r == MergeAt[n + 1][<<a, b>>]
           T == Document[n]
           M == MergeAt[n]
           src == NewNamedArray(b)
           name == NameIn(a.items[p])
<1>1. IsArray(a) /\ IsArray(b)
  BY DEF IsNamed
<1>2. a.items \in Seq(T) /\ b.items \in Seq(T)
  BY <1>1, DocumentCases, LeafFacts DEF IsArray
<1>3. PICK L : /\ IsRun(T, {Panic}, M, a, b, L)
               /\ L[Len(b.items)] \in NamedArrays(T)
               /\ r = Array(L[Len(b.items)].arr)
  BY <1>1, MergeArrays
<1>4. /\ src \in NamedArrays(T) /\ src.arr = b.items /\ Len(b.items) \in Nat
      /\ DOMAIN b.items = 1..Len(b.items)
      /\ DOMAIN src.keys = {NameIn(b.items[i]) : i \in DOMAIN b.items}
  <2>1. Len(b.items) \in Nat /\ DOMAIN b.items = 1..Len(b.items)
    BY <1>2
  <2>2. /\ src \in NamedArrays(T) /\ src.arr = b.items
        /\ DOMAIN src.keys = {NameIn(b.items[i]) : i \in DOMAIN b.items}
    BY <1>2, NewNamedArrayFacts
  <2> QED
    BY <2>1, <2>2
<1>5. /\ \A i \in 1..Len(b.items) : L[i] = MergeItem(M, L[i - 1], src, i)
      /\ \A i \in 0..Len(b.items) : L[i] \in NamedArrays(T) \cup {Panic}
  BY <1>3 DEF IsRun
<1>6. MergesIn(T, {Panic}, M) /\ Failed(Panic) /\ Panic \notin NamedArrays(T)
  BY MergeLevelIn DEF Failed, Panic, NamedArrays
<1>7. name # "" /\ name \notin DOMAIN src.keys
  <2>1. a.items[p] \in T /\ HasName(a.items[p])
    BY <1>2 DEF IsNamed
  <2>2. NameIn(a.items[p]) # ""
    BY <2>1, NameInValue
  <2> QED
    BY <1>4, <2>2
<1> DEFINE Stays(N) == /\ p \in DOMAIN N.arr
                       /\ N.arr[p] = a.items[p]
                       /\ \A k \in DOMAIN N.keys : N.keys[k] = p => k = name
           I == {i \in Nat : i <= Len(b.items) => (L[i] \in NamedArrays(T) => Stays(L[i]))}
<1>8. 0 \in I
  <2>1. L[0] = NewNamedArray(a)
    BY <1>3 DEF IsRun
  <2>2. /\ NewNamedArray(a).arr = a.items
        /\ \A k \in DOMAIN NewNamedArray(a).keys : NameIn(a.items[NewNamedArray(a).keys[k]]) = k
    BY <1>2, NewNamedArrayFacts
  <2>3. Stays(L[0])
    BY <2>1, <2>2
  <2> QED
    BY <2>3
<1>9. ASSUME NEW i \in I PROVE i + 1 \in I
  <2> SUFFICES ASSUME i + 1 <= Len(b.items), L[i + 1] \in NamedArrays(T) PROVE Stays(L[i + 1])
    OBVIOUS
  <2>1. i \in Nat /\ i \in 0..Len(b.items) /\ i + 1 \in 1..Len(b.items) /\ (i + 1) - 1 = i /\ i + 1 \in DOMAIN b.items
    BY <1>4
  <2>2. L[i + 1] = MergeItem(M, L[i], src, i + 1)
    BY <1>5, <2>1
  <2>3. L[i] # Panic
    BY <1>6, <2>2 DEF MergeItem
  <2> DEFINE N == L[i]
             key == IterKey(src, i + 1)
             new == NewItem(M, N, src, i + 1)
  <2>4. N \in NamedArrays(T) /\ Stays(N)
    BY <1>5, <2>1, <2>3
  <2>5. new \in T /\ L[i + 1] = SetNamed(N, key, new)
    <3>1. i + 1 \in DOMAIN src.arr
      BY <1>4, <2>1
    <3> HIDE DEF src, N
    <3>2. \/ /\ NewItem(M, N, src, i + 1) \in {Panic}
             /\ MergeItem(M, N, src, i + 1) = NewItem(M, N, src, i + 1)
          \/ /\ NewItem(M, N, src, i + 1) \in T
             /\ MergeItem(M, N, src, i + 1) =
                  SetNamed(N, IterKey(src, i + 1), NewItem(M, N, src, i + 1))
      BY <1>4, <1>6, <2>4, <3>1, MergeItemCases
    <3>3. MergeItem(M, N, src, i + 1) # Panic
      BY <1>6, <2>2 DEF N
    <3> QED
      BY <2>2, <3>2, <3>3 DEF N
  <2>6. key \in Names(T) /\ key # name
    <3>1. /\ IterKey(src, i + 1) \in Names(T)
          /\ IterKey(src, i + 1) \in DOMAIN src.keys \/ IterKey(src, i + 1) = ""
      BY <1>4, IterKeyFacts
    <3> QED
      BY <1>7, <3>1
  <2> HIDE DEF N, key, new, name
  <2>7. key \in DOMAIN N.keys => N.keys[key] # p
    BY <2>4, <2>6
  <2>8. /\ p \in DOMAIN SetNamed(N, key, new).arr
        /\ SetNamed(N, key, new).arr[p] = N.arr[p]
        /\ \A k \in DOMAIN SetNamed(N, key, new).keys :
             SetNamed(N, key, new).keys[k] = p => k \in DOMAIN N.keys /\ N.keys[k] = p
    BY <2>4, <2>5, <2>6, <2>7, SetNamedKeeps
  <2> QED
    BY <2>4, <2>5, <2>8
<1> HIDE DEF Stays
<1>10. I = Nat
  <2>1. I \in SUBSET Nat
    OBVIOUS
  <2> HIDE DEF I
  <2> QED
    BY <1>8, <1>9, <2>1, SetInduction
<1>11. Stays(L[Len(b.items)])
  <2>1. Len(b.items) \in I /\ Len(b.items) <= Len(b.items)
    BY <1>4, <1>10
  <2> QED
    BY <1>3, <2>1
<1>12. IsArray(r) /\ r.items = L[Len(b.items)].arr
  BY <1>3 DEF IsArray, Array
<1> QED
  BY <1>11, <1>12 DEF Stays

-----------------------------------------------------------------------------
(* What a merge leaves of the object, level by level                       *)

\* The lists that merge by name.
ByName(o, x, d, new) ==
  /\ IsNamed(x) /\ IsNamed(d) /\ IsNamed(new)
  /\ IsArray(o) => IsNamed(o) \/ Len(o.items) <= Len(x.items)

\* What survives, by the kind of what was there.
LEMMA SurvivesOneCases ==
  ASSUME NEW below, NEW o, NEW x, NEW d, NEW v
  PROVE  /\ (d # Null /\ IsMap(x) /\ IsMap(d)) => (SurvivesOne(below, o, x, d, v) =
              (\A k \in Keys(x) :
                 IF k \in Keys(d)
                 THEN below[<<Lookup(o, k), x.at[k], d.at[k], Lookup(v, k)>>]
                 ELSE Covers(Lookup(v, k), x.at[k])))
         /\ (d # Null /\ ByName(o, x, d, v)) => (SurvivesOne(below, o, x, d, v) =
              (\A i \in DOMAIN x.items : IsLast(x, i) =>
                 \/ \E j \in DOMAIN d.items : NameIn(d.items[j]) = NameIn(x.items[i])
                 \/ \E j \in DOMAIN v.items : Covers(v.items[j], x.items[i])))
         /\ (d = Null \/ (~(IsMap(x) /\ IsMap(d)) /\ ~ByName(o, x, d, v))) =>
              SurvivesOne(below, o, x, d, v) = TRUE
<1>1. ByName(o, x, d, v) => IsArray(x) /\ ~IsMap(x)
  BY DEF ByName, IsNamed, IsMap, IsArray
<1>2. CASE d = Null
  <2>1. ~IsMap(d) /\ ~IsNamed(d)
    BY <1>2 DEF IsMap, IsNamed, IsArray, Null
  <2>2. SurvivesOne(below, o, x, d, v) = TRUE
    BY <1>2, <2>1, Zenon DEF SurvivesOne
  <2> QED
    BY <1>2, <2>2, Zenon
<1>3. CASE d # Null /\ IsMap(x) /\ IsMap(d)
  <2>1. ~ByName(o, x, d, v) /\ ~IsArray(x)
    BY <1>1, <1>3 DEF IsMap, IsArray
  <2>2. SurvivesOne(below, o, x, d, v) =
              (\A k \in Keys(x) :
                 IF k \in Keys(d)
                 THEN below[<<Lookup(o, k), x.at[k], d.at[k], Lookup(v, k)>>]
                 ELSE Covers(Lookup(v, k), x.at[k]))
    BY <1>3, <2>1, Zenon DEF SurvivesOne
  <2> QED
    BY <1>3, <2>1, <2>2, Zenon
<1>4. CASE d # Null /\ ByName(o, x, d, v)
  <2>1. ~IsMap(x)
    BY <1>1, <1>4
  <2>2. SurvivesOne(below, o, x, d, v) =
              (\A i \in DOMAIN x.items : IsLast(x, i) =>
                 \/ \E j \in DOMAIN d.items : NameIn(d.items[j]) = NameIn(x.items[i])
                 \/ \E j \in DOMAIN v.items : Covers(v.items[j], x.items[i]))
    BY <1>1, <1>4, <2>1, Zenon DEF SurvivesOne, ByName
  <2> QED
    BY <1>4, <2>1, <2>2, Zenon
<1>5. CASE d # Null /\ ~(IsMap(x) /\ IsMap(d)) /\ ~ByName(o, x, d, v)
  <2>1. SurvivesOne(below, o, x, d, v) = TRUE
    BY <1>5, Zenon DEF SurvivesOne, ByName
  <2> QED
    BY <1>5, <2>1, Zenon
<1> QED
  BY <1>2, <1>3, <1>4, <1>5, Zenon

\* It is true or false.
LEMMA SurvivesBoolean ==
  ASSUME NEW below, NEW o, NEW x, NEW d, NEW v
  PROVE  SurvivesOne(below, o, x, d, v) \in BOOLEAN
BY SurvivesOneCases, Zenon

Quads(n) == Document[n] \X Document[n] \X Document[n] \X Document[n]
SurvivesLevel(n, below) == [p \in Quads(n) |-> SurvivesOne(below, p[1], p[2], p[3], p[4])]

\* The definition of SurvivesAt is met, level by level.
LEMMA SurvivesLevels ==
  /\ SurvivesAt[0] = SurvivesLevel(0, <<>>)
  /\ \A n \in Nat : SurvivesAt[n + 1] = SurvivesLevel(n + 1, SurvivesAt[n])
<1> DEFINE All == UNION {[Quads(n) -> BOOLEAN] : n \in Nat}
           R == [n \in Nat |-> [Quads(n) -> BOOLEAN]]
           step == [q \in Nat \X (All \cup {<<>>}) |-> SurvivesLevel(q[1], q[2])]
<1>1. ASSUME NEW n \in Nat, NEW t \in All \cup {<<>>} PROVE step[<<n, t>>] = SurvivesLevel(n, t)
  <2> HIDE DEF All
  <2>1. <<n, t>> \in Nat \X (All \cup {<<>>})
    OBVIOUS
  <2> QED
    BY <2>1
<1>2. ASSUME NEW n \in Nat, NEW t PROVE SurvivesLevel(n, t) \in R[n]
  <2> DEFINE D == Quads(n)
             M == SurvivesLevel(n, t)
  <2>1. ASSUME NEW p \in D PROVE M[p] \in BOOLEAN
    <3>1. M[p] = SurvivesOne(t, p[1], p[2], p[3], p[4])
      BY DEF SurvivesLevel
    <3> QED
      BY <3>1, SurvivesBoolean
  <2>2. M = [p \in D |-> M[p]]
    BY DEF SurvivesLevel
  <2> HIDE DEF M, D
  <2>3. M \in [D -> BOOLEAN]
    BY <2>1, <2>2
  <2> QED
    BY <2>3 DEF M, D
<1>3. \A n \in Nat : \A t \in R[n] : t \in All
  OBVIOUS
<1> HIDE DEF R, step, All
<1>4. Steps(R, <<>>, step)
  <2>1. step[<<0, <<>> >>] \in R[0]
    BY <1>1, <1>2
  <2>2. ASSUME NEW n \in Nat, NEW t \in R[n] PROVE step[<<n + 1, t>>] \in R[n + 1]
    <3>1. t \in All \cup {<<>>} /\ n + 1 \in Nat
      BY <1>3
    <3> QED
      BY <3>1, <1>1, <1>2
  <2> QED
    BY <2>1, <2>2 DEF Steps
<1>5. PICK f : AreLevels(R, <<>>, step, f)
  BY <1>4, LevelFunction
<1>6. f[0] = SurvivesLevel(0, <<>>)
  BY <1>5, <1>1 DEF AreLevels
<1>7. ASSUME NEW n \in Nat PROVE f[n + 1] = SurvivesLevel(n + 1, f[n])
  <2>1. f[n] \in All /\ n + 1 \in Nat
    BY <1>5, <1>3 DEF AreLevels
  <2> QED
    BY <2>1, <1>5, <1>1 DEF AreLevels
<1> DEFINE Is(g) == g = [n \in Nat |-> SurvivesLevel(n, IF n = 0 THEN <<>> ELSE g[n - 1])]
<1>8. Is(f)
  <2>1. ASSUME NEW n \in Nat PROVE f[n] = SurvivesLevel(n, IF n = 0 THEN <<>> ELSE f[n - 1])
    <3>1. CASE n = 0
      BY <3>1, <1>6
    <3>2. CASE n # 0
      <4>1. n - 1 \in Nat /\ (n - 1) + 1 = n
        BY <3>2
      <4> QED
        BY <4>1, <3>2, <1>7
    <3> QED
      BY <3>1, <3>2
  <2>2. f = [n \in Nat |-> f[n]]
    BY <1>5 DEF AreLevels
  <2> QED
    BY <2>1, <2>2
<1>9. SurvivesAt = CHOOSE g : Is(g)
  BY Zenon DEF SurvivesAt, SurvivesLevel, Quads
<1> HIDE DEF Is
<1>10. Is(SurvivesAt)
  BY <1>8, <1>9, Zenon
<1>11. SurvivesAt = [n \in Nat |-> SurvivesLevel(n, IF n = 0 THEN <<>> ELSE SurvivesAt[n - 1])]
  BY <1>10, Zenon DEF Is
<1>12. ASSUME NEW n \in Nat PROVE SurvivesAt[n + 1] = SurvivesLevel(n + 1, SurvivesAt[n])
  <2>1. n + 1 \in Nat /\ n + 1 # 0 /\ (n + 1) - 1 = n
    OBVIOUS
  <2> QED
    BY <2>1, <1>11
<1> QED
  BY <1>11, <1>12

\* x, and what d asks for instead, is in v, which is merged from o, x and d.
Survive(n, o, x, d, v) == SurvivesAt[n][<<o, x, d, v>>]

\* Nothing is demanded of leaves.
LEMMA SurviveLeaf ==
  ASSUME NEW o \in Document[0], NEW x \in Document[0], NEW d \in Document[0], NEW v \in Document[0]
  PROVE  Survive(0, o, x, d, v)
<1>1. SurvivesAt[0][<<o, x, d, v>>] = SurvivesOne(<<>>, o, x, d, v)
  <2>1. <<o, x, d, v>> \in Quads(0)
    BY DEF Quads
  <2>2. SurvivesLevel(0, <<>>)[<<o, x, d, v>>] = SurvivesOne(<<>>, o, x, d, v)
    BY <2>1 DEF SurvivesLevel
  <2> QED
    BY <2>2, SurvivesLevels
<1>2. x \in Leaves
  BY TreeLevels DEF Document
<1>3. ~IsMap(x) /\ ~IsArray(x)
  BY <1>2, LeafFacts
<1>4. ~ByName(o, x, d, v)
  BY <1>3 DEF ByName, IsNamed
<1>5. SurvivesOne(<<>>, o, x, d, v) = TRUE
  BY <1>3, <1>4, SurvivesOneCases, Zenon
<1> QED
  BY <1>1, <1>5 DEF Survive

\* Of others it is by key or by name.
LEMMA SurviveCases ==
  ASSUME NEW n \in Nat, NEW o \in Document[n + 1], NEW x \in Document[n + 1],
         NEW d \in Document[n + 1], NEW v \in Document[n + 1]
  PROVE  /\ (IsMap(x) /\ IsMap(d)) => (Survive(n + 1, o, x, d, v) <=>
              \A k \in Keys(x) :
                 IF k \in Keys(d)
                 THEN Survive(n, Lookup(o, k), x.at[k], d.at[k], Lookup(v, k))
                 ELSE Covers(Lookup(v, k), x.at[k]))
         /\ (d # Null /\ ByName(o, x, d, v)) => (Survive(n + 1, o, x, d, v) <=>
              \A i \in DOMAIN x.items : IsLast(x, i) =>
                 \/ \E j \in DOMAIN d.items : NameIn(d.items[j]) = NameIn(x.items[i])
                 \/ \E j \in DOMAIN v.items : Covers(v.items[j], x.items[i]))
         /\ (d = Null \/ (~(IsMap(x) /\ IsMap(d)) /\ ~ByName(o, x, d, v))) =>
              Survive(n + 1, o, x, d, v)
<1> DEFINE B == SurvivesAt[n]
           One == SurvivesOne(B, o, x, d, v)
<1>1. SurvivesAt[n + 1][<<o, x, d, v>>] = One
  <2>1. <<o, x, d, v>> \in Quads(n + 1)
    BY DEF Quads
  <2>2. SurvivesLevel(n + 1, B)[<<o, x, d, v>>] = One
    BY <2>1 DEF SurvivesLevel
  <2> QED
    BY <2>2, SurvivesLevels
<1>2. Survive(n + 1, o, x, d, v) = One
  BY <1>1 DEF Survive
<1>3. IsMap(d) => d # Null
  BY DEF IsMap, Null
<1>4. (d # Null /\ IsMap(x) /\ IsMap(d)) => One =
              (\A k \in Keys(x) :
                 IF k \in Keys(d)
                 THEN B[<<Lookup(o, k), x.at[k], d.at[k], Lookup(v, k)>>]
                 ELSE Covers(Lookup(v, k), x.at[k]))
  BY SurvivesOneCases, Zenon
<1>5. (d # Null /\ ByName(o, x, d, v)) => One =
              (\A i \in DOMAIN x.items : IsLast(x, i) =>
                 \/ \E j \in DOMAIN d.items : NameIn(d.items[j]) = NameIn(x.items[i])
                 \/ \E j \in DOMAIN v.items : Covers(v.items[j], x.items[i]))
  BY SurvivesOneCases, ZenonT(30)
<1>6. (d = Null \/ (~(IsMap(x) /\ IsMap(d)) /\ ~ByName(o, x, d, v))) => One = TRUE
  BY SurvivesOneCases, Zenon
<1> HIDE DEF One
<1>7. (IsMap(x) /\ IsMap(d)) => (Survive(n + 1, o, x, d, v) <=>
              \A k \in Keys(x) :
                 IF k \in Keys(d)
                 THEN Survive(n, Lookup(o, k), x.at[k], d.at[k], Lookup(v, k))
                 ELSE Covers(Lookup(v, k), x.at[k]))
  BY <1>2, <1>3, <1>4, Zenon DEF Survive
<1>8. (d # Null /\ ByName(o, x, d, v)) => (Survive(n + 1, o, x, d, v) <=>
              \A i \in DOMAIN x.items : IsLast(x, i) =>
                 \/ \E j \in DOMAIN d.items : NameIn(d.items[j]) = NameIn(x.items[i])
                 \/ \E j \in DOMAIN v.items : Covers(v.items[j], x.items[i]))
  BY <1>2, <1>5, Zenon
<1>9. (d = Null \/ (~(IsMap(x) /\ IsMap(d)) /\ ~ByName(o, x, d, v))) =>
              Survive(n + 1, o, x, d, v)
  BY <1>2, <1>6, Zenon
<1> QED
  BY <1>7, <1>8, <1>9, Zenon

-----------------------------------------------------------------------------
(* Two merges                                                              *)

\* What is made of the original keeps the lengths and the names of its lists,
\* wherever they are.
Alike(S) ==
  \A q \in S :
    /\ IsArray(q[1]) => /\ IsArray(q[2]) /\ Len(q[1].items) = Len(q[2].items)
                        /\ IsNamed(q[2]) => IsNamed(q[1])
    /\ \A k \in Key : <<Lookup(q[1], k), Lookup(q[2], k)>> \in S

\* A merge that does not fail makes a document.
LEMMA MergedDocument ==
  ASSUME NEW n \in Nat, NEW a \in Document[n], NEW b \in Document[n], ~Failed(MergeAt[n][<<a, b>>])
  PROVE  MergeAt[n][<<a, b>>] \in Document[n]
<1>1. MergesIn(Document[n], {Panic}, MergeAt[n]) /\ Failed(Panic)
  BY MergeLevelIn DEF Failed, Panic
<1>2. MergeAt[n][<<a, b>>] \in Document[n] \cup {Panic}
  BY <1>1 DEF MergesIn
<1> QED
  BY <1>1, <1>2

\* The object x is merged over what is made of the original, and d over that.
KeptAt(n, S) ==
  \A c \in Document[n], o \in Document[n], x \in JSON[n], d \in Clean(Scalars)[n] :
    /\ <<c, o>> \in S
    /\ ~Failed(MergeAt[n][<<c, x>>])
    /\ ~Failed(MergeAt[n][<<MergeAt[n][<<c, x>>], d>>])
    => Survive(n, o, x, d, Compact("copy")[n][MergeAt[n][<<MergeAt[n][<<c, x>>], d>>]])

\* One step of the induction, for maps.
LEMMA MapsKept ==
  ASSUME NEW S, Alike(S), NEW n \in Nat, n + 1 <= Depth, KeptAt(n, S),
         NEW c \in Document[n + 1], NEW o \in Document[n + 1], NEW x \in JSON[n + 1],
         NEW d \in Clean(Scalars)[n + 1], <<c, o>> \in S, IsMap(x), IsMap(d),
         NEW b, b = MergeAt[n + 1][<<c, x>>], ~Failed(b),
         NEW m, m = MergeAt[n + 1][<<b, d>>], ~Failed(m)
  PROVE  Survive(n + 1, o, x, d, Compact("copy")[n + 1][m])
<1> DEFINE M == MergeAt[n]
           C == Compact("copy")
           new == C[n + 1][m]
<1>1. x \in Document[n + 1] /\ d \in Document[n + 1] /\ n + 1 \in Nat /\ Scalars \in SUBSET Leaves
  <2>1. n + 1 \in Nat
    OBVIOUS
  <2> QED
    BY <2>1, JSONFamily, CleanDocuments
<1>2. b \in Document[n + 1] /\ m \in Document[n + 1]
  <2>1. b \in Document[n + 1]
    BY <1>1, MergedDocument
  <2> QED
    BY <1>1, <2>1, MergedDocument
<1>3. new \in Document[n + 1]
  <2>1. \A l \in Nat : Compacts(l, C[l])
    BY CompactTyped
  <2>2. Compacts(n + 1, C[n + 1])
    BY <1>1, <2>1
  <2> QED
    BY <1>2, <2>2 DEF Compacts
<1>4. /\ \A k \in Keys(x) : Lookup(b, k) = M[<<Lookup(c, k), x.at[k]>>] /\ ~Failed(Lookup(b, k))
      /\ \A k \in Key \ Keys(x) : Lookup(b, k) = Lookup(c, k)
  BY <1>1, MergeKeys
<1>5. /\ \A k \in Keys(d) : Lookup(m, k) = M[<<Lookup(b, k), d.at[k]>>] /\ ~Failed(Lookup(m, k))
      /\ \A k \in Key \ Keys(d) : Lookup(m, k) = Lookup(b, k)
  BY <1>1, <1>2, MergeKeys
<1>6. x.at \in [Key -> {Absent} \cup JSON[n]] /\ d.at \in [Key -> {Absent} \cup Clean(Scalars)[n]]
  BY <1>1, JSONMap, CleanMap
<1> HIDE DEF new
<1>7. ASSUME NEW k \in Keys(x)
      PROVE  IF k \in Keys(d)
             THEN Survive(n, Lookup(o, k), x.at[k], d.at[k], Lookup(new, k))
             ELSE Covers(Lookup(new, k), x.at[k])
  <2>1. k \in Key /\ x.at[k] \in JSON[n] /\ x.at[k] \in Document[n]
    <3>1. k \in Key /\ x.at[k] \in JSON[n]
      BY <1>6 DEF Keys
    <3> QED
      BY <3>1, JSONFamily
  <2>2. /\ Lookup(new, k) = C[n][Lookup(m, k)]
        /\ Lookup(m, k) \in Document[n] /\ Lookup(b, k) \in Document[n]
        /\ Lookup(c, k) \in Document[n] /\ Lookup(o, k) \in Document[n]
        /\ Lookup(new, k) \in Document[n]
    <3>1. Lookup(new, k) = C[n][Lookup(m, k)]
      BY <1>2, <2>1, CompactLookup DEF new
    <3> QED
      BY <1>2, <1>3, <2>1, <3>1, LookupDocument
  <2>3. Lookup(b, k) = M[<<Lookup(c, k), x.at[k]>>] /\ ~Failed(Lookup(b, k))
    BY <1>4, SMTT(30)
  <2>4. CASE k \in Keys(d)
    <3>1. d.at[k] \in Clean(Scalars)[n]
      BY <1>6, <2>4 DEF Keys
    <3>2. Lookup(m, k) = M[<<Lookup(b, k), d.at[k]>>] /\ ~Failed(Lookup(m, k))
      BY <1>5, <2>4
    <3>3. <<Lookup(c, k), Lookup(o, k)>> \in S
      <4>1. \A q \in S : \A j \in Key : <<Lookup(q[1], j), Lookup(q[2], j)>> \in S
        BY DEF Alike
      <4>2. <<Lookup(<<c, o>>[1], k), Lookup(<<c, o>>[2], k)>> \in S
        BY <2>1, <4>1
      <4> QED
        BY <4>2
    <3> DEFINE ck == Lookup(c, k)
               ok == Lookup(o, k)
               xk == x.at[k]
               dk == d.at[k]
    <3>4. /\ ck \in Document[n] /\ ok \in Document[n] /\ xk \in JSON[n] /\ dk \in Clean(Scalars)[n]
          /\ <<ck, ok>> \in S /\ ~Failed(M[<<ck, xk>>]) /\ ~Failed(M[<<M[<<ck, xk>>], dk>>])
      BY <2>1, <2>2, <2>3, <3>1, <3>2, <3>3
    <3> HIDE DEF ck, ok, xk, dk
    <3>5. Survive(n, ok, xk, dk, C[n][M[<<M[<<ck, xk>>], dk>>]])
      BY <3>4 DEF KeptAt
    <3> QED
      BY <2>2, <2>3, <2>4, <3>2, <3>5 DEF ck, ok, xk, dk
  <2>5. CASE k \notin Keys(d)
    <3>1. Lookup(m, k) = M[<<Lookup(c, k), x.at[k]>>] /\ ~Failed(M[<<Lookup(c, k), x.at[k]>>])
      BY <1>5, <2>1, <2>3, <2>5
    <3>2. Cover(n, Lookup(m, k), x.at[k])
      <4>1. MergeCoversAt(n)
        BY MergeCovers
      <4> QED
        BY <2>1, <2>2, <3>1, <4>1 DEF MergeCoversAt
    <3>3. Cover(n, Lookup(new, k), x.at[k])
      BY <2>1, <2>2, <3>2, CoverCompact
    <3>4. n <= Depth
      BY KeyFacts
    <3>5. Covers(Lookup(new, k), x.at[k])
      BY <2>1, <2>2, <3>3, <3>4, CoverDepth
    <3> QED
      BY <2>5, <3>5
  <2> QED
    BY <2>4, <2>5
<1>8. Survive(n + 1, o, x, d, new)
  BY <1>1, <1>3, <1>7, SurviveCases
<1> QED
  BY <1>8 DEF new

\* And for lists with names.
LEMMA ListsKept ==
  ASSUME NEW S, Alike(S), NEW n \in Nat, n + 1 <= Depth,
         NEW c \in Document[n + 1], NEW o \in Document[n + 1], NEW x \in JSON[n + 1],
         NEW d \in Clean(Scalars)[n + 1], <<c, o>> \in S,
         NEW b, b = MergeAt[n + 1][<<c, x>>], ~Failed(b),
         NEW m, m = MergeAt[n + 1][<<b, d>>], ~Failed(m),
         ByName(o, x, d, Compact("copy")[n + 1][m])
  PROVE  Survive(n + 1, o, x, d, Compact("copy")[n + 1][m])
<1> DEFINE C == Compact("copy")
           new == C[n + 1][m]
<1>1. x \in Document[n + 1] /\ d \in Document[n + 1] /\ n + 1 \in Nat /\ d # Null
  <2>1. n + 1 \in Nat /\ Scalars \in SUBSET Leaves
    BY JSONFamily
  <2> QED
    BY <2>1, JSONFamily, CleanDocuments, CleanFacts
<1>2. b \in Document[n + 1] /\ m \in Document[n + 1]
  <2>1. b \in Document[n + 1]
    BY <1>1, MergedDocument
  <2> QED
    BY <1>1, <2>1, MergedDocument
<1>3. new \in Document[n + 1]
  <2>1. \A l \in Nat : Compacts(l, C[l])
    BY CompactTyped
  <2>2. Compacts(n + 1, C[n + 1])
    BY <1>1, <2>1
  <2> QED
    BY <1>2, <2>2 DEF Compacts
<1>4. IsNamed(x) /\ IsNamed(d) /\ (IsArray(o) => IsNamed(o) \/ Len(o.items) <= Len(x.items))
  BY DEF ByName
<1>5. IsArray(c) => IsNamed(c) \/ Len(c.items) <= Len(x.items)
  <2>1. IsArray(c) => /\ IsArray(o) /\ Len(c.items) = Len(o.items)
                      /\ IsNamed(o) => IsNamed(c)
    <3>1. \A q \in S : IsArray(q[1]) => /\ IsArray(q[2]) /\ Len(q[1].items) = Len(q[2].items)
                                        /\ IsNamed(q[2]) => IsNamed(q[1])
      BY DEF Alike
    <3>2. IsArray(<<c, o>>[1]) => /\ IsArray(<<c, o>>[2]) /\ Len(<<c, o>>[1].items) = Len(<<c, o>>[2].items)
                                  /\ IsNamed(<<c, o>>[2]) => IsNamed(<<c, o>>[1])
      BY <3>1
    <3> QED
      BY <3>2
  <2> QED
    BY <1>4, <2>1
<1>6. /\ IsNamed(b)
      /\ \A i \in DOMAIN x.items : IsLast(x, i) =>
           \E j \in DOMAIN b.items : Cover(n, b.items[j], x.items[i])
  BY <1>2, <1>4, <1>5, NamesMerged
<1> HIDE DEF new
<1>7. ASSUME NEW i \in DOMAIN x.items, IsLast(x, i),
             \A j \in DOMAIN d.items : NameIn(d.items[j]) # NameIn(x.items[i])
      PROVE  \E j \in DOMAIN new.items : Covers(new.items[j], x.items[i])
  <2>1. PICK p \in DOMAIN b.items : Cover(n, b.items[p], x.items[i])
    BY <1>6, <1>7
  <2>2. x.items[i] \in JSON[n] /\ x.items[i] \in Document[n] /\ HasName(x.items[i])
    <3>1. x.items \in Seq(JSON[n])
      BY <1>4, JSONArray DEF IsNamed
    <3>2. x.items[i] \in JSON[n]
      BY <3>1
    <3> QED
      BY <1>4, <3>2, JSONFamily DEF IsNamed
  <2>3. b.items[p] \in Document[n]
    <3>1. b.items \in Seq(Document[n])
      BY <1>2, <1>6, DocumentCases, LeafFacts DEF IsNamed, IsArray
    <3> QED
      BY <3>1
  <2>4. NameIn(b.items[p]) = NameIn(x.items[i])
    BY <2>1, <2>2, <2>3, CoverName
  <2>5. IsArray(m) /\ p \in DOMAIN m.items /\ m.items[p] = b.items[p]
    <3>1. \A j \in DOMAIN d.items : NameIn(d.items[j]) # NameIn(b.items[p])
      BY <1>7, <2>4
    <3> QED
      BY <1>1, <1>2, <1>4, <1>6, <3>1, OthersStay, SMTT(30)
  <2>6. p \in DOMAIN new.items /\ new.items[p] = C[n][m.items[p]]
    BY <1>2, <2>5, CompactCases DEF IsArray, IsMap, new
  <2>7. new.items[p] \in Document[n]
    <3>1. \A l \in Nat : Compacts(l, C[l])
      BY CompactTyped
    <3>2. Compacts(n, C[n])
      BY <3>1, SMTT(30)
    <3> QED
      BY <2>3, <2>5, <2>6, <3>2 DEF Compacts
  <2>8. Cover(n, new.items[p], x.items[i])
    BY <2>1, <2>2, <2>3, <2>5, <2>6, CoverCompact
  <2>9. n <= Depth
    BY KeyFacts
  <2>10. Covers(new.items[p], x.items[i])
    BY <2>2, <2>7, <2>8, <2>9, CoverDepth
  <2> QED
    BY <2>6, <2>10
<1>8. ByName(o, x, d, new)
  BY DEF new
<1>9. Survive(n + 1, o, x, d, new)
  BY <1>1, <1>3, <1>7, <1>8, SurviveCases
<1> QED
  BY <1>9 DEF new

\* What the resource is silent about survives both merges, at every level.
LEMMA AllKept ==
  ASSUME NEW S, Alike(S)
  PROVE  \A n \in Nat : n <= Depth => KeptAt(n, S)
<1> DEFINE I == {n \in Nat : n <= Depth => KeptAt(n, S)}
<1>0. \A n \in Nat : /\ Scalars \in SUBSET Leaves /\ JSON[n] \subseteq Document[n]
                     /\ Clean(Scalars)[n] \subseteq Document[n]
  BY JSONFamily
<1>1. ASSUME NEW n \in Nat, NEW c \in Document[n], NEW x \in JSON[n], NEW d \in Clean(Scalars)[n],
             NEW b, b = MergeAt[n][<<c, x>>], ~Failed(b),
             NEW m, m = MergeAt[n][<<b, d>>], ~Failed(m)
      PROVE  b \in Document[n] /\ m \in Document[n] /\ Compact("copy")[n][m] \in Document[n]
  <2>1. x \in Document[n] /\ d \in Document[n]
    BY <1>0
  <2>2. b \in Document[n]
    BY <1>1, <2>1, MergedDocument
  <2>3. m \in Document[n]
    BY <1>1, <2>1, <2>2, MergedDocument
  <2>4. \A l \in Nat : Compacts(l, Compact("copy")[l])
    BY CompactTyped
  <2> QED
    BY <2>2, <2>3, <2>4 DEF Compacts
<1>2. 0 \in I
  <2>1. ASSUME NEW c \in Document[0], NEW o \in Document[0], NEW x \in JSON[0], NEW d \in Clean(Scalars)[0],
               NEW b, b = MergeAt[0][<<c, x>>], ~Failed(b),
               NEW m, m = MergeAt[0][<<b, d>>], ~Failed(m)
        PROVE  Survive(0, o, x, d, Compact("copy")[0][m])
    <3>1. x \in Document[0] /\ d \in Document[0]
      BY <1>0
    <3>2. Compact("copy")[0][m] \in Document[0]
      BY <1>1, <2>1
    <3> QED
      BY <3>1, <3>2, SurviveLeaf
  <2>2. KeptAt(0, S)
    BY <2>1 DEF KeptAt
  <2> QED
    BY <2>2
<1>3. ASSUME NEW n \in I PROVE n + 1 \in I
  <2> SUFFICES ASSUME n + 1 <= Depth PROVE KeptAt(n + 1, S)
    OBVIOUS
  <2>1. n \in Nat /\ n + 1 \in Nat /\ n <= Depth
    BY KeyFacts
  <2>2. KeptAt(n, S)
    BY <2>1
  <2>3. ASSUME NEW c \in Document[n + 1], NEW o \in Document[n + 1], NEW x \in JSON[n + 1],
               NEW d \in Clean(Scalars)[n + 1], <<c, o>> \in S,
               NEW b, b = MergeAt[n + 1][<<c, x>>], ~Failed(b),
               NEW m, m = MergeAt[n + 1][<<b, d>>], ~Failed(m)
        PROVE  Survive(n + 1, o, x, d, Compact("copy")[n + 1][m])
    <3> DEFINE new == Compact("copy")[n + 1][m]
    <3>1. x \in Document[n + 1] /\ d \in Document[n + 1]
      BY <1>0, <2>1
    <3>2. new \in Document[n + 1]
      BY <1>1, <2>1, <2>3
    <3>3. CASE IsMap(x) /\ IsMap(d)
      BY <2>1, <2>2, <2>3, <3>3, MapsKept
    <3>4. CASE ByName(o, x, d, new)
      BY <2>1, <2>3, <3>4, ListsKept
    <3>5. CASE ~(IsMap(x) /\ IsMap(d)) /\ ~ByName(o, x, d, new)
      <4> HIDE DEF new
      <4>1. Survive(n + 1, o, x, d, new)
        BY <2>1, <3>1, <3>2, <3>5, SurviveCases
      <4> QED
        BY <4>1 DEF new
    <3> QED
      BY <3>3, <3>4, <3>5
  <2> QED
    BY <2>3 DEF KeptAt
<1>4. I = Nat
  <2>1. I \in SUBSET Nat
    OBVIOUS
  <2> HIDE DEF I
  <2> QED
    BY <1>2, <1>3, <2>1, SetInduction
<1> QED
  BY <1>4

-----------------------------------------------------------------------------
(* What the copy has of the original                                       *)

\* A document and a copy of it without nulls, or nothing.
Copies ==
  UNION {{q \in Document[n] \X Document[n] : q[1] = Null \/ q[1] = Compact("copy")[n][q[2]]} : n \in Nat}

\* Nothing is a copy of any document.
LEMMA NullCopies ==
  ASSUME NEW n \in Nat, NEW o \in Document[n]
  PROVE  <<Null, o>> \in Copies
<1>1. Null \in Document[n]
  BY CompactNull, JSONFamily
<1>2. <<Null, o>> \in Document[n] \X Document[n] /\ <<Null, o>>[1] = Null
  BY <1>1
<1> QED
  BY <1>2 DEF Copies

\* A copy without nulls is one.
LEMMA CompactCopies ==
  ASSUME NEW n \in Nat, NEW o \in Document[n]
  PROVE  <<Compact("copy")[n][o], o>> \in Copies
<1> DEFINE c == Compact("copy")[n][o]
<1>1. c \in Document[n]
  <2>1. \A l \in Nat : Compacts(l, Compact("copy")[l])
    BY CompactTyped
  <2> QED
    BY <2>1 DEF Compacts
<1>2. <<c, o>> \in Document[n] \X Document[n] /\ <<c, o>>[1] = Compact("copy")[n][<<c, o>>[2]]
  BY <1>1
<1> QED
  BY <1>2 DEF Copies

\* What a copy is of.
LEMMA CopyIs ==
  ASSUME NEW q \in Copies
  PROVE  \E n \in Nat : /\ q = <<q[1], q[2]>> /\ q[1] \in Document[n] /\ q[2] \in Document[n]
                        /\ q[1] = Null \/ q[1] = Compact("copy")[n][q[2]]
BY DEF Copies

\* Copies keep lengths and names, and what they have of a key is a copy.
LEMMA CopiesAlike == Alike(Copies)
<1> DEFINE C == Compact("copy")
<1> SUFFICES ASSUME NEW q \in Copies
             PROVE  /\ IsArray(q[1]) => /\ IsArray(q[2]) /\ Len(q[1].items) = Len(q[2].items)
                                        /\ IsNamed(q[2]) => IsNamed(q[1])
                    /\ \A k \in Key : <<Lookup(q[1], k), Lookup(q[2], k)>> \in Copies
  BY DEF Alike
<1> DEFINE c == q[1]
           o == q[2]
<1>1. PICK n \in Nat : c \in Document[n] /\ o \in Document[n] /\ (c = Null \/ c = C[n][o])
  BY CopyIs
<1> HIDE DEF c, o, C
<1>2. CASE n = 0
  <2>1. c \in Leaves /\ o \in Leaves
    BY <1>1, <1>2, TreeLevels DEF Document
  <2>2. ~IsArray(c) /\ ~IsMap(c) /\ ~IsMap(o)
    BY <2>1, LeafFacts
  <2>3. \A k \in Key : Lookup(c, k) = Null /\ Lookup(o, k) = Null
    BY <2>2 DEF Lookup
  <2>4. Null \in Document[0] /\ 0 \in Nat
    BY CompactNull, JSONFamily
  <2>5. <<Null, Null>> \in Copies
    BY <2>4, NullCopies
  <2> QED
    BY <2>2, <2>3, <2>5 DEF c, o
<1>3. CASE n # 0
  <2> DEFINE m == n - 1
  <2>1. m \in Nat /\ n = m + 1
    BY <1>3
  <2> HIDE DEF m
  <2>2. c \in Document[m + 1] /\ o \in Document[m + 1] /\ (c = Null \/ c = C[m + 1][o])
    BY <1>1, <2>1
  <2>3. ASSUME NEW k \in Key PROVE <<Lookup(c, k), Lookup(o, k)>> \in Copies
    <3>1. Lookup(o, k) \in Document[m]
      BY <2>1, <2>2, LookupDocument
    <3>2. CASE c = Null
      <4>1. Lookup(c, k) = Null
        BY <3>2 DEF Lookup, IsMap, Null
      <4> QED
        BY <2>1, <3>1, <4>1, NullCopies
    <3>3. CASE c = C[m + 1][o]
      <4>1. Lookup(c, k) = C[m][Lookup(o, k)]
        BY <2>1, <2>2, <3>3, CompactLookup DEF C
      <4> QED
        BY <2>1, <3>1, <4>1, CompactCopies DEF C
    <3> QED
      BY <2>2, <3>2, <3>3
  <2>4. ASSUME IsArray(c)
        PROVE  IsArray(o) /\ Len(c.items) = Len(o.items) /\ (IsNamed(o) => IsNamed(c))
    <3>1. c = C[m + 1][o]
      BY <2>2, <2>4 DEF IsArray, Null
    <3>2. /\ IsArray(o) /\ c \in Document[m + 1] /\ o.items \in Seq(Document[m])
          /\ DOMAIN c.items = DOMAIN o.items
          /\ \A i \in DOMAIN o.items : c.items[i] = C[m][o.items[i]]
      BY <2>1, <2>2, <2>4, <3>1, CompactCases DEF C
    <3>3. c.items \in Seq(Document[m])
      BY <2>1, <2>2, <2>4, DocumentCases
    <3>4. Len(c.items) = Len(o.items)
      BY <3>2, <3>3
    <3>5. ASSUME IsNamed(o), NEW i \in DOMAIN c.items PROVE HasName(c.items[i])
      <4>1. o.items[i] \in Document[m] /\ HasName(o.items[i]) /\ c.items[i] = C[m][o.items[i]]
        BY <3>2, <3>5 DEF IsNamed
      <4> QED
        BY <2>1, <4>1, CompactHasName DEF C
    <3> QED
      BY <2>4, <3>2, <3>4, <3>5 DEF IsNamed
  <2> QED
    BY <2>3, <2>4 DEF c, o
<1> QED
  BY <1>2, <1>3

\* What is left of a port.
LEMMA NoNodePortFacts ==
  ASSUME NEW v
  PROVE  /\ IsMap(NoNodePort(v)) <=> IsMap(v)
         /\ ~IsMap(v) => NoNodePort(v) = v
         /\ \A k \in Key : Lookup(NoNodePort(v), k) = IF k = "nodePort" THEN Null ELSE Lookup(v, k)
         /\ HasName(v) => HasName(NoNodePort(v))
<1>1. CASE ~IsMap(v)
  <2>1. NoNodePort(v) = v /\ \A k \in Key : Lookup(v, k) = Null
    BY <1>1 DEF NoNodePort, deleteKeys, Lookup
  <2> QED
    BY <1>1, <2>1 DEF HasName
<1>2. CASE IsMap(v)
  <2> DEFINE w == NoNodePort(v)
  <2>1. w = Without(v, {"nodePort"})
    BY <1>2 DEF NoNodePort, deleteKeys
  <2>2. IsMap(w) /\ \A j \in Key : Lookup(w, j) =
              IF j \in {"nodePort"} \/ v.at[j] = Absent THEN Null ELSE v.at[j]
    BY <2>1, WithoutFacts
  <2> HIDE DEF w
  <2>3. \A k \in Key : Lookup(w, k) = IF k = "nodePort" THEN Null ELSE Lookup(v, k)
    BY <1>2, <2>2 DEF Lookup
  <2>4. Lookup(w, "name") = Lookup(v, "name")
    BY <2>3, KeyFacts
  <2>5. HasName(v) => HasName(w)
    BY <2>2, <2>4 DEF HasName
  <2> QED
    BY <1>2, <2>2, <2>3, <2>5 DEF w
<1> QED
  BY <1>1, <1>2

\* A copy without its node port.
PortCopies == {<<NoNodePort(q[1]), q[2]>> : q \in Copies}

\* Without its node port a copy still keeps lengths and names.
LEMMA PortsAlike ==
  ASSUME NEW q \in PortCopies
  PROVE  /\ IsArray(q[1]) => /\ IsArray(q[2]) /\ Len(q[1].items) = Len(q[2].items)
                             /\ IsNamed(q[2]) => IsNamed(q[1])
         /\ \A k \in Key : <<Lookup(q[1], k), Lookup(q[2], k)>> \in Copies
<1>1. PICK p \in Copies : q = <<NoNodePort(p[1]), p[2]>>
  BY DEF PortCopies
<1> DEFINE c == p[1]
           o == p[2]
<1>2. q[1] = NoNodePort(c) /\ q[2] = o
  BY <1>1
<1>3. /\ IsArray(c) => /\ IsArray(o) /\ Len(c.items) = Len(o.items)
                       /\ IsNamed(o) => IsNamed(c)
      /\ \A k \in Key : <<Lookup(c, k), Lookup(o, k)>> \in Copies
  BY CopiesAlike DEF Alike
<1> HIDE DEF c, o
<1>4. ASSUME IsArray(q[1]) PROVE q[1] = c
  <2>1. ~IsMap(q[1])
    BY <1>4 DEF IsMap, IsArray
  <2> QED
    BY <1>2, <2>1, NoNodePortFacts
<1>5. ASSUME NEW k \in Key PROVE <<Lookup(q[1], k), Lookup(q[2], k)>> \in Copies
  <2>1. Lookup(q[1], k) = IF k = "nodePort" THEN Null ELSE Lookup(c, k)
    BY <1>2, NoNodePortFacts
  <2>2. <<Lookup(c, k), Lookup(o, k)>> \in Copies
    BY <1>3
  <2>3. <<Null, Lookup(o, k)>> \in Copies
    <3> DEFINE z == <<Lookup(c, k), Lookup(o, k)>>
    <3>1. PICK n \in Nat : z[2] \in Document[n]
      BY <2>2, CopyIs
    <3> QED
      BY <3>1, NullCopies
  <2> QED
    BY <1>2, <2>1, <2>2, <2>3
<1> QED
  BY <1>2, <1>3, <1>4, <1>5

\* The spec of a Service copied without its addresses is like that of the
\* original.
LEMMA ServiceAlike ==
  ASSUME NEW rs, NEW cs, NEW os \in Document[Depth - 1], rs = Compact("copy")[Depth - 1][os],
         IsMap(cs), Lookup(cs, "clusterIP") = Null,
         Lookup(rs, "ports") \in Clean(Scalars)[Depth - 2] \cup {Null},
         Lookup(cs, "ports") = NoNodePorts(Lookup(rs, "ports")),
         ~Failed(Lookup(cs, "ports")),
         \A k \in Key \ {"clusterIP", "ports"} : Lookup(cs, k) = Lookup(rs, k)
  PROVE  Alike(Copies \cup PortCopies
                 \cup {<<cs, os>>, <<Lookup(cs, "ports"), Lookup(os, "ports")>>})
<1> DEFINE C == Compact("copy")
           b == Depth - 2
           cp == Lookup(cs, "ports")
           rp == Lookup(rs, "ports")
           op == Lookup(os, "ports")
           S == Copies \cup PortCopies \cup {<<cs, os>>, <<cp, op>>}
           Same(u, v) == IsArray(u) => /\ IsArray(v) /\ Len(u.items) = Len(v.items)
                                       /\ IsNamed(v) => IsNamed(u)
<1>1. b \in Nat /\ b - 1 \in Nat /\ b = (b - 1) + 1 /\ Depth - 1 = b + 1 /\ Scalars \in SUBSET Leaves
      /\ {"ports", "clusterIP", "nodePort"} \subseteq Key
  BY KeyFacts, JSONFamily
<1>2. \A q \in Copies : Same(q[1], q[2]) /\ \A k \in Key : <<Lookup(q[1], k), Lookup(q[2], k)>> \in S
  BY CopiesAlike DEF Alike
<1>3. \A q \in PortCopies : Same(q[1], q[2]) /\ \A k \in Key : <<Lookup(q[1], k), Lookup(q[2], k)>> \in S
  BY PortsAlike
<1>4. \A k \in Key : Lookup(os, k) \in Document[b] /\ Lookup(rs, k) = C[b][Lookup(os, k)]
  <2> HIDE DEF b, cp, rp, op, S, Same
  <2>1. os \in Document[b + 1] /\ rs = Compact("copy")[b + 1][os]
    BY <1>1
  <2>2. b \in Nat
    BY <1>1
  <2>3. ASSUME NEW k \in Key PROVE Lookup(os, k) \in Document[b]
    BY <2>1, <2>2, LookupDocument
  <2>4. ASSUME NEW k \in Key PROVE Lookup(rs, k) = C[b][Lookup(os, k)]
    BY <2>1, <2>2, CompactLookup
  <2> QED
    BY <2>3, <2>4, Zenon
<1>5. \A k \in Key : <<Lookup(rs, k), Lookup(os, k)>> \in Copies /\ <<Null, Lookup(os, k)>> \in Copies
  BY <1>1, <1>4, CompactCopies, NullCopies
<1>6. ASSUME NEW k \in Key PROVE <<Lookup(cs, k), Lookup(os, k)>> \in S
  <2>1. CASE k = "clusterIP"
    BY <1>5, <2>1
  <2>2. CASE k = "ports"
    BY <2>2
  <2>3. CASE k \notin {"clusterIP", "ports"}
    BY <1>5, <2>3
  <2> QED
    BY <2>1, <2>2, <2>3
<1>7. /\ IsArray(cp) => /\ IsArray(rp) /\ Len(cp.items) = Len(rp.items)
                        /\ \A i \in DOMAIN cp.items : cp.items[i] = NoNodePort(rp.items[i])
      /\ \A k \in Key : Lookup(cp, k) = NoNodePort(Lookup(rp, k))
      /\ cp \in Clean(Scalars)[b]
  <2>1. Failed(Error)
    BY DEF Failed, Error
  <2>2. cp # Error
    BY <2>1
  <2>3. cp = NoNodePorts(rp) /\ rp \in Clean(Scalars)[b] \cup {Null}
    OBVIOUS
  <2>4. \/ cp = Error /\ ~IsArray(rp)
        \/ /\ cp \in Clean(Scalars)[b]
           /\ IsArray(cp) => \A i \in DOMAIN cp.items : Lookup(cp.items[i], "nodePort") = Null
           /\ IsArray(cp) => /\ IsArray(rp) /\ Len(cp.items) = Len(rp.items)
                             /\ \A i \in DOMAIN cp.items : cp.items[i] = NoNodePort(rp.items[i])
           /\ \A k \in Key : Lookup(cp, k) = NoNodePort(Lookup(rp, k))
    <3> HIDE DEF cp, rp, b
    <3> QED
      BY <1>1, <2>3, PortsFacts
  <2> QED
    BY <2>2, <2>4
<1>8. <<rp, op>> \in Copies
  BY <1>1, <1>5
<1>9. Same(cp, op)
  <2> SUFFICES ASSUME IsArray(cp)
               PROVE  IsArray(op) /\ Len(cp.items) = Len(op.items) /\ (IsNamed(op) => IsNamed(cp))
    OBVIOUS
  <2>1. IsArray(rp) /\ Len(cp.items) = Len(rp.items)
        /\ \A i \in DOMAIN cp.items : cp.items[i] = NoNodePort(rp.items[i])
    BY <1>7
  <2>2. Same(<<rp, op>>[1], <<rp, op>>[2])
    <3> HIDE DEF Same, rp, op
    <3> QED
      BY <1>2, <1>8
  <2>3. Same(rp, op)
    BY <2>2
  <2>4. rp \in Clean(Scalars)[b]
    BY <2>1 DEF IsArray, Null
  <2> HIDE DEF rp, cp, op, b
  <2>5. cp.items \in Seq(Clean(Scalars)[b - 1])
    BY <1>1, <1>7, CleanCases DEF IsArray
  <2>6. rp.items \in Seq(Clean(Scalars)[b - 1])
    BY <1>1, <2>1, <2>4, CleanCases DEF IsArray
  <2>7. DOMAIN cp.items = DOMAIN rp.items
    BY <2>1, <2>5, <2>6
  <2>8. ASSUME IsNamed(rp) PROVE IsNamed(cp)
    <3>1. \A i \in DOMAIN cp.items : HasName(cp.items[i])
      BY <2>1, <2>7, <2>8, NoNodePortFacts DEF IsNamed
    <3> QED
      BY <3>1 DEF IsNamed
  <2> QED
    BY <2>1, <2>3, <2>8
<1>10. ASSUME NEW k \in Key PROVE <<Lookup(cp, k), Lookup(op, k)>> \in S
  <2> DEFINE q == <<Lookup(rp, k), Lookup(op, k)>>
  <2>1. q \in Copies
    <3>1. \A p \in Copies : \A j \in Key : <<Lookup(p[1], j), Lookup(p[2], j)>> \in Copies
      BY CopiesAlike DEF Alike
    <3>2. <<Lookup(<<rp, op>>[1], k), Lookup(<<rp, op>>[2], k)>> \in Copies
      <4> HIDE DEF rp, op
      <4> QED
        BY <1>8, <3>1
    <3> QED
      BY <3>2
  <2>2. Lookup(cp, k) = NoNodePort(q[1]) /\ Lookup(op, k) = q[2]
    BY <1>7
  <2>3. <<NoNodePort(q[1]), q[2]>> \in PortCopies
    <3> HIDE DEF q
    <3> QED
      BY <2>1 DEF PortCopies
  <2> QED
    BY <2>2, <2>3
<1>11. ~IsArray(cs)
  BY DEF IsMap, IsArray
<1> HIDE DEF cp, op, rp
<1> SUFFICES ASSUME NEW q \in S
             PROVE  Same(q[1], q[2]) /\ \A k \in Key : <<Lookup(q[1], k), Lookup(q[2], k)>> \in S
  BY DEF Alike, cp, op
<1>12. CASE q = <<cs, os>>
  BY <1>6, <1>11, <1>12
<1>13. CASE q = <<cp, op>>
  BY <1>9, <1>10, <1>13
<1> QED
  BY <1>2, <1>3, <1>12, <1>13

Original == IF original = Absent THEN Null ELSE original

\* A new object has nothing, for any key but its metadata, that is not like
\* what the original has.
LEMMA CopiedAlike ==
  ASSUME original \in Originals \cup {Absent}, ~Failed(Copied)
  PROVE  /\ Copied \in Document[Depth] /\ Original \in Document[Depth]
         /\ \E S : /\ Alike(S)
                   /\ \A k \in Key \ {"metadata"} : <<Lookup(Copied, k), Lookup(Original, k)>> \in S
<1> DEFINE a == Depth - 1
           b == Depth - 2
           C == Compact("copy")
           Goal == \E S : /\ Alike(S)
                          /\ \A k \in Key \ {"metadata"} : <<Lookup(Copied, k), Lookup(Original, k)>> \in S
<1>1. a \in Nat /\ b \in Nat /\ Depth = a + 1 /\ a = b + 1 /\ Depth \in Nat /\ Scalars \in SUBSET Leaves
      /\ {"metadata", "status", "spec", "ports", "clusterIP"} \subseteq Key
  BY KeyFacts, JSONFamily
<1>2. \/ Copied = Null /\ original = Absent
      \/ Copied \in Objects(Clean(Scalars)[Depth])
  <2>1. Failed(Panic) /\ Failed(Error)
    BY DEF Failed, Panic, Error
  <2>2. Copied # Panic /\ Copied # Error
    BY <2>1
  <2> QED
    BY <2>2, CopiedFacts
<1>3. Copied \in Document[Depth]
  BY <1>1, <1>2, CleanObjects, ObjectFacts, CompactNull, JSONFamily
<1>4. Original \in Document[Depth]
  <2>1. CASE original = Absent
    BY <1>1, <2>1, CompactNull, JSONFamily DEF Original
  <2>2. CASE original # Absent
    <3>1. original \in Objects(JSON[Depth])
      BY <2>2, DocumentsAssumption
    <3> QED
      BY <2>2, <3>1, ObjectFacts DEF Original
  <2> QED
    BY <2>1, <2>2
<1>5. \A k \in Key : Lookup(Original, k) \in Document[a]
  BY <1>1, <1>4, LookupDocument
<1>6. CASE original = Absent
  <2>1. Copied = Null
    BY <1>6 DEF Copied
  <2>2. \A k \in Key : Lookup(Copied, k) = Null
    BY <2>1 DEF Lookup, IsMap, Null
  <2>3. \A k \in Key : <<Lookup(Copied, k), Lookup(Original, k)>> \in Copies
    BY <1>1, <1>5, <2>2, NullCopies
  <2>4. Goal
    BY <2>3, CopiesAlike
  <2> QED
    BY <1>3, <1>4, <2>4
<1>7. CASE original # Absent
  <2> DEFINE r == FromOriginal(Null)
  <2>1. original \in Originals /\ Original = original
    BY <1>7 DEF Original
  <2>2. Copied = IF gvk = "Service" THEN ForService(r) ELSE r
    BY <1>7 DEF Copied
  <2>3. /\ r \in Objects(Clean(Scalars)[Depth])
        /\ Lookup(r, "status") = Null
        /\ \A k \in Key \ {"metadata", "status"} : Lookup(r, k) = C[a][Lookup(original, k)]
    <3>1. r # Panic
      <4>1. Failed(Panic)
        BY DEF Failed, Panic
      <4>2. ForService(Panic) = Panic
        BY <4>1 DEF ForService, ReduceNested, ReduceNested2
      <4> QED
        BY <2>2, <4>1, <4>2
    <3> HIDE DEF r
    <3>2. \/ r = Panic /\ original \notin NoNullElement[Depth]
          \/ /\ r \in Objects(Clean(Scalars)[Depth])
             /\ Lookup(r, "status") = Null
             /\ \A k \in ServerKeys : Fetch(r, "metadata", k) = Null
             /\ \A k \in Key \ {"metadata", "status"} :
                  Lookup(r, k) = Compact("copy")[Depth - 1][Lookup(original, k)]
      BY <2>1, FromOriginalFacts DEF r
    <3> QED
      BY <3>1, <3>2
  <2> HIDE DEF r
  <2>4. ASSUME NEW k \in Key \ {"metadata"}
        PROVE  <<Lookup(r, k), Lookup(Original, k)>> \in Copies
    <3>1. CASE k = "status"
      BY <1>1, <1>5, <2>3, <3>1, NullCopies
    <3>2. CASE k # "status"
      <4>1. Lookup(r, k) = C[a][Lookup(Original, k)]
        BY <2>1, <2>3, <3>2
      <4> QED
        BY <1>1, <1>5, <4>1, CompactCopies
    <3> QED
      BY <3>1, <3>2
  <2>5. CASE gvk # "Service"
    <3>1. Copied = r
      BY <2>2, <2>5
    <3>2. Goal
      BY <2>4, <3>1, CopiesAlike
    <3> QED
      BY <1>3, <1>4, <3>2
  <2>6. CASE gvk = "Service"
    <3> DEFINE cs == Lookup(Copied, "spec")
               rs == Lookup(r, "spec")
               os == Lookup(Original, "spec")
               S == Copies \cup PortCopies
                      \cup {<<cs, os>>, <<Lookup(cs, "ports"), Lookup(os, "ports")>>}
    <3>1. Copied = ForService(r)
      BY <2>2, <2>6
    <3>2. /\ Copied \in Objects(Clean(Scalars)[Depth])
          /\ \A k \in Key \ {"spec"} : Lookup(Copied, k) = Lookup(r, k)
          /\ Lookup(cs, "clusterIP") = Null
          /\ IsMap(cs) /\ IsMap(rs)
          /\ Lookup(cs, "ports") = NoNodePorts(Lookup(rs, "ports"))
          /\ \A k \in Key \ {"clusterIP", "ports"} : Lookup(cs, k) = Lookup(rs, k)
      <4> DEFINE P(c) == /\ c \in Objects(Clean(Scalars)[Depth])
                         /\ \A k \in Key \ {"spec"} : Lookup(c, k) = Lookup(r, k)
                         /\ Fetch(c, "spec", "clusterIP") = Null
                         /\ IsMap(Lookup(c, "spec")) /\ IsMap(Lookup(r, "spec"))
                         /\ Fetch(c, "spec", "ports") = NoNodePorts(Fetch(r, "spec", "ports"))
                         /\ \A k \in Key \ {"clusterIP", "ports"} : Fetch(c, "spec", k) = Fetch(r, "spec", k)
      <4>1. ForService(r) = Error \/ P(ForService(r))
        BY <2>3, ForServiceFacts
      <4>2. Failed(Error)
        BY DEF Failed, Error
      <4>3. P(Copied)
        BY <3>1, <4>1, <4>2
      <4> QED
        BY <4>3 DEF Fetch
    <3>3. cs \in Clean(Scalars)[b + 1] /\ rs \in Clean(Scalars)[b + 1]
      <4>1. cs \in Clean(Scalars)[a] \cup {Null} /\ rs \in Clean(Scalars)[a] \cup {Null}
        BY <1>1, <2>3, <3>2, CleanObject
      <4> QED
        BY <1>1, <3>2, <4>1 DEF IsMap, Null
    <3> HIDE DEF cs, rs, os
    <3>4. Lookup(rs, "ports") \in Clean(Scalars)[b] \cup {Null} /\ ~Failed(Lookup(cs, "ports"))
      <4>1. Lookup(rs, "ports") \in Clean(Scalars)[b] \cup {Null}
            /\ Lookup(cs, "ports") \in Clean(Scalars)[b] \cup {Null}
        BY <1>1, <3>2, <3>3, CleanMap
      <4>2. ~Failed(Null)
        BY DEF Failed, Null
      <4> QED
        BY <1>1, <4>1, <4>2, CleanFacts
    <3>5. os \in Document[a] /\ rs = C[a][os]
      BY <1>1, <1>5, <2>1, <2>3 DEF os, rs
    <3>6. Alike(S)
      BY <3>2, <3>4, <3>5, ServiceAlike
    <3>7. ASSUME NEW k \in Key \ {"metadata"}
          PROVE  <<Lookup(Copied, k), Lookup(Original, k)>> \in S
      <4>1. CASE k = "spec"
        BY <4>1 DEF cs, os
      <4>2. CASE k # "spec"
        BY <2>4, <3>2, <4>2
      <4> QED
        BY <4>1, <4>2
    <3> HIDE DEF S
    <3>8. Goal
      BY <3>6, <3>7
    <3> QED
      BY <1>3, <1>4, <3>8
  <2> QED
    BY <2>5, <2>6
<1> QED
  BY <1>6, <1>7

-----------------------------------------------------------------------------
(* What an update keeps                                                    *)

\* The object has, for a key of the object x, what x has and d is silent about.
Keeps(k, x, d, v) ==
  IF k \in Keys(d)
  THEN Survive(Depth - 1, Lookup(Original, k), x.at[k], d.at[k], Lookup(v, k))
  ELSE Covers(Lookup(v, k), x.at[k])

\* What is sent keeps it, whatever the object was copied from.
LEMMA PatchKeeps ==
  ASSUME original \in Originals \cup {Absent}, applied \in Objects(JSON[Depth]),
         NEW d \in Objects(Clean(Scalars)[Depth]), ~Failed(Patch(d)),
         NEW k \in Keys(applied) \ {"metadata"}
  PROVE  Keeps(k, applied, d, Patch(d))
<1> DEFINE a == Depth - 1
           C == Compact("copy")
           M == MergeAt[a]
           p == Patch(d)
           r == mergeResource(Base, d)
           x == applied.at[k]
<1>1. a \in Nat /\ a <= Depth /\ Depth = a + 1 /\ Depth \in Nat /\ Scalars \in SUBSET Leaves
  BY KeyFacts, JSONFamily
<1>2. applied # Absent /\ IsMap(applied) /\ applied \in Document[a + 1] /\ ~Failed(applied)
      /\ applied.at \in [Key -> {Absent} \cup JSON[a]]
  BY <1>1, ObjectFacts DEF IsMap, Absent
<1>3. /\ Base = Null \/ Base \in Objects(JSON[Depth])
      /\ r \in Objects(JSON[Depth])
      /\ \A j \in Key \ {"metadata"} : Lookup(p, j) = C[a][Lookup(r, j)]
  <2> DEFINE m == Merged(applied, Copied, d)
  <2>1. \/ p = Panic /\ (Breaks(original) \/ Breaks(applied))
        \/ p = Error /\ NoPorts
        \/ /\ Base = Null \/ Base \in Objects(JSON[Depth])
           /\ m = mergeResource(Base, d)
           /\ m \in Objects(JSON[Depth])
           /\ p \in Objects(Clean(Scalars)[Depth])
           /\ \A j \in Key \ {"metadata"} :
                Lookup(p, j) = Compact("copy")[Depth - 1][Lookup(m, j)]
           /\ \A j \in Key \ {"name", "namespace", "ownerReferences"} :
                Fetch(p, "metadata", j) = Compact("copy")[Depth - 2][Fetch(m, "metadata", j)]
    BY PatchCases
  <2>2. Failed(Panic) /\ Failed(Error)
    BY DEF Failed, Panic, Error
  <2> HIDE DEF p, m
  <2>3. p # Panic /\ p # Error
    BY <2>2 DEF p
  <2> QED
    BY <2>1, <2>3
<1>4. Base = mergeResource(Copied, applied) /\ ~Failed(Base)
  <2>1. ~Failed(Base)
    BY <1>3, ObjectFacts DEF Failed, Null
  <2> QED
    BY <1>2, <2>1 DEF Base
<1>5. ~Failed(Copied) /\ Base = MergeAt[a + 1][<<Copied, applied>>]
  <2>1. ~Failed(Copied)
    BY <1>4 DEF mergeResource
  <2> QED
    BY <1>1, <1>4, <2>1 DEF mergeResource, MergeFunc
<1>6. Copied \in Document[a + 1] /\ Original \in Document[a + 1]
      /\ \E S : /\ Alike(S)
                /\ \A j \in Key \ {"metadata"} : <<Lookup(Copied, j), Lookup(Original, j)>> \in S
  BY <1>1, <1>5, CopiedAlike
<1>7. r = MergeAt[a + 1][<<Base, d>>] /\ ~Failed(r) /\ r \in Document[a + 1]
  BY <1>1, <1>3, <1>4, ObjectFacts DEF mergeResource, MergeFunc
<1>8. Base \in Document[a + 1]
  BY <1>1, <1>2, <1>4, <1>5, <1>6, MergedDocument
<1>9. /\ IsMap(d) /\ d \in Document[a + 1]
      /\ d.at \in [Key -> {Absent} \cup Clean(Scalars)[a]]
  BY <1>1, CleanObject, CleanObjects, ObjectFacts
<1>10. k \in Key /\ k \in Keys(applied) /\ k # "metadata" /\ x \in JSON[a] /\ x \in Document[a]
  <2>1. k \in Key /\ x \in JSON[a]
    BY <1>2 DEF Keys
  <2> QED
    BY <1>1, <2>1, JSONFamily
<1> DEFINE c == Lookup(Copied, k)
           o == Lookup(Original, k)
<1>11. c \in Document[a] /\ o \in Document[a] /\ Lookup(r, k) \in Document[a]
  BY <1>1, <1>6, <1>7, <1>10, LookupDocument
<1> HIDE DEF p, r, a, Base, C
<1>12. Lookup(Base, k) = M[<<c, x>>] /\ ~Failed(Lookup(Base, k))
  <2> DEFINE b == MergeAt[a + 1][<<Copied, applied>>]
  <2>1. /\ a \in Nat /\ Copied \in Document[a + 1]
        /\ applied \in Document[a + 1] /\ IsMap(applied)
    BY <1>1, <1>2, <1>6
  <2>2. Base = b /\ ~Failed(b)
    BY <1>4, <1>5
  <2>3. \A j \in Keys(applied) : /\ Lookup(b, j) = MergeAt[a][<<Lookup(Copied, j), applied.at[j]>>]
                                 /\ ~Failed(Lookup(b, j))
    BY <2>1, <2>2, MergeKeys
  <2> HIDE DEF b
  <2> QED
    BY <1>10, <2>2, <2>3
<1>13. /\ \A j \in Keys(d) : Lookup(r, j) = M[<<Lookup(Base, j), d.at[j]>>] /\ ~Failed(Lookup(r, j))
       /\ \A j \in Key \ Keys(d) : Lookup(r, j) = Lookup(Base, j)
  BY <1>1, <1>7, <1>8, <1>9, MergeKeys
<1>14. Lookup(p, k) = C[a][Lookup(r, k)]
  BY <1>3, <1>10
<1>15. CASE k \in Keys(d)
  <2> DEFINE dk == d.at[k]
  <2>1. dk \in Clean(Scalars)[a]
    BY <1>9, <1>15 DEF Keys
  <2>2. PICK S : /\ Alike(S)
                 /\ \A j \in Key \ {"metadata"} : <<Lookup(Copied, j), Lookup(Original, j)>> \in S
    BY <1>6
  <2>3. KeptAt(a, S)
    BY <1>1, <2>2, AllKept
  <2>4. <<c, o>> \in S
    BY <1>10, <2>2
  <2>5. Lookup(r, k) = M[<<M[<<c, x>>], dk>>] /\ ~Failed(M[<<c, x>>]) /\ ~Failed(M[<<M[<<c, x>>], dk>>])
    BY <1>12, <1>13, <1>15
  <2> HIDE DEF c, o, x, dk
  <2>6. Survive(a, o, x, dk, C[a][M[<<M[<<c, x>>], dk>>]])
    BY <1>10, <1>11, <2>1, <2>3, <2>4, <2>5 DEF KeptAt, C
  <2>7. Survive(a, o, x, dk, Lookup(p, k))
    BY <1>14, <2>5, <2>6
  <2> QED
    BY <1>15, <2>7 DEF Keeps, o, x, dk, p, a
<1>16. CASE k \notin Keys(d)
  <2>1. Lookup(r, k) = M[<<c, x>>] /\ ~Failed(M[<<c, x>>])
    BY <1>10, <1>12, <1>13, <1>16
  <2> HIDE DEF c, x
  <2>2. Cover(a, Lookup(r, k), x)
    <3>1. MergeCoversAt(a)
      BY <1>1, MergeCovers
    <3> QED
      BY <1>10, <1>11, <2>1, <3>1 DEF MergeCoversAt
  <2>3. Cover(a, Lookup(p, k), x)
    BY <1>1, <1>10, <1>11, <1>14, <2>2, CoverCompact DEF C
  <2>4. Lookup(p, k) \in Document[a]
    <3>1. \A l \in Nat : Compacts(l, C[l])
      BY CompactTyped DEF C
    <3> QED
      BY <1>1, <1>11, <1>14, <3>1 DEF Compacts
  <2>5. Covers(Lookup(p, k), x)
    BY <1>1, <1>10, <2>3, <2>4, CoverDepth
  <2> QED
    BY <1>16, <2>5 DEF Keeps, x, p
<1> QED
  BY <1>15, <1>16

\* A spec that the API server has given a cluster IP.
Given(v, w) ==
  /\ IsMap(v) /\ IsMap(w)
  /\ Lookup(v, "clusterIP") = Null
  /\ \A j \in Key \ {"clusterIP"} : Lookup(w, j) = Lookup(v, j)

\* It covers what it did.
LEMMA GivenCovers ==
  ASSUME NEW n \in Nat, n + 1 <= Depth, NEW v \in Document[n + 1], NEW w \in Document[n + 1], Given(v, w),
         NEW x \in Document[n + 1], Covers(v, x)
  PROVE  Covers(w, x)
<1>1. n + 1 \in Nat /\ ~IsArray(v) /\ IsMap(v) /\ IsMap(w)
  BY DEF Given, IsMap, IsArray
<1>2. Cover(n + 1, v, x)
  BY <1>1, CoverDepth
<1>3. CASE IsMap(x)
  <2>1. \A j \in Keys(x) : Cover(n, Lookup(v, j), x.at[j])
    BY <1>2, <1>3, CoverCases
  <2>2. ASSUME NEW j \in Keys(x) PROVE Cover(n, Lookup(w, j), x.at[j])
    <3>1. j \in Key /\ x.at[j] \in Document[n] /\ Lookup(w, j) \in Document[n]
      <4>1. j \in Key /\ x.at[j] # Absent /\ Lookup(x, j) = x.at[j]
        BY <1>3 DEF Keys, Lookup
      <4> QED
        BY <4>1, LookupDocument
    <3>2. CASE j = "clusterIP"
      <4>1. Cover(n, Null, x.at[j])
        BY <2>1, <3>2 DEF Given
      <4>2. x.at[j] = Null
        BY <3>1, <4>1, NullCovers
      <4> QED
        BY <3>1, <4>2, NullCovered
    <3>3. CASE j # "clusterIP"
      BY <2>1, <3>1, <3>3 DEF Given
    <3> QED
      BY <3>2, <3>3
  <2>3. Cover(n + 1, w, x)
    BY <1>1, <1>3, <2>2, CoverCases
  <2> QED
    BY <1>1, <2>3, CoverDepth
<1>4. CASE IsArray(x)
  BY <1>1, <1>2, <1>4, CoverCases
<1>5. CASE ~IsMap(x) /\ ~IsArray(x)
  <2>1. x = Null
    BY <1>1, <1>2, <1>5, CoverCases
  <2>2. Cover(n + 1, w, x)
    BY <1>1, <2>1, NullCovered
  <2> QED
    BY <1>1, <2>2, CoverDepth
<1> QED
  BY <1>3, <1>4, <1>5

\* And keeps what it did, for the resource asks for no cluster IP that it has not.
LEMMA GivenKeeps ==
  ASSUME NEW n \in Nat, n + 1 <= Depth, NEW v \in Document[n + 1], NEW w \in Document[n + 1], Given(v, w),
         NEW o \in Document[n + 1], NEW x \in Document[n + 1], NEW d \in Clean(Scalars)[n + 1],
         Cover(n + 1, v, d), Survive(n + 1, o, x, d, v)
  PROVE  Survive(n + 1, o, x, d, w)
<1>1. n + 1 \in Nat /\ n <= Depth /\ d \in Document[n + 1] /\ Scalars \in SUBSET Leaves
  <2>1. n + 1 \in Nat /\ n <= Depth /\ Scalars \in SUBSET Leaves
    BY KeyFacts, JSONFamily
  <2> QED
    BY <2>1, CleanDocuments
<1>2. IsMap(w) /\ ~IsArray(w)
  BY DEF Given, IsMap, IsArray
<1>3. ~ByName(o, x, d, w)
  BY <1>2 DEF ByName, IsNamed
<1>4. CASE ~(IsMap(x) /\ IsMap(d))
  BY <1>1, <1>3, <1>4, SurviveCases
<1>5. CASE IsMap(x) /\ IsMap(d)
  <2>1. \A k \in Keys(x) :
           IF k \in Keys(d)
           THEN Survive(n, Lookup(o, k), x.at[k], d.at[k], Lookup(v, k))
           ELSE Covers(Lookup(v, k), x.at[k])
    BY <1>1, <1>5, SurviveCases
  <2>2. \A j \in Keys(d) : Cover(n, Lookup(v, j), d.at[j])
    BY <1>1, <1>5, CoverCases
  <2>3. ASSUME NEW k \in Keys(x)
        PROVE  IF k \in Keys(d)
               THEN Survive(n, Lookup(o, k), x.at[k], d.at[k], Lookup(w, k))
               ELSE Covers(Lookup(w, k), x.at[k])
    <3>1. k \in Key
      BY DEF Keys
    <3>2. CASE k # "clusterIP"
      <4>1. Lookup(w, k) = Lookup(v, k)
        BY <3>1, <3>2 DEF Given
      <4> QED
        BY <2>1, <4>1
    <3>3. CASE k = "clusterIP"
      <4>1. Lookup(v, k) = Null
        BY <3>3 DEF Given
      <4>2. k \notin Keys(d)
        <5> SUFFICES ASSUME k \in Keys(d) PROVE FALSE
          OBVIOUS
        <5>1. d.at[k] \in Clean(Scalars)[n]
          <6>1. d.at \in [Key -> {Absent} \cup Clean(Scalars)[n]]
            BY <1>1, <1>5, CleanMap
          <6> QED
            BY <6>1 DEF Keys
        <5>2. Cover(n, Null, d.at[k])
          BY <2>2, <4>1
        <5> QED
          BY <5>1, <5>2, NoneCovers
      <4>3. x.at[k] \in Document[n] /\ Lookup(w, k) \in Document[n] /\ Null \in Document[n]
        <5>1. x.at[k] # Absent /\ Lookup(x, k) = x.at[k]
          BY <1>5 DEF Keys, Lookup
        <5>2. Null \in Document[n]
          BY CompactNull, JSONFamily
        <5> QED
          BY <3>1, <5>1, <5>2, LookupDocument
      <4>4. Cover(n, Null, x.at[k])
        <5>1. Covers(Null, x.at[k])
          BY <2>1, <4>1, <4>2
        <5> QED
          BY <1>1, <4>3, <5>1, CoverDepth
      <4>5. x.at[k] = Null
        BY <4>3, <4>4, NullCovers
      <4>6. Cover(n, Lookup(w, k), x.at[k])
        BY <4>3, <4>5, NullCovered
      <4>7. Covers(Lookup(w, k), x.at[k])
        BY <1>1, <4>3, <4>6, CoverDepth
      <4> QED
        BY <4>2, <4>7
    <3> QED
      BY <3>2, <3>3
  <2> QED
    BY <1>1, <1>5, <2>3, SurviveCases
<1> QED
  BY <1>4, <1>5

\* So does what the API server stores of it.
LEMMA StoredKeeps ==
  ASSUME original \in Originals \cup {Absent}, applied \in Objects(JSON[Depth]),
         NEW d \in Objects(Clean(Scalars)[Depth]),
         NEW p \in Objects(Clean(Scalars)[Depth]), Asked(p, d),
         NEW k \in Keys(applied) \ {"metadata"}, Keeps(k, applied, d, p)
  PROVE  Keeps(k, applied, d, Stored(p))
<1> DEFINE b == Depth - 2
           s == Stored(p)
           v == Lookup(p, k)
           w == Lookup(s, k)
           x == applied.at[k]
           o == Lookup(Original, k)
<1>1. b \in Nat /\ b + 1 <= Depth /\ Depth - 1 = b + 1 /\ Depth = (b + 1) + 1 /\ b + 1 \in Nat
      /\ Scalars \in SUBSET Leaves
  BY KeyFacts, JSONFamily
<1>2. /\ s \in Objects(Clean(Scalars)[Depth])
      /\ \A j \in Key \ {"metadata", "spec"} : Lookup(s, j) = Lookup(p, j)
      /\ \/ Lookup(s, "spec") = Lookup(p, "spec")
         \/ /\ IsMap(Lookup(p, "spec")) /\ IsMap(Lookup(s, "spec"))
            /\ Fetch(p, "spec", "clusterIP") = Null
            /\ \A j \in Key \ {"clusterIP"} : Fetch(s, "spec", j) = Fetch(p, "spec", j)
  BY StoredFacts
<1>3. k \in Key /\ k # "metadata"
  BY DEF Keys
<1> HIDE DEF b, s
<1>4. v = w \/ Given(v, w)
  BY <1>2, <1>3 DEF Fetch, Given
<1>5. CASE v = w
  BY <1>5 DEF Keeps, s
<1>6. CASE Given(v, w)
  <2>1. v \in Document[b + 1] /\ w \in Document[b + 1]
    <3>1. p \in Document[(b + 1) + 1] /\ s \in Document[(b + 1) + 1]
      BY <1>1, <1>2, CleanObjects, ObjectFacts
    <3> QED
      BY <1>1, <1>3, <3>1, LookupDocument
  <2>2. x \in Document[b + 1]
    <3>1. applied.at \in [Key -> {Absent} \cup JSON[b + 1]]
      BY <1>1, ObjectFacts
    <3>2. x \in JSON[b + 1]
      BY <3>1 DEF Keys
    <3> QED
      BY <1>1, <3>2, JSONFamily
  <2>3. o \in Document[b + 1]
    <3>1. Original \in Document[Depth]
      <4>1. CASE original = Absent
        BY <1>1, <4>1, CompactNull, JSONFamily DEF Original
      <4>2. CASE original # Absent
        <5>1. original \in Objects(JSON[Depth])
          BY <4>2, DocumentsAssumption
        <5> QED
          BY <4>2, <5>1, ObjectFacts DEF Original
      <4> QED
        BY <4>1, <4>2
    <3> QED
      BY <1>1, <1>3, <3>1, LookupDocument
  <2> HIDE DEF v, w, x, o
  <2>4. CASE k \in Keys(d)
    <3>1. Survive(b + 1, o, x, d.at[k], v)
      BY <1>1, <2>4 DEF Keeps, o, x, v
    <3>2. d.at[k] \in Clean(Scalars)[b + 1]
      <4>1. d.at \in [Key -> {Absent} \cup Clean(Scalars)[b + 1]]
        BY <1>1, CleanObject
      <4> QED
        BY <2>4, <4>1 DEF Keys
    <3>3. Cover(b + 1, v, d.at[k])
      BY <1>1, <1>3, <2>4 DEF Asked, v
    <3>4. Survive(b + 1, o, x, d.at[k], w)
      BY <1>1, <1>6, <2>1, <2>2, <2>3, <3>1, <3>2, <3>3, GivenKeeps
    <3> QED
      BY <1>1, <2>4, <3>4 DEF Keeps, o, x, w, s
  <2>5. CASE k \notin Keys(d)
    <3>1. Covers(v, x)
      BY <2>5 DEF Keeps, v, x
    <3>2. Covers(w, x)
      BY <1>1, <1>6, <2>1, <2>2, <3>1, GivenCovers
    <3> QED
      BY <2>5, <3>2 DEF Keeps, w, x, s
  <2> QED
    BY <2>4, <2>5
<1> QED
  BY <1>4, <1>5, <1>6

\* Keeping every key but the metadata is what the property says.
LEMMA KeepsAll ==
  ASSUME original \in Originals \cup {Absent}, applied \in Objects(JSON[Depth]),
         NEW d \in Objects(Clean(Scalars)[Depth]), NEW v \in Objects(JSON[Depth]),
         \A k \in Keys(applied) \ {"metadata"} : Keeps(k, applied, d, v)
  PROVE  SurvivesAt[Depth][<<IF original = Absent THEN Null ELSE Rest(original),
                             Rest(applied), Rest(d), Rest(v)>>]
<1> DEFINE a == Depth - 1
           o == IF original = Absent THEN Null ELSE Rest(original)
           x == Rest(applied)
           y == Rest(d)
           w == Rest(v)
<1>1. a \in Nat /\ Depth - 1 = a /\ Depth = a + 1 /\ Depth \in Nat
  BY KeyFacts
<1>2. d \in Objects(JSON[Depth])
  BY CleanObjects
<1>3. o \in Document[a + 1]
      /\ \A k \in Key \ {"metadata"} : Lookup(o, k) = Lookup(Original, k)
  <2>1. CASE original = Absent
    BY <1>1, <2>1, CompactNull, JSONFamily DEF Original
  <2>2. CASE original # Absent
    <3>1. original \in Objects(JSON[Depth])
      BY <2>2, DocumentsAssumption
    <3>2. o = Rest(original) /\ Original = original
      BY <2>2 DEF Original
    <3> QED
      BY <1>1, <3>1, <3>2, RestFacts
  <2> QED
    BY <2>1, <2>2
<1>4. /\ x \in Document[a + 1] /\ IsMap(x) /\ Keys(x) = Keys(applied) \ {"metadata"}
      /\ \A k \in Key \ {"metadata"} : x.at[k] = applied.at[k]
  BY <1>1, RestFacts
<1>5. /\ y \in Document[a + 1] /\ IsMap(y) /\ Keys(y) = Keys(d) \ {"metadata"}
      /\ \A k \in Key \ {"metadata"} : y.at[k] = d.at[k]
  BY <1>1, <1>2, RestFacts
<1>6. /\ w \in Document[a + 1]
      /\ \A k \in Key \ {"metadata"} : Lookup(w, k) = Lookup(v, k)
  BY <1>1, RestFacts
<1> HIDE DEF a, o, x, y, w
<1>7. ASSUME NEW k \in Keys(x)
      PROVE  IF k \in Keys(y)
             THEN Survive(a, Lookup(o, k), x.at[k], y.at[k], Lookup(w, k))
             ELSE Covers(Lookup(w, k), x.at[k])
  <2>1. k \in Key \ {"metadata"} /\ k \in Keys(applied) \ {"metadata"}
    BY <1>4 DEF Keys
  <2>2. Keeps(k, applied, d, v)
    BY <2>1
  <2>3. k \in Keys(y) <=> k \in Keys(d)
    BY <1>5, <2>1
  <2>4. /\ x.at[k] = applied.at[k] /\ y.at[k] = d.at[k]
        /\ Lookup(o, k) = Lookup(Original, k) /\ Lookup(w, k) = Lookup(v, k)
    BY <1>3, <1>4, <1>5, <1>6, <2>1
  <2> QED
    BY <1>1, <2>2, <2>3, <2>4 DEF Keeps
<1>8. Survive(a + 1, o, x, y, w)
  BY <1>1, <1>3, <1>4, <1>5, <1>6, <1>7, SurviveCases
<1> QED
  BY <1>1, <1>8 DEF Survive, o, x, y, w

\* The formula of UserPartSurvives.
KeptOnUpdate ==
  applied # Absent /\ outcome' = "updated" =>
    SurvivesAt[Depth][<<IF original = Absent THEN Null ELSE Rest(original),
                        Rest(applied), Rest(Rendered), Rest(applied')>>]

\* Every update keeps it; nothing else ends as an update.
LEMMA KeptStep ==
  ASSUME TypeOK, [Next]_vars
  PROVE  [KeptOnUpdate]_vars
<1> SUFFICES ASSUME applied # Absent, outcome' = "updated", ~UNCHANGED vars
             PROVE  SurvivesAt[Depth][<<IF original = Absent THEN Null ELSE Rest(original),
                                        Rest(applied), Rest(Rendered), Rest(applied')>>]
  BY DEF KeptOnUpdate
<1> DEFINE p == Patch(Rendered)
           d == Rendered
<1>1. Reconcile
  BY OtherSteps
<1>2. ASSUME NEW v, Fails(v) PROVE FALSE
  BY <1>2, FailsOutcome DEF Fails, End
<1>3. ~NotManaged
  BY DEF NotManaged, End
<1>4. /\ ~Failed(p)
      /\ d \in Objects(Clean(Scalars)[Depth]) /\ p \in Objects(Clean(Scalars)[Depth])
      /\ Unchanged(p) \/ UpdateObject(p) \/ CreateObject(p)
  BY <1>1, <1>2, <1>3, ReconcileCases
<1>5. original \in Originals \cup {Absent} /\ applied \in Objects(JSON[Depth])
  BY DEF TypeOK
<1>6. Asked(p, d) /\ \A k \in Keys(applied) \ {"metadata"} : Keeps(k, applied, d, p)
  BY <1>4, <1>5, PatchAsked, PatchKeeps
<1> HIDE DEF p, d
<1>7. applied' = Stored(p)
  BY <1>4 DEF Unchanged, UpdateObject, CreateObject, Send, End
<1>8. \A k \in Keys(applied) \ {"metadata"} : Keeps(k, applied, d, Stored(p))
  BY <1>4, <1>5, <1>6, StoredKeeps
<1>9. Stored(p) \in Objects(JSON[Depth])
  BY <1>4, StoredFacts, CleanObjects
<1> QED
  BY <1>4, <1>5, <1>7, <1>8, <1>9, KeepsAll DEF d

\* An update takes nothing away that the set does not speak of: what users and
\* the API server put into the object is merged over what it was copied from
\* (resourceset/reducer.go:41), which brings no longer list and no other names
\* than the original, and the set's resource only over what it names itself.
THEOREM UsersPartIsKept == Spec => UserPartSurvives
<1>1. TypeOK /\ [Next]_vars => [KeptOnUpdate]_vars
  BY KeptStep
<1>2. Spec => [][KeptOnUpdate]_vars
  BY <1>1, TypeCorrect, PTL DEF Spec
<1> QED
  BY <1>2 DEF UserPartSurvives, KeptOnUpdate
===============================================================================
