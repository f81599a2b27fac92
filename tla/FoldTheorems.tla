---------------------------- MODULE FoldTheorems -----------------------------
(***************************************************************************)
(* Induction over numbers and finite sets, and what a fold of the          *)
(* community modules computes.                                             *)
(*                                                                         *)
(* The induction theorems of the library take a predicate as a parameter.  *)
(* Here it is a set, of the numbers or of the sets for which the claim     *)
(* holds, so that each use is an instance of a first-order statement; they *)
(* follow from the existence of a least element.  In the same way the      *)
(* operators that a fold is built from are functions: choose, the step.    *)
(***************************************************************************)
EXTENDS Integers, FiniteSetsExt, FiniteSetTheorems, WellFoundedInduction, TLAPS

\* A set of natural numbers that is not empty has a least element.
LEMMA Least ==
    ASSUME NEW S \in SUBSET Nat, S # {}
    PROVE  \E x \in S : \A y \in S : x <= y
<1>1. IsWellFoundedOn(OpToRel(<, Nat), Nat)
  BY NatLessThanWellFounded
<1>2. PICK x \in S : \A y \in S : ~(<<y, x>> \in OpToRel(<, Nat))
  BY <1>1, WFMin
<1>3. \A y \in S : ~(y < x)
  BY <1>2 DEF OpToRel
<1> QED
  BY <1>3

\* Induction over the natural numbers: G is the set of those that are good.
LEMMA NatInd ==
    ASSUME NEW G, 0 \in G, \A n \in Nat : n \in G => n + 1 \in G
    PROVE  Nat \subseteq G
<1> SUFFICES ASSUME Nat \ G # {} PROVE FALSE
  OBVIOUS
<1>1. PICK n \in Nat \ G : \A m \in Nat \ G : n <= m
  BY Least
<1>2. n - 1 \in Nat /\ n - 1 \in G
  BY <1>1
<1> QED
  BY <1>1, <1>2

\* Over a finite set: a set is good when its proper subsets are.
LEMMA SetInd ==
    ASSUME NEW S, IsFiniteSet(S), NEW G,
           \A T \in SUBSET S :
              (\A U \in SUBSET T : U # T => U \in G) => T \in G
    PROVE  SUBSET S \subseteq G
<1> DEFINE B == {n \in Nat : \E T \in SUBSET S : T \notin G /\ Cardinality(T) = n}
<1> SUFFICES ASSUME NEW T0 \in SUBSET S, T0 \notin G PROVE FALSE
  OBVIOUS
<1>1. Cardinality(T0) \in B
  BY FS_Subset, FS_CardinalityType
<1>2. PICK n \in B : \A m \in B : n <= m
  BY <1>1, Least
<1>3. PICK T \in SUBSET S : T \notin G /\ Cardinality(T) = n
  OBVIOUS
<1>4. PICK U \in SUBSET T : U # T /\ U \notin G
  BY <1>3
<1>5. IsFiniteSet(T) /\ IsFiniteSet(U) /\ U \in SUBSET S
  BY FS_Subset
<1>6. Cardinality(U) < n
  BY <1>3, <1>4, <1>5, FS_Subset, FS_CardinalityType
<1>7. Cardinality(U) \in B
  BY <1>4, <1>5, FS_CardinalityType
<1> QED
  BY <1>2, <1>6, <1>7, <1>5, FS_CardinalityType

-----------------------------------------------------------------------------
(***************************************************************************)
(* The function that MapThenFoldSet defines by recursion over the subsets  *)
(* of its set: c chooses the next element, F[x] is the step with x.        *)
(***************************************************************************)
Rec(h, T, base, c, F) ==
    \A s \in SUBSET T :
        h[s] = IF s = {} THEN base ELSE F[c[s]][h[s \ {c[s]}]]

\* Two such functions agree where both are defined.
LEMMA FoldUnique ==
    ASSUME NEW T, IsFiniteSet(T), NEW U, NEW base, NEW c, NEW F,
           NEW h, Rec(h, T, base, c, F), NEW g, Rec(g, U, base, c, F),
           \A s \in SUBSET T : s # {} => c[s] \in s
    PROVE  \A s \in SUBSET (T \cap U) : h[s] = g[s]
<1> DEFINE G == {s \in SUBSET (T \cap U) : h[s] = g[s]}
<1>1. IsFiniteSet(T \cap U)
  BY FS_Subset
<1>2. ASSUME NEW s \in SUBSET (T \cap U), \A u \in SUBSET s : u # s => u \in G
      PROVE  s \in G
  <2>1. CASE s = {}
    BY <2>1 DEF Rec
  <2>2. CASE s # {}
    <3>1. c[s] \in s
      BY <2>2
    <3>2. s \ {c[s]} \in G
      BY <1>2, <3>1
    <3>3. h[s \ {c[s]}] = g[s \ {c[s]}]
      BY <3>2
    <3> QED
      BY <2>2, <3>3 DEF Rec
  <2> QED
    BY <2>1, <2>2
<1> HIDE DEF G
<1>3. SUBSET (T \cap U) \subseteq G
  <2> DEFINE I == T \cap U
  <2>1. \A s \in SUBSET I : (\A u \in SUBSET s : u # s => u \in G) => s \in G
    BY <1>2
  <2> HIDE DEF I
  <2>2. IsFiniteSet(I)
    BY <1>1 DEF I
  <2>3. SUBSET I \subseteq G
    BY ONLY <2>1, <2>2, SetInd
  <2> QED
    BY <2>3 DEF I
<1> QED
  BY <1>3 DEF G

\* There is one.  That of T takes its values from those of the proper subsets.
LEMMA FoldExists ==
    ASSUME NEW S, IsFiniteSet(S), NEW V, NEW base \in V, NEW c, NEW F,
           \A s \in SUBSET S : s # {} => c[s] \in s,
           \A x \in S, v \in V : F[x][v] \in V
    PROVE  \E h \in [SUBSET S -> V] : Rec(h, S, base, c, F)
<1> DEFINE G == {T \in SUBSET S :
                   \E h \in [SUBSET T -> V] : Rec(h, T, base, c, F)}
           H(T) == CHOOSE h \in [SUBSET T -> V] : Rec(h, T, base, c, F)
<1>1. \A T \in G : H(T) \in [SUBSET T -> V] /\ Rec(H(T), T, base, c, F)
  OBVIOUS
<1>2. ASSUME NEW T \in SUBSET S, \A U \in SUBSET T : U # T => U \in G
      PROVE  T \in G
  <2> DEFINE h == [s \in SUBSET T |->
                     IF s = {} THEN base
                     ELSE F[c[s]][H(s \ {c[s]})[s \ {c[s]}]]]
  <2>1. ASSUME NEW s \in SUBSET T, s # {}
        PROVE  /\ s \ {c[s]} \in G /\ s \ {c[s]} \in SUBSET s
               /\ H(s \ {c[s]})[s \ {c[s]}] \in V
               /\ c[s] \in s
    <3>1. c[s] \in s
      BY <2>1
    <3>2. s \ {c[s]} \in G
      BY <1>2, <3>1
    <3> HIDE DEF G, H
    <3>3. s \ {c[s]} \in SUBSET s
      OBVIOUS
    <3>4. H(s \ {c[s]}) \in [SUBSET (s \ {c[s]}) -> V]
      BY <1>1, <3>2
    <3>5. H(s \ {c[s]})[s \ {c[s]}] \in V
      BY <3>4
    <3> QED
      BY <3>1, <3>2, <3>3, <3>5
  <2>2. h \in [SUBSET T -> V]
    <3> HIDE DEF G, H
    <3>1. ASSUME NEW s \in SUBSET T PROVE h[s] \in V
      BY <2>1
    <3> QED
      BY <3>1
  <2>3. ASSUME NEW s \in SUBSET T, s # {}
        PROVE  h[s \ {c[s]}] = H(s \ {c[s]})[s \ {c[s]}]
    <3> DEFINE u == s \ {c[s]}
    <3> HIDE DEF G, H
    <3>1. u \in G /\ u \in SUBSET T
      BY <2>1, <2>3
    <3>2. Rec(H(u), u, base, c, F)
      BY <1>1, <3>1
    <3>3. CASE u = {}
      BY <3>2, <3>3 DEF Rec
    <3>4. CASE u # {}
      <4> DEFINE v == u \ {c[u]}
      <4>1. v \in G /\ v \in SUBSET u
        BY <2>1, <3>1, <3>4
      <4>2. Rec(H(v), v, base, c, F)
        BY <1>1, <4>1
      <4>3. IsFiniteSet(v)
        BY <4>1, <3>1, FS_Subset
      <4>4. \A t \in SUBSET v : t # {} => c[t] \in t
        BY <4>1, <3>1
      <4>5. H(v)[v] = H(u)[v]
        <5> HIDE DEF v, u
        <5>1. \A t \in SUBSET (v \cap u) : H(v)[t] = H(u)[t]
          BY <3>2, <4>2, <4>3, <4>4, FoldUnique
        <5> QED
          BY <4>1, <5>1
      <4>6. h[u] = F[c[u]][H(v)[v]]
        BY <3>1, <3>4
      <4>7. H(u)[u] = F[c[u]][H(u)[v]]
        BY <3>2, <3>4 DEF Rec
      <4> QED
        BY <4>5, <4>6, <4>7
    <3> QED
      BY <3>3, <3>4
  <2>4. Rec(h, T, base, c, F)
    <3> HIDE DEF H, G
    <3>1. ASSUME NEW s \in SUBSET T
          PROVE h[s] = IF s = {} THEN base ELSE F[c[s]][h[s \ {c[s]}]]
      <4> CASE s = {}
        OBVIOUS
      <4> CASE s # {}
        BY <2>3
      <4> QED
        OBVIOUS
    <3> QED
      BY <3>1 DEF Rec
  <2> QED
    BY <2>2, <2>4
<1> HIDE DEF G
<1>3. SUBSET S \subseteq G
  BY <1>2, SetInd
<1> QED
  BY <1>3 DEF G

-----------------------------------------------------------------------------
(***************************************************************************)
(* Sums.                                                                   *)
(***************************************************************************)
Pick(s) == CHOOSE x \in s : TRUE

IsSum(h, f, S) ==
    \A s \in SUBSET S :
        h[s] = IF s = {} THEN 0 ELSE f[Pick(s)] + h[s \ {Pick(s)}]

\* The recursion in SumFunctionOnSet has a solution, whose values are numbers.
LEMMA SumIter ==
    ASSUME NEW S, IsFiniteSet(S), NEW f, \A x \in S : f[x] \in Int
    PROVE  \E h \in [SUBSET S -> Int] :
              IsSum(h, f, S) /\ SumFunctionOnSet(f, S) = h[S]
<1> DEFINE c == [s \in SUBSET S |-> Pick(s)]
           F == [x \in S |-> [v \in Int |-> f[x] + v]]
<1>1. \A s \in SUBSET S : s # {} => c[s] \in s
  BY DEF Pick
<1>2. \A x \in S, v \in Int : F[x][v] \in Int
  OBVIOUS
<1>3. PICK h \in [SUBSET S -> Int] : Rec(h, S, 0, c, F)
  <2> HIDE DEF c, F
  <2>1. 0 \in Int
    OBVIOUS
  <2> QED
    BY ONLY <1>1, <1>2, <2>1, IsFiniteSet(S), FoldExists
<1>4. h = [s \in SUBSET S |->
             IF s = {} THEN 0 ELSE f[Pick(s)] + h[s \ {Pick(s)}]]
  <2>1. ASSUME NEW s \in SUBSET S
        PROVE  h[s] = IF s = {} THEN 0 ELSE f[Pick(s)] + h[s \ {Pick(s)}]
    <3>1. CASE s = {}
      BY <1>3, <3>1 DEF Rec
    <3>2. CASE s # {}
      <4>1. h[s] = F[c[s]][h[s \ {c[s]}]]
        BY <1>3, <3>2 DEF Rec
      <4>2. c[s] \in S /\ s \ {c[s]} \in SUBSET S /\ h[s \ {c[s]}] \in Int
        BY <1>1, <3>2
      <4>3. F[c[s]][h[s \ {c[s]}]] = f[c[s]] + h[s \ {c[s]}]
        BY <4>2
      <4> QED
        BY <3>2, <4>1, <4>3
    <3> QED
      BY <3>1, <3>2
  <2> QED
    BY <2>1
<1> DEFINE it == CHOOSE g : g = [s \in SUBSET S |->
                     IF s = {} THEN 0 ELSE f[Pick(s)] + g[s \ {Pick(s)}]]
<1>5. it = [s \in SUBSET S |->
              IF s = {} THEN 0 ELSE f[Pick(s)] + it[s \ {Pick(s)}]]
  BY <1>4
<1>6. SumFunctionOnSet(f, S) = it[S]
  BY DEF SumFunctionOnSet, FoldFunctionOnSet, MapThenFoldSet, Pick
<1>7. it \in [SUBSET S -> Int]
  <2> DEFINE G == {s \in SUBSET S : it[s] \in Int}
  <2> HIDE DEF it
  <2>1. ASSUME NEW s \in SUBSET S, \A u \in SUBSET s : u # s => u \in G
        PROVE  s \in G
    <3>1. CASE s = {}
      BY <1>5, <3>1
    <3>2. CASE s # {}
      <4>1. Pick(s) \in s /\ s \ {Pick(s)} \in SUBSET S
        BY <3>2 DEF Pick
      <4>2. it[s \ {Pick(s)}] \in Int /\ f[Pick(s)] \in Int
        BY <2>1, <4>1
      <4>3. it[s] = f[Pick(s)] + it[s \ {Pick(s)}]
        BY <1>5, <3>2
      <4> QED
        BY <4>2, <4>3
    <3> QED
      BY <3>1, <3>2
  <2> HIDE DEF G
  <2>2. SUBSET S \subseteq G
    BY <2>1, SetInd
  <2> USE DEF G
  <2>3. \A s \in SUBSET S : it[s] \in Int
    BY <2>2
  <2> HIDE DEF G
  <2> QED
    BY <1>5, <2>3
<1> HIDE DEF it
<1>8. IsSum(it, f, S)
  BY <1>5 DEF IsSum
<1> QED
  BY <1>6, <1>7, <1>8

\* Two functions that agree on S have equal sums on the subsets of S.
LEMMA SumUnique ==
    ASSUME NEW S, IsFiniteSet(S), NEW f, NEW h, IsSum(h, f, S),
           NEW T, S \subseteq T, NEW g, NEW k, IsSum(k, g, T),
           \A x \in S : f[x] = g[x]
    PROVE  h[S] = k[S]
<1> DEFINE G == {s \in SUBSET S : h[s] = k[s]}
<1>1. ASSUME NEW s \in SUBSET S, \A u \in SUBSET s : u # s => u \in G
      PROVE  s \in G
  <2>1. CASE s = {}
    BY <2>1 DEF IsSum
  <2>2. CASE s # {}
    <3>1. Pick(s) \in s
      BY <2>2 DEF Pick
    <3>2. h[s \ {Pick(s)}] = k[s \ {Pick(s)}] /\ f[Pick(s)] = g[Pick(s)]
      BY <1>1, <3>1
    <3>3. s \in SUBSET T
      OBVIOUS
    <3> QED
      BY <2>2, <3>2, <3>3 DEF IsSum
  <2> QED
    BY <2>1, <2>2
<1> HIDE DEF G
<1>2. SUBSET S \subseteq G
  BY <1>1, SetInd
<1> QED
  BY <1>2 DEF G

\* A sum depends on the summands only.
LEMMA SumEqual ==
    ASSUME NEW S, IsFiniteSet(S), NEW f, NEW g,
           \A x \in S : f[x] \in Int /\ f[x] = g[x]
    PROVE  SumFunctionOnSet(f, S) = SumFunctionOnSet(g, S)
<1>1. \A x \in S : g[x] \in Int
  OBVIOUS
<1>2. PICK h \in [SUBSET S -> Int] : IsSum(h, f, S) /\ SumFunctionOnSet(f, S) = h[S]
  BY SumIter
<1>3. PICK k \in [SUBSET S -> Int] : IsSum(k, g, S) /\ SumFunctionOnSet(g, S) = k[S]
  BY <1>1, SumIter
<1>4. h[S] = k[S]
  BY <1>2, <1>3, SumUnique
<1> QED
  BY <1>2, <1>3, <1>4

\* A sum of integers is an integer.
LEMMA SumType ==
    ASSUME NEW S, IsFiniteSet(S), NEW f, \A x \in S : f[x] \in Int
    PROVE  SumFunctionOnSet(f, S) \in Int
<1>1. PICK h \in [SUBSET S -> Int] : IsSum(h, f, S) /\ SumFunctionOnSet(f, S) = h[S]
  BY SumIter
<1> QED
  BY <1>1

\* The sum of nothing.
LEMMA SumEmpty ==
    ASSUME NEW f
    PROVE  SumFunctionOnSet(f, {}) = 0
<1>1. PICK h \in [SUBSET {} -> Int] : IsSum(h, f, {}) /\ SumFunctionOnSet(f, {}) = h[{}]
  BY SumIter, FS_EmptySet
<1> QED
  BY <1>1 DEF IsSum

\* Any element can be taken out, in whatever order the fold visits the set.
LEMMA SumRemove ==
    ASSUME NEW S, IsFiniteSet(S), NEW f, \A x \in S : f[x] \in Int, NEW x \in S
    PROVE  SumFunctionOnSet(f, S) = f[x] + SumFunctionOnSet(f, S \ {x})
<1>1. PICK h \in [SUBSET S -> Int] : IsSum(h, f, S) /\ SumFunctionOnSet(f, S) = h[S]
  BY SumIter
<1> DEFINE U == S \ {x}
<1>2. SumFunctionOnSet(f, U) = h[U]
  <2>1. IsFiniteSet(U) /\ \A y \in U : f[y] \in Int
    BY FS_Subset
  <2> HIDE DEF U
  <2>2. PICK k \in [SUBSET U -> Int] : IsSum(k, f, U) /\ SumFunctionOnSet(f, U) = k[U]
    BY <2>1, SumIter
  <2>3. U \subseteq S
    BY DEF U
  <2>4. k[U] = h[U]
    BY <1>1, <2>1, <2>2, <2>3, SumUnique
  <2> QED
    BY <2>2, <2>4
<1> DEFINE G == {T \in SUBSET S : \A y \in T : h[T] = f[y] + h[T \ {y}]}
<1>3. ASSUME NEW T \in SUBSET S, \A V \in SUBSET T : V # T => V \in G
      PROVE  T \in G
  <2> SUFFICES ASSUME NEW y \in T PROVE h[T] = f[y] + h[T \ {y}]
    OBVIOUS
  <2> DEFINE p == Pick(T)
  <2>1. p \in T /\ h[T] = f[p] + h[T \ {p}]
    BY <1>1 DEF Pick, IsSum
  <2>2. CASE y = p
    BY <2>1, <2>2
  <2>3. CASE y # p
    <3> HIDE DEF p
    <3>1. h[T \ {p}] = f[y] + h[(T \ {p}) \ {y}]
      <4>1. T \ {p} \in SUBSET T /\ T \ {p} # T /\ y \in T \ {p}
        BY <2>1, <2>3
      <4> QED
        BY <1>3, <4>1
    <3>2. h[T \ {y}] = f[p] + h[(T \ {y}) \ {p}]
      <4>1. T \ {y} \in SUBSET T /\ T \ {y} # T /\ p \in T \ {y}
        BY <2>1, <2>3
      <4> QED
        BY <1>3, <4>1
    <3>3. (T \ {y}) \ {p} = (T \ {p}) \ {y}
      OBVIOUS
    <3>4. f[p] \in Int /\ f[y] \in Int /\ h[(T \ {p}) \ {y}] \in Int
      <4>1. (T \ {p}) \ {y} \in SUBSET S
        OBVIOUS
      <4> QED
        BY <2>1, <4>1
    <3> DEFINE rest == h[(T \ {p}) \ {y}]
    <3>5. h[T] = f[p] + (f[y] + rest) /\ h[T \ {y}] = f[p] + rest
      BY <2>1, <3>1, <3>2, <3>3
    <3>6. rest \in Int
      BY <3>4
    <3> HIDE DEF rest
    <3> QED
      BY <3>4, <3>5, <3>6
  <2> QED
    BY <2>2, <2>3
<1> HIDE DEF G
<1>4. SUBSET S \subseteq G
  BY <1>3, SetInd
<1>5. h[S] = f[x] + h[U]
  BY <1>4 DEF G
<1> QED
  BY <1>1, <1>2, <1>5

\* A function that is changed in one place.
LEMMA SumChange ==
    ASSUME NEW S, IsFiniteSet(S), NEW f, NEW g, NEW x \in S,
           \A y \in S : f[y] \in Int /\ g[y] \in Int,
           \A y \in S \ {x} : f[y] = g[y]
    PROVE  SumFunctionOnSet(g, S) = SumFunctionOnSet(f, S) - f[x] + g[x]
<1> DEFINE U == S \ {x}
<1>1. IsFiniteSet(U)
  BY FS_Subset
<1>2. SumFunctionOnSet(f, U) = SumFunctionOnSet(g, U)
  <2>1. \A y \in U : f[y] \in Int /\ f[y] = g[y]
    OBVIOUS
  <2> HIDE DEF U
  <2> QED
    BY <1>1, <2>1, SumEqual
<1>3. SumFunctionOnSet(f, U) \in Int
  <2>1. \A y \in U : f[y] \in Int
    OBVIOUS
  <2> HIDE DEF U
  <2> QED
    BY <1>1, <2>1, SumType
<1>4. /\ SumFunctionOnSet(f, S) = f[x] + SumFunctionOnSet(f, U)
      /\ SumFunctionOnSet(g, S) = g[x] + SumFunctionOnSet(g, U)
  BY SumRemove
<1> QED
  BY <1>2, <1>3, <1>4

\* A sum of zeros.
LEMMA SumZero ==
    ASSUME NEW S, IsFiniteSet(S), NEW f, \A x \in S : f[x] = 0
    PROVE  SumFunctionOnSet(f, S) = 0
<1>0. \A x \in S : f[x] \in Int
  OBVIOUS
<1>1. PICK h \in [SUBSET S -> Int] : IsSum(h, f, S) /\ SumFunctionOnSet(f, S) = h[S]
  BY <1>0, SumIter
<1> DEFINE G == {s \in SUBSET S : h[s] = 0}
<1>2. ASSUME NEW s \in SUBSET S, \A u \in SUBSET s : u # s => u \in G
      PROVE  s \in G
  <2>1. CASE s = {}
    BY <1>1, <2>1 DEF IsSum
  <2>2. CASE s # {}
    <3>1. Pick(s) \in s
      BY <2>2 DEF Pick
    <3>2. h[s \ {Pick(s)}] = 0 /\ f[Pick(s)] = 0
      BY <1>2, <3>1
    <3> QED
      BY <1>1, <2>2, <3>2 DEF IsSum
  <2> QED
    BY <2>1, <2>2
<1> HIDE DEF G
<1>3. SUBSET S \subseteq G
  BY <1>2, SetInd
<1> QED
  BY <1>1, <1>3 DEF G
\* Summands in proportion, or with a bound on each, give sums in proportion, or
\* with that bound.
LEMMA SumScaleBound ==
    ASSUME NEW S, IsFiniteSet(S), NEW f, NEW g, NEW a \in Int, NEW b \in Int,
           \A x \in S : f[x] \in Int /\ g[x] \in Int /\ a * f[x] <= b * g[x]
    PROVE  a * SumFunctionOnSet(f, S) <= b * SumFunctionOnSet(g, S)
<1>1. PICK h \in [SUBSET S -> Int] : IsSum(h, f, S) /\ SumFunctionOnSet(f, S) = h[S]
  BY SumIter
<1>2. PICK k \in [SUBSET S -> Int] : IsSum(k, g, S) /\ SumFunctionOnSet(g, S) = k[S]
  BY SumIter
<1> DEFINE G == {s \in SUBSET S : a * h[s] <= b * k[s]}
<1>3. ASSUME NEW s \in SUBSET S, \A u \in SUBSET s : u # s => u \in G
      PROVE  s \in G
  <2>1. CASE s = {}
    <3>1. h[s] = 0 /\ k[s] = 0
      BY <1>1, <1>2, <2>1 DEF IsSum
    <3>2. a * 0 <= b * 0
      OBVIOUS
    <3> QED
      BY <3>1, <3>2
  <2>2. CASE s # {}
    <3> DEFINE p == Pick(s)
               u == s \ {p}
    <3>1. p \in s
      BY <2>2 DEF Pick
    <3>2. h[s] = f[p] + h[u] /\ k[s] = g[p] + k[u]
      BY <1>1, <1>2, <2>2 DEF IsSum
    <3>3. u \in G
      BY <1>3, <3>1
    <3>4. f[p] \in Int /\ g[p] \in Int /\ h[u] \in Int /\ k[u] \in Int
      BY <3>1
    <3>5. a * h[u] <= b * k[u] /\ a * f[p] <= b * g[p]
      BY <3>1, <3>3
    <3>6. \A x1, x2, y1, y2 \in Int :
             a * x1 <= b * y1 /\ a * x2 <= b * y2
               => a * (x1 + x2) <= b * (y1 + y2)
      OBVIOUS
    <3> HIDE DEF p, u
    <3>7. a * (f[p] + h[u]) <= b * (g[p] + k[u])
      BY <3>4, <3>5, <3>6
    <3> QED
      BY <3>2, <3>7
  <2> QED
    BY <2>1, <2>2
<1> HIDE DEF G
<1>4. SUBSET S \subseteq G
  BY <1>3, SetInd
<1> QED
  BY <1>1, <1>2, <1>4 DEF G

\* In particular a common factor can be taken out.
LEMMA SumScale ==
    ASSUME NEW S, IsFiniteSet(S), NEW f, NEW g, NEW b \in Int,
           \A x \in S : g[x] \in Int /\ f[x] = b * g[x]
    PROVE  SumFunctionOnSet(f, S) = b * SumFunctionOnSet(g, S)
<1>1. \A x \in S : f[x] \in Int
  OBVIOUS
<1>2. \A x \in S : 1 * f[x] <= b * g[x] /\ b * g[x] <= 1 * f[x]
  BY <1>1
<1>3. 1 * SumFunctionOnSet(f, S) <= b * SumFunctionOnSet(g, S)
  BY <1>1, <1>2, SumScaleBound, 1 \in Int
<1>4. b * SumFunctionOnSet(g, S) <= 1 * SumFunctionOnSet(f, S)
  BY <1>1, <1>2, SumScaleBound, 1 \in Int
<1>5. SumFunctionOnSet(f, S) \in Int /\ SumFunctionOnSet(g, S) \in Int
  BY <1>1, SumType
<1> DEFINE x == SumFunctionOnSet(f, S)
           y == b * SumFunctionOnSet(g, S)
<1>6. x \in Int /\ y \in Int /\ 1 * x <= y /\ y <= 1 * x
  BY <1>3, <1>4, <1>5
<1> HIDE DEF x, y
<1>7. x = y
  BY <1>6
<1> QED
  BY <1>7 DEF x, y

\* The order of the summands does not matter.
LEMMA SumPermute ==
    ASSUME NEW S, IsFiniteSet(S), NEW T, IsFiniteSet(T),
           NEW p \in Bijection(S, T),
           NEW f, \A t \in T : f[t] \in Int,
           NEW g, \A x \in S : g[x] = f[p[x]]
    PROVE  SumFunctionOnSet(g, S) = SumFunctionOnSet(f, T)
<1> DEFINE Image(u) == {p[x] : x \in u}
           G == {u \in SUBSET S :
                   SumFunctionOnSet(g, u) = SumFunctionOnSet(f, Image(u))}
<1>0. /\ p \in [S -> T] /\ \A x, y \in S : p[x] = p[y] => x = y
      /\ \A t \in T : \E x \in S : p[x] = t
  BY DEF Bijection, Injection, Surjection, IsInjective
<1>1. ASSUME NEW u \in SUBSET S, \A v \in SUBSET u : v # u => v \in G
      PROVE  u \in G
  <2>1. CASE u = {}
    <3>1. Image(u) = {}
      BY <2>1
    <3> QED
      BY <2>1, <3>1, SumEmpty
  <2>2. CASE u # {}
    <3>1. PICK x \in u : TRUE
      BY <2>2
    <3> DEFINE v == u \ {x}
    <3>2. v \in G
      BY <1>1
    <3>3. Image(u) \subseteq T /\ p[x] \in Image(u) /\ Image(u) \ {p[x]} = Image(v)
      BY <1>0
    <3>4. IsFiniteSet(u) /\ IsFiniteSet(Image(u))
      BY <3>3, FS_Subset
    <3>5. \A y \in u : g[y] \in Int
      BY <1>0
    <3> DEFINE I == Image(u)
               J == Image(v)
    <3>6. SumFunctionOnSet(g, v) = SumFunctionOnSet(f, J)
      BY <3>2
    <3>7. I \subseteq T /\ p[x] \in I /\ I \ {p[x]} = J /\ IsFiniteSet(I)
      BY <3>3, <3>4
    <3> HIDE DEF G, I, J
    <3>8. SumFunctionOnSet(g, u) = g[x] + SumFunctionOnSet(g, v)
      BY <3>4, <3>5, SumRemove
    <3>9. SumFunctionOnSet(f, I) = f[p[x]] + SumFunctionOnSet(f, J)
      <4>1. \A t \in I : f[t] \in Int
        BY <3>7
      <4>2. SumFunctionOnSet(f, I) = f[p[x]] + SumFunctionOnSet(f, I \ {p[x]})
        BY <4>1, <3>7, SumRemove
      <4> QED
        BY <4>2, <3>7
    <3>10. g[x] = f[p[x]]
      OBVIOUS
    <3> QED
      BY <3>6, <3>8, <3>9, <3>10 DEF G, I
  <2> QED
    BY <2>1, <2>2
<1> HIDE DEF G
<1>2. SUBSET S \subseteq G
  BY <1>1, SetInd
<1>3. Image(S) = T
  BY <1>0
<1>4. SumFunctionOnSet(g, S) = SumFunctionOnSet(f, Image(S))
  BY <1>2 DEF G
<1> HIDE DEF Image
<1> QED
  BY <1>3, <1>4

-----------------------------------------------------------------------------
(***************************************************************************)
(* Loops and recursion.                                                    *)
(***************************************************************************)

\* The greatest of some numbers up to a bound.
LEMMA MaxIn ==
    ASSUME NEW n \in Nat, NEW S \in SUBSET (0 .. n), S # {}
    PROVE  Max(S) \in S /\ \A y \in S : y <= Max(S)
<1> DEFINE B == {n - y : y \in S}
<1>1. B \in SUBSET Nat /\ B # {}
  <2>1. \A y \in S : y \in Int /\ y <= n
    OBVIOUS
  <2>2. \A y \in S : n - y \in Nat
    BY <2>1
  <2> QED
    BY <2>2
<1>2. PICK b \in B : \A y \in B : b <= y
  BY <1>1, Least
<1>3. PICK x \in S : b = n - x
  OBVIOUS
<1>4. \A y \in S : x >= y
  BY <1>2, <1>3
<1>5. Max(S) \in S /\ \A y \in S : Max(S) >= y
  BY <1>4 DEF Max
<1>6. S \subseteq Int
  OBVIOUS
<1> DEFINE m == Max(S)
<1> HIDE DEF m
<1>7. m \in S /\ \A y \in S : m >= y
  BY <1>5 DEF m
<1>8. \A y \in S : y <= m
  BY <1>6, <1>7
<1> QED
  BY <1>7, <1>8 DEF m

\* The last iteration, and those before it.
LEMMA MaxInterval ==
    ASSUME NEW i \in Nat \ {0}
    PROVE  Max(1 .. i) = i /\ (1 .. i) \ {i} = 1 .. (i - 1)
<1>1. Max(1 .. i) \in 1 .. i /\ \A y \in 1 .. i : y <= Max(1 .. i)
  <2>1. (1 .. i) \in SUBSET (0 .. i) /\ (1 .. i) # {}
    OBVIOUS
  <2> QED
    BY ONLY <2>1, MaxIn, i \in Nat
<1>2. Max(1 .. i) = i
  <2> DEFINE m == Max(1 .. i)
  <2> HIDE DEF m
  <2>1. m \in 1 .. i /\ i <= m
    BY <1>1 DEF m
  <2>2. m = i
    BY <2>1
  <2> QED
    BY <2>2 DEF m
<1> QED
  BY <1>2

\* A loop over 1 .. n, the form that a left fold has: F[i] is what the body does
\* to the accumulated value in the iteration with i.
LEMMA LoopExists ==
    ASSUME NEW n \in Nat, NEW V, NEW base \in V, NEW F,
           \A i \in 1 .. n, v \in V : F[i][v] \in V,
           NEW c, \A s \in SUBSET (1 .. n) : s # {} => c[s] = Max(s)
    PROVE  \E h \in [SUBSET (1 .. n) -> V] : Rec(h, 1 .. n, base, c, F)
<1> DEFINE S == 1 .. n
<1>1. ASSUME NEW s \in SUBSET S, s # {} PROVE c[s] \in s
  <2>1. s \in SUBSET (0 .. n)
    OBVIOUS
  <2>2. Max(s) \in s
    BY <1>1, <2>1, MaxIn
  <2> QED
    BY <1>1, <2>2
<1>2. IsFiniteSet(S)
  BY FS_Interval
<1>3. \A i \in S, v \in V : F[i][v] \in V
  OBVIOUS
<1> HIDE DEF S
<1>4. \A s \in SUBSET S : s # {} => c[s] \in s
  BY <1>1
<1>5. \E h \in [SUBSET S -> V] : Rec(h, S, base, c, F)
  BY ONLY <1>2, <1>3, <1>4, base \in V, FoldExists
<1> QED
  BY <1>5 DEF S

\* What it computes up to i, it computes from what it computed up to i - 1.
LEMMA LoopStep ==
    ASSUME NEW n \in Nat, NEW base, NEW F, NEW c, NEW h,
           Rec(h, 1 .. n, base, c, F),
           \A s \in SUBSET (1 .. n) : s # {} => c[s] = Max(s)
    PROVE  /\ h[1 .. 0] = base
           /\ \A i \in 1 .. n : h[1 .. i] = F[i][h[1 .. (i - 1)]]
<1>1. h[1 .. 0] = base
  <2>1. (1 .. 0) = {} /\ {} \in SUBSET (1 .. n)
    OBVIOUS
  <2> QED
    BY <2>1 DEF Rec
<1>2. ASSUME NEW i \in 1 .. n PROVE h[1 .. i] = F[i][h[1 .. (i - 1)]]
  <2> DEFINE s == 1 .. i
  <2>1. s \in SUBSET (1 .. n) /\ s # {}
    <3>1. i \in s /\ \A x \in s : x \in 1 .. n
      OBVIOUS
    <3> QED
      BY <3>1
  <2>2. Max(s) = i /\ s \ {i} = 1 .. (i - 1)
    BY MaxInterval
  <2> HIDE DEF s
  <2>3. h[s] = F[c[s]][h[s \ {c[s]}]] /\ c[s] = i
    BY <2>1, <2>2 DEF Rec
  <2> QED
    BY <2>2, <2>3 DEF s
<1> QED
  BY <1>1, <1>2

\* Recursion over the natural numbers.
Recursion(r, base, F) ==
    r[0] = base /\ \A n \in Nat \ {0} : r[n] = F[n][r[n - 1]]

\* The function that recursion from a start defines exists.
LEMMA RecursionExists ==
    ASSUME NEW V, NEW base \in V, NEW F,
           \A i \in Nat \ {0}, v \in V : F[i][v] \in V
    PROVE  \E r \in [Nat -> V] : Recursion(r, base, F)
<1> DEFINE Is(h, n) == /\ h[1 .. 0] = base
                       /\ \A i \in 1 .. n : h[1 .. i] = F[i][h[1 .. (i - 1)]]
           H(n) == CHOOSE h \in [SUBSET (1 .. n) -> V] : Is(h, n)
<1>1. ASSUME NEW n \in Nat
      PROVE  H(n) \in [SUBSET (1 .. n) -> V] /\ Is(H(n), n)
  <2>1. \A i \in 1 .. n, v \in V : F[i][v] \in V
    OBVIOUS
  <2> DEFINE c == [s \in SUBSET (1 .. n) |-> Max(s)]
  <2>2. \A s \in SUBSET (1 .. n) : s # {} => c[s] = Max(s)
    OBVIOUS
  <2> HIDE DEF c
  <2>3. PICK h \in [SUBSET (1 .. n) -> V] : Rec(h, 1 .. n, base, c, F)
    BY ONLY <2>1, <2>2, n \in Nat, base \in V, LoopExists
  <2>4. Is(h, n)
    BY ONLY <2>2, <2>3, n \in Nat, LoopStep
  <2> QED
    BY <2>3, <2>4
<1> HIDE DEF H
<1> DEFINE r == [n \in Nat |-> H(n)[1 .. n]]
<1>2. r \in [Nat -> V]
  <2>1. ASSUME NEW n \in Nat PROVE H(n)[1 .. n] \in V
    <3>1. (1 .. n) \in SUBSET (1 .. n)
      OBVIOUS
    <3> QED
      BY <1>1, <3>1
  <2> QED
    BY <2>1
<1>3. ASSUME NEW n \in Nat, NEW m \in Nat, m <= n
      PROVE  H(m)[1 .. m] = H(n)[1 .. m]
  <2> DEFINE G == {i \in Nat : i <= m => H(m)[1 .. i] = H(n)[1 .. i]}
  <2>1. 0 \in G
    BY <1>1
  <2>2. ASSUME NEW i \in Nat, i \in G PROVE i + 1 \in G
    <3> SUFFICES ASSUME i + 1 <= m PROVE H(m)[1 .. (i + 1)] = H(n)[1 .. (i + 1)]
      OBVIOUS
    <3>1. i + 1 \in 1 .. m /\ i + 1 \in 1 .. n /\ (i + 1) - 1 = i
      BY <1>3
    <3>2. /\ H(m)[1 .. (i + 1)] = F[i + 1][H(m)[1 .. ((i + 1) - 1)]]
          /\ H(n)[1 .. (i + 1)] = F[i + 1][H(n)[1 .. ((i + 1) - 1)]]
      BY <1>1, <3>1
    <3>3. H(m)[1 .. i] = H(n)[1 .. i]
      BY <2>2
    <3> QED
      BY <3>1, <3>2, <3>3
  <2> HIDE DEF G
  <2>3. Nat \subseteq G
    BY <2>1, <2>2, NatInd
  <2> QED
    BY <2>3 DEF G
<1>4. r[0] = base
  BY <1>1
<1>5. ASSUME NEW n \in Nat \ {0} PROVE r[n] = F[n][r[n - 1]]
  <2>1. n - 1 \in Nat /\ n - 1 <= n /\ n \in 1 .. n
    OBVIOUS
  <2>2. H(n - 1)[1 .. (n - 1)] = H(n)[1 .. (n - 1)]
    BY <1>3, <2>1
  <2>3. H(n)[1 .. n] = F[n][H(n)[1 .. (n - 1)]]
    BY <1>1, <2>1
  <2> QED
    BY <2>1, <2>2, <2>3
<1> HIDE DEF r
<1> QED
  BY <1>2, <1>4, <1>5 DEF Recursion
=============================================================================
