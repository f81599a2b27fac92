-------------------------- MODULE StatisticsProofs ---------------------------
(***************************************************************************)
(* What the functions of Statistics compute, for values of any number.     *)
(***************************************************************************)
EXTENDS Statistics, FoldTheorems, SequenceTheorems

-----------------------------------------------------------------------------
(***************************************************************************)
(* Sorting.                                                                *)
(***************************************************************************)

\* A rearrangement of n indices.
Permutes(p, n) == p \in Bijection(1 .. n, 1 .. n)

\* It moves every index to a place of its own.
LEMMA PermutesIs ==
    ASSUME NEW n, NEW p
    PROVE  Permutes(p, n) <=>
              /\ p \in [1 .. n -> 1 .. n]
              /\ \A i, j \in 1 .. n : p[i] = p[j] => i = j
              /\ \A i \in 1 .. n : \E k \in 1 .. n : p[k] = i
  BY DEF Permutes, Bijection, Injection, Surjection, IsInjective

\* No value is greater than a later one.
Ordered(s) == \A i, j \in DOMAIN s : i <= j => s[i] <= s[j]

\* Every value has a place of its own, after those that are smaller.
LEMMA RankIs ==
    ASSUME NEW vals \in Seq(Int)
    PROVE  /\ \A i \in DOMAIN vals : Rank(vals, i) \in DOMAIN vals
           /\ \A i, j \in DOMAIN vals : Rank(vals, i) = Rank(vals, j) => i = j
           /\ \A i, j \in DOMAIN vals :
                 vals[i] < vals[j] => Rank(vals, i) < Rank(vals, j)
           /\ \A k \in DOMAIN vals : \E i \in DOMAIN vals : Rank(vals, i) = k
<1> DEFINE n == Len(vals)
           Before(i) == {j \in 1 .. n :
               vals[j] < vals[i] \/ (vals[j] = vals[i] /\ j <= i)}
<1>1. DOMAIN vals = 1 .. n /\ n \in Nat /\ \A i \in 1 .. n : vals[i] \in Int
  OBVIOUS
<1>2. \A i : Rank(vals, i) = Cardinality(Before(i))
  BY <1>1 DEF Rank, Less
<1>3. ASSUME NEW i \in 1 .. n
      PROVE  IsFiniteSet(Before(i)) /\ Cardinality(Before(i)) \in 1 .. n
  <2>1. Before(i) \in SUBSET (1 .. n) /\ i \in Before(i)
    BY <1>1
  <2> HIDE DEF Before
  <2>2. IsFiniteSet(1 .. n) /\ Cardinality(1 .. n) = n
    <3> HIDE DEF n
    <3>1. IsFiniteSet(1 .. n) /\ Cardinality(1 .. n) = IF 1 > n THEN 0 ELSE n - 1 + 1
      BY <1>1, FS_Interval, 1 \in Int, n \in Int
    <3> QED
      BY <1>1, <3>1
  <2>3. IsFiniteSet(Before(i)) /\ Cardinality(Before(i)) <= n
    BY <2>1, <2>2, FS_Subset
  <2>4. Cardinality(Before(i)) # 0 /\ Cardinality(Before(i)) \in Nat
    BY <2>1, <2>3, FS_EmptySet, FS_CardinalityType
  <2> QED
    BY <1>1, <2>3, <2>4
<1>4. ASSUME NEW i \in 1 .. n, NEW j \in 1 .. n,
             vals[i] < vals[j] \/ (vals[i] = vals[j] /\ i < j)
      PROVE  Cardinality(Before(i)) < Cardinality(Before(j))
  <2>1. \A k \in Before(i) : k \in Before(j)
    BY <1>1, <1>4
  <2>2. j \in Before(j) /\ j \notin Before(i)
    BY <1>1, <1>4
  <2> HIDE DEF Before
  <2>3. Before(i) \in SUBSET Before(j) /\ Before(i) # Before(j)
    BY <2>1, <2>2
  <2>4. IsFiniteSet(Before(j)) /\ Cardinality(Before(i)) \in Int
                              /\ Cardinality(Before(j)) \in Int
    BY <1>3
  <2>5. /\ Cardinality(Before(i)) <= Cardinality(Before(j))
        /\ Cardinality(Before(j)) = Cardinality(Before(i)) => Before(j) = Before(i)
    BY <2>3, <2>4, FS_Subset
  <2> QED
    BY <2>3, <2>4, <2>5
<1> HIDE DEF Before
<1>5. \A i, j \in 1 .. n : Rank(vals, i) = Rank(vals, j) => i = j
  <2> SUFFICES ASSUME NEW i \in 1 .. n, NEW j \in 1 .. n, i # j
               PROVE  Rank(vals, i) # Rank(vals, j)
    OBVIOUS
  <2>1. \/ vals[i] < vals[j] \/ (vals[i] = vals[j] /\ i < j)
        \/ vals[j] < vals[i] \/ (vals[j] = vals[i] /\ j < i)
    BY <1>1
  <2> QED
    BY <1>2, <1>3, <1>4, <2>1
<1>6. \A k \in 1 .. n : \E i \in 1 .. n : Rank(vals, i) = k
  <2> DEFINE r == [i \in 1 .. n |-> Rank(vals, i)]
  <2>1. r \in Injection(1 .. n, 1 .. n)
    BY <1>2, <1>3, <1>5 DEF Injection, IsInjective
  <2>2. IsFiniteSet(1 .. n)
    BY <1>1, FS_Interval
  <2> HIDE DEF r
  <2>3. r \in Surjection(1 .. n, 1 .. n)
    BY <2>1, <2>2, FS_Injection
  <2> QED
    BY <2>3 DEF Surjection, r
<1> QED
  BY <1>1, <1>2, <1>3, <1>4, <1>5, <1>6

\* Sorting is that: the values in another order, none greater than a later one.
LEMMA SortedIs ==
    ASSUME NEW vals \in Seq(Int)
    PROVE  /\ Sorted(vals) \in Seq(Int) /\ Len(Sorted(vals)) = Len(vals)
           /\ Ordered(Sorted(vals))
           /\ \E p : /\ Permutes(p, Len(vals))
                     /\ \A k \in 1 .. Len(vals) : Sorted(vals)[k] = vals[p[k]]
<1> DEFINE n == Len(vals)
           p == [k \in 1 .. n |-> CHOOSE i \in DOMAIN vals : Rank(vals, i) = k]
<1>1. DOMAIN vals = 1 .. n /\ n \in Nat /\ \A i \in 1 .. n : vals[i] \in Int
  OBVIOUS
<1>2. \A k \in 1 .. n : p[k] \in 1 .. n /\ Rank(vals, p[k]) = k
  BY <1>1, RankIs
<1>3. Sorted(vals) = [k \in 1 .. n |-> vals[p[k]]]
  BY <1>1 DEF Sorted
<1>4. p \in [1 .. n -> 1 .. n]
  BY <1>2
<1> HIDE DEF p
<1>5. Permutes(p, n)
  <2>1. \A i, j \in 1 .. n : p[i] = p[j] => i = j
    BY <1>2
  <2>2. ASSUME NEW i \in 1 .. n PROVE \E k \in 1 .. n : p[k] = i
    <3>1. Rank(vals, i) \in 1 .. n
      BY <1>1, RankIs
    <3>2. p[Rank(vals, i)] = i
      BY <1>1, <1>2, <3>1, RankIs
    <3> QED
      BY <3>1, <3>2
  <2> QED
    BY <1>4, <2>1, <2>2, PermutesIs
<1>6. Sorted(vals) \in Seq(Int) /\ Len(Sorted(vals)) = n
  BY <1>1, <1>2, <1>3
<1>7. Ordered(Sorted(vals))
  <2> SUFFICES ASSUME NEW i \in 1 .. n, NEW j \in 1 .. n, i <= j
               PROVE  vals[p[i]] <= vals[p[j]]
    BY <1>3 DEF Ordered
  <2>1. vals[p[j]] < vals[p[i]] => Rank(vals, p[j]) < Rank(vals, p[i])
    BY <1>1, <1>2, RankIs
  <2> QED
    BY <1>1, <1>2, <2>1
<1> QED
  BY <1>3, <1>5, <1>6, <1>7

\* As many indices of the sorted values as of the values lead to a set of indices.
LEMMA PermutedCardinality ==
    ASSUME NEW n \in Nat, NEW p, Permutes(p, n), NEW A \in SUBSET (1 .. n),
           NEW B, B = {k \in 1 .. n : p[k] \in A}
    PROVE  Cardinality(B) = Cardinality(A)
<1> DEFINE f == [k \in B |-> p[k]]
<1>1. IsFiniteSet(A) /\ IsFiniteSet(B)
  <2>1. IsFiniteSet(1 .. n)
    BY FS_Interval
  <2> QED
    BY <2>1, FS_Subset
<1>2. f \in Bijection(B, A)
  <2>1. f \in [B -> A] /\ \A i, j \in B : f[i] = f[j] => i = j
    BY PermutesIs
  <2>2. \A i \in A : \E k \in B : f[k] = i
    BY PermutesIs
  <2> HIDE DEF f
  <2> QED
    BY <2>1, <2>2 DEF Bijection, Injection, Surjection, IsInjective
<1> HIDE DEF f
<1>3. ExistsBijection(B, A)
  BY <1>2 DEF ExistsBijection
<1>4. Cardinality(A) = Cardinality(B)
  BY <1>1, <1>3, FS_Bijection
<1> QED
  BY <1>4

\* The sum of the sorted values.
LEMMA PermutedSum ==
    ASSUME NEW vals \in Seq(Int), NEW s \in Seq(Int), Len(s) = Len(vals),
           NEW p, Permutes(p, Len(vals)),
           \A k \in 1 .. Len(vals) : s[k] = vals[p[k]]
    PROVE  SumFunction(s) = SumFunction(vals)
<1> DEFINE S == 1 .. Len(vals)
<1>1. DOMAIN s = S /\ DOMAIN vals = S /\ IsFiniteSet(S)
  BY FS_Interval
<1>2. p \in Bijection(S, S)
  BY DEF Permutes
<1>4. (\A t \in S : vals[t] \in Int) /\ \A x \in S : s[x] = vals[p[x]]
  OBVIOUS
<1> HIDE DEF S
<1>5. SumFunctionOnSet(s, S) = SumFunctionOnSet(vals, S)
  BY ONLY <1>1, <1>2, <1>4, SumPermute
<1> QED
  BY <1>1, <1>5 DEF SumFunction

-----------------------------------------------------------------------------
(***************************************************************************)
(* The loops of Sum, Mean and Minmax, one iteration after the other.       *)
(***************************************************************************)

\* Sum as a loop: the sums of the values so far.
LEMMA SumLoop ==
    ASSUME NEW vals \in Seq(Int)
    PROVE  \E r : /\ r[0] = 0
                  /\ \A i \in 1 .. Len(vals) : r[i] = r[i - 1] + vals[i]
                  /\ Sum(vals) = r[Len(vals)]
<1> DEFINE n == Len(vals)
           c == [s \in SUBSET (1 .. n) |-> Max(s)]
           F == [i \in 1 .. n |-> [v \in Int |-> v + vals[i]]]
<1>0. DOMAIN vals = 1 .. n /\ n \in Nat /\ \A i \in 1 .. n : vals[i] \in Int
  OBVIOUS
<1>1. \A s \in SUBSET (1 .. n) : s # {} => c[s] = Max(s)
  OBVIOUS
<1>2. \A i \in 1 .. n, v \in Int : F[i][v] = v + vals[i] /\ F[i][v] \in Int
  BY <1>0
<1> HIDE DEF c, F, n
<1>3. PICK h \in [SUBSET (1 .. n) -> Int] : Rec(h, 1 .. n, 0, c, F)
  BY ONLY <1>0, <1>1, <1>2, LoopExists, 0 \in Int
<1>4. h = [s \in SUBSET (1 .. n) |->
             IF s = {} THEN 0 ELSE h[s \ {Max(s)}] + vals[Max(s)]]
  <2>1. ASSUME NEW s \in SUBSET (1 .. n), s # {}
        PROVE  h[s] = h[s \ {Max(s)}] + vals[Max(s)]
    <3>0. s \in SUBSET (0 .. n)
      BY <1>0
    <3>1. Max(s) \in s
      BY <1>0, <2>1, <3>0, MaxIn
    <3>2. h[s \ {Max(s)}] \in Int
      BY <2>1
    <3> QED
      BY <1>1, <1>2, <1>3, <2>1, <3>1, <3>2 DEF Rec
  <2>2. h[{}] = 0
    BY <1>3 DEF Rec
  <2> QED
    BY <2>1, <2>2
<1> DEFINE it == CHOOSE g : g = [s \in SUBSET (1 .. n) |->
                     IF s = {} THEN 0 ELSE g[s \ {Max(s)}] + vals[Max(s)]]
<1>5. it = [s \in SUBSET (1 .. n) |->
              IF s = {} THEN 0 ELSE it[s \ {Max(s)}] + vals[Max(s)]]
  BY <1>4
<1>6. Sum(vals) = it[1 .. n]
  BY <1>0 DEF Sum, FoldLeft, MapThenFoldSet
<1> HIDE DEF it
<1> DEFINE r == [i \in 0 .. n |-> it[1 .. i]]
<1>7. r[0] = 0
  BY <1>0, <1>5
<1>8. ASSUME NEW i \in 1 .. n PROVE r[i] = r[i - 1] + vals[i]
  <2>1. Max(1 .. i) = i /\ (1 .. i) \ {i} = 1 .. (i - 1)
    BY <1>0, MaxInterval
  <2>2. (1 .. i) \in SUBSET (1 .. n) /\ i \in 1 .. i /\ i - 1 \in 0 .. n /\ i \in 0 .. n
    BY <1>0
  <2> QED
    BY <1>5, <2>1, <2>2
<1>9. Sum(vals) = r[n]
  BY <1>0, <1>6
<1> HIDE DEF r
<1> QED
  BY <1>7, <1>8, <1>9 DEF n

\* Mean as a loop: the means of the values so far.
LEMMA MeanLoop ==
    ASSUME NEW vals \in Seq(Int)
    PROVE  \E r : /\ r[0] = 0
                  /\ \A i \in 1 .. Len(vals) :
                        r[i] = r[i - 1] + (vals[i] - r[i - 1]) \div i
                  /\ Mean(vals) = r[Len(vals)]
<1> DEFINE n == Len(vals)
           c == [s \in SUBSET (1 .. n) |-> Max(s)]
           F == [i \in 1 .. n |-> [v \in Int |-> v + (vals[i] - v) \div i]]
<1>0. DOMAIN vals = 1 .. n /\ n \in Nat /\ \A i \in 1 .. n : vals[i] \in Int
  OBVIOUS
<1>1. \A s \in SUBSET (1 .. n) : s # {} => c[s] = Max(s)
  OBVIOUS
<1>2. \A i \in 1 .. n, v \in Int :
         F[i][v] = v + (vals[i] - v) \div i /\ F[i][v] \in Int
  BY <1>0
<1> HIDE DEF c, F, n
<1>3. PICK h \in [SUBSET (1 .. n) -> Int] : Rec(h, 1 .. n, 0, c, F)
  BY ONLY <1>0, <1>1, <1>2, LoopExists, 0 \in Int
<1> DEFINE ix == [i \in DOMAIN vals |-> i]
           Body(g, s) == LET m == g[s \ {Max(s)}]
                             i == ix[Max(s)]
                         IN m + (vals[i] - m) \div i
<1>4. h = [s \in SUBSET (1 .. n) |-> IF s = {} THEN 0 ELSE Body(h, s)]
  <2>1. ASSUME NEW s \in SUBSET (1 .. n), s # {}
        PROVE  h[s] = Body(h, s)
    <3>0. s \in SUBSET (0 .. n)
      BY <1>0
    <3>1. Max(s) \in s
      BY <1>0, <2>1, <3>0, MaxIn
    <3>2. h[s \ {Max(s)}] \in Int
      BY <2>1
    <3>3. h[s] = F[Max(s)][h[s \ {Max(s)}]]
      BY <1>1, <1>3, <2>1 DEF Rec
    <3>4. ix[Max(s)] = Max(s) /\ Max(s) \in 1 .. n
      BY <1>0, <3>1
    <3> QED
      BY <1>2, <2>1, <3>2, <3>3, <3>4
  <2>2. h[{}] = 0
    BY <1>3 DEF Rec
  <2> HIDE DEF Body
  <2> QED
    BY <2>1, <2>2
<1> DEFINE it == CHOOSE g : g = [s \in SUBSET (1 .. n) |->
                     IF s = {} THEN 0 ELSE Body(g, s)]
<1>5. it = [s \in SUBSET (1 .. n) |-> IF s = {} THEN 0 ELSE Body(it, s)]
  BY <1>4
<1>6. Mean(vals) = it[1 .. n]
  <2>1. DOMAIN [i \in DOMAIN vals |-> i] = 1 .. n
    BY <1>0
  <2> QED
    BY <2>1 DEF Mean, FoldLeftDomain, FoldLeft, MapThenFoldSet
<1> HIDE DEF it
<1> DEFINE r == [i \in 0 .. n |-> it[1 .. i]]
<1>7. r[0] = 0
  BY <1>0, <1>5
<1>8. ASSUME NEW i \in 1 .. n PROVE r[i] = r[i - 1] + (vals[i] - r[i - 1]) \div i
  <2>1. Max(1 .. i) = i /\ (1 .. i) \ {i} = 1 .. (i - 1)
    BY <1>0, MaxInterval
  <2>2. (1 .. i) \in SUBSET (1 .. n) /\ i \in 1 .. i /\ i - 1 \in 0 .. n /\ i \in 0 .. n
    BY <1>0
  <2>3. it[1 .. i] = Body(it, 1 .. i)
    BY <1>5, <2>2
  <2>4. ix[i] = i
    BY <1>0
  <2> QED
    BY <2>1, <2>2, <2>3, <2>4
<1>9. Mean(vals) = r[n]
  BY <1>0, <1>6
<1> HIDE DEF r
<1> QED
  BY <1>7, <1>8, <1>9 DEF n

\* Minmax as a loop: the extremes of the values so far.
LEMMA MinmaxLoop ==
    ASSUME NEW vals \in Seq(Int), vals # <<>>
    PROVE  \E r : /\ r[0] = [min |-> vals[1], max |-> vals[1]]
                  /\ \A i \in 1 .. Len(vals) :
                        r[i] = CASE vals[i] < r[i - 1].min ->
                                      [r[i - 1] EXCEPT !.min = vals[i]]
                                 [] vals[i] > r[i - 1].max ->
                                      [r[i - 1] EXCEPT !.max = vals[i]]
                                 [] OTHER -> r[i - 1]
                  /\ Minmax(vals) = r[Len(vals)]
<1> DEFINE n == Len(vals)
           V == [min : Int, max : Int]
           base == [min |-> vals[1], max |-> vals[1]]
           Body(m, x) == CASE x < m.min -> [m EXCEPT !.min = x]
                           [] x > m.max -> [m EXCEPT !.max = x]
                           [] OTHER -> m
           c == [s \in SUBSET (1 .. n) |-> Max(s)]
           F == [i \in 1 .. n |-> [v \in V |-> Body(v, vals[i])]]
<1>0. DOMAIN vals = 1 .. n /\ n \in Nat /\ (\A i \in 1 .. n : vals[i] \in Int) /\ 1 \in 1 .. n
  OBVIOUS
<1>1. \A s \in SUBSET (1 .. n) : s # {} => c[s] = Max(s)
  OBVIOUS
<1>2. base \in V
  BY <1>0
<1>2a. \A v \in V, x \in Int : Body(v, x) \in V
  OBVIOUS
<1> HIDE DEF Body, V, n
<1>2b. \A i \in 1 .. n, v \in V : F[i][v] = Body(v, vals[i]) /\ F[i][v] \in V
  BY <1>0, <1>2a
<1> HIDE DEF c, F, base
<1>3. PICK h \in [SUBSET (1 .. n) -> V] : Rec(h, 1 .. n, base, c, F)
  BY ONLY <1>0, <1>1, <1>2, <1>2b, LoopExists
<1>4. h = [s \in SUBSET (1 .. n) |->
             IF s = {} THEN base ELSE Body(h[s \ {Max(s)}], vals[Max(s)])]
  <2>1. ASSUME NEW s \in SUBSET (1 .. n), s # {}
        PROVE  h[s] = Body(h[s \ {Max(s)}], vals[Max(s)])
    <3>0. s \in SUBSET (0 .. n)
      BY <1>0
    <3>1. Max(s) \in s
      BY <1>0, <2>1, <3>0, MaxIn
    <3>2. h[s \ {Max(s)}] \in V
      BY <2>1
    <3> QED
      BY <1>1, <1>2b, <1>3, <2>1, <3>1, <3>2 DEF Rec
  <2>2. h[{}] = base
    BY <1>3 DEF Rec
  <2> QED
    BY <2>1, <2>2
<1> DEFINE it == CHOOSE g : g = [s \in SUBSET (1 .. n) |->
                     IF s = {} THEN base ELSE Body(g[s \ {Max(s)}], vals[Max(s)])]
<1>5. it = [s \in SUBSET (1 .. n) |->
              IF s = {} THEN base ELSE Body(it[s \ {Max(s)}], vals[Max(s)])]
  BY <1>4
<1>6. Minmax(vals) = it[1 .. n]
  BY <1>0 DEF Minmax, FoldLeft, MapThenFoldSet, Get, base, Body
<1> HIDE DEF it
<1> DEFINE r == [i \in 0 .. n |-> it[1 .. i]]
<1>7. r[0] = base
  BY <1>0, <1>5
<1>8. ASSUME NEW i \in 1 .. n PROVE r[i] = Body(r[i - 1], vals[i])
  <2>1. Max(1 .. i) = i /\ (1 .. i) \ {i} = 1 .. (i - 1)
    BY <1>0, MaxInterval
  <2>2. (1 .. i) \in SUBSET (1 .. n) /\ i \in 1 .. i /\ i - 1 \in 0 .. n /\ i \in 0 .. n
    BY <1>0
  <2> QED
    BY <1>5, <2>1, <2>2
<1>9. Minmax(vals) = r[n]
  BY <1>0, <1>6
<1> HIDE DEF r
<1> QED
  BY <1>7, <1>8, <1>9 DEF n, base, Body

-----------------------------------------------------------------------------
(***************************************************************************)
(* What they compute.                                                      *)
(***************************************************************************)

\* One more summand.
LEMMA SumExtend ==
    ASSUME NEW f, NEW n \in Nat, NEW i \in 1 .. n, \A j \in 1 .. n : f[j] \in Int
    PROVE  /\ SumFunctionOnSet(f, 1 .. i) = SumFunctionOnSet(f, 1 .. (i - 1)) + f[i]
           /\ SumFunctionOnSet(f, 1 .. (i - 1)) \in Int
           /\ SumFunctionOnSet(f, 1 .. i) \in Int
<1> DEFINE S == 1 .. i
           U == 1 .. (i - 1)
<1>1. i \in S /\ S \ {i} = U /\ IsFiniteSet(S) /\ IsFiniteSet(U)
  BY FS_Interval
<1>2. (\A x \in S : f[x] \in Int) /\ (\A x \in U : f[x] \in Int) /\ f[i] \in Int
  OBVIOUS
<1> HIDE DEF S, U
<1>3. SumFunctionOnSet(f, U) \in Int
  BY <1>1, <1>2, SumType
<1>4. SumFunctionOnSet(f, S) = f[i] + SumFunctionOnSet(f, S \ {i})
  BY <1>1, <1>2, SumRemove
<1>5. SumFunctionOnSet(f, S) = SumFunctionOnSet(f, U) + f[i]
  BY <1>1, <1>2, <1>3, <1>4
<1> QED
  BY <1>2, <1>3, <1>5 DEF S, U

\* Sum adds up its values.
LEMMA SumIs ==
    ASSUME NEW vals \in Seq(Int)
    PROVE  Sum(vals) = SumFunction(vals) /\ Sum(vals) \in Int
<1> DEFINE n == Len(vals)
<1>0. DOMAIN vals = 1 .. n /\ n \in Nat /\ \A i \in 1 .. n : vals[i] \in Int
  OBVIOUS
<1>1. PICK r : /\ r[0] = 0
               /\ \A i \in 1 .. n : r[i] = r[i - 1] + vals[i]
               /\ Sum(vals) = r[n]
  BY SumLoop
<1> DEFINE G == {i \in Nat : i <= n =>
               r[i] = SumFunctionOnSet(vals, 1 .. i) /\ r[i] \in Int}
<1> HIDE DEF n
<1>2. 0 \in G
  <2>1. 1 .. 0 = {}
    OBVIOUS
  <2> QED
    BY <1>1, <2>1, SumEmpty
<1>3. ASSUME NEW i \in Nat, i \in G PROVE i + 1 \in G
  <2> SUFFICES ASSUME i + 1 <= n
               PROVE  /\ r[i + 1] = SumFunctionOnSet(vals, 1 .. (i + 1))
                      /\ r[i + 1] \in Int
    OBVIOUS
  <2>1. i + 1 \in 1 .. n /\ (i + 1) - 1 = i /\ i <= n
    BY <1>0
  <2>2. SumFunctionOnSet(vals, 1 .. (i + 1))
          = SumFunctionOnSet(vals, 1 .. i) + vals[i + 1]
    BY <1>0, <2>1, SumExtend
  <2>3. r[i + 1] = r[i] + vals[i + 1]
    BY <1>1, <2>1
  <2> QED
    BY <1>0, <1>3, <2>1, <2>2, <2>3
<1> HIDE DEF G
<1>4. Nat \subseteq G
  BY <1>2, <1>3, NatInd
<1>5. r[n] = SumFunctionOnSet(vals, 1 .. n) /\ r[n] \in Int
  BY <1>0, <1>4 DEF G
<1> QED
  BY <1>0, <1>1, <1>5 DEF SumFunction

\* v is a whole number of times u.
MultipleOf(v, u) == \E k \in Int : v = u * k

\* A sum of multiples is one.
LEMMA SumMultiple ==
    ASSUME NEW S, IsFiniteSet(S), NEW f, NEW u \in Int,
           \A x \in S : MultipleOf(f[x], u)
    PROVE  MultipleOf(SumFunctionOnSet(f, S), u)
<1> DEFINE g == [x \in S |-> CHOOSE k \in Int : f[x] = u * k]
<1>1. \A x \in S : g[x] \in Int /\ f[x] = u * g[x]
  BY DEF MultipleOf
<1> HIDE DEF g
<1>2. SumFunctionOnSet(f, S) = u * SumFunctionOnSet(g, S)
  BY <1>1, SumScale
<1>3. SumFunctionOnSet(g, S) \in Int
  BY <1>1, SumType
<1> QED
  BY <1>2, <1>3 DEF MultipleOf

\* One iteration of Mean, when the new mean is a whole number of units.
LEMMA MeanStep ==
    ASSUME NEW i \in Nat, NEW old \in Int, NEW v \in Int, NEW t \in Int,
           old * i + v = (i + 1) * t
    PROVE  old + (v - old) \div (i + 1) = t
<1>1. v - old = (i + 1) * t - old * i - old
  OBVIOUS
<1>2. (i + 1) * t - old * i - old = (i + 1) * (t - old)
  OBVIOUS
<1>3. \A a \in Nat \ {0}, b \in Int : (a * b) \div a = b
  OBVIOUS
<1>4. ((i + 1) * (t - old)) \div (i + 1) = t - old
  BY <1>3
<1> QED
  BY <1>1, <1>2, <1>4

\* The running mean is the sum over the number of values, if the values are
\* counted in a unit that the numbers of values divide.
LEMMA MeanIs ==
    ASSUME NEW vals \in Seq(Int), NEW u \in Int,
           \A i \in DOMAIN vals : MultipleOf(vals[i], u) /\ MultipleOf(u, i)
    PROVE  Mean(vals) * Len(vals) = SumFunction(vals) /\ Mean(vals) \in Int
<1> DEFINE n == Len(vals)
           sum(i) == SumFunctionOnSet(vals, 1 .. i)
<1>0. DOMAIN vals = 1 .. n /\ n \in Nat /\ \A i \in 1 .. n : vals[i] \in Int
  OBVIOUS
<1>1. PICK r : /\ r[0] = 0
               /\ \A i \in 1 .. n : r[i] = r[i - 1] + (vals[i] - r[i - 1]) \div i
               /\ Mean(vals) = r[n]
  BY MeanLoop
<1> DEFINE G == {i \in Nat : i <= n => r[i] * i = sum(i) /\ r[i] \in Int}
<1> HIDE DEF n
<1>2. 0 \in G
  <2>1. 1 .. 0 = {}
    OBVIOUS
  <2> QED
    BY <1>1, <2>1, SumEmpty
<1>3. ASSUME NEW i \in Nat, i \in G PROVE i + 1 \in G
  <2> SUFFICES ASSUME i + 1 <= n
               PROVE  r[i + 1] * (i + 1) = sum(i + 1) /\ r[i + 1] \in Int
    OBVIOUS
  <2>1. i + 1 \in 1 .. n /\ (i + 1) - 1 = i /\ i <= n
    BY <1>0
  <2>2. sum(i + 1) = sum(i) + vals[i + 1] /\ sum(i) \in Int
    BY <1>0, <2>1, SumExtend
  <2>3. PICK t \in Int : sum(i + 1) = (i + 1) * t
    <3> DEFINE S == 1 .. (i + 1)
    <3>1. IsFiniteSet(S) /\ \A x \in S : x \in 1 .. n
      BY <1>0, <2>1, FS_Interval
    <3>2. \A x \in S : MultipleOf(vals[x], u)
      BY <1>0, <3>1
    <3> HIDE DEF S
    <3>3. MultipleOf(SumFunctionOnSet(vals, S), u)
      BY <3>1, <3>2, SumMultiple
    <3>4. PICK k \in Int, m \in Int : sum(i + 1) = u * k /\ u = (i + 1) * m
      BY <1>0, <2>1, <3>3 DEF MultipleOf, S
    <3>5. ((i + 1) * m) * k = (i + 1) * (m * k)
      OBVIOUS
    <3> HIDE DEF sum
    <3>6. sum(i + 1) = (i + 1) * (m * k) /\ m * k \in Int
      BY <3>4, <3>5
    <3> QED
      BY <3>6
  <2>4. r[i + 1] = r[i] + (vals[i + 1] - r[i]) \div (i + 1)
    BY <1>1, <2>1
  <2>5. r[i] \in Int /\ r[i] * i = sum(i) /\ vals[i + 1] \in Int
    BY <1>0, <1>3, <2>1
  <2>6. r[i] * i + vals[i + 1] = (i + 1) * t
    BY <2>2, <2>3, <2>5
  <2> HIDE DEF sum, G
  <2>7. r[i + 1] = t
    BY <2>4, <2>5, <2>6, MeanStep
  <2> QED
    BY <2>3, <2>7
<1> HIDE DEF G
<1>4. Nat \subseteq G
  BY <1>2, <1>3, NatInd
<1>5. r[n] * n = SumFunctionOnSet(vals, 1 .. n) /\ r[n] \in Int
  BY <1>0, <1>4 DEF G
<1> QED
  BY <1>0, <1>1, <1>5 DEF SumFunction, n

\* Minmax finds the extremes, in whatever order the values are.
LEMMA MinmaxIs ==
    ASSUME NEW vals \in Seq(Int), vals # <<>>
    PROVE  /\ \E i \in DOMAIN vals : Minmax(vals).min = vals[i]
           /\ \E i \in DOMAIN vals : Minmax(vals).max = vals[i]
           /\ \A i \in DOMAIN vals :
                 Minmax(vals).min <= vals[i] /\ vals[i] <= Minmax(vals).max
<1> DEFINE n == Len(vals)
<1>0. DOMAIN vals = 1 .. n /\ n \in Nat /\ (\A i \in 1 .. n : vals[i] \in Int) /\ 1 \in 1 .. n
  OBVIOUS
<1>1. PICK r : /\ r[0] = [min |-> vals[1], max |-> vals[1]]
               /\ \A i \in 1 .. n :
                     r[i] = CASE vals[i] < r[i - 1].min ->
                                   [r[i - 1] EXCEPT !.min = vals[i]]
                              [] vals[i] > r[i - 1].max ->
                                   [r[i - 1] EXCEPT !.max = vals[i]]
                              [] OTHER -> r[i - 1]
               /\ Minmax(vals) = r[n]
  BY MinmaxLoop
<1> DEFINE Good(m, i) ==
              /\ m \in [min : Int, max : Int]
              /\ \E j \in 1 .. n : m.min = vals[j]
              /\ \E j \in 1 .. n : m.max = vals[j]
              /\ m.min <= m.max
              /\ \A j \in 1 .. i : m.min <= vals[j] /\ vals[j] <= m.max
           G == {i \in Nat : i <= n => Good(r[i], i)}
<1> HIDE DEF n
<1>2. 0 \in G
  BY <1>0, <1>1
<1>3. ASSUME NEW i \in Nat, i \in G PROVE i + 1 \in G
  <2> SUFFICES ASSUME i + 1 <= n PROVE Good(r[i + 1], i + 1)
    OBVIOUS
  <2> DEFINE m == r[i]
             x == vals[i + 1]
  <2>1. i + 1 \in 1 .. n /\ (i + 1) - 1 = i /\ i <= n /\ x \in Int
    BY <1>0
  <2>2. r[i + 1] = CASE x < m.min -> [m EXCEPT !.min = x]
                     [] x > m.max -> [m EXCEPT !.max = x]
                     [] OTHER -> m
    BY <1>1, <2>1
  <2>3. Good(m, i)
    BY <1>3, <2>1
  <2>4. \A j \in 1 .. (i + 1) : j \in 1 .. i \/ j = i + 1
    OBVIOUS
  <2>4a. \A j \in 1 .. i : vals[j] \in Int
    BY <1>0, <2>1
  <2> HIDE DEF m, G
  <2>3a. /\ m \in [min : Int, max : Int] /\ m.min \in Int /\ m.max \in Int
         /\ m.min <= m.max
         /\ \E j \in 1 .. n : m.min = vals[j]
         /\ \E j \in 1 .. n : m.max = vals[j]
    BY <2>3
  <2>3b. \A j \in 1 .. i : m.min <= vals[j] /\ vals[j] <= m.max
    BY <2>3
  <2>5. CASE x < m.min
    <3>1. r[i + 1] = [m EXCEPT !.min = x]
      <4>1. ~(x > m.max)
        BY <2>1, <2>3a, <2>5
      <4> QED
        BY <2>2, <2>5, <4>1
    <3>2. r[i + 1].min = x /\ r[i + 1].max = m.max /\ r[i + 1] \in [min : Int, max : Int]
      BY <2>1, <2>3a, <3>1
    <3>3. ASSUME NEW j \in 1 .. (i + 1) PROVE x <= vals[j] /\ vals[j] <= m.max
      <4>1. CASE j \in 1 .. i
        BY <2>1, <2>3a, <2>3b, <2>4a, <2>5, <4>1
      <4>2. CASE j = i + 1
        BY <2>1, <2>3a, <2>5, <4>2
      <4> QED
        BY <2>4, <4>1, <4>2
    <3>4. x <= m.max /\ \E j \in 1 .. n : x = vals[j]
      BY <2>1, <2>3a, <2>5
    <3> QED
      BY <2>3a, <3>2, <3>3, <3>4
  <2>6. CASE x > m.max
    <3>1. r[i + 1] = [m EXCEPT !.max = x]
      <4>1. ~(x < m.min)
        BY <2>1, <2>3a, <2>6
      <4> QED
        BY <2>2, <2>6, <4>1
    <3>2. r[i + 1].max = x /\ r[i + 1].min = m.min /\ r[i + 1] \in [min : Int, max : Int]
      BY <2>1, <2>3a, <3>1
    <3>3. ASSUME NEW j \in 1 .. (i + 1) PROVE m.min <= vals[j] /\ vals[j] <= x
      <4>1. CASE j \in 1 .. i
        BY <2>1, <2>3a, <2>3b, <2>4a, <2>6, <4>1
      <4>2. CASE j = i + 1
        BY <2>1, <2>3a, <2>6, <4>2
      <4> QED
        BY <2>4, <4>1, <4>2
    <3>4. m.min <= x /\ \E j \in 1 .. n : x = vals[j]
      BY <2>1, <2>3a, <2>6
    <3> QED
      BY <2>3a, <3>2, <3>3, <3>4
  <2>7. CASE ~(x < m.min) /\ ~(x > m.max)
    <3>1. r[i + 1] = m
      BY <2>2, <2>7
    <3>2. ASSUME NEW j \in 1 .. (i + 1) PROVE m.min <= vals[j] /\ vals[j] <= m.max
      <4>1. CASE j \in 1 .. i
        BY <2>3b, <4>1
      <4>2. CASE j = i + 1
        BY <2>1, <2>3a, <2>7, <4>2
      <4> QED
        BY <2>4, <4>1, <4>2
    <3> QED
      BY <2>3a, <3>1, <3>2
  <2> QED
    BY <2>5, <2>6, <2>7
<1> HIDE DEF G
<1>4. Nat \subseteq G
  BY <1>2, <1>3, NatInd
<1>5. Good(r[n], n)
  <2> HIDE DEF Good
  <2>1. n \in G /\ n <= n
    BY <1>0, <1>4
  <2> QED
    BY <2>1 DEF G
<1> QED
  BY <1>0, <1>1, <1>5

\* The values up to the middle and those from it, of any number of values.
LEMMA Halves ==
    ASSUME NEW n \in Nat \ {0}
    PROVE  \/ \E k \in Nat : /\ n = 2 * k + 1
                             /\ (n - 1) \div 2 = k /\ n \div 2 = k /\ n % 2 = 1
           \/ \E k \in Nat \ {0} : /\ n = 2 * k
                                   /\ (n - 1) \div 2 = k - 1 /\ n \div 2 = k /\ n % 2 = 0
<1> DEFINE k == n \div 2
<1>1. k \in Nat /\ (n = 2 * k \/ n = 2 * k + 1)
  OBVIOUS
<1>2. CASE n = 2 * k
  <2> HIDE DEF k
  <2>1. k \in Nat \ {0} /\ (n - 1) \div 2 = k - 1 /\ n \div 2 = k /\ n % 2 = 0
    BY <1>1, <1>2
  <2> QED
    BY <1>2, <2>1
<1>3. CASE n = 2 * k + 1
  <2> HIDE DEF k
  <2>1. (n - 1) \div 2 = k /\ n \div 2 = k /\ n % 2 = 1
    BY <1>1, <1>3
  <2> QED
    BY <1>1, <1>3, <2>1
<1> QED
  BY <1>1, <1>2, <1>3

\* Indices below one, and above one.
LEMMA CountBelow ==
    ASSUME NEW n \in Nat, NEW A \in SUBSET (1 .. n), NEW k \in 0 .. n
    PROVE  /\ (\A i \in A : i <= k) => Cardinality(A) <= k
           /\ (\A i \in A : i > k) => Cardinality(A) <= n - k
<1>0. IsFiniteSet(A)
  <2>1. IsFiniteSet(1 .. n)
    BY FS_Interval
  <2> QED
    BY <2>1, FS_Subset
<1>1. ASSUME \A i \in A : i <= k PROVE Cardinality(A) <= k
  <2> DEFINE B == 1 .. k
  <2>1. A \in SUBSET B
    BY <1>1
  <2>2. IsFiniteSet(B) /\ Cardinality(B) = IF 1 > k THEN 0 ELSE k - 1 + 1
    BY FS_Interval, 1 \in Int, k \in Int
  <2> HIDE DEF B
  <2>3. Cardinality(A) <= Cardinality(B)
    BY <2>1, <2>2, FS_Subset
  <2> QED
    BY <2>2, <2>3
<1>2. ASSUME \A i \in A : i > k PROVE Cardinality(A) <= n - k
  <2> DEFINE B == (k + 1) .. n
  <2>1. A \in SUBSET B
    BY <1>2
  <2>2. IsFiniteSet(B) /\ Cardinality(B) = IF k + 1 > n THEN 0 ELSE n - (k + 1) + 1
    BY FS_Interval, k + 1 \in Int, n \in Int
  <2> HIDE DEF B
  <2>3. Cardinality(A) <= Cardinality(B)
    BY <2>1, <2>2, FS_Subset
  <2> QED
    BY <2>2, <2>3
<1> QED
  BY <1>1, <1>2

\* The median of ordered values: the middle one, or the mean of the middle two,
\* and at most half of the values on either side.
LEMMA MedianIs ==
    ASSUME NEW s \in Seq(Int), s # <<>>, Ordered(s), NEW u \in Int,
           \A i \in DOMAIN s : MultipleOf(s[i], u), MultipleOf(u, 2)
    PROVE  /\ Median(s) \in Int
           /\ 2 * Cardinality({i \in 1 .. Len(s) : s[i] < Median(s)}) <= Len(s)
           /\ 2 * Cardinality({i \in 1 .. Len(s) : s[i] > Median(s)}) <= Len(s)
           /\ IF Len(s) % 2 = 1 THEN \E k \in 1 .. Len(s) : Median(s) = s[k]
              ELSE \E k \in 1 .. Len(s) :
                      /\ k + 1 \in 1 .. Len(s) /\ s[k] + s[k + 1] = 2 * Median(s)
                      /\ \A j \in 1 .. Len(s) : s[j] <= s[k] \/ s[j] >= s[k + 1]
<1> DEFINE n == Len(s)
           m == Median(s)
           Below == {i \in 1 .. n : s[i] < m}
           Above == {i \in 1 .. n : s[i] > m}
<1>0. DOMAIN s = 1 .. n /\ n \in Nat \ {0} /\ \A i \in 1 .. n : s[i] \in Int
  OBVIOUS
<1>1. \A i, j \in 1 .. n : i <= j => s[i] <= s[j]
  BY <1>0 DEF Ordered
<1>2. Below \in SUBSET (1 .. n) /\ Above \in SUBSET (1 .. n)
  OBVIOUS
<1>3. m = (s[(n - 1) \div 2 + 1] + s[n \div 2 + 1]) \div 2
  BY DEF Median, Get
<1> HIDE DEF n, m
<1>4. IsFiniteSet(Below) /\ IsFiniteSet(Above)
      /\ Cardinality(Below) \in Nat /\ Cardinality(Above) \in Nat
  <2>1. IsFiniteSet(1 .. n)
    BY <1>0, FS_Interval
  <2> QED
    BY <1>2, <2>1, FS_Subset, FS_CardinalityType
<1> HIDE DEF Below, Above
<1>5. ASSUME NEW k \in Nat, n = 2 * k + 1, (n - 1) \div 2 = k, n \div 2 = k, n % 2 = 1
      PROVE  /\ m = s[k + 1] /\ k + 1 \in 1 .. n
             /\ 2 * Cardinality(Below) <= n /\ 2 * Cardinality(Above) <= n
  <2>1. k + 1 \in 1 .. n /\ k \in 0 .. n
    BY <1>0, <1>5
  <2>2. m = s[k + 1]
    <3>1. \A x \in Int : (x + x) \div 2 = x
      OBVIOUS
    <3> QED
      BY <1>0, <1>3, <1>5, <2>1, <3>1
  <2>3. \A i \in Below : i <= k
    BY <1>0, <1>1, <2>1, <2>2 DEF Below
  <2>4. \A i \in Above : i > k + 1
    BY <1>0, <1>1, <2>1, <2>2 DEF Above
  <2>5. Cardinality(Below) <= k /\ Cardinality(Above) <= n - (k + 1)
    <3>1. n \in Nat /\ k + 1 \in 0 .. n
      BY <1>0, <2>1
    <3> QED
      BY <1>2, <2>1, <2>3, <2>4, <3>1, CountBelow
  <2>6. \A x \in Nat : (x <= k => 2 * x <= n) /\ (x <= n - (k + 1) => 2 * x <= n)
    BY <1>5
  <2> QED
    BY <1>4, <2>1, <2>2, <2>5, <2>6
<1>6. ASSUME NEW k \in Nat \ {0}, n = 2 * k, (n - 1) \div 2 = k - 1, n \div 2 = k, n % 2 = 0
      PROVE  /\ k \in 1 .. n /\ k + 1 \in 1 .. n /\ m \in Int
             /\ s[k] + s[k + 1] = 2 * m
             /\ \A j \in 1 .. n : s[j] <= s[k] \/ s[j] >= s[k + 1]
             /\ 2 * Cardinality(Below) <= n /\ 2 * Cardinality(Above) <= n
  <2>1. k \in 1 .. n /\ k + 1 \in 1 .. n /\ k \in 0 .. n /\ n \in Nat
    BY <1>0, <1>6
  <2>2. m = (s[k] + s[k + 1]) \div 2
    BY <1>3, <1>6
  <2>3. PICK a \in Int, b \in Int, c \in Int :
           s[k] = u * a /\ s[k + 1] = u * b /\ u = 2 * c
    BY <1>0, <2>1 DEF MultipleOf
  <2>4. s[k] + s[k + 1] = 2 * (c * a + c * b) /\ c * a + c * b \in Int
    <3>1. (2 * c) * a + (2 * c) * b = 2 * (c * a + c * b)
      OBVIOUS
    <3> QED
      BY <2>3, <3>1
  <2>5. m = c * a + c * b
    <3>1. \A x \in Int : (2 * x) \div 2 = x
      OBVIOUS
    <3> QED
      BY <2>2, <2>4, <3>1
  <2>6. s[k] + s[k + 1] = 2 * m /\ m \in Int
    BY <2>4, <2>5
  <2>7. s[k] <= m /\ m <= s[k + 1]
    BY <1>0, <1>1, <2>1, <2>6
  <2>8. \A i \in Below : i <= k
    BY <1>0, <1>1, <2>1, <2>6, <2>7 DEF Below
  <2>9. \A i \in Above : i > k
    BY <1>0, <1>1, <2>1, <2>6, <2>7 DEF Above
  <2>10. Cardinality(Below) <= k /\ Cardinality(Above) <= n - k
    BY <1>2, <2>1, <2>8, <2>9, CountBelow
  <2>11. \A j \in 1 .. n : s[j] <= s[k] \/ s[j] >= s[k + 1]
    BY <1>0, <1>1, <2>1
  <2> QED
    BY <1>0, <1>4, <1>6, <2>1, <2>6, <2>10, <2>11
<1>7. CASE \E k \in Nat : /\ n = 2 * k + 1
                          /\ (n - 1) \div 2 = k /\ n \div 2 = k /\ n % 2 = 1
  BY <1>0, <1>5, <1>7 DEF n, m, Below, Above
<1>8. CASE \E k \in Nat \ {0} : /\ n = 2 * k
                                /\ (n - 1) \div 2 = k - 1 /\ n \div 2 = k /\ n % 2 = 0
  <2>1. PICK k \in Nat \ {0} : /\ n = 2 * k
                               /\ (n - 1) \div 2 = k - 1 /\ n \div 2 = k /\ n % 2 = 0
    BY <1>8
  <2>2. /\ k \in 1 .. n /\ k + 1 \in 1 .. n /\ m \in Int
        /\ s[k] + s[k + 1] = 2 * m
        /\ \A j \in 1 .. n : s[j] <= s[k] \/ s[j] >= s[k + 1]
        /\ 2 * Cardinality(Below) <= n /\ 2 * Cardinality(Above) <= n
    BY ONLY <1>6, <2>1
  <2>3. n % 2 # 1
    BY <2>1
  <2> QED
    BY <2>2, <2>3 DEF n, m, Below, Above
<1> QED
  BY <1>0, <1>7, <1>8, Halves

\* Among ordered values the first of each kind differ, and stand for all.
LEMMA UniqueIs ==
    ASSUME NEW vals \in Seq(Int)
    PROVE  UniqueCount(vals) = Cardinality(ToSet(vals))
<1> DEFINE s == Sorted(vals)
           n == Len(vals)
           First == {i \in 1 .. n : i = 1 \/ s[i - 1] # s[i]}
           f == [i \in First |-> s[i]]
<1>1. /\ s \in Seq(Int) /\ Len(s) = n /\ Ordered(s)
      /\ \E p : Permutes(p, n) /\ \A k \in 1 .. n : s[k] = vals[p[k]]
  BY SortedIs
<1> HIDE DEF s
<1>2. /\ DOMAIN s = 1 .. n /\ DOMAIN vals = 1 .. n /\ n \in Nat
      /\ \A i \in 1 .. n : s[i] \in Int
  BY <1>1
<1>3. UniqueCount(vals) = Cardinality(First)
  BY <1>2 DEF UniqueCount, s
<1>4. \A i, j \in 1 .. n : i <= j => s[i] <= s[j]
  BY <1>1, <1>2 DEF Ordered
<1>5. ASSUME NEW x \in ToSet(vals) PROVE \E k \in 1 .. n : s[k] = x
  <2>1. PICK i \in 1 .. n : vals[i] = x
    BY <1>2 DEF ToSet
  <2>2. PICK p : Permutes(p, n) /\ \A k \in 1 .. n : s[k] = vals[p[k]]
    BY <1>1
  <2>3. PICK k \in 1 .. n : p[k] = i
    BY <2>2, PermutesIs
  <2> QED
    BY <2>1, <2>2, <2>3
<1>6. ASSUME NEW k \in 1 .. n PROVE s[k] \in ToSet(vals)
  <2>1. PICK p : Permutes(p, n) /\ \A j \in 1 .. n : s[j] = vals[p[j]]
    BY <1>1
  <2>2. p[k] \in 1 .. n
    BY <2>1, PermutesIs
  <2> QED
    BY <1>2, <2>1, <2>2 DEF ToSet
<1> HIDE DEF n
<1>7. \A i, j \in First : s[i] = s[j] => i = j
  <2>1. ASSUME NEW i \in First, NEW j \in First, i < j PROVE s[i] # s[j]
    <3>1. i \in 1 .. n /\ j \in 1 .. n /\ j - 1 \in 1 .. n /\ i <= j - 1 /\ j - 1 <= j
      BY <1>2, <2>1
    <3>2. s[i] <= s[j - 1] /\ s[j - 1] <= s[j] /\ s[j - 1] # s[j]
      BY <1>4, <2>1, <3>1
    <3> QED
      BY <1>2, <3>1, <3>2
  <2> QED
    BY <1>2, <2>1
<1>8. ASSUME NEW x \in ToSet(vals) PROVE \E i \in First : s[i] = x
  <2> DEFINE K == {k \in 1 .. n : s[k] = x}
  <2>1. K \in SUBSET Nat /\ K # {}
    <3>1. \A k \in K : k \in Nat
      BY <1>2
    <3> QED
      BY <1>5, <3>1
  <2>2. PICK i \in K : \A k \in K : i <= k
    BY <2>1, Least
  <2>3. i = 1 \/ s[i - 1] # s[i]
    BY <1>2, <2>2
  <2> QED
    BY <2>2, <2>3
<1>9. f \in Bijection(First, ToSet(vals))
  <2>1. f \in [First -> ToSet(vals)]
    BY <1>6
  <2>2. \A i, j \in First : f[i] = f[j] => i = j
    BY <1>7
  <2>3. \A x \in ToSet(vals) : \E i \in First : f[i] = x
    BY <1>8
  <2> HIDE DEF f, First
  <2> QED
    BY <2>1, <2>2, <2>3 DEF Bijection, Injection, Surjection, IsInjective
<1>10. IsFiniteSet(First)
  <2>1. IsFiniteSet(1 .. n) /\ First \in SUBSET (1 .. n)
    BY <1>2, FS_Interval
  <2> QED
    BY <2>1, FS_Subset
<1> HIDE DEF First, f
<1>11. ExistsBijection(First, ToSet(vals))
  BY <1>9 DEF ExistsBijection
<1>12. Cardinality(ToSet(vals)) = Cardinality(First)
  BY <1>10, <1>11, FS_Bijection
<1> QED
  BY <1>3, <1>12

-----------------------------------------------------------------------------
(***************************************************************************)
(* Quantiles of ordered values.                                            *)
(***************************************************************************)
\* A low index differs only where the rank is whole, and stays on its side of zero.
LEMMA IndexIs ==
    ASSUME NEW s \in Seq(Int), s # <<>>, NEW q \in Int, NEW low
    PROVE  LET x == q * (Len(s) - 1)
               k == Index(s, q, low)
           IN /\ x \in Int /\ k \in Int
              /\ q >= 0 => k >= 0 /\ k <= x
              /\ q < 0 => k <= 0 /\ k >= x
              /\ \/ k = x
                 \/ /\ x # 0 /\ x % 100 = 0 /\ q % 25 # 0
                    /\ k = (IF q > 0 THEN x - 1 ELSE x + 1)
<1> DEFINE n == Len(s)
           x == q * (n - 1)
<1>0. n \in Nat \ {0} /\ x \in Int
  OBVIOUS
<1>1. q >= 0 => x >= 0
  <2>1. \A j, k \in Nat : j * k >= 0
    OBVIOUS
  <2> QED
    BY <1>0, <2>1
<1>2. q < 0 => x <= 0
  <2>1. \A j, k \in Nat : (-j) * k <= 0
    OBVIOUS
  <2>2. q < 0 => -q \in Nat /\ -(-q) = q
    OBVIOUS
  <2>3. q < 0 => q * (n - 1) <= 0
    BY <1>0, <2>1, <2>2
  <2> QED
    BY <2>3
<1>3. /\ low /\ MayBeLow(s, q) =>
           Index(s, q, low) = (IF q > 0 THEN x - 1 ELSE x + 1)
      /\ ~(low /\ MayBeLow(s, q)) => Index(s, q, low) = x
      /\ MayBeLow(s, q) => x # 0 /\ x % 100 = 0 /\ q % 25 # 0
  BY DEF Index, MayBeLow
<1> DEFINE k == Index(s, q, low)
           Facts == /\ x \in Int /\ k \in Int
                    /\ q >= 0 => k >= 0 /\ k <= x
                    /\ q < 0 => k <= 0 /\ k >= x
                    /\ \/ k = x
                       \/ /\ x # 0 /\ x % 100 = 0 /\ q % 25 # 0
                          /\ k = (IF q > 0 THEN x - 1 ELSE x + 1)
<1>4. q = 0 => x = 0
  BY <1>0
<1>5. Facts
  <2> HIDE DEF x, k
  <2>1. CASE low /\ MayBeLow(s, q)
    <3>1. k = (IF q > 0 THEN x - 1 ELSE x + 1) /\ x # 0 /\ x % 100 = 0 /\ q % 25 # 0
      BY <1>3, <2>1 DEF k
    <3>2. CASE q > 0
      BY <1>0, <1>1, <3>1, <3>2
    <3>3. CASE q < 0
      BY <1>0, <1>2, <3>1, <3>3
    <3> QED
      BY <1>4, <3>1, <3>2, <3>3
  <2>2. CASE ~(low /\ MayBeLow(s, q))
    <3>1. k = x
      BY <1>3, <2>2 DEF k
    <3> QED
      BY <1>0, <1>1, <1>2, <3>1
  <2> QED
    BY <2>1, <2>2
<1> QED
  BY <1>5

\* A higher percentile has no lower index, whichever of the two comes out low.
LEMMA IndexMonotone ==
    ASSUME NEW s \in Seq(Int), s # <<>>, NEW q \in Int, NEW low, NEW r \in Int, NEW below,
           q < r
    PROVE  Index(s, q, low) <= Index(s, r, below)
<1> DEFINE n == Len(s)
           x == q * (n - 1)
           y == r * (n - 1)
           i == Index(s, q, low)
           j == Index(s, r, below)
<1>0. n \in Nat \ {0}
  OBVIOUS
<1>1. /\ x \in Int /\ i \in Int
      /\ q >= 0 => i >= 0 /\ i <= x
      /\ q < 0 => i <= 0 /\ i >= x
      /\ i = x \/ (x # 0 /\ i = (IF q > 0 THEN x - 1 ELSE x + 1))
  BY IndexIs
<1>2. /\ y \in Int /\ j \in Int
      /\ r >= 0 => j >= 0 /\ j <= y
      /\ r < 0 => j <= 0 /\ j >= y
      /\ j = y \/ (y # 0 /\ j = (IF r > 0 THEN y - 1 ELSE y + 1))
  BY IndexIs
<1>3. y >= x + (n - 1)
  <2>1. \A k \in Nat, a, b \in Int : a + 1 <= b => a * k + k <= b * k
    <3> SUFFICES ASSUME NEW k \in Nat, NEW a \in Int, NEW b \in Int, a + 1 <= b
                 PROVE  a * k + k <= b * k
      OBVIOUS
    <3>1. (b - a - 1) * k >= 0
      <4>1. \A u, v \in Nat : u * v >= 0
        OBVIOUS
      <4>2. b - a - 1 \in Nat
        OBVIOUS
      <4> QED
        BY <4>1, <4>2
    <3>2. b * k = (b - a - 1) * k + (a * k + k)
      OBVIOUS
    <3>3. (b - a - 1) * k \in Int /\ a * k + k \in Int
      OBVIOUS
    <3> QED
      BY <3>1, <3>2, <3>3
  <2> QED
    BY <1>0, <2>1
<1>4. x = 0 \/ n >= 2
  BY <1>0
<1>5. y = 0 \/ n >= 2
  BY <1>0
<1> HIDE DEF n, x, y, i, j
<1>6. q < 0 /\ r >= 0 => i <= j
  BY <1>1, <1>2
<1>7. q >= 0 => i <= j
  BY <1>0, <1>1, <1>2, <1>3, <1>5
<1>8. r < 0 => i <= j
  BY <1>0, <1>1, <1>2, <1>3, <1>4, <1>5
<1> QED
  BY <1>6, <1>7, <1>8 DEF i, j

\* Where the boundary of a percentile that Quantile can look up lies: on the last
\* value, or between two, above which a negative percentile comes out below the
\* smaller one.
LEMMA BoundaryIs ==
    ASSUME NEW s \in Seq(Int), s # <<>>, NEW q \in Int, NEW low,
           CanQuantile(s, q, low)
    PROVE  LET n == Len(s)
               b == Boundary(s, q, low)
               d == Delta(s, q, low)
           IN /\ b \in 0 .. n - 1 /\ d \in Int /\ d <= 99
              /\ Index(s, q, low) = 100 * b + d
              /\ q >= 0 => d >= 0 /\ b = Index(s, q, low) \div 100
              /\ q < 0 => b = 0 /\ d <= 0
              /\ \/ b = n - 1 /\ Quantile(s, q, low) = 100 * s[n] /\ ~Interpolates(s, q, low)
                 \/ /\ b + 1 <= n - 1 /\ Interpolates(s, q, low)
                    /\ Quantile(s, q, low) = (100 - d) * s[b + 1] + d * s[b + 2]
<1> DEFINE n == Len(s)
           b == Boundary(s, q, low)
           d == Delta(s, q, low)
           x == Index(s, q, low)
<1>0. n \in Nat \ {0} /\ x \in Int /\ (q >= 0 => x >= 0) /\ (q < 0 => x <= 0)
  BY IndexIs
<1>1. /\ b = (IF x >= 0 THEN x \div 100 ELSE -((-x) \div 100))
      /\ d = x - 100 * b
  BY DEF Boundary, Delta
<1>2. /\ b \in 0 .. n - 1
      /\ Interpolates(s, q, low) <=> b # n - 1
      /\ Interpolates(s, q, low) => b + 1 \in 0 .. n - 1
  BY DEF CanQuantile, CanGet, Interpolates
<1>3. /\ ~Interpolates(s, q, low) => Quantile(s, q, low) = 100 * s[b + 1]
      /\ Interpolates(s, q, low) =>
            Quantile(s, q, low) = (100 - d) * s[b + 1] + d * s[(b + 1) + 1]
  BY DEF Quantile, Get
<1>4. \/ b = n - 1 /\ Quantile(s, q, low) = 100 * s[n] /\ ~Interpolates(s, q, low)
      \/ /\ b + 1 <= n - 1 /\ Interpolates(s, q, low)
         /\ Quantile(s, q, low) = (100 - d) * s[b + 1] + d * s[b + 2]
  <2> HIDE DEF b, d, n
  <2>1. CASE b = n - 1
    <3>1. b + 1 = n
      BY <1>0, <2>1
    <3> QED
      BY <1>2, <1>3, <2>1, <3>1
  <2>2. CASE b # n - 1
    <3>1. b + 1 <= n - 1 /\ (b + 1) + 1 = b + 2
      BY <1>0, <1>2, <2>2
    <3> QED
      BY <1>2, <1>3, <2>2, <3>1
  <2> QED
    BY <2>1, <2>2
<1> HIDE DEF b, d, x, n
<1>5. /\ d \in Int /\ d <= 99 /\ x = 100 * b + d
      /\ q >= 0 => d >= 0 /\ b = x \div 100
      /\ q < 0 => b = 0 /\ d <= 0
  <2>1. CASE x >= 0
    BY <1>0, <1>1, <1>2, <2>1
  <2>2. CASE x < 0
    BY <1>0, <1>1, <1>2, <2>2
  <2> QED
    BY <1>0, <2>1, <2>2
<1> QED
  BY <1>2, <1>4, <1>5 DEF b, d, x, n

\* A percentile from 0 to 100 can be looked up.
LEMMA CanQuantileOf ==
    ASSUME NEW s \in Seq(Int), s # <<>>, NEW q \in 0 .. 100, NEW low
    PROVE  CanQuantile(s, q, low)
<1> DEFINE n == Len(s)
           x == q * (n - 1)
           k == Index(s, q, low)
<1>0. n \in Nat \ {0} /\ x \in Int /\ k \in Int /\ 0 <= k /\ k <= x
  BY IndexIs
<1>1. x <= 100 * (n - 1)
  <2>1. \A j \in 0 .. 100, m \in Nat : j * m <= 100 * m
    OBVIOUS
  <2> QED
    BY <1>0, <2>1
<1>2. Boundary(s, q, low) = k \div 100
  BY <1>0 DEF Boundary
<1> HIDE DEF n, x, k
<1>3. k \div 100 \in 0 .. n - 1
  BY <1>0, <1>1
<1>4. CanGet(s, Boundary(s, q, low))
  BY <1>2, <1>3 DEF CanGet, n
<1>5. Interpolates(s, q, low) => CanGet(s, Boundary(s, q, low) + 1)
  BY <1>0, <1>2, <1>3 DEF CanGet, Interpolates, n
<1> QED
  BY <1>4, <1>5 DEF CanQuantile

\* The quantile is not below the value at its rank, nor above the next.
LEMMA QuantileAtLeast ==
    ASSUME NEW s \in Seq(Int), s # <<>>, Ordered(s), NEW q \in Int, NEW low,
           CanQuantile(s, q, low)
    PROVE  LET b == Boundary(s, q, low)
           IN /\ Quantile(s, q, low) \in Int
              /\ q >= 0 => Quantile(s, q, low) >= 100 * s[b + 1]
              /\ b + 1 <= Len(s) - 1 => Quantile(s, q, low) <= 100 * s[b + 2]
<1> DEFINE n == Len(s)
           b == Boundary(s, q, low)
           d == Delta(s, q, low)
<1>0. DOMAIN s = 1 .. n /\ n \in Nat \ {0} /\ \A i \in 1 .. n : s[i] \in Int
  OBVIOUS
<1>1. /\ b \in 0 .. n - 1 /\ d \in Int /\ d <= 99
      /\ q >= 0 => d >= 0
      /\ \/ b = n - 1 /\ Quantile(s, q, low) = 100 * s[n]
         \/ /\ b + 1 <= n - 1
            /\ Quantile(s, q, low) = (100 - d) * s[b + 1] + d * s[b + 2]
  BY BoundaryIs
<1> HIDE DEF n, b, d
<1>2. CASE b = n - 1 /\ Quantile(s, q, low) = 100 * s[n]
  BY <1>0, <1>1, <1>2 DEF n, b
<1>3. CASE b + 1 <= n - 1 /\ Quantile(s, q, low) = (100 - d) * s[b + 1] + d * s[b + 2]
  <2> DEFINE x == s[b + 1]
             y == s[b + 2]
  <2>0. b + 1 \in 1 .. n /\ b + 2 \in 1 .. n /\ b + 1 <= b + 2
    BY <1>0, <1>1, <1>3
  <2>1. x \in Int /\ y \in Int /\ x <= y
    BY <1>0, <2>0 DEF Ordered
  <2> HIDE DEF x, y
  <2>2. /\ (100 - d) * x + d * y \in Int
        /\ (100 - d) * x + d * y = 100 * x + d * (y - x)
        /\ 100 * y = (100 - d) * x + d * y + (100 - d) * (y - x)
    BY <1>1, <2>1
  <2>3. (d >= 0 => d * (y - x) >= 0) /\ (100 - d) * (y - x) >= 0
    <3>1. \A j, k \in Nat : j * k >= 0
      OBVIOUS
    <3>2. y - x \in Nat /\ 100 - d \in Nat /\ (d >= 0 => d \in Nat)
      BY <1>1, <2>1
    <3> QED
      BY <3>1, <3>2
  <2>4. d * (y - x) \in Int /\ (100 - d) * (y - x) \in Int /\ 100 * x \in Int /\ 100 * y \in Int
    BY <1>1, <2>1
  <2>5. /\ d >= 0 => (100 - d) * x + d * y >= 100 * x
        /\ (100 - d) * x + d * y <= 100 * y
    BY <2>2, <2>3, <2>4
  <2> QED
    BY <1>1, <1>3, <2>2, <2>5 DEF b, n, x, y
<1> QED
  BY <1>1, <1>2, <1>3

\* A higher percentile has no lower quantile.
LEMMA QuantileMonotone ==
    ASSUME NEW s \in Seq(Int), s # <<>>, Ordered(s),
           NEW q \in Int, NEW low, CanQuantile(s, q, low),
           NEW r \in Int, NEW below, CanQuantile(s, r, below),
           Index(s, q, low) <= Index(s, r, below), q <= r
    PROVE  Quantile(s, q, low) <= Quantile(s, r, below)
<1> DEFINE n == Len(s)
           b == Boundary(s, q, low)
           c == Boundary(s, r, below)
           d == Delta(s, q, low)
           e == Delta(s, r, below)
<1>0. DOMAIN s = 1 .. n /\ n \in Nat \ {0} /\ \A i \in 1 .. n : s[i] \in Int
  OBVIOUS
<1>1. /\ b \in 0 .. n - 1 /\ d \in Int /\ d <= 99 /\ Index(s, q, low) = 100 * b + d
      /\ q >= 0 => d >= 0
      /\ q < 0 => b = 0 /\ d <= 0
      /\ \/ b = n - 1 /\ Quantile(s, q, low) = 100 * s[n]
         \/ /\ b + 1 <= n - 1
            /\ Quantile(s, q, low) = (100 - d) * s[b + 1] + d * s[b + 2]
  BY BoundaryIs
<1>2. /\ c \in 0 .. n - 1 /\ e \in Int /\ e <= 99 /\ Index(s, r, below) = 100 * c + e
      /\ r >= 0 => e >= 0
      /\ r < 0 => c = 0 /\ e <= 0
      /\ \/ c = n - 1 /\ Quantile(s, r, below) = 100 * s[n]
         \/ /\ c + 1 <= n - 1
            /\ Quantile(s, r, below) = (100 - e) * s[c + 1] + e * s[c + 2]
  BY BoundaryIs
<1>3. /\ Quantile(s, q, low) \in Int /\ Quantile(s, r, below) \in Int
      /\ b + 1 <= n - 1 => Quantile(s, q, low) <= 100 * s[b + 2]
      /\ r >= 0 => Quantile(s, r, below) >= 100 * s[c + 1]
  BY QuantileAtLeast
<1> HIDE DEF n, b, c, d, e
<1>4. 100 * b + d <= 100 * c + e
  BY <1>1, <1>2
<1>5. b < c \/ (b = c /\ d <= e)
  <2>1. CASE q < 0
    BY <1>0, <1>1, <1>2, <1>4, <2>1
  <2>2. CASE q >= 0
    BY <1>0, <1>1, <1>2, <1>4, <2>2
  <2> QED
    BY <2>1, <2>2
<1>6. CASE b < c
  <2>1. r >= 0 /\ b + 1 <= n - 1 /\ b + 2 \in 1 .. n /\ c + 1 \in 1 .. n /\ b + 2 <= c + 1
    BY <1>0, <1>1, <1>2, <1>6
  <2>2. s[b + 2] <= s[c + 1] /\ s[b + 2] \in Int /\ s[c + 1] \in Int
    BY <1>0, <2>1 DEF Ordered
  <2> QED
    BY <1>3, <2>1, <2>2
<1>7. CASE b = c /\ d <= e
  <2>1. CASE b = n - 1
    BY <1>0, <1>1, <1>2, <1>3, <1>7, <2>1
  <2>2. CASE b # n - 1
    <3> DEFINE x == s[b + 1]
               y == s[b + 2]
    <3>0. b + 1 \in 1 .. n /\ b + 2 \in 1 .. n /\ b + 1 <= b + 2
      BY <1>0, <1>1, <2>2
    <3>1. x \in Int /\ y \in Int /\ x <= y
      BY <1>0, <3>0 DEF Ordered
    <3>2. /\ Quantile(s, q, low) = (100 - d) * x + d * y
          /\ Quantile(s, r, below) = (100 - e) * x + e * y
      BY <1>0, <1>1, <1>2, <1>7, <2>2
    <3> HIDE DEF x, y
    <3>3. (100 - e) * x + e * y = ((100 - d) * x + d * y) + (e - d) * (y - x)
      BY <1>1, <1>2, <3>1
    <3>4. (e - d) * (y - x) >= 0
      <4>1. \A j, k \in Nat : j * k >= 0
        OBVIOUS
      <4>2. e - d \in Nat /\ y - x \in Nat
        BY <1>1, <1>2, <1>7, <3>1
      <4> QED
        BY <4>1, <4>2
    <3>5. (e - d) * (y - x) \in Int
      BY <1>1, <1>2, <3>1
    <3> QED
      BY <1>3, <3>2, <3>3, <3>4, <3>5
  <2> QED
    BY <2>1, <2>2
<1> QED
  BY <1>5, <1>6, <1>7
==============================================================================
