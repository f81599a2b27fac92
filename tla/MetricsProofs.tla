---------------------------- MODULE MetricsProofs ----------------------------
(***************************************************************************)
(* Proofs about Metrics: its invariant, that entries and reports are those *)
(* of the lines, and what follows for the figures sent to the backend.     *)
(***************************************************************************)
EXTENDS Metrics, StatisticsProofs

-----------------------------------------------------------------------------
(***************************************************************************)
(* The values of a quantile.                                               *)
(***************************************************************************)

\* Where the loop over the values of a quantile stops.
Over(s, q, short, v) ==
    \/ 100 * v > Quantile(s, q, q \in short)
    \/ q \in short /\ MayFallShort(s, q) /\ 100 * v = Quantile(s, q, q \in short)

\* It takes a first part of the values, up to the first that is over.
LEMMA WithinIs ==
    ASSUME NEW s \in Seq(Int), NEW q, NEW short
    PROVE  /\ Within(s, q, short) \in Seq(Int)
           /\ Len(Within(s, q, short)) \in 0 .. Len(s)
           /\ \A j \in 1 .. Len(Within(s, q, short)) :
                 Within(s, q, short)[j] = s[j] /\ ~Over(s, q, short, s[j])
           /\ Len(Within(s, q, short)) < Len(s)
                 => Over(s, q, short, s[Len(Within(s, q, short)) + 1])
<1> DEFINE n == Len(s)
           kept == {i \in 1 .. n : \A j \in 1 .. i : ~Over(s, q, short, s[j])}
           k == Max(kept \cup {0})
<1>0. DOMAIN s = 1 .. n /\ n \in Nat
  OBVIOUS
<1>1. Within(s, q, short) = SubSeq(s, 1, k)
  BY <1>0 DEF Within, Over
<1>2. kept \cup {0} \in SUBSET (0 .. n)
  BY <1>0
<1>3. k \in kept \cup {0} /\ \A i \in kept \cup {0} : i <= k
  <2> DEFINE K == kept \cup {0}
  <2>1. K \in SUBSET (0 .. n) /\ K # {}
    BY <1>2
  <2> HIDE DEF K
  <2>2. Max(K) \in K /\ \A i \in K : i <= Max(K)
    BY <1>0, <2>1, MaxIn
  <2> QED
    BY <2>2 DEF K
<1> HIDE DEF k
<1>4. k \in 0 .. n /\ \A j \in 1 .. k : ~Over(s, q, short, s[j])
  <2>1. CASE k = 0
    BY <1>0, <2>1
  <2>2. CASE k \in kept
    BY <1>0, <2>2
  <2> QED
    BY <1>3, <2>1, <2>2
<1>5. ASSUME k < n, ~Over(s, q, short, s[k + 1]) PROVE FALSE
  <2>1. k + 1 \in 1 .. n
    BY <1>0, <1>4, <1>5
  <2>2. \A j \in 1 .. (k + 1) : j \in 1 .. k \/ j = k + 1
    BY <1>4
  <2>3. k + 1 \in kept
    BY <1>4, <1>5, <2>1, <2>2
  <2>4. k + 1 <= k
    BY <1>3, <2>3
  <2> QED
    BY <1>4, <2>4
<1> DEFINE w == SubSeq(s, 1, k)
<1>6. w \in Seq(Int) /\ Len(w) = k /\ \A j \in 1 .. k : w[j] = s[j]
  <2>1. Len(w) = k /\ \A j \in 1 .. k : w[j] = s[j]
    BY <1>0, <1>4
  <2>2. w \in Seq(Int)
    BY <1>0, <1>4
  <2> QED
    BY <2>1, <2>2
<1> HIDE DEF w, kept
<1> QED
  BY <1>1, <1>4, <1>5, <1>6 DEF w, n

\* The greatest value that is taken, and how many values do not exceed it.
LEMMA WithinCount ==
    ASSUME NEW s \in Seq(Int), Ordered(s), NEW q \in Int, NEW short,
           Within(s, q, short) # <<>>, Quantile(s, q, q \in short) \in Int
    PROVE  LET k == Len(Within(s, q, short))
           IN /\ k \in 1 .. Len(s)
              /\ Minmax(Within(s, q, short)).max = s[k]
              /\ \A i \in 1 .. Len(s) : s[i] <= s[k] <=> i \in 1 .. k
<1> DEFINE n == Len(s)
           w == Within(s, q, short)
           k == Len(w)
<1>0. DOMAIN s = 1 .. n /\ n \in Nat /\ \A i \in 1 .. n : s[i] \in Int
  OBVIOUS
<1>1. /\ w \in Seq(Int) /\ k \in 0 .. n
      /\ \A j \in 1 .. k : w[j] = s[j] /\ ~Over(s, q, short, s[j])
      /\ k < n => Over(s, q, short, s[k + 1])
  BY WithinIs
<1>2. w # <<>>
  OBVIOUS
<1> HIDE DEF w, n
<1>3. k \in 1 .. n /\ DOMAIN w = 1 .. k
  BY <1>1, <1>2
<1>4. Minmax(w).max = s[k]
  <2>1. PICK j \in 1 .. k : Minmax(w).max = w[j]
    BY <1>1, <1>2, <1>3, MinmaxIs
  <2>2. w[k] <= Minmax(w).max
    BY <1>1, <1>2, <1>3, MinmaxIs
  <2>3. s[j] <= s[k] /\ s[j] \in Int /\ s[k] \in Int /\ w[j] = s[j] /\ w[k] = s[k]
    <3>1. j \in 1 .. n /\ k \in 1 .. n /\ j <= k /\ k \in 1 .. k
      BY <1>0, <1>3
    <3> QED
      BY <1>0, <1>1, <3>1 DEF Ordered
  <2> QED
    BY <2>1, <2>2, <2>3
<1>5. ASSUME NEW i \in 1 .. n PROVE s[i] <= s[k] <=> i \in 1 .. k
  <2>1. CASE i \in 1 .. k
    BY <1>0, <1>3, <2>1 DEF Ordered
  <2>2. CASE i \notin 1 .. k
    <3>1. k < n /\ k + 1 \in 1 .. n /\ k + 1 <= i
      BY <1>0, <1>3, <2>2
    <3>2. Over(s, q, short, s[k + 1]) /\ ~Over(s, q, short, s[k])
      BY <1>1, <1>3, <3>1
    <3>3. s[k + 1] <= s[i] /\ s[k] \in Int /\ s[k + 1] \in Int /\ s[i] \in Int
      BY <1>0, <1>3, <3>1 DEF Ordered
    <3>4. s[k] < s[k + 1]
      BY <3>2, <3>3 DEF Over
    <3> QED
      BY <2>2, <3>3, <3>4
  <2> QED
    BY <2>1, <2>2
<1> QED
  BY <1>3, <1>4, <1>5 DEF n, w

\* Unless the interpolation falls short, the values below the rank are taken, from
\* 100 on all, and with a higher percentile no less.
LEMMA WithinShare ==
    ASSUME NEW s \in Seq(Int), s # <<>>, Ordered(s), NEW q \in Int, NEW short,
           CanQuantile(s, q, q \in short), ~(q \in short /\ MayFallShort(s, q))
    PROVE  LET k == Len(Within(s, q, short))
               n == Len(s)
           IN /\ 100 * k >= q * (n - 1)
              /\ q >= 100 => k = n
              /\ \A r \in Int : CanQuantile(s, r, r \in short) /\ r <= q
                    => Len(Within(s, r, short)) <= k
<1> DEFINE n == Len(s)
           x == q * (n - 1)
           i == Index(s, q, q \in short)
           k == Len(Within(s, q, short))
           b == Boundary(s, q, q \in short)
           d == Delta(s, q, q \in short)
           v == Quantile(s, q, q \in short)
<1>0. DOMAIN s = 1 .. n /\ n \in Nat \ {0} /\ \A m \in 1 .. n : s[m] \in Int
  OBVIOUS
<1>1. /\ k \in 0 .. n
      /\ k < n => 100 * s[k + 1] > v
  BY WithinIs DEF Over
<1>2. /\ b \in 0 .. n - 1 /\ d \in Int /\ d <= 99 /\ i = 100 * b + d
      /\ q >= 0 => d >= 0
  BY BoundaryIs
<1>3. v \in Int /\ (q >= 0 => v >= 100 * s[b + 1])
  BY QuantileAtLeast
<1>4. /\ x \in Int /\ i \in Int
      /\ q < 0 => i <= 0 /\ i >= x
      /\ i = x \/ (x # 0 /\ q % 25 # 0 /\ i = (IF q > 0 THEN x - 1 ELSE x + 1))
  BY IndexIs
<1>5. q >= 100 => i >= 100 * (n - 1)
  <2> SUFFICES ASSUME q >= 100 PROVE i >= 100 * (n - 1)
    OBVIOUS
  <2>1. \A j \in Nat : q * j = 100 * j + (q - 100) * j
    OBVIOUS
  <2>2. \A j \in Nat : (q - 100) * j >= 0 /\ (q >= 101 => (q - 100) * j >= j)
    <3>1. \A a, j \in Nat : a * j >= 0
      OBVIOUS
    <3>2. \A j \in Nat : (q - 100) * j = (q - 101) * j + j
      OBVIOUS
    <3> QED
      BY <3>1, <3>2
  <2>3. n - 1 \in Nat /\ (q - 100) * (n - 1) \in Int
    BY <1>0
  <2>4. /\ x = 100 * (n - 1) + (q - 100) * (n - 1) /\ (q - 100) * (n - 1) >= 0
        /\ q >= 101 => (q - 100) * (n - 1) >= n - 1
    BY <2>1, <2>2, <2>3
  <2>5. x # 0 => n - 1 >= 1
    BY <1>0
  <2>6. q % 25 # 0 => q >= 101
    OBVIOUS
  <2> HIDE DEF n, x, i
  <2> QED
    BY <1>4, <2>3, <2>4, <2>5, <2>6
<1> HIDE DEF n, x, i, k, b, d, v
<1>6. q >= 0 => k > b
  <2> SUFFICES ASSUME q >= 0, k <= b PROVE FALSE
    BY <1>1, <1>2
  <2>1. k < n /\ k + 1 \in 1 .. n /\ b + 1 \in 1 .. n /\ k + 1 <= b + 1
    BY <1>0, <1>1, <1>2
  <2>2. s[k + 1] <= s[b + 1] /\ s[k + 1] \in Int /\ s[b + 1] \in Int
    BY <1>0, <2>1 DEF Ordered
  <2> QED
    BY <1>1, <1>3, <2>1, <2>2
<1>7. 100 * k >= x
  <2>1. CASE q >= 0
    BY <1>1, <1>2, <1>4, <1>6, <2>1
  <2>2. CASE q < 0
    BY <1>1, <1>4, <2>2
  <2> QED
    BY <2>1, <2>2
<1>8. q >= 100 => k = n
  BY <1>0, <1>1, <1>2, <1>5, <1>6
<1>9. ASSUME NEW r \in Int, CanQuantile(s, r, r \in short), r <= q
      PROVE  Len(Within(s, r, short)) <= k
  <2> DEFINE l == Len(Within(s, r, short))
             u == Quantile(s, r, r \in short)
  <2>1. l \in 0 .. n /\ \A j \in 1 .. l : ~(100 * s[j] > u)
    BY WithinIs DEF Over, n
  <2>2. u <= v /\ u \in Int
    <3>1. u \in Int
      BY <1>9, QuantileAtLeast
    <3>2. CASE r = q
      BY <1>3, <3>2 DEF v
    <3>3. CASE r < q
      <4>1. Index(s, r, r \in short) <= Index(s, q, q \in short)
        BY <3>3, IndexMonotone
      <4> QED
        BY <1>9, <3>1, <4>1, QuantileMonotone DEF v
    <3> QED
      BY <1>9, <3>1, <3>2, <3>3
  <2> SUFFICES ASSUME ~(l <= k) PROVE FALSE
    OBVIOUS
  <2> HIDE DEF l, u
  <2>3. k + 1 \in 1 .. l /\ k < n /\ k + 1 \in 1 .. n
    BY <1>0, <1>1, <2>1
  <2> QED
    BY <1>0, <1>1, <1>3, <2>1, <2>2, <2>3
<1> QED
  BY <1>7, <1>8, <1>9 DEF n, x, k

\* Nothing is taken only where equal neighbours, the smallest of all, are mixed,
\* or the percentile is negative.
LEMMA WithinEmpty ==
    ASSUME NEW s \in Seq(Int), s # <<>>, Ordered(s), NEW q \in Nat, NEW short,
           CanQuantile(s, q, q \in short), Within(s, q, short) = <<>>
    PROVE  /\ q % 25 # 0 /\ Len(s) > 1
           /\ s[1] = s[Boundary(s, q, TRUE) + 2]
<1> DEFINE n == Len(s)
           b == Boundary(s, q, q \in short)
           c == Boundary(s, q, TRUE)
           v == Quantile(s, q, q \in short)
<1>0. DOMAIN s = 1 .. n /\ n \in Nat \ {0} /\ \A i \in 1 .. n : s[i] \in Int
  OBVIOUS
<1>1. Over(s, q, short, s[1])
  <2>1. Len(Within(s, q, short)) = 0 /\ 0 + 1 = 1
    OBVIOUS
  <2> QED
    BY <1>0, <2>1, WithinIs
<1>2. /\ b \in 0 .. n - 1
      /\ b = n - 1 \/ b + 1 <= n - 1
  BY BoundaryIs
<1>3. v \in Int /\ v >= 100 * s[b + 1]
  BY QuantileAtLeast
<1>4. MayFallShort(s, q) <=>
         c # n - 1 /\ q % 25 # 0 /\ s[c + 1] = s[(c + 1) + 1] /\ s[c + 1] # 0
  BY DEF MayFallShort, Get, Interpolates
<1>5. q \in short => b = c
  BY DEF Boundary, Index
<1>6. b + 1 \in 1 .. n /\ s[1] <= s[b + 1] /\ s[1] \in Int /\ s[b + 1] \in Int
  <2>1. b + 1 \in 1 .. n /\ 1 \in 1 .. n /\ 1 <= b + 1
    BY <1>0, <1>2
  <2> QED
    BY <1>0, <2>1 DEF Ordered
<1> HIDE DEF n, b, c
<1>7. q \in short /\ MayFallShort(s, q) /\ 100 * s[1] = v
  <2> HIDE DEF v
  <2>1. 100 * s[1] > v \/ (q \in short /\ MayFallShort(s, q) /\ 100 * s[1] = v)
    BY <1>1 DEF Over, v
  <2> QED
    BY <1>3, <1>6, <2>1
<1> HIDE DEF v
<1>8. b = c /\ (b + 1) + 1 = b + 2 /\ b + 1 <= n - 1
  BY <1>0, <1>2, <1>4, <1>5, <1>7
<1>9. s[1] = s[b + 1] /\ s[b + 1] = s[b + 2]
  BY <1>3, <1>4, <1>6, <1>7, <1>8
<1>10. q % 25 # 0
  BY ONLY <1>4, <1>7
<1>11. n > 1
  BY ONLY <1>0, <1>6, <1>8
<1>12. s[1] = s[c + 2]
  BY ONLY <1>8, <1>9
<1> QED
  BY <1>10, <1>11, <1>12 DEF n, c

-----------------------------------------------------------------------------
(***************************************************************************)
(* Reading and writing a float32.                                          *)
(***************************************************************************)

\* The recursive definition of Pow2 has a solution, hence these equations.
LEMMA Pow2Def ==
    /\ Pow2 \in [Nat -> Int] /\ Pow2[0] = 1
    /\ \A n \in Nat : Pow2[n + 1] = 2 * Pow2[n]
<1> DEFINE F == [n \in Nat \ {0} |-> [v \in Int |-> 2 * v]]
<1>1. \A n \in Nat \ {0}, v \in Int : F[n][v] \in Int /\ F[n][v] = 2 * v
  OBVIOUS
<1> HIDE DEF F
<1>2. PICK g \in [Nat -> Int] : Recursion(g, 1, F)
  BY <1>1, RecursionExists, 1 \in Int
<1>3. g = [n \in Nat |-> IF n = 0 THEN 1 ELSE 2 * g[n - 1]]
  <2>1. ASSUME NEW n \in Nat \ {0} PROVE g[n] = 2 * g[n - 1]
    <3>1. n - 1 \in Nat
      OBVIOUS
    <3>2. g[n - 1] \in Int
      BY <3>1
    <3> QED
      BY <1>1, <1>2, <3>2 DEF Recursion
  <2> QED
    BY <1>2, <2>1 DEF Recursion
<1>4. Pow2 = [n \in Nat |-> IF n = 0 THEN 1 ELSE 2 * Pow2[n - 1]]
  BY <1>3 DEF Pow2
<1> HIDE DEF Pow2
<1>5. Pow2[0] = 1 /\ \A n \in Nat : Pow2[n + 1] = 2 * Pow2[n]
  <2>1. ASSUME NEW n \in Nat PROVE Pow2[n + 1] = 2 * Pow2[n]
    <3>1. n + 1 \in Nat /\ n + 1 # 0 /\ (n + 1) - 1 = n
      OBVIOUS
    <3> QED
      BY <1>4, <3>1
  <2> QED
    BY <1>4, <2>1
<1> DEFINE G == {n \in Nat : Pow2[n] \in Int}
<1>6. Nat \subseteq G
  <2>1. 0 \in G /\ \A n \in Nat : n \in G => n + 1 \in G
    BY <1>5
  <2> HIDE DEF G
  <2> QED
    BY <2>1, NatInd
<1>7. \A n \in Nat : Pow2[n] \in Int
  BY <1>6
<1> HIDE DEF G
<1> QED
  BY <1>4, <1>5, <1>7

\* Powers outgrow their exponents and multiply as they should.
LEMMA Pow2Is ==
    /\ \A n \in Nat : Pow2[n] \in Nat \ {0} /\ Pow2[n] > n
    /\ \A m, n \in Nat : Pow2[n + m] = Pow2[n] * Pow2[m]
<1> DEFINE G == {n \in Nat : Pow2[n] \in Nat \ {0} /\ Pow2[n] > n}
<1>1. Nat \subseteq G
  <2>1. 0 \in G
    BY Pow2Def
  <2>2. ASSUME NEW n \in Nat, n \in G PROVE n + 1 \in G
    BY <2>2, Pow2Def
  <2> HIDE DEF G
  <2> QED
    BY <2>1, <2>2, NatInd
<1>2. \A n \in Nat : Pow2[n] \in Nat \ {0} /\ Pow2[n] > n
  BY <1>1
<1>3. ASSUME NEW m \in Nat PROVE \A n \in Nat : Pow2[n + m] = Pow2[n] * Pow2[m]
  <2> DEFINE H == {n \in Nat : Pow2[n + m] = Pow2[n] * Pow2[m]}
  <2>1. 0 \in H
    <3>1. 0 + m = m /\ Pow2[m] \in Int
      BY Pow2Def
    <3>2. 1 * Pow2[m] = Pow2[m]
      BY <3>1
    <3> QED
      BY <3>1, <3>2, Pow2Def
  <2>2. ASSUME NEW n \in Nat, n \in H PROVE n + 1 \in H
    <3>1. (n + 1) + m = (n + m) + 1 /\ n + m \in Nat
      OBVIOUS
    <3>2. Pow2[(n + m) + 1] = 2 * Pow2[n + m] /\ Pow2[n + 1] = 2 * Pow2[n]
      BY <3>1, Pow2Def
    <3>3. Pow2[n] \in Int /\ Pow2[m] \in Int
      BY Pow2Def
    <3>4. 2 * (Pow2[n] * Pow2[m]) = (2 * Pow2[n]) * Pow2[m]
      BY <3>3
    <3> QED
      BY <2>2, <3>1, <3>2, <3>4
  <2> HIDE DEF H
  <2>3. Nat \subseteq H
    BY <2>1, <2>2, NatInd
  <2> QED
    BY <2>3 DEF H
<1> QED
  BY <1>2, <1>3

\* The size of a number.
LEMMA MagnitudeIs ==
    ASSUME NEW v \in Int
    PROVE  /\ Magnitude(v) \in Nat
           /\ v >= 0 => Magnitude(v) = v
           /\ v < 0 => Magnitude(v) = -v
  BY DEF Magnitude

\* The nearest multiple of the grain is at most half of it away.
LEMMA NearestIs ==
    ASSUME NEW num \in Int, NEW den \in Nat \ {0}, NEW grain \in Nat \ {0}
    PROVE  /\ Nearest(num, den, grain) \in Int
           /\ MultipleOf(Nearest(num, den, grain), grain)
           /\ 2 * Magnitude(den * Nearest(num, den, grain) - num) <= den * grain
<1> DEFINE a == Magnitude(num)
           cell == den * grain
           whole == a \div cell
           rem == a % cell
           up == 2 * rem > cell \/ (2 * rem = cell /\ whole % 2 = 1)
           w == IF up THEN whole + 1 ELSE whole
           r == Nearest(num, den, grain)
<1>0. a \in Nat /\ (num < 0 => num = -a) /\ (num >= 0 => num = a)
  BY MagnitudeIs
<1>1. cell \in Nat \ {0}
  <2>1. \A x, y \in Nat \ {0} : x * y \in Nat \ {0}
    <3>1. \A x \in Nat, y \in Nat \ {0} : x * y >= 0
      OBVIOUS
    <3>2. \A x, y \in Nat \ {0} : x * y = y + (x - 1) * y
      OBVIOUS
    <3> QED
      BY <3>1, <3>2
  <2> QED
    BY <2>1
<1>2. r = (IF num < 0 THEN -1 ELSE 1) * w * grain
  BY DEF Nearest
<1> HIDE DEF a, r
<1>3. whole \in Nat /\ rem \in 0 .. cell - 1 /\ a = (whole * cell) + rem
  <2>1. \A x \in Nat, y \in Nat \ {0} :
           x \div y \in Nat /\ x % y \in 0 .. y - 1 /\ x = ((x \div y) * y) + (x % y)
    OBVIOUS
  <2> HIDE DEF cell
  <2> QED
    BY <1>0, <1>1, <2>1
<1>4. (up => 2 * rem >= cell) /\ (~up => 2 * rem <= cell)
  <2> HIDE DEF cell, rem
  <2> QED
    BY <1>1, <1>3
<1> HIDE DEF cell, whole, rem, up
<1>5. w \in Nat /\ w * cell \in Int /\ 2 * Magnitude(w * cell - a) <= cell
  <2>1. (whole + 1) * cell = whole * cell + cell /\ whole * cell \in Int
    BY <1>1, <1>3
  <2>2. CASE up
    <3>1. w * cell - a = cell - rem /\ 2 * (cell - rem) <= cell /\ cell - rem >= 0
      BY <1>0, <1>1, <1>3, <1>4, <2>1, <2>2
    <3> QED
      BY <1>1, <1>3, <2>1, <2>2, <3>1 DEF Magnitude
  <2>3. CASE ~up
    <3>1. w * cell - a = -rem /\ 2 * rem <= cell
      BY <1>0, <1>1, <1>3, <1>4, <2>1, <2>3
    <3>2. Magnitude(-rem) = rem
      BY <1>3 DEF Magnitude
    <3> QED
      BY <1>1, <1>3, <2>1, <2>3, <3>1, <3>2
  <2> QED
    BY <2>2, <2>3
<1> HIDE DEF w
<1>6. r = w * grain \/ r = -(w * grain)
  BY <1>2, <1>5
<1>7. r \in Int /\ MultipleOf(r, grain)
  <2>1. w * grain = grain * w /\ -(w * grain) = grain * (-w) /\ -w \in Int
    BY <1>5
  <2> QED
    BY <1>5, <1>6, <2>1 DEF MultipleOf
<1>8. Magnitude(den * r - num) = Magnitude(w * cell - a)
  <2>1. den * (w * grain) = w * cell /\ den * (-(w * grain)) = -(w * cell)
    <3>1. den * (w * grain) = w * (den * grain)
          /\ den * (-(w * grain)) = -(w * (den * grain))
      BY <1>5
    <3> QED
      BY <3>1 DEF cell
  <2>2. CASE num < 0
    <3>1. r = -(w * grain)
      BY <1>2, <1>5, <2>2
    <3>2. den * r - num = -(w * cell - a)
      BY <1>0, <1>5, <2>1, <2>2, <3>1
    <3> QED
      BY <1>0, <1>5, <3>2 DEF Magnitude
  <2>3. CASE num >= 0
    <3>1. r = w * grain
      BY <1>2, <1>5, <2>3
    <3> QED
      BY <1>0, <1>5, <2>1, <2>3, <3>1
  <2> QED
    BY <2>2, <2>3
<1> QED
  BY <1>5, <1>7, <1>8 DEF r, cell

\* A float32 is a multiple of the smallest, and the spacing is the smallest or is
\* small against the number.
LEMMA Float32Is ==
    ASSUME NEW num \in Int, NEW den \in Nat \ {0}
    PROVE  /\ Float32(num, den) \in Int
           /\ MultipleOf(Float32(num, den), Quantum)
           /\ 2 * Magnitude(den * Float32(num, den) - num) * Pow2[Mantissa]
                <= 2 * Magnitude(num) + den * Quantum * Pow2[Mantissa]
<1> DEFINE a == Magnitude(num)
           unit == den * Quantum
           Fits(n) == a < unit * Pow2[n + Mantissa]
           top == a \div unit
           e == CHOOSE n \in 0 .. top : Fits(n) /\ (n = 0 \/ ~Fits(n - 1))
           grain == Quantum * Pow2[e]
           z == Pow2[Mantissa]
           m == Magnitude(den * Float32(num, den) - num)
<1>0. a \in Nat /\ Quantum \in Nat \ {0} /\ Mantissa \in Nat /\ z \in Nat \ {0}
  BY MagnitudeIs, MetricsAssumption, Pow2Is
<1>1. Float32(num, den) = Nearest(num, den, grain)
  BY DEF Float32
<1> HIDE DEF a
<1>2. \A x, y \in Nat \ {0} : x * y \in Nat \ {0}
  <2>1. \A x \in Nat, y \in Nat \ {0} : x * y >= 0
    OBVIOUS
  <2>2. \A x, y \in Nat \ {0} : x * y = y + (x - 1) * y
    OBVIOUS
  <2> QED
    BY <2>1, <2>2
<1>3. unit \in Nat \ {0}
  BY <1>0, <1>2
<1> HIDE DEF unit
<1>4. top \in Nat /\ Fits(top)
  <2>1. \A x \in Nat, y \in Nat \ {0} : x \div y \in Nat /\ x < y * ((x \div y) + 1)
    <3> SUFFICES ASSUME NEW x \in Nat, NEW y \in Nat \ {0}
                 PROVE  x \div y \in Nat /\ x < y * ((x \div y) + 1)
      OBVIOUS
    <3>1. x \div y \in Nat /\ x % y < y /\ x % y \in Nat /\ x = y * (x \div y) + (x % y)
      OBVIOUS
    <3>2. y * ((x \div y) + 1) = y * (x \div y) + y /\ y * (x \div y) \in Int
      BY <3>1
    <3> QED
      BY <3>1, <3>2
  <2>2. top \in Nat /\ a < unit * (top + 1)
    BY <1>0, <1>3, <2>1
  <2> DEFINE p == Pow2[top + Mantissa]
  <2> HIDE DEF top
  <2>3. p \in Nat /\ p >= top + 1
    <3>1. top + Mantissa \in Nat
      BY <1>0, <2>2
    <3>2. p \in Nat \ {0} /\ p > top + Mantissa
      BY <3>1, Pow2Is
    <3> QED
      BY <1>0, <2>2, <3>2
  <2> HIDE DEF p
  <2>4. unit * p >= unit * (top + 1)
    <3>1. \A x, y, k \in Nat : x <= y => k * x <= k * y
      OBVIOUS
    <3> QED
      BY <1>3, <2>2, <2>3, <3>1
  <2>5. unit * p \in Int /\ unit * (top + 1) \in Int
    BY <1>3, <2>2, <2>3
  <2> QED
    BY <1>0, <2>2, <2>4, <2>5 DEF p
<1>5. e \in 0 .. top /\ (e = 0 \/ ~Fits(e - 1))
  <2> DEFINE B == {n \in Nat : Fits(n)}
  <2> HIDE DEF Fits, top
  <2>1. B \in SUBSET Nat /\ B # {}
    BY <1>4
  <2>2. PICK n \in B : \A k \in B : n <= k
    BY <2>1, Least
  <2>3. n \in 0 .. top /\ Fits(n)
    BY <1>4, <2>2
  <2>4. n = 0 \/ ~Fits(n - 1)
    <3> SUFFICES ASSUME n # 0, Fits(n - 1) PROVE FALSE
      OBVIOUS
    <3>1. n - 1 \in B
      BY <2>3
    <3> QED
      BY <2>2, <2>3, <3>1
  <2> QED
    BY <2>3, <2>4
<1> HIDE DEF e, top
<1>6. e \in Nat /\ Pow2[e] \in Nat \ {0}
  BY <1>4, <1>5, Pow2Is
<1>7. grain \in Nat \ {0}
  BY <1>0, <1>2, <1>6
<1>8. /\ Float32(num, den) \in Int
      /\ MultipleOf(Float32(num, den), grain)
      /\ 2 * m <= den * grain
  BY <1>1, <1>7, NearestIs
<1>9. MultipleOf(Float32(num, den), Quantum)
  <2>1. PICK k \in Int : Float32(num, den) = grain * k
    BY <1>8 DEF MultipleOf
  <2>2. (Quantum * Pow2[e]) * k = Quantum * (Pow2[e] * k) /\ Pow2[e] * k \in Int
    BY <1>0, <1>6
  <2> QED
    BY <2>1, <2>2 DEF MultipleOf
<1>10. m \in Nat
  BY <1>8, MagnitudeIs
<1>11. den * grain = unit * Pow2[e]
  <2>1. den * (Quantum * Pow2[e]) = (den * Quantum) * Pow2[e]
    BY <1>0, <1>6
  <2> QED
    BY <2>1 DEF unit
<1>12. unit * Pow2[e] * z <= 2 * a + unit * z
  <2>1. CASE e = 0
    <3>1. unit * Pow2[e] = unit
      BY <1>3, <2>1, Pow2Def
    <3>2. unit * z \in Int
      BY <1>0, <1>3
    <3> QED
      BY <1>0, <3>1, <3>2
  <2>2. CASE e # 0
    <3> DEFINE x == Pow2[(e - 1) + Mantissa]
               y == Pow2[e]
    <3>1. e - 1 \in Nat /\ a >= unit * x
      <4>1. e - 1 \in Nat
        BY <1>6, <2>2
      <4>2. (e - 1) + Mantissa \in Nat
        BY <1>0, <4>1
      <4>3. x \in Int
        BY <4>2, Pow2Def
      <4>4. ~(a < unit * x)
        BY <1>5, <2>2
      <4>5. unit * x \in Int
        BY <1>3, <4>3
      <4> HIDE DEF x
      <4> QED
        BY <1>0, <4>1, <4>4, <4>5
    <3>2. y * z = 2 * x /\ x \in Int
      <4>1. (e - 1) + Mantissa \in Nat /\ ((e - 1) + Mantissa) + 1 = e + Mantissa
        BY <1>0, <1>6, <3>1
      <4>2. Pow2[((e - 1) + Mantissa) + 1] = 2 * x /\ x \in Int
        BY <4>1, Pow2Def
      <4>3. Pow2[e + Mantissa] = y * z
        BY <1>0, <1>6, Pow2Is
      <4> QED
        BY <4>1, <4>2, <4>3
    <3>3. y \in Int
      BY <1>6
    <3> HIDE DEF x, y, z
    <3>4. (unit * y) * z = unit * (y * z) /\ unit * (2 * x) = 2 * (unit * x)
      BY <1>0, <1>3, <3>2, <3>3
    <3>5. unit * x \in Int /\ unit * z \in Nat
      <4>1. \A u, v \in Nat : u * v \in Nat
        OBVIOUS
      <4> QED
        BY <1>0, <1>3, <3>2, <4>1
    <3>6. (unit * y) * z <= 2 * a + unit * z
      BY <1>0, <3>1, <3>2, <3>4, <3>5
    <3> QED
      BY <3>6 DEF y
  <2> QED
    BY <2>1, <2>2
<1>13. 2 * m * z <= 2 * a + unit * z
  <2> DEFINE g == unit * Pow2[e]
  <2>1. g \in Nat /\ 2 * m <= g
    <3>1. g \in Nat \ {0}
      BY <1>2, <1>3, <1>6
    <3> QED
      BY <1>8, <1>11, <3>1
  <2>2. g * z <= 2 * a + unit * z
    BY <1>12
  <2> HIDE DEF g, m, z
  <2>3. (2 * m) * z <= g * z
    <3>1. \A x, y, k \in Nat : x <= y => x * k <= y * k
      OBVIOUS
    <3> QED
      BY <1>0, <1>10, <2>1, <3>1
  <2>4. (2 * m) * z \in Int /\ g * z \in Int /\ unit * z \in Int
    BY <1>0, <1>3, <1>10, <2>1
  <2> QED
    BY <1>0, <2>2, <2>3, <2>4
<1> QED
  BY <1>8, <1>9, <1>13 DEF m, z, a, unit

-----------------------------------------------------------------------------
(***************************************************************************)
(* The figures of a sequence of lines: what Parsed, Values, LastReset and  *)
(* Expected say of "inputs", for any lines.                                *)
(***************************************************************************)
ParsedOf(ls, i) == ParseMetricString(ls[i])
ValuesOf(ls) == [i \in DOMAIN ls |-> ParsedOf(ls, i).last]
HitsOf(ls) == [i \in DOMAIN ls |-> ParsedOf(ls, i).hits]
AddedOf(ls) ==
    [i \in DOMAIN ls |-> (ParsedOf(ls, i).last * ParsedOf(ls, i).hits) \div Unit]
ResetsOf(ls) == {i \in DOMAIN ls : i = 1 \/ ParsedOf(ls, i).type # "counter"}
ResetOf(ls) == Max(ResetsOf(ls))
ExpectedOf(ls) ==
    ParsedOf(ls, ResetOf(ls)).last
      + SumFunctionOnSet(AddedOf(ls), ResetOf(ls) + 1 .. Len(ls))

\* The entry that the lines add up to.
GatheredOf(ls) ==
    [type |-> ParsedOf(ls, 1).type, hits |-> SumFunction(HitsOf(ls)),
     last |-> ExpectedOf(ls), all |-> ValuesOf(ls)]

\* The lines of an entry.
EntryLines == {ls \in Seq(Inputs) : /\ ls # <<>> /\ Len(ls) <= MaxLines
                                    /\ \A i \in DOMAIN ls : Parses(ls[i])}

-----------------------------------------------------------------------------
\* The hits of a line, in units, are those of a rate up to 1.
LEMMA HitsIs ==
    ASSUME NEW rate \in Int
    PROVE  TotalHits(rate) \in Nat \ {0}
<1> DEFINE sample == Float32(rate * Unit, 100)
<1>1. Unit \in Nat \ {0}
  BY MetricsAssumption
<1>2. sample \in Int
  <2>1. rate * Unit \in Int /\ 100 \in Nat \ {0}
    BY <1>1
  <2> QED
    BY <2>1, Float32Is
<1>3. TotalHits(rate) = IF sample > 0 /\ sample < Unit THEN (Unit * Unit) \div sample
                        ELSE Unit
  BY DEF TotalHits
<1> HIDE DEF sample
<1>4. ASSUME sample > 0, sample < Unit
      PROVE  (Unit * Unit) \div sample \in Nat \ {0}
  <2>1. \A x \in Nat, y \in Nat \ {0} : x >= y => x \div y \in Nat \ {0}
    OBVIOUS
  <2>2. Unit * Unit \in Nat /\ Unit * Unit >= Unit
    <3>1. \A x \in Nat, y \in Nat : x * y >= 0 /\ x * y \in Int
      OBVIOUS
    <3>2. Unit * Unit = Unit + (Unit - 1) * Unit /\ Unit - 1 \in Nat
      BY <1>1
    <3> DEFINE d == (Unit - 1) * Unit
    <3>3. d >= 0 /\ d \in Int /\ Unit * Unit \in Int
      BY <1>1, <3>1, <3>2
    <3> HIDE DEF d
    <3>4. Unit * Unit = Unit + d
      BY <3>2 DEF d
    <3> QED
      BY <1>1, <3>3, <3>4
  <2> DEFINE x == Unit * Unit
  <2> HIDE DEF x
  <2>3. x \in Nat /\ x >= sample /\ sample \in Nat \ {0}
    BY <1>1, <1>2, <1>4, <2>2 DEF x
  <2> QED
    BY <2>1, <2>3 DEF x
<1> QED
  BY <1>1, <1>3, <1>4

\* A parsed line is a metric of a known type with a float32 as its value.
LEMMA ParsedIs ==
    ASSUME NEW line \in Inputs, Parses(line)
    PROVE  LET m == ParseMetricString(line)
           IN /\ m.type \in Types /\ m.hits \in Nat \ {0} /\ m.last \in Int
              /\ MultipleOf(m.last, Quantum) /\ m.all = <<m.last>>
<1> DEFINE x == line.value
           m == ParseMetricString(line)
<1>1. x \in Int /\ line.rate \in Int /\ 1 \in Nat \ {0}
  BY MetricsAssumption
<1>2. m.type = GetMetricType(line.type) /\ m.hits = TotalHits(line.rate)
      /\ m.last = Float32(x, 1) /\ m.all = <<m.last>>
  BY DEF ParseMetricString
<1> HIDE DEF x, m
<1>3. Float32(x, 1) \in Int /\ MultipleOf(Float32(x, 1), Quantum)
  BY <1>1, Float32Is
<1>4. GetMetricType(line.type) \in Types
  BY DEF Parses, GetMetricType, Types
<1>5. TotalHits(line.rate) \in Nat \ {0}
  BY <1>1, HitsIs
<1> QED
  BY <1>2, <1>3, <1>4, <1>5 DEF m

\* The latest line that set the value.
LEMMA ResetIs ==
    ASSUME NEW ls \in EntryLines
    PROVE  /\ ResetOf(ls) \in 1 .. Len(ls)
           /\ ResetOf(ls) = 1 \/ ParsedOf(ls, ResetOf(ls)).type # "counter"
           /\ \A i \in 1 .. Len(ls) :
                 i = 1 \/ ParsedOf(ls, i).type # "counter" => i <= ResetOf(ls)
<1> DEFINE n == Len(ls)
           R == ResetsOf(ls)
<1>0. DOMAIN ls = 1 .. n /\ n \in Nat \ {0}
  BY DEF EntryLines
<1>1. ResetOf(ls) = Max(R)
  BY DEF ResetOf
<1>2. \A i \in R : i \in 1 .. n /\ (i = 1 \/ ParsedOf(ls, i).type # "counter")
  BY <1>0 DEF ResetsOf
<1>3. \A i \in 1 .. n : i = 1 \/ ParsedOf(ls, i).type # "counter" => i \in R
  BY <1>0 DEF ResetsOf
<1> HIDE DEF R, n
<1>4. R \in SUBSET (0 .. n) /\ R # {}
  <2>1. 1 \in R
    BY <1>0, <1>3
  <2>2. \A i \in R : i \in 0 .. n
    BY <1>0, <1>2
  <2> QED
    BY <2>1, <2>2
<1>5. Max(R) \in R /\ \A i \in R : i <= Max(R)
  BY <1>0, <1>4, MaxIn
<1> QED
  BY <1>0, <1>1, <1>2, <1>3, <1>5 DEF n

\* What a counter adds is a number.
LEMMA AddedTyped ==
    ASSUME NEW last \in Int, NEW hits \in Int
    PROVE  (last * hits) \div Unit \in Int
<1>1. \A x \in Int, y \in Nat \ {0} : x \div y \in Int
  OBVIOUS
<1>2. last * hits \in Int /\ Unit \in Nat \ {0}
  BY MetricsAssumption
<1> QED
  BY <1>1, <1>2

\* The figures of the lines have their types, and the values are those of float32.
LEMMA GatheredIs ==
    ASSUME NEW ls \in EntryLines
    PROVE  /\ Len(ls) \in 1 .. MaxLines
           /\ \A i \in 1 .. Len(ls) :
                 /\ ParsedOf(ls, i).type \in Types /\ ParsedOf(ls, i).hits \in Nat \ {0}
                 /\ ParsedOf(ls, i).last \in Int
           /\ ValuesOf(ls) \in Seq(Int) /\ Len(ValuesOf(ls)) = Len(ls)
           /\ \A i \in 1 .. Len(ls) :
                 /\ ValuesOf(ls)[i] = ParsedOf(ls, i).last
                 /\ MultipleOf(ValuesOf(ls)[i], Quantum) /\ MultipleOf(Quantum, i)
           /\ MultipleOf(Quantum, 2)
           /\ SumFunction(HitsOf(ls)) \in Nat
           /\ ExpectedOf(ls) \in Int
<1> DEFINE n == Len(ls)
<1>0. DOMAIN ls = 1 .. n /\ n \in 1 .. MaxLines /\ IsFiniteSet(1 .. n)
  <2>1. MaxLines \in Nat \ {0}
    BY MetricsAssumption
  <2>2. DOMAIN ls = 1 .. n /\ n \in 1 .. MaxLines
    BY <2>1 DEF EntryLines
  <2>3. n \in Int
    BY <2>1, <2>2
  <2> QED
    BY <2>2, <2>3, FS_Interval
<1>1. \A i \in 1 .. n : ls[i] \in Inputs /\ Parses(ls[i])
  BY <1>0 DEF EntryLines
<1>2. \A i \in 1 .. n : /\ ParsedOf(ls, i).type \in Types /\ ParsedOf(ls, i).hits \in Nat \ {0}
                        /\ ParsedOf(ls, i).last \in Int /\ MultipleOf(ParsedOf(ls, i).last, Quantum)
  BY <1>1, ParsedIs DEF ParsedOf
<1>3. /\ ValuesOf(ls) \in Seq(Int) /\ Len(ValuesOf(ls)) = n
      /\ \A i \in 1 .. n : ValuesOf(ls)[i] = ParsedOf(ls, i).last
  BY <1>0, <1>2 DEF ValuesOf
<1> HIDE DEF n
<1>4. \A i \in 1 .. n : MultipleOf(Quantum, i) /\ MultipleOf(Quantum, 2)
  <2> SUFFICES ASSUME NEW i \in 1 .. n PROVE MultipleOf(Quantum, i) /\ MultipleOf(Quantum, 2)
    OBVIOUS
  <2>1. i \in 1 .. MaxLines /\ i \in Nat \ {0} /\ Quantum \in Nat \ {0}
    BY <1>0, MetricsAssumption
  <2>2. Quantum % (2 * i) = 0
    BY <2>1, MetricsAssumption
  <2>3. PICK k \in Int : Quantum = (2 * i) * k
    <3>1. \A x \in Nat, y \in Nat \ {0} : x % y = 0 => \E k \in Int : x = y * k
      <4>1. \A x \in Nat, y \in Nat \ {0} : x = ((y * (x \div y)) + (x % y)) /\ x \div y \in Int
        OBVIOUS
      <4>2. \A x \in Nat, y \in Nat \ {0} : x % y = 0 => x = y * (x \div y)
        <5> SUFFICES ASSUME NEW x \in Nat, NEW y \in Nat \ {0}, x % y = 0
                     PROVE  x = y * (x \div y)
          OBVIOUS
        <5>1. y * (x \div y) \in Int
          BY <4>1
        <5> QED
          BY <4>1, <5>1
      <4> QED
        BY <4>1, <4>2
    <3>2. 2 * i \in Nat \ {0}
      BY <2>1
    <3> QED
      BY <2>1, <2>2, <3>1, <3>2
  <2>4. Quantum = i * (2 * k) /\ Quantum = 2 * (i * k) /\ 2 * k \in Int /\ i * k \in Int
    <3>1. (2 * i) * k = i * (2 * k) /\ (2 * i) * k = 2 * (i * k)
      BY <2>1
    <3> QED
      BY <2>1, <2>3, <3>1
  <2> QED
    BY <2>4 DEF MultipleOf
<1>5. SumFunction(HitsOf(ls)) \in Nat
  <2>1. DOMAIN HitsOf(ls) = 1 .. n /\ \A i \in 1 .. n : HitsOf(ls)[i] \in Int /\ HitsOf(ls)[i] >= 0
    BY <1>0, <1>2 DEF HitsOf
  <2> DEFINE zero == [i \in 1 .. n |-> 0]
             S == 1 .. n
  <2>2. \A i \in S : zero[i] = 0 /\ zero[i] \in Int /\ 1 * zero[i] <= 1 * HitsOf(ls)[i]
    BY <2>1
  <2>3. IsFiniteSet(S) /\ \A i \in S : HitsOf(ls)[i] \in Int
    BY <1>0, <2>1
  <2> HIDE DEF zero, S
  <2>4. SumFunctionOnSet(zero, S) = 0
    BY <2>2, <2>3, SumZero
  <2>5. SumFunctionOnSet(HitsOf(ls), S) \in Int
    BY <2>3, SumType
  <2>6. 1 * SumFunctionOnSet(zero, S) <= 1 * SumFunctionOnSet(HitsOf(ls), S)
    BY <2>2, <2>3, SumScaleBound, 1 \in Int
  <2>7. SumFunctionOnSet(HitsOf(ls), S) \in Nat
    BY <2>4, <2>5, <2>6
  <2> QED
    BY <2>1, <2>7 DEF SumFunction, S
<1>6. ExpectedOf(ls) \in Int
  <2> DEFINE S == ResetOf(ls) + 1 .. n
             T == SumFunctionOnSet(AddedOf(ls), S)
  <2>1. ResetOf(ls) \in 1 .. n
    BY <1>0, ResetIs DEF EntryLines, n
  <2>2. IsFiniteSet(S) /\ \A i \in S : i \in 1 .. n
    BY <1>0, <2>1, FS_Interval
  <2>3. ExpectedOf(ls) = ParsedOf(ls, ResetOf(ls)).last + T
    BY DEF ExpectedOf, AddedOf, n
  <2>4. \A i \in S : AddedOf(ls)[i] \in Int
    BY <1>0, <1>2, <2>2, AddedTyped DEF AddedOf
  <2> HIDE DEF S
  <2>5. T \in Int
    BY <2>2, <2>4, SumType
  <2> HIDE DEF T
  <2> QED
    BY <1>2, <2>1, <2>3, <2>5
<1> QED
  BY <1>0, <1>2, <1>3, <1>4, <1>5, <1>6 DEF n

\* The fields of the entry that lines add up to.
LEMMA GatheredFields ==
    ASSUME NEW ls \in EntryLines
    PROVE  /\ GatheredOf(ls).type = ParsedOf(ls, 1).type /\ GatheredOf(ls).type \in Types
           /\ GatheredOf(ls).last = ExpectedOf(ls)
           /\ GatheredOf(ls).hits = SumFunction(HitsOf(ls))
           /\ GatheredOf(ls).all = ValuesOf(ls)
<1>1. ParsedOf(ls, 1).type \in Types
  <2>1. 1 \in 1 .. Len(ls)
    BY GatheredIs
  <2> QED
    BY <2>1, GatheredIs
<1> QED
  BY <1>1 DEF GatheredOf

\* A first line is the entry.
LEMMA FirstLine ==
    ASSUME NEW line \in Inputs, Parses(line)
    PROVE  /\ <<line>> \in EntryLines
           /\ GatheredOf(<<line>>) = ParseMetricString(line)
<1> DEFINE ls == <<line>>
           m == ParseMetricString(line)
<1>1. ls \in EntryLines
  BY MetricsAssumption DEF EntryLines
<1>2. /\ m.type \in Types /\ m.hits \in Nat \ {0} /\ m.last \in Int
      /\ m.all = <<m.last>>
      /\ m = [type |-> m.type, hits |-> m.hits, last |-> m.last, all |-> m.all]
  <2>1. m.type \in Types /\ m.hits \in Nat \ {0} /\ m.last \in Int /\ m.all = <<m.last>>
    BY ParsedIs
  <2>2. m = [type |-> m.type, hits |-> m.hits, last |-> m.last, all |-> m.all]
    BY DEF ParseMetricString
  <2> QED
    BY <2>1, <2>2
<1>3. /\ DOMAIN ls = {1} /\ Len(ls) = 1 /\ \A i \in {1} : ParsedOf(ls, i) = m
  BY DEF ParsedOf
<1> HIDE DEF m, ls
<1>4. ResetOf(ls) = 1
  <2>1. ResetOf(ls) \in 1 .. Len(ls)
    BY <1>1, ResetIs
  <2> QED
    BY <1>3, <2>1
<1>5. ValuesOf(ls) = m.all
  BY <1>2, <1>3 DEF ValuesOf
<1>6. SumFunction(HitsOf(ls)) = m.hits
  <2>1. DOMAIN HitsOf(ls) = {1} /\ HitsOf(ls)[1] = m.hits
    BY <1>3 DEF HitsOf
  <2> DEFINE h == HitsOf(ls)
             S == {1}
  <2>2. IsFiniteSet(S) /\ 1 \in S /\ S \ {1} = {}
    BY FS_Singleton
  <2>3. h[1] \in Int /\ \A i \in S : h[i] \in Int
    BY <1>2, <2>1
  <2> HIDE DEF S, h
  <2>4. SumFunctionOnSet(h, S) = h[1] + SumFunctionOnSet(h, S \ {1})
    BY <2>2, <2>3, SumRemove
  <2>5. SumFunctionOnSet(h, {}) = 0
    BY SumEmpty
  <2>6. SumFunctionOnSet(h, S) = h[1] + 0
    BY <2>2, <2>4, <2>5
  <2>7. SumFunctionOnSet(h, S) = h[1]
    BY <2>3, <2>6
  <2> QED
    BY <2>1, <2>7 DEF SumFunction, h, S
<1>7. ExpectedOf(ls) = m.last
  <2>1. ResetOf(ls) + 1 .. Len(ls) = {}
    BY <1>3, <1>4
  <2>2. SumFunctionOnSet(AddedOf(ls), {}) = 0
    BY SumEmpty
  <2> QED
    BY <1>2, <1>3, <1>4, <2>1, <2>2 DEF ExpectedOf
<1>8. GatheredOf(ls) = m
  BY <1>2, <1>3, <1>5, <1>6, <1>7 DEF GatheredOf
<1> QED
  BY <1>1, <1>8 DEF m, ls

\* What one more line changes: those before it keep their places.
LEMMA LineAdded ==
    ASSUME NEW ls \in EntryLines, NEW line \in Inputs, Parses(line), Len(ls) < MaxLines
    PROVE  /\ Append(ls, line) \in EntryLines
           /\ Len(Append(ls, line)) = Len(ls) + 1
           /\ \A i \in 1 .. Len(ls) : ParsedOf(Append(ls, line), i) = ParsedOf(ls, i)
           /\ ParsedOf(Append(ls, line), Len(ls) + 1) = ParseMetricString(line)
<1> DEFINE ks == Append(ls, line)
           n == Len(ls)
<1>1. ls \in Seq(Inputs) /\ n \in Nat /\ DOMAIN ls = 1 .. n
  BY DEF EntryLines
<1>2. /\ ks \in Seq(Inputs) /\ Len(ks) = n + 1 /\ DOMAIN ks = 1 .. (n + 1)
      /\ \A i \in 1 .. n : ks[i] = ls[i]
      /\ ks[n + 1] = line
  BY <1>1
<1>3. \A i \in 1 .. (n + 1) : i \in 1 .. n \/ i = n + 1
  BY <1>1
<1>4. \A i \in 1 .. n : Parses(ls[i])
  BY <1>1 DEF EntryLines
<1>5. \A i \in DOMAIN ks : Parses(ks[i])
  BY <1>2, <1>3, <1>4
<1>6. n + 1 <= MaxLines
  BY <1>1, MetricsAssumption
<1> HIDE DEF ks, n
<1>9. ks # <<>> /\ Len(ks) <= MaxLines
  BY <1>1, <1>2, <1>6
<1>7. ks \in EntryLines
  BY <1>2, <1>5, <1>9 DEF EntryLines
<1>8. (\A i \in 1 .. n : ParsedOf(ks, i) = ParsedOf(ls, i))
      /\ ParsedOf(ks, n + 1) = ParseMetricString(line)
  BY <1>2 DEF ParsedOf
<1> QED
  BY <1>2, <1>7, <1>8 DEF ks, n

\* A sum over one line more.
LEMMA SumAdded ==
    ASSUME NEW n \in Nat, NEW r \in Nat, r <= n, NEW f, NEW g,
           \A i \in 1 .. n : f[i] \in Int /\ g[i] = f[i],
           g[n + 1] \in Int
    PROVE  SumFunctionOnSet(g, r + 1 .. n + 1)
             = SumFunctionOnSet(f, r + 1 .. n) + g[n + 1]
<1> DEFINE S == r + 1 .. n + 1
           U == r + 1 .. n
<1>0. r + 1 \in Int /\ n + 1 \in Int /\ n \in Int
  OBVIOUS
<1>1. n + 1 \in S /\ S \ {n + 1} = U /\ IsFiniteSet(S) /\ IsFiniteSet(U)
  <2>1. n + 1 \in S
    OBVIOUS
  <2>2. \A i : i \in S \ {n + 1} <=> i \in U
    OBVIOUS
  <2>3. IsFiniteSet(S) /\ IsFiniteSet(U)
    BY <1>0, FS_Interval
  <2> QED
    BY <2>1, <2>2, <2>3
<1>2. \A i \in U : i \in 1 .. n /\ i \in S
  OBVIOUS
<1>3. \A i \in S : i \in U \/ i = n + 1
  OBVIOUS
<1>4. (\A i \in U : f[i] \in Int /\ f[i] = g[i]) /\ \A i \in S : g[i] \in Int
  BY <1>2, <1>3
<1> HIDE DEF S, U
<1>5. SumFunctionOnSet(g, S) = g[n + 1] + SumFunctionOnSet(g, S \ {n + 1})
  BY <1>1, <1>4, SumRemove
<1>6. SumFunctionOnSet(f, U) = SumFunctionOnSet(g, U)
  BY <1>1, <1>4, SumEqual
<1>7. SumFunctionOnSet(f, U) \in Int
  BY <1>1, <1>4, SumType
<1> DEFINE A == SumFunctionOnSet(f, U)
           x == g[n + 1]
<1>8. SumFunctionOnSet(g, S) = x + A
  BY <1>1, <1>5, <1>6
<1>9. A \in Int /\ x \in Int
  BY <1>7
<1> HIDE DEF A, x
<1>10. SumFunctionOnSet(g, S) = A + x
  BY <1>8, <1>9
<1> QED
  BY <1>10 DEF S, U, A, x

\* A further line joins the entry as AggregateMetric has it.
LEMMA FurtherLine ==
    ASSUME NEW ls \in EntryLines, NEW line \in Inputs, Parses(line), Len(ls) < MaxLines,
           GatheredOf(ls) # None
    PROVE  GatheredOf(Append(ls, line))
             = AggregateMetric(GatheredOf(ls), ParseMetricString(line))
<1> DEFINE ks == Append(ls, line)
           n == Len(ls)
           m == ParseMetricString(line)
<1>1. /\ ks \in EntryLines /\ Len(ks) = n + 1
      /\ \A i \in 1 .. n : ParsedOf(ks, i) = ParsedOf(ls, i)
      /\ ParsedOf(ks, n + 1) = m
  BY LineAdded
<1>2. n \in Nat \ {0} /\ DOMAIN ls = 1 .. n /\ DOMAIN ks = 1 .. (n + 1)
  BY <1>1 DEF EntryLines
<1>3. \A i \in 1 .. (n + 1) : i \in 1 .. n \/ i = n + 1
  BY <1>2
<1>4. m.hits \in Nat \ {0} /\ m.last \in Int
  BY ParsedIs
<1>5. /\ \A i \in 1 .. n : ParsedOf(ls, i).hits \in Nat \ {0} /\ ParsedOf(ls, i).last \in Int
      /\ ValuesOf(ls) \in Seq(Int) /\ Len(ValuesOf(ls)) = n
      /\ ExpectedOf(ls) \in Int /\ SumFunction(HitsOf(ls)) \in Nat
      /\ \A i \in 1 .. n : ValuesOf(ls)[i] = ParsedOf(ls, i).last
  BY GatheredIs
<1> HIDE DEF ks, n, m
<1>6. ValuesOf(ks) = Append(ValuesOf(ls), m.last)
  <2> DEFINE vs == ValuesOf(ls)
             as == Append(vs, m.last)
  <2>1. vs \in Seq(Int) /\ Len(vs) = n
    BY <1>5
  <2>2. /\ as \in Seq(Int) /\ Len(as) = n + 1 /\ as[n + 1] = m.last
        /\ \A i \in 1 .. n : as[i] = vs[i]
    <3> HIDE DEF vs
    <3> QED
      BY <1>2, <1>4, <2>1
  <2>3. ValuesOf(ks) \in Seq(Int) /\ Len(ValuesOf(ks)) = n + 1
    BY <1>1, GatheredIs
  <2>4. \A i \in 1 .. (n + 1) : ValuesOf(ks)[i] = ParsedOf(ks, i).last
    BY <1>1, GatheredIs
  <2>5. \A i \in 1 .. (n + 1) : ParsedOf(ks, i).last = as[i]
    <3>1. \A i \in 1 .. n : ParsedOf(ks, i).last = as[i]
      BY <1>1, <1>5, <2>2
    <3>2. ParsedOf(ks, n + 1).last = as[n + 1]
      BY <1>1, <2>2
    <3> QED
      BY <1>3, <3>1, <3>2
  <2> HIDE DEF as
  <2>6. ValuesOf(ks) = as
    BY <2>2, <2>3, <2>4, <2>5, SeqEqual
  <2> QED
    BY <2>6 DEF as
<1>7. SumFunction(HitsOf(ks)) = SumFunction(HitsOf(ls)) + m.hits
  <2> DEFINE f == HitsOf(ls)
             g == HitsOf(ks)
  <2>1. DOMAIN f = 1 .. n /\ \A i \in 1 .. n : f[i] = ParsedOf(ls, i).hits
    BY <1>2 DEF HitsOf
  <2>2. DOMAIN g = 1 .. (n + 1) /\ \A i \in 1 .. (n + 1) : g[i] = ParsedOf(ks, i).hits
    BY <1>2 DEF HitsOf
  <2>3. \A i \in 1 .. n : i \in 1 .. (n + 1)
    BY <1>2
  <2>4. /\ \A i \in 1 .. n : f[i] \in Int /\ g[i] = f[i]
        /\ g[n + 1] = m.hits
    BY <1>1, <1>2, <1>5, <2>1, <2>2, <2>3
  <2> HIDE DEF f, g
  <2>5. SumFunctionOnSet(g, 0 + 1 .. n + 1) = SumFunctionOnSet(f, 0 + 1 .. n) + g[n + 1]
    <3>1. 0 \in Nat /\ 0 <= n /\ n \in Nat /\ g[n + 1] \in Int
      BY <1>2, <1>4, <2>4
    <3> QED
      BY <2>4, <3>1, SumAdded
  <2>6. SumFunctionOnSet(g, DOMAIN g) = SumFunctionOnSet(f, DOMAIN f) + m.hits
    BY <2>1, <2>2, <2>4, <2>5
  <2> QED
    BY <2>6 DEF SumFunction, f, g
<1>8. ExpectedOf(ks) = IF m.type = "counter" THEN ExpectedOf(ls) + (m.last * m.hits) \div Unit
                          ELSE m.last
  <2> DEFINE r == ResetOf(ls)
             R == ResetOf(ks)
  <2>1. /\ r \in 1 .. n
        /\ r = 1 \/ ParsedOf(ls, r).type # "counter"
        /\ \A i \in 1 .. n : i = 1 \/ ParsedOf(ls, i).type # "counter" => i <= r
    BY ResetIs DEF n
  <2>2. /\ R \in 1 .. (n + 1)
        /\ R = 1 \/ ParsedOf(ks, R).type # "counter"
        /\ \A i \in 1 .. (n + 1) : i = 1 \/ ParsedOf(ks, i).type # "counter" => i <= R
    BY <1>1, ResetIs
  <2>3. ExpectedOf(ls) = ParsedOf(ls, r).last + SumFunctionOnSet(AddedOf(ls), r + 1 .. n)
    BY DEF ExpectedOf, n
  <2>4. ExpectedOf(ks) = ParsedOf(ks, R).last + SumFunctionOnSet(AddedOf(ks), R + 1 .. n + 1)
    BY <1>1 DEF ExpectedOf
  <2> HIDE DEF r, R
  <2>5. CASE m.type = "counter"
    <3>1. R \in 1 .. n
      BY <1>1, <1>2, <1>3, <2>2, <2>5
    <3>2. R = r
      <4>1. R <= r
        BY <1>1, <2>1, <2>2, <3>1
      <4>2. r <= R
        BY <1>1, <1>2, <2>1, <2>2
      <4> QED
        BY <2>1, <3>1, <4>1, <4>2
    <3> DEFINE f == AddedOf(ls)
               g == AddedOf(ks)
    <3>3. \A i \in 1 .. n : f[i] = (ParsedOf(ls, i).last * ParsedOf(ls, i).hits) \div Unit
      BY <1>2 DEF AddedOf
    <3>4. \A i \in 1 .. (n + 1) : g[i] = (ParsedOf(ks, i).last * ParsedOf(ks, i).hits) \div Unit
      BY <1>2 DEF AddedOf
    <3>5. \A i \in 1 .. n :
             i \in 1 .. (n + 1) /\ (ParsedOf(ls, i).last * ParsedOf(ls, i).hits) \div Unit \in Int
      <4> SUFFICES ASSUME NEW i \in 1 .. n
                   PROVE  i \in 1 .. (n + 1)
                          /\ (ParsedOf(ls, i).last * ParsedOf(ls, i).hits) \div Unit \in Int
        OBVIOUS
      <4>1. ParsedOf(ls, i).last \in Int /\ ParsedOf(ls, i).hits \in Int
        BY <1>5
      <4>2. (ParsedOf(ls, i).last * ParsedOf(ls, i).hits) \div Unit \in Int
        BY <4>1, AddedTyped
      <4> QED
        BY <1>2, <4>2
    <3>6. n + 1 \in 1 .. (n + 1) /\ (m.last * m.hits) \div Unit \in Int
      BY <1>2, <1>4, AddedTyped
    <3>7. \A i \in 1 .. n : f[i] \in Int /\ g[i] = f[i]
      BY <1>1, <3>3, <3>4, <3>5
    <3>8. g[n + 1] = (m.last * m.hits) \div Unit
      BY <1>1, <3>4, <3>6
    <3> HIDE DEF f, g
    <3>9. r \in Nat /\ r <= n /\ n \in Nat
      BY <1>2, <2>1
    <3>10. SumFunctionOnSet(g, r + 1 .. n + 1) = SumFunctionOnSet(f, r + 1 .. n) + g[n + 1]
      BY <3>6, <3>7, <3>8, <3>9, SumAdded
    <3>11. ParsedOf(ls, r).last \in Int /\ ParsedOf(ks, r) = ParsedOf(ls, r)
      BY <1>1, <1>5, <2>1
    <3>12. SumFunctionOnSet(f, r + 1 .. n) \in Int
      <4> DEFINE U == r + 1 .. n
      <4>1. IsFiniteSet(U) /\ \A i \in U : f[i] \in Int
        BY <3>7, <3>9, FS_Interval
      <4> HIDE DEF U
      <4>2. SumFunctionOnSet(f, U) \in Int
        BY <4>1, SumType
      <4> QED
        BY <4>2 DEF U
    <3> DEFINE A == SumFunctionOnSet(f, r + 1 .. n)
               B == SumFunctionOnSet(g, r + 1 .. n + 1)
               x == ParsedOf(ls, r).last
               y == (m.last * m.hits) \div Unit
    <3>13. ExpectedOf(ls) = x + A
      BY <2>3 DEF f
    <3>14. ExpectedOf(ks) = x + B
      BY <2>4, <3>2, <3>11 DEF g
    <3>15. A \in Int /\ x \in Int /\ y \in Int /\ B = A + y
      BY <3>6, <3>8, <3>10, <3>11, <3>12
    <3> HIDE DEF A, B, x, y
    <3>16. ExpectedOf(ks) = ExpectedOf(ls) + y
      BY <3>13, <3>14, <3>15
    <3> QED
      BY <2>5, <3>16 DEF y
  <2>6. CASE m.type # "counter"
    <3>1. n + 1 <= R
      BY <1>1, <1>2, <2>2, <2>6
    <3>2. R = n + 1
      BY <1>2, <2>2, <3>1
    <3>3. R + 1 .. n + 1 = {}
      BY <1>2, <3>2
    <3>4. SumFunctionOnSet(AddedOf(ks), {}) = 0
      BY SumEmpty
    <3> QED
      BY <1>1, <1>4, <2>4, <2>6, <3>2, <3>3, <3>4
  <2> QED
    BY <2>5, <2>6
<1>9. ParsedOf(ks, 1) = ParsedOf(ls, 1)
  BY <1>1, <1>2
<1> DEFINE G == GatheredOf(ls)
<1>10. /\ G.type = ParsedOf(ls, 1).type /\ G.hits = SumFunction(HitsOf(ls))
       /\ G.last = ExpectedOf(ls) /\ G.all = ValuesOf(ls)
       /\ G = [type |-> G.type, hits |-> G.hits, last |-> G.last, all |-> G.all]
  BY DEF GatheredOf
<1>11. GatheredOf(ks) = [type |-> G.type, hits |-> G.hits + m.hits,
                         last |-> Combine(G, m), all |-> Append(G.all, m.last)]
  BY <1>6, <1>7, <1>8, <1>9, <1>10 DEF GatheredOf, Combine
<1> HIDE DEF G
<1>12. AggregateMetric(G, m) = [G EXCEPT !.hits = @ + m.hits,
                                         !.all  = Append(@, m.last),
                                         !.last = Combine(G, m)]
  BY DEF AggregateMetric, G
<1>13. AggregateMetric(G, m) = GatheredOf(ks)
  BY <1>10, <1>11, <1>12
<1> QED
  BY <1>13 DEF G, ks, m

-----------------------------------------------------------------------------
(***************************************************************************)
(* The figures that Flush computes.                                        *)
(***************************************************************************)

\* The sorted values of an entry, and what is computed from all of them.
LEMMA SortedFigures ==
    ASSUME NEW ls \in EntryLines
    PROVE  LET s == Sorted(ValuesOf(ls))
           IN /\ s \in Seq(Int) /\ s # <<>> /\ Len(s) = Len(ls) /\ Ordered(s)
              /\ DOMAIN s = 1 .. Len(ls)
              /\ \A i \in 1 .. Len(ls) : MultipleOf(s[i], Quantum) /\ MultipleOf(Quantum, i)
              /\ MultipleOf(Quantum, 2)
              /\ \E p : /\ Permutes(p, Len(ls))
                        /\ \A k \in 1 .. Len(ls) : s[k] = ValuesOf(ls)[p[k]]
              /\ Minmax(s).min \in Int /\ Minmax(s).max \in Int
              /\ Median(s) \in Int /\ Mean(s) \in Int
<1> DEFINE vals == ValuesOf(ls)
           s == Sorted(vals)
           n == Len(ls)
<1>1. /\ n \in Nat \ {0} /\ vals \in Seq(Int) /\ Len(vals) = n
      /\ \A i \in 1 .. n : MultipleOf(vals[i], Quantum) /\ MultipleOf(Quantum, i)
      /\ MultipleOf(Quantum, 2)
  BY GatheredIs
<1> HIDE DEF vals, n
<1>2. /\ s \in Seq(Int) /\ Len(s) = n /\ Ordered(s)
      /\ \E p : Permutes(p, n) /\ \A k \in 1 .. n : s[k] = vals[p[k]]
  BY <1>1, SortedIs
<1> HIDE DEF s
<1>3. s # <<>> /\ DOMAIN s = 1 .. n
  BY <1>1, <1>2
<1>4. \A i \in 1 .. n : MultipleOf(s[i], Quantum)
  <2>1. PICK p : Permutes(p, n) /\ \A k \in 1 .. n : s[k] = vals[p[k]]
    BY <1>2
  <2>2. \A k \in 1 .. n : p[k] \in 1 .. n
    BY <2>1, PermutesIs
  <2> QED
    BY <1>1, <2>1, <2>2
<1>5. Minmax(s).min \in Int /\ Minmax(s).max \in Int
  <2>1. \A i \in DOMAIN s : s[i] \in Int
    BY <1>2
  <2> QED
    BY <1>2, <1>3, <2>1, MinmaxIs
<1>6. Quantum \in Int
  BY MetricsAssumption
<1>7. Median(s) \in Int
  BY <1>1, <1>2, <1>3, <1>4, <1>6, MedianIs
<1>8. Mean(s) \in Int
  BY <1>1, <1>2, <1>3, <1>4, <1>6, MeanIs
<1> QED
  BY <1>1, <1>2, <1>3, <1>4, <1>5, <1>7, <1>8 DEF s, vals, n

\* What is computed from the values of a quantile.
LEMMA QuantileFigures ==
    ASSUME NEW ls \in EntryLines, NEW q \in Int, NEW short,
           Within(Sorted(ValuesOf(ls)), q, short) # <<>>
    PROVE  LET m == MetricQuantile(Sorted(ValuesOf(ls)), q, short)
               w == Within(Sorted(ValuesOf(ls)), q, short)
           IN /\ m.quantile = q /\ m.size = Len(w) /\ m.size \in 1 .. Len(ls)
              /\ m.max = Minmax(w).max /\ m.max \in Int
              /\ m.mean \in Int /\ m.median \in Int /\ m.sum \in Int
              /\ m.mean * m.size = m.sum
<1> DEFINE s == Sorted(ValuesOf(ls))
           w == Within(s, q, short)
           n == Len(ls)
           k == Len(w)
<1>1. /\ s \in Seq(Int) /\ s # <<>> /\ Len(s) = n /\ Ordered(s) /\ DOMAIN s = 1 .. n
      /\ \A i \in 1 .. n : MultipleOf(s[i], Quantum) /\ MultipleOf(Quantum, i)
      /\ MultipleOf(Quantum, 2)
  BY SortedFigures
<1>2. /\ MetricQuantile(s, q, short).quantile = q
      /\ MetricQuantile(s, q, short).size = k
      /\ MetricQuantile(s, q, short).max = Minmax(w).max
      /\ MetricQuantile(s, q, short).mean = Mean(w)
      /\ MetricQuantile(s, q, short).median = Median(w)
      /\ MetricQuantile(s, q, short).sum = Sum(w)
  BY DEF MetricQuantile
<1>3. w # <<>>
  OBVIOUS
<1> HIDE DEF s
<1>4. w \in Seq(Int) /\ k \in 0 .. Len(s) /\ \A j \in 1 .. k : w[j] = s[j]
  BY <1>1, WithinIs
<1> HIDE DEF w
<1>5. k \in 1 .. n /\ DOMAIN w = 1 .. k /\ n \in Nat
  <2>1. n \in Nat
    BY <1>1
  <2> QED
    BY <1>1, <1>3, <1>4, <2>1
<1> HIDE DEF k, n
<1>6. \A j \in 1 .. k : j \in 1 .. n
  BY <1>5
<1>7. \A j \in DOMAIN w : MultipleOf(w[j], Quantum) /\ MultipleOf(Quantum, j)
  BY <1>1, <1>4, <1>5, <1>6
<1>8. Ordered(w)
  BY <1>1, <1>4, <1>5, <1>6 DEF Ordered
<1>9. Quantum \in Int
  BY MetricsAssumption
<1>10. Mean(w) * Len(w) = SumFunction(w) /\ Mean(w) \in Int
  BY <1>4, <1>7, <1>9, MeanIs
<1>11. Median(w) \in Int
  BY <1>1, <1>3, <1>4, <1>7, <1>8, <1>9, MedianIs
<1>12. Sum(w) = SumFunction(w) /\ Sum(w) \in Int
  BY <1>4, SumIs
<1>13. Minmax(w).max \in Int
  <2>1. \A i \in DOMAIN w : w[i] \in Int
    BY <1>4
  <2> QED
    BY <1>3, <1>4, <2>1, MinmaxIs
<1> QED
  BY <1>2, <1>5, <1>10, <1>11, <1>12, <1>13 DEF w, s, k, n

\* A sequence of sequences, one after the other: the turns of the recursion.
LEMMA FlattenSteps ==
    ASSUME NEW T, NEW seqs \in Seq(Seq(T)), seqs # <<>>
    PROVE  \E it : /\ it[1] = seqs[1] /\ FlattenSeq(seqs) = it[Len(seqs)]
                   /\ \A i \in Nat \ {0} :
                         i + 1 <= Len(seqs) => it[i + 1] = it[i] \o seqs[i + 1]
<1> DEFINE n == Len(seqs)
           V == Seq(T)
           F == [i \in Nat \ {0} |-> [v \in V |->
                    IF i = 1 THEN seqs[1] ELSE IF i <= n THEN v \o seqs[i] ELSE v]]
<1>0. /\ n \in Nat \ {0} /\ DOMAIN seqs = 1 .. n /\ 1 \in 1 .. n
      /\ \A i \in 1 .. n : seqs[i] \in V
  OBVIOUS
<1>1. <<>> \in V /\ \A x, y \in V : x \o y \in V
  OBVIOUS
<1> HIDE DEF V
<1>2. \A i \in Nat \ {0}, v \in V :
         F[i][v] = (IF i = 1 THEN seqs[1] ELSE IF i <= n THEN v \o seqs[i] ELSE v)
  OBVIOUS
<1> HIDE DEF F, n
<1>3. \A i \in Nat \ {0}, v \in V : F[i][v] \in V
  <2> SUFFICES ASSUME NEW i \in Nat \ {0}, NEW v \in V PROVE F[i][v] \in V
    OBVIOUS
  <2>1. i <= n => i \in 1 .. n
    BY <1>0
  <2> QED
    BY <1>0, <1>1, <1>2, <2>1
<1>4. PICK r \in [Nat -> V] : Recursion(r, <<>>, F)
  BY ONLY <1>1, <1>3, RecursionExists
<1> DEFINE g == [i \in 1 .. n |-> r[i]]
<1>5. g = [i \in 1 .. n |-> IF i = 1 THEN seqs[i] ELSE g[i - 1] \o seqs[i]]
  <2>1. ASSUME NEW i \in 1 .. n
        PROVE  r[i] = IF i = 1 THEN seqs[i] ELSE g[i - 1] \o seqs[i]
    <3>1. i \in Nat \ {0} /\ i - 1 \in Nat /\ i <= n
      BY <1>0
    <3>2. r[i] = F[i][r[i - 1]] /\ r[i - 1] \in V
      BY <1>4, <3>1 DEF Recursion
    <3>3. i # 1 => i - 1 \in 1 .. n
      BY <1>0, <3>1
    <3>4. i # 1 => g[i - 1] = r[i - 1]
      BY <3>3
    <3> HIDE DEF g
    <3> QED
      BY <1>2, <3>1, <3>2, <3>4
  <2> QED
    BY <2>1
<1> DEFINE it == CHOOSE f : f = [i \in 1 .. n |-> IF i = 1 THEN seqs[i] ELSE f[i - 1] \o seqs[i]]
<1>6. it = [i \in 1 .. n |-> IF i = 1 THEN seqs[i] ELSE it[i - 1] \o seqs[i]]
  BY <1>5
<1>7. FlattenSeq(seqs) = it[n]
  BY <1>0 DEF FlattenSeq, n
<1> HIDE DEF it
<1>8. \A i \in 1 .. n : it[i] = IF i = 1 THEN seqs[i] ELSE it[i - 1] \o seqs[i]
  BY <1>6
<1>9. ASSUME NEW i \in Nat \ {0}, i + 1 <= n PROVE it[i + 1] = it[i] \o seqs[i + 1]
  <2>1. i + 1 \in 1 .. n /\ i + 1 # 1 /\ (i + 1) - 1 = i
    BY <1>0, <1>9
  <2>2. it[i + 1] = it[(i + 1) - 1] \o seqs[i + 1]
    BY <1>8, <2>1
  <2> QED
    BY <2>1, <2>2
<1>10. it[1] = seqs[1]
  BY <1>0, <1>8
<1> QED
  BY <1>7, <1>9, <1>10 DEF n

\* What comes out are the elements of the parts.
LEMMA FlattenTyped ==
    ASSUME NEW T, NEW seqs \in Seq(Seq(T))
    PROVE  FlattenSeq(seqs) \in Seq(T)
<1> DEFINE n == Len(seqs)
           V == Seq(T)
<1>0. n \in Nat /\ \A i \in 1 .. n : seqs[i] \in V
  OBVIOUS
<1>1. CASE seqs = <<>>
  <2>1. FlattenSeq(seqs) = seqs
    BY <1>1 DEF FlattenSeq
  <2>2. <<>> \in V
    OBVIOUS
  <2> HIDE DEF V
  <2> QED
    BY <1>1, <2>1, <2>2 DEF V
<1>2. CASE seqs # <<>>
  <2>1. PICK it : /\ it[1] = seqs[1] /\ FlattenSeq(seqs) = it[n]
                  /\ \A i \in Nat \ {0} : i + 1 <= n => it[i + 1] = it[i] \o seqs[i + 1]
    BY <1>2, FlattenSteps
  <2>2. \A x, y \in V : x \o y \in V
    OBVIOUS
  <2>3. n \in 1 .. n
    BY <1>2
  <2> HIDE DEF V, n
  <2> DEFINE G == {i \in Nat : i \in 1 .. n => it[i] \in V}
  <2>4. 0 \in G
    OBVIOUS
  <2>5. ASSUME NEW i \in Nat, i \in G PROVE i + 1 \in G
    <3> SUFFICES ASSUME i + 1 \in 1 .. n PROVE it[i + 1] \in V
      OBVIOUS
    <3>1. seqs[i + 1] \in V /\ (i + 1) - 1 = i /\ (i # 0 => i \in 1 .. n)
      BY <1>0
    <3>2. i # 0 => it[i] \in V
      BY <2>5, <3>1
    <3>3. ASSUME i # 0 PROVE it[i + 1] = it[i] \o seqs[i + 1]
      <4>1. i \in Nat \ {0} /\ i + 1 <= n
        BY <1>0, <3>3
      <4> QED
        BY <2>1, <4>1
    <3>4. CASE i = 0
      <4>1. it[i + 1] = seqs[i + 1]
        BY <2>1, <3>4
      <4> QED
        BY <3>1, <4>1
    <3>5. CASE i # 0
      BY <2>2, <3>1, <3>2, <3>3, <3>5
    <3> QED
      BY <3>4, <3>5
  <2> HIDE DEF G
  <2>6. n \in G
    BY <1>0, <2>4, <2>5, NatInd
  <2> QED
    BY <2>1, <2>3, <2>6 DEF G, V
<1> QED
  BY <1>1, <1>2

\* Flush's decisions under the configuration c, which is read once.
PanicsUnder(c, values, short) ==
    \E i \in DOMAIN c.percentile :
        LET q == c.percentile[i]
        IN ~CanQuantile(values, q, q \in short) \/ Within(values, q, short) = <<>>

PerSecondUnder(c, v) == [num |-> v, den |-> c.flush \div 1000]

\* What is made of a number v before it is written.
Rounded(v) == Nearest(Float32(v, 1), 1, Millionth)

QuantilesUnder(c, values, short) ==
    [i \in DOMAIN c.percentile |-> MetricQuantile(values, c.percentile[i], short)]

\* The metric m is what ProcessMetric makes of the lines under c.
Processed(c, ls, short, m) ==
    LET g == GatheredOf(ls)
        s == Sorted(ValuesOf(ls))
    IN /\ g.type = "counter" =>
             m.last = g.last /\ m.rate = PerSecondUnder(c, g.last)
       /\ g.type = "gauge" => m.last = g.last
       /\ g.type = "set" => m.last = UniqueCount(s) * Unit
       /\ g.type = "timer" =>
             /\ ~PanicsUnder(c, s, short)
             /\ m.last = g.last /\ m.rate = PerSecondUnder(c, g.hits)
             /\ m.min = Minmax(s).min /\ m.max = Minmax(s).max
             /\ m.median = Median(s) /\ m.mean = Mean(s)
             /\ m.quantiles = QuantilesUnder(c, s, short)

\* The lines of a report carry numbers, the last one of a counter its total.
SeriesOK(r) ==
    /\ \A i \in DOMAIN r.series : r.series[i].value \in Value
    /\ r.type = "counter" => Last(r.series).value.num = Rounded(r.metric.last)

\* A flush that does not panic processes the entry of the lines.
LEMMA ProcessedIs ==
    ASSUME NEW ls \in EntryLines, NEW short,
           GatheredOf(ls).type = "timer" => ~Panics(Sorted(ValuesOf(ls)), short)
    PROVE  Processed(config, ls, short, ProcessMetric(GatheredOf(ls), short))
<1> DEFINE g == GatheredOf(ls)
           s == Sorted(ValuesOf(ls))
           m == ProcessMetric(g, short)
<1>0. g.all = ValuesOf(ls)
  BY DEF GatheredOf
<1>1. \A v : PerSecond(v) = PerSecondUnder(config, v)
  BY DEF PerSecond, PerSecondUnder
<1>2. Panics(s, short) <=> PanicsUnder(config, s, short)
  BY DEF Panics, PanicsUnder
<1> HIDE DEF g, s
<1>3. g.type = "counter" => m = [last |-> g.last, rate |-> PerSecond(g.last)]
  BY DEF ProcessMetric
<1>4. g.type = "gauge" => m = [last |-> g.last, median |-> Median(Sorted(g.all)),
                               mean |-> Mean(Sorted(g.all))]
  BY DEF ProcessMetric
<1>5. g.type = "set" => m = [last |-> UniqueCount(Sorted(g.all)) * Unit]
  BY DEF ProcessMetric
<1>6. g.type = "timer" =>
         m = [last |-> g.last, rate |-> PerSecond(g.hits),
              min |-> Minmax(Sorted(g.all)).min, max |-> Minmax(Sorted(g.all)).max,
              median |-> Median(Sorted(g.all)), mean |-> Mean(Sorted(g.all)),
              quantiles |-> [i \in DOMAIN config.percentile |->
                  MetricQuantile(Sorted(g.all), config.percentile[i], short)]]
  BY DEF ProcessMetric
<1> HIDE DEF m
<1>7. Sorted(g.all) = s
  BY <1>0 DEF s
<1>8. g.type = "timer" => ~PanicsUnder(config, s, short)
  BY <1>2 DEF g, s
<1>9. /\ g.type = "counter" =>
             m.last = g.last /\ m.rate = PerSecondUnder(config, g.last)
      /\ g.type = "gauge" => m.last = g.last
      /\ g.type = "set" => m.last = UniqueCount(s) * Unit
  BY <1>1, <1>3, <1>4, <1>5, <1>7
<1>10. g.type = "timer" =>
             /\ m.last = g.last /\ m.rate = PerSecondUnder(config, g.hits)
             /\ m.min = Minmax(s).min /\ m.max = Minmax(s).max
             /\ m.median = Median(s) /\ m.mean = Mean(s)
             /\ m.quantiles = QuantilesUnder(config, s, short)
  BY <1>1, <1>6, <1>7 DEF QuantilesUnder
<1> QED
  BY <1>8, <1>9, <1>10 DEF Processed, g, s, m

\* What a figure may be: a number, or a quotient that is infinite or none.
Fraction == [num : Int, den : Nat]

\* Dividing by the interval gives a fraction.
LEMMA PerSecondTyped ==
    ASSUME NEW c \in Configs, NEW v \in Int
    PROVE  PerSecondUnder(c, v) \in Fraction
<1>1. c.flush \in Nat
  BY MetricsAssumption DEF ConfigType
<1>2. c.flush \div 1000 \in Nat
  <2>1. \A x \in Nat : x \div 1000 \in Nat
    OBVIOUS
  <2> QED
    BY <1>1, <2>1
<1> QED
  BY <1>2 DEF PerSecondUnder, Fraction

\* A line of the series carries its value in six decimals of a float32.
LEMMA LineValue ==
    ASSUME NEW key, NEW space, NEW v \in Fraction
    PROVE  /\ Line(key, space, v).value \in Value
           /\ v.den = 1 => Line(key, space, v).value.num = Rounded(v.num)
<1>1. Line(key, space, v).value = FormatFloat(v)
  BY DEF Line
<1>2. v = [num |-> v.num, den |-> v.den] /\ v.num \in Int /\ v.den \in Nat
  BY DEF Fraction
<1>3. CASE v.den = 0
  <2>1. FormatFloat(v) = v
    BY <1>3 DEF FormatFloat
  <2>2. v \in Value
    BY <1>2, <1>3 DEF Value
  <2> QED
    BY <1>1, <1>3, <2>1, <2>2
<1>4. CASE v.den # 0
  <2> DEFINE r == Nearest(Float32(v.num, v.den), 1, Millionth)
  <2>1. FormatFloat(v) = [num |-> r, den |-> 1]
    BY <1>4 DEF FormatFloat, Plain
  <2>2. Float32(v.num, v.den) \in Int
    BY <1>2, <1>4, Float32Is
  <2>3. r \in Int
    <3>1. 1 \in Nat \ {0} /\ Millionth \in Nat \ {0}
      BY MetricsAssumption
    <3> QED
      BY <2>2, <3>1, NearestIs
  <2>4. v.den = 1 => r = Rounded(v.num)
    BY DEF Rounded
  <2> HIDE DEF r
  <2> QED
    BY <1>1, <2>1, <2>3, <2>4 DEF Value
<1> QED
  BY <1>3, <1>4

\* A number is such a figure.
LEMMA PlainIs ==
    \A x \in Int : Plain(x) \in Fraction /\ Plain(x).num = x /\ Plain(x).den = 1
  BY DEF Plain, Fraction

\* The lines of a quantile.
LEMMA QuantileSeriesTyped ==
    ASSUME NEW q, q.mean \in Int, q.median \in Int, q.max \in Int, q.sum \in Int
    PROVE  /\ QuantileSeries(q) \in Seq({QuantileSeries(q)[j] : j \in 1 .. 4})
           /\ \A j \in 1 .. 4 : QuantileSeries(q)[j].value \in Value
<1> DEFINE a == Line(<<"key", "mean", Digits[q.quantile]>>, "timer", Plain(q.mean))
           b == Line(<<"key", "median", Digits[q.quantile]>>, "timer", Plain(q.median))
           c == Line(<<"key", "upper", Digits[q.quantile]>>, "timer", Plain(q.max))
           d == Line(<<"key", "sum", Digits[q.quantile]>>, "timer", Plain(q.sum))
<1>1. QuantileSeries(q) = <<a, b, c, d>>
  BY DEF QuantileSeries
<1>2. \A x \in Int : Plain(x) \in Fraction
  BY PlainIs
<1>3. a.value \in Value /\ b.value \in Value /\ c.value \in Value /\ d.value \in Value
  BY <1>2, LineValue
<1> HIDE DEF a, b, c, d
<1> DEFINE t == <<a, b, c, d>>
<1>4. \A j \in 1 .. 4 : t[j].value \in Value
  BY <1>3
<1>5. t \in Seq({t[j] : j \in 1 .. 4})
  <2>1. t[1] = a /\ t[2] = b /\ t[3] = c /\ t[4] = d
    OBVIOUS
  <2> DEFINE T == {t[j] : j \in 1 .. 4}
  <2>2. a \in T /\ b \in T /\ c \in T /\ d \in T
    BY <2>1
  <2> HIDE DEF T
  <2>3. <<a, b, c, d>> \in Seq(T)
    BY <2>2
  <2> QED
    BY <2>3 DEF T
<1> QED
  BY <1>1, <1>4, <1>5

\* The lines of a metric whose figures are numbers.
LEMMA SeriesTyped ==
    ASSUME NEW ls \in EntryLines, NEW c \in Configs, NEW short, NEW m,
           Processed(c, ls, short, m)
    PROVE  /\ \A i \in DOMAIN Series(GatheredOf(ls).type, m) :
                 Series(GatheredOf(ls).type, m)[i].value \in Value
           /\ GatheredOf(ls).type = "counter" =>
                 Last(Series(GatheredOf(ls).type, m)).value.num = Rounded(m.last)
<1> DEFINE g == GatheredOf(ls)
           s == Sorted(ValuesOf(ls))
           r == Series(g.type, m)
<1>0. /\ g.type \in Types /\ g.last \in Int /\ g.hits \in Nat
      /\ g.type = "counter" =>
             m.last = g.last /\ m.rate = PerSecondUnder(c, g.last)
      /\ g.type = "gauge" => m.last = g.last
      /\ g.type = "set" => m.last = UniqueCount(s) * Unit
      /\ g.type = "timer" =>
             /\ ~PanicsUnder(c, s, short)
             /\ m.last = g.last /\ m.rate = PerSecondUnder(c, g.hits)
             /\ m.min = Minmax(s).min /\ m.max = Minmax(s).max
             /\ m.median = Median(s) /\ m.mean = Mean(s)
             /\ m.quantiles = QuantilesUnder(c, s, short)
  <2>1. g.type = ParsedOf(ls, 1).type /\ g.last = ExpectedOf(ls) /\ g.hits = SumFunction(HitsOf(ls))
    BY DEF GatheredOf
  <2>2. g.type \in Types /\ g.last \in Int /\ g.hits \in Nat
    <3>1. 1 \in 1 .. Len(ls)
      BY GatheredIs
    <3> HIDE DEF g
    <3> QED
      BY <2>1, <3>1, GatheredIs
  <2> QED
    BY <2>2 DEF Processed
<1>1. \A x \in Int : Plain(x) \in Fraction /\ Plain(x).num = x /\ Plain(x).den = 1
  BY PlainIs
<1>2. Unit \in Int
  BY MetricsAssumption
<1>3. CASE g.type = "gauge"
  <2>1. r = <<Line(<<"key">>, "gauge", Plain(m.last))>>
    BY <1>3 DEF Series
  <2>2. Line(<<"key">>, "gauge", Plain(m.last)).value \in Value
    BY <1>0, <1>1, <1>3, LineValue
  <2> HIDE DEF r, g
  <2> QED
    BY <1>3, <2>1, <2>2 DEF r, g
<1>4. CASE g.type = "set"
  <2>1. r = <<Line(<<"key">>, "set", Plain(m.last))>>
    BY <1>4 DEF Series
  <2>2. UniqueCount(s) \in Int
    <3>1. s \in Seq(Int) /\ DOMAIN s = 1 .. Len(ls) /\ Len(ls) \in Int
      BY SortedFigures, GatheredIs
    <3> DEFINE u == Sorted(s)
               A == {i \in DOMAIN u : i = 1 \/ u[i - 1] # u[i]}
    <3>2. UniqueCount(s) = Cardinality(A)
      BY DEF UniqueCount
    <3> HIDE DEF s
    <3>3. u \in Seq(Int)
      BY <3>1, SortedIs
    <3> HIDE DEF u
    <3>4. IsFiniteSet(DOMAIN u) /\ A \subseteq DOMAIN u
      <4>1. DOMAIN u = 1 .. Len(u) /\ Len(u) \in Int
        BY <3>3
      <4> QED
        BY <4>1, FS_Interval
    <3> HIDE DEF A
    <3>5. Cardinality(A) \in Nat
      BY <3>4, FS_Subset, FS_CardinalityType
    <3> QED
      BY <3>2, <3>5
  <2>3. m.last \in Int
    BY <1>0, <1>2, <1>4, <2>2
  <2>4. Line(<<"key">>, "set", Plain(m.last)).value \in Value
    BY <1>1, <2>3, LineValue
  <2> HIDE DEF r, g
  <2> QED
    BY <1>4, <2>1, <2>4 DEF r, g
<1>5. CASE g.type = "counter"
  <2> DEFINE a == Line(<<"key">>, "rate", m.rate)
             b == Line(<<"key">>, "counter", Plain(m.last))
  <2>1. r = <<a, b>>
    BY <1>5 DEF Series
  <2>2. a.value \in Value /\ b.value \in Value /\ b.value.num = Rounded(m.last)
    <3>1. m.rate \in Fraction /\ Plain(m.last) \in Fraction
          /\ Plain(m.last).num = m.last /\ Plain(m.last).den = 1
      BY <1>0, <1>1, <1>5, PerSecondTyped
    <3> QED
      BY <3>1, LineValue
  <2> HIDE DEF a, b, g, r
  <2>3. Last(r) = b /\ \A i \in DOMAIN r : r[i].value \in Value
    BY <2>1, <2>2 DEF Last
  <2> QED
    BY <2>2, <2>3 DEF r, g
<1>6. CASE g.type = "timer"
  <2> DEFINE a == Line(<<"key">>, "rate", m.rate)
             b == Line(<<"key", "mean">>, "timer", Plain(m.mean))
             d == Line(<<"key", "median">>, "timer", Plain(m.median))
             e == Line(<<"key", "max">>, "timer", Plain(m.max))
             f == Line(<<"key", "min">>, "timer", Plain(m.min))
             Q == [i \in DOMAIN m.quantiles |-> QuantileSeries(m.quantiles[i])]
             T == {x \in UNION {{Q[i][j] : j \in 1 .. 4} : i \in DOMAIN Q} : x.value \in Value}
  <2>1. r = <<a, b, d, e, f>> \o FlattenSeq(Q)
    BY <1>6 DEF Series
  <2>2. /\ a.value \in Value /\ b.value \in Value /\ d.value \in Value
        /\ e.value \in Value /\ f.value \in Value
    <3>1. g.hits \in Int
      BY <1>0
    <3>2. m.rate \in Fraction
      BY <1>0, <1>6, <3>1, PerSecondTyped
    <3>3. m.min \in Int /\ m.max \in Int /\ m.median \in Int /\ m.mean \in Int
      BY <1>0, <1>6, SortedFigures
    <3> QED
      BY <1>1, <3>2, <3>3, LineValue
  <2>3. Q \in Seq(Seq(T))
    <3>1. c.percentile \in Seq(Int)
      BY MetricsAssumption DEF ConfigType
    <3> DEFINE n == Len(c.percentile)
    <3>2. n \in Nat /\ DOMAIN c.percentile = 1 .. n
      BY <3>1
    <3>3. DOMAIN Q = 1 .. n
      BY <1>0, <1>6, <3>2 DEF QuantilesUnder
    <3>4. ASSUME NEW i \in 1 .. n PROVE Q[i] \in Seq(T)
      <4> DEFINE q == m.quantiles[i]
                 p == c.percentile[i]
      <4>1. q = MetricQuantile(s, p, short) /\ p \in Int
        BY <1>0, <1>6, <3>1, <3>2 DEF QuantilesUnder
      <4>2. Within(s, p, short) # <<>>
        BY <1>0, <1>6, <3>2 DEF PanicsUnder
      <4>3. q.mean \in Int /\ q.median \in Int /\ q.max \in Int /\ q.sum \in Int
        BY <4>1, <4>2, QuantileFigures
      <4>4. Q[i] = QuantileSeries(q)
        BY <1>0, <1>6, <3>2 DEF QuantilesUnder
      <4> HIDE DEF q, Q
      <4>5. Q[i] \in Seq({Q[i][j] : j \in 1 .. 4}) /\ \A j \in 1 .. 4 : Q[i][j].value \in Value
        BY <4>3, <4>4, QuantileSeriesTyped
      <4>6. \A x \in {Q[i][j] : j \in 1 .. 4} : x \in T
        <5>1. i \in DOMAIN Q
          BY <3>3
        <5> QED
          BY <4>5, <5>1
      <4> HIDE DEF T
      <4> QED
        BY <4>5, <4>6
    <3> HIDE DEF T, n
    <3>5. Q = [i \in 1 .. n |-> Q[i]]
      BY <3>3
    <3> HIDE DEF Q
    <3> QED
      BY <3>2, <3>4, <3>5
  <2>4. \A x \in T : x.value \in Value
    OBVIOUS
  <2> HIDE DEF T, Q
  <2>5. FlattenSeq(Q) \in Seq(T)
    BY <2>3, FlattenTyped
  <2> DEFINE h == <<a, b, d, e, f>>
             fq == FlattenSeq(Q)
  <2>6. \A i \in 1 .. 5 : h[i].value \in Value
    BY <2>2
  <2> HIDE DEF a, b, d, e, f, g
  <2>7. /\ Len(h) = 5 /\ h \in Seq({a, b, d, e, f})
    OBVIOUS
  <2> HIDE DEF h, fq
  <2>8. fq \in Seq(T) /\ \A i \in 1 .. Len(fq) : fq[i].value \in Value
    BY <2>4, <2>5 DEF fq
  <2>9. r = h \o fq
    BY <2>1 DEF h, fq
  <2> HIDE DEF r
  <2>10. \A i \in DOMAIN r : r[i].value \in Value
    <3> DEFINE U == {a, b, d, e, f} \cup T
    <3>1. h \in Seq(U) /\ fq \in Seq(U)
      BY <2>7, <2>8
    <3> HIDE DEF U
    <3>2. /\ Len(r) = 5 + Len(fq) /\ DOMAIN r = 1 .. Len(r) /\ Len(fq) \in Nat
          /\ \A i \in 1 .. Len(r) : r[i] = IF i <= 5 THEN h[i] ELSE fq[i - 5]
      <4>1. r \in Seq(U) /\ Len(r) = Len(h) + Len(fq)
        BY <2>9, <3>1
      <4>2. \A i \in 1 .. Len(h) + Len(fq) : r[i] = IF i <= Len(h) THEN h[i] ELSE fq[i - Len(h)]
        BY <2>9, <3>1, ConcatProperties
      <4> QED
        BY <2>7, <2>8, <4>1, <4>2
    <3> SUFFICES ASSUME NEW i \in 1 .. Len(r) PROVE r[i].value \in Value
      BY <3>2
    <3>3. CASE i <= 5
      BY <2>6, <3>2, <3>3
    <3>4. CASE ~(i <= 5)
      <4>1. i - 5 \in 1 .. Len(fq)
        BY <3>2, <3>4
      <4> QED
        BY <2>8, <3>2, <3>4, <4>1
    <3> QED
      BY <3>3, <3>4
  <2> QED
    BY <1>6, <2>10 DEF r, g
<1> QED
  BY <1>0, <1>3, <1>4, <1>5, <1>6 DEF Types

-----------------------------------------------------------------------------
(***************************************************************************)
(* The names of the lines.                                                 *)
(***************************************************************************)

\* What is read off a concatenation of sequences whose lengths are known.
LEMMA ConcatParts ==
    ASSUME NEW T, NEW s \in Seq(T), NEW t \in Seq(T), NEW u \in Seq(T), NEW v \in Seq(T),
           s \o t = u \o v, Len(s) = Len(u) \/ Len(t) = Len(v)
    PROVE  s = u /\ t = v
<1> DEFINE m == Len(s)
           n == Len(t)
           c == s \o t
           d == u \o v
<1>1. /\ Len(c) = m + n /\ \A i \in 1 .. m + n : c[i] = IF i <= m THEN s[i] ELSE t[i - m]
  BY ConcatProperties
<1>2. /\ Len(d) = Len(u) + Len(v)
      /\ \A i \in 1 .. Len(u) + Len(v) : d[i] = IF i <= Len(u) THEN u[i] ELSE v[i - Len(u)]
  BY ConcatProperties
<1>3. c = d /\ m \in Nat /\ n \in Nat /\ Len(u) \in Nat /\ Len(v) \in Nat
  OBVIOUS
<1> HIDE DEF c, d
<1>4. Len(u) = m /\ Len(v) = n
  BY <1>1, <1>2, <1>3
<1>5. ASSUME NEW i \in 1 .. m PROVE s[i] = u[i]
  <2>1. i \in 1 .. m + n /\ i <= m
    BY <1>3
  <2> QED
    BY <1>1, <1>2, <1>3, <1>4, <2>1
<1>6. ASSUME NEW i \in 1 .. n PROVE t[i] = v[i]
  <2>1. m + i \in 1 .. m + n /\ ~(m + i <= m) /\ (m + i) - m = i
    BY <1>3
  <2>2. c[m + i] = t[i]
    BY <1>1, <2>1
  <2>3. d[m + i] = v[i]
    BY <1>2, <1>4, <2>1
  <2> QED
    BY <1>3, <2>2, <2>3
<1> QED
  BY <1>3, <1>4, <1>5, <1>6, SeqEqual

\* The parts of names: those of the configuration, and Relay's own.
Parts == STRING \cup {"key", "mean", "median", "max", "min", "upper", "sum"}

\* A sequence over a set is one over any larger set.
LEMMA SeqOfMore ==
    ASSUME NEW A, NEW B, A \subseteq B, NEW s \in Seq(A)
    PROVE  s \in Seq(B)
OBVIOUS

\* What they are made of.
LEMMA PartsAre ==
    /\ "key" \in Parts /\ "mean" \in Parts /\ "median" \in Parts /\ "max" \in Parts
    /\ "min" \in Parts /\ "upper" \in Parts /\ "sum" \in Parts
    /\ \A q \in DOMAIN Digits : Digits[q] \in Parts
<1>1. \A q \in DOMAIN Digits : Digits[q] \in STRING
  BY MetricsAssumption
<1> QED
  BY <1>1 DEF Parts

\* The metric's key, with up to two parts after it, is a sequence of parts (Relay's names).
LEMMA KeysAre ==
    /\ <<"key">> \in Seq(Parts) /\ Len(<<"key">>) = 1
    /\ \A w \in Parts : <<"key", w>> \in Seq(Parts) /\ Len(<<"key", w>>) = 2
    /\ \A w, x \in Parts : <<"key", w, x>> \in Seq(Parts) /\ Len(<<"key", w, x>>) = 3
BY PartsAre

\* Where each type has a namespace of its own, names are equal only for the same
\* key in the same namespace (ApplyPrefixAndSuffix).
LEMMA NamesApart ==
    ASSUME config \in Configs, OwnNamespaces(config),
           NEW a \in Namespaces, NEW b \in Namespaces,
           NEW k \in Seq(Parts), NEW l \in Seq(Parts), Name(k, a) = Name(l, b)
    PROVE  a = b /\ k = l
<1> DEFINE p == config.prefix
           P(x) == config.prefixes[x]
           S(x) == config.suffixes[x]
           u == config.suffix
           V == Seq(Parts)
<1>1. /\ p \in V /\ u \in V /\ P(a) \in V /\ P(b) \in V /\ S(a) \in V /\ S(b) \in V
  <2>1. /\ p \in Seq(STRING) /\ u \in Seq(STRING) /\ P(a) \in Seq(STRING) /\ P(b) \in Seq(STRING)
        /\ S(a) \in Seq(STRING) /\ S(b) \in Seq(STRING)
    BY MetricsAssumption DEF ConfigType
  <2>2. STRING \subseteq Parts
    BY DEF Parts
  <2> HIDE DEF p, u, P, S
  <2> QED
    BY <2>1, <2>2, SeqOfMore
<1>2. /\ Len(P(a)) = Len(P(b)) /\ Len(S(a)) = Len(S(b))
      /\ P(a) = P(b) /\ S(a) = S(b) => a = b
  BY DEF OwnNamespaces
<1>3. (((p \o P(a)) \o k) \o S(a)) \o u = (((p \o P(b)) \o l) \o S(b)) \o u
  BY DEF Name
<1> HIDE DEF p, P, S, u
<1>4. \A x, y \in V : x \o y \in V
  OBVIOUS
<1> DEFINE f == p \o P(a)
           g == p \o P(b)
           fk == f \o k
           gl == g \o l
           fs == fk \o S(a)
           gs == gl \o S(b)
<1>5. f \in V /\ g \in V /\ k \in V /\ l \in V
  BY <1>1, <1>4
<1>6. fk \in V /\ gl \in V
  BY <1>4, <1>5
<1>7. fs \in V /\ gs \in V
  BY <1>1, <1>4, <1>6
<1>8. fs = gs
  <2>1. fs \o u = gs \o u
    BY <1>3
  <2> HIDE DEF fs, gs
  <2> QED
    BY <1>1, <1>7, <2>1, ConcatParts
<1> HIDE DEF fk, gl
<1>9. fk = gl /\ S(a) = S(b)
  BY <1>1, <1>2, <1>6, <1>8, ConcatParts
<1> USE DEF fk, gl
<1>10. Len(f) = Len(p) + Len(P(a)) /\ Len(g) = Len(p) + Len(P(b))
  BY <1>1
<1> HIDE DEF f, g
<1>11. f = g /\ k = l
  <2>1. f \o k = g \o l /\ Len(f) = Len(g)
    BY <1>2, <1>9, <1>10
  <2>2. f \in Seq(Parts) /\ g \in Seq(Parts) /\ k \in Seq(Parts) /\ l \in Seq(Parts)
    BY <1>5
  <2> QED
    BY ONLY <2>1, <2>2, ConcatParts
<1> USE DEF f, g
<1>12. P(a) = P(b)
  BY <1>1, <1>11, ConcatParts
<1> QED
  BY <1>2, <1>9, <1>11, <1>12

\* No two lines have the same name.
NamesDiffer(s) == \A i, j \in DOMAIN s : s[i].name = s[j].name => i = j

\* Two series with different names, one after the other.
LEMMA ConcatDiffers ==
    ASSUME NEW T, NEW s \in Seq(T), NEW t \in Seq(T), NamesDiffer(s), NamesDiffer(t),
           \A i \in DOMAIN s, j \in DOMAIN t : s[i].name # t[j].name
    PROVE  NamesDiffer(s \o t)
<1> DEFINE c == s \o t
           m == Len(s)
           n == Len(t)
<1>1. /\ Len(c) = m + n /\ c \in Seq(T)
      /\ \A i \in 1 .. m + n : c[i] = IF i <= m THEN s[i] ELSE t[i - m]
  BY ConcatProperties
<1>2. /\ DOMAIN c = 1 .. m + n /\ DOMAIN s = 1 .. m /\ DOMAIN t = 1 .. n
      /\ m \in Nat /\ n \in Nat
  BY <1>1
<1> HIDE DEF c, m, n
<1>3. \A i \in 1 .. m + n : \/ i \in 1 .. m /\ c[i] = s[i]
                            \/ i - m \in 1 .. n /\ c[i] = t[i - m]
  BY <1>1, <1>2
<1> SUFFICES ASSUME NEW i \in 1 .. m + n, NEW j \in 1 .. m + n, c[i].name = c[j].name
             PROVE  i = j
  BY <1>2 DEF NamesDiffer, c
<1>4. CASE i \in 1 .. m /\ c[i] = s[i] /\ j \in 1 .. m /\ c[j] = s[j]
  BY <1>2, <1>4 DEF NamesDiffer
<1>5. CASE i \in 1 .. m /\ c[i] = s[i] /\ j - m \in 1 .. n /\ c[j] = t[j - m]
  BY <1>2, <1>5
<1>6. CASE i - m \in 1 .. n /\ c[i] = t[i - m] /\ j \in 1 .. m /\ c[j] = s[j]
  BY <1>2, <1>6
<1>7. CASE i - m \in 1 .. n /\ c[i] = t[i - m] /\ j - m \in 1 .. n /\ c[j] = t[j - m]
  <2>1. i - m = j - m
    BY <1>2, <1>7 DEF NamesDiffer
  <2> QED
    BY <1>2, <2>1
<1> QED
  BY <1>3, <1>4, <1>5, <1>6, <1>7

\* Parts with different names stay different one after the other.
LEMMA FlattenDiffers ==
    ASSUME NEW T, NEW seqs \in Seq(Seq(T)),
           \A i \in DOMAIN seqs : NamesDiffer(seqs[i]),
           \A i, j \in DOMAIN seqs : \A k \in DOMAIN seqs[i], l \in DOMAIN seqs[j] :
              seqs[i][k].name = seqs[j][l].name => i = j
    PROVE  NamesDiffer(FlattenSeq(seqs))
<1> DEFINE n == Len(seqs)
           V == Seq(T)
<1>0. n \in Nat /\ DOMAIN seqs = 1 .. n /\ \A i \in 1 .. n : seqs[i] \in V
  OBVIOUS
<1>1. CASE seqs = <<>>
  <2>1. FlattenSeq(seqs) = seqs
    BY <1>1 DEF FlattenSeq
  <2> QED
    BY <1>1, <2>1 DEF NamesDiffer
<1>2. CASE seqs # <<>>
  <2>1. PICK it : /\ it[1] = seqs[1] /\ FlattenSeq(seqs) = it[n]
                  /\ \A i \in Nat \ {0} : i + 1 <= n => it[i + 1] = it[i] \o seqs[i + 1]
    BY <1>2, FlattenSteps
  <2> DEFINE From(i, x) == \E j \in 1 .. i : \E l \in DOMAIN seqs[j] : x = seqs[j][l].name
             Good(i) == /\ it[i] \in V /\ NamesDiffer(it[i])
                        /\ \A k \in DOMAIN it[i] : From(i, it[i][k].name)
             G == {i \in Nat : i \in 1 .. n => Good(i)}
  <2>2. n \in 1 .. n
    BY <1>2
  <2> HIDE DEF Good
  <2>3. 0 \in G
    OBVIOUS
  <2>4. ASSUME NEW i \in Nat, i \in G PROVE i + 1 \in G
    <3> SUFFICES ASSUME i + 1 \in 1 .. n PROVE Good(i + 1)
      OBVIOUS
    <3>0. i \in 1 .. n => Good(i)
      BY <2>4
    <3> HIDE DEF G
    <3> USE DEF Good
    <3> DEFINE s == it[i]
               t == seqs[i + 1]
    <3>1. t \in V /\ NamesDiffer(t) /\ (i + 1) - 1 = i /\ (i # 0 => i \in 1 .. n)
      BY <1>0
    <3>2. CASE i = 0
      <4>1. it[i + 1] = seqs[1] /\ 1 \in 1 .. (i + 1) /\ i + 1 = 1
        BY <2>1, <3>2
      <4>2. \A k \in DOMAIN it[i + 1] : From(i + 1, it[i + 1][k].name)
        BY <4>1
      <4> QED
        BY <3>1, <4>1, <4>2
    <3>3. CASE i # 0
      <4>1. s \in V /\ NamesDiffer(s) /\ \A k \in DOMAIN s : From(i, s[k].name)
        <5>1. i \in 1 .. n
          BY <3>1, <3>3
        <5> HIDE DEF Good, s, n
        <5>2. Good(i)
          BY <3>0, <5>1
        <5> USE DEF Good, s
        <5> HIDE DEF From
        <5> QED
          BY <5>2
      <4>2. it[i + 1] = s \o t
        <5>1. i \in Nat \ {0} /\ i + 1 <= n
          BY <1>0, <3>3
        <5> QED
          BY <2>1, <5>1
      <4>3. \A k \in DOMAIN s, l \in DOMAIN t : s[k].name # t[l].name
        <5> SUFFICES ASSUME NEW k \in DOMAIN s, NEW l \in DOMAIN t, s[k].name = t[l].name
                     PROVE  FALSE
          OBVIOUS
        <5>1. PICK j \in 1 .. i : \E h \in DOMAIN seqs[j] : s[k].name = seqs[j][h].name
          BY <4>1
        <5>2. j \in DOMAIN seqs /\ i + 1 \in DOMAIN seqs /\ j # i + 1
          BY <1>0
        <5> QED
          BY <5>1, <5>2
      <4> HIDE DEF s, t, V
      <4>4. NamesDiffer(s \o t)
        BY <3>1, <4>1, <4>3, ConcatDiffers DEF V
      <4> DEFINE c == s \o t
                 m == Len(s)
      <4>5. /\ c \in V /\ DOMAIN c = 1 .. Len(c) /\ m \in Nat /\ DOMAIN s = 1 .. m
            /\ DOMAIN t = 1 .. Len(t) /\ Len(t) \in Nat /\ Len(c) = m + Len(t)
            /\ \A k \in 1 .. m + Len(t) : c[k] = IF k <= m THEN s[k] ELSE t[k - m]
        BY <3>1, <4>1, ConcatProperties DEF V
      <4> HIDE DEF c, m
      <4>6. ASSUME NEW k \in DOMAIN c PROVE From(i + 1, c[k].name)
        <5>1. CASE k <= m
          <6>1. k \in DOMAIN s /\ c[k] = s[k]
            BY <4>5, <5>1
          <6>2. PICK j \in 1 .. i : \E h \in DOMAIN seqs[j] : s[k].name = seqs[j][h].name
            BY <4>1, <6>1
          <6>3. j \in 1 .. (i + 1)
            OBVIOUS
          <6> QED
            BY <6>1, <6>2, <6>3
        <5>2. CASE ~(k <= m)
          <6>1. k - m \in DOMAIN t /\ c[k] = t[k - m]
            BY <4>5, <5>2
          <6>2. i + 1 \in 1 .. (i + 1)
            OBVIOUS
          <6> QED
            BY <6>1, <6>2 DEF t
        <5> QED
          BY <5>1, <5>2
      <4>7. it[i + 1] = c
        BY <4>2 DEF c
      <4> HIDE DEF From
      <4>8. \A k \in DOMAIN it[i + 1] : From(i + 1, it[i + 1][k].name)
        BY <4>6, <4>7
      <4> QED
        BY <4>4, <4>5, <4>7, <4>8 DEF c
    <3> QED
      BY <3>2, <3>3
  <2> HIDE DEF G
  <2>5. n \in G
    BY <1>0, <2>3, <2>4, NatInd
  <2> QED
    BY <2>1, <2>2, <2>5 DEF G, Good
<1> QED
  BY <1>1, <1>2

\* The lines of a quantile have four names, all with its digits at the end.
LEMMA QuantileNames ==
    ASSUME config \in Configs, OwnNamespaces(config), NEW q, q.quantile \in DOMAIN Digits
    PROVE  /\ \A T : (\A j \in 1 .. 4 : QuantileSeries(q)[j] \in T) => QuantileSeries(q) \in Seq(T)
           /\ DOMAIN QuantileSeries(q) = 1 .. 4
           /\ NamesDiffer(QuantileSeries(q))
           /\ \A j \in 1 .. 4 : \E w \in Parts :
                 QuantileSeries(q)[j].name = Name(<<"key", w, Digits[q.quantile]>>, "timer")
<1> DEFINE D == Digits[q.quantile]
           K(w) == <<"key", w, D>>
           a == Line(K("mean"), "timer", Plain(q.mean))
           b == Line(K("median"), "timer", Plain(q.median))
           c == Line(K("upper"), "timer", Plain(q.max))
           d == Line(K("sum"), "timer", Plain(q.sum))
<1>1. QuantileSeries(q) = <<a, b, c, d>>
  BY DEF QuantileSeries
<1>2. /\ a.name = Name(K("mean"), "timer") /\ b.name = Name(K("median"), "timer")
      /\ c.name = Name(K("upper"), "timer") /\ d.name = Name(K("sum"), "timer")
  BY DEF Line
<1>3. D \in Parts
  BY PartsAre
<1> HIDE DEF a, b, c, d, D
<1>4. \A w \in Parts : K(w) \in Seq(Parts)
  BY <1>3, KeysAre
<1>5. \A w, x \in Parts : K(w) = K(x) => w = x
  <2> SUFFICES ASSUME NEW w \in Parts, NEW x \in Parts, K(w) = K(x) PROVE w = x
    OBVIOUS
  <2>1. K(w)[2] = w /\ K(x)[2] = x
    OBVIOUS
  <2> QED
    BY <2>1
<1> HIDE DEF K
<1>6. \A w, x \in Parts : Name(K(w), "timer") = Name(K(x), "timer") => w = x
  <2> SUFFICES ASSUME NEW w \in Parts, NEW x \in Parts,
                      Name(K(w), "timer") = Name(K(x), "timer")
               PROVE  w = x
    OBVIOUS
  <2>1. "timer" \in Namespaces
    BY DEF Namespaces, Types
  <2>2. K(w) = K(x)
    BY <1>4, <2>1, NamesApart
  <2> QED
    BY <1>5, <2>2
<1>7. /\ a.name # b.name /\ a.name # c.name /\ a.name # d.name
      /\ b.name # c.name /\ b.name # d.name /\ c.name # d.name
  BY <1>2, <1>6, PartsAre
<1> DEFINE t == <<a, b, c, d>>
<1>8. DOMAIN t = 1 .. 4 /\ t[1] = a /\ t[2] = b /\ t[3] = c /\ t[4] = d
  OBVIOUS
<1>9. ASSUME NEW T, \A j \in 1 .. 4 : t[j] \in T PROVE t \in Seq(T)
  <2>1. a \in T /\ b \in T /\ c \in T /\ d \in T
    BY <1>8, <1>9
  <2> QED
    BY <2>1
<1> HIDE DEF t
<1>10. NamesDiffer(t)
  <2>1. \A j \in 1 .. 4 : j = 1 \/ j = 2 \/ j = 3 \/ j = 4
    OBVIOUS
  <2> QED
    BY <1>7, <1>8, <2>1 DEF NamesDiffer
<1>11. ASSUME NEW j \in 1 .. 4
       PROVE  \E w \in Parts : t[j].name = Name(K(w), "timer")
  <2>1. "mean" \in Parts /\ "median" \in Parts /\ "upper" \in Parts /\ "sum" \in Parts
    BY PartsAre
  <2>2. j = 1 \/ j = 2 \/ j = 3 \/ j = 4
    OBVIOUS
  <2> QED
    BY <1>2, <1>8, <2>1, <2>2
<1> QED
  BY <1>1, <1>8, <1>9, <1>10, <1>11 DEF t, K, D

\* Each percentile of the configuration has its figures in a processed timer.
LEMMA QuantilesNamed ==
    ASSUME NEW c, NEW ls, NEW short, NEW m, Processed(c, ls, short, m),
           GatheredOf(ls).type = "timer"
    PROVE  /\ DOMAIN m.quantiles = DOMAIN c.percentile
           /\ \A i \in DOMAIN c.percentile : m.quantiles[i].quantile = c.percentile[i]
<1>1. m.quantiles = QuantilesUnder(c, Sorted(ValuesOf(ls)), short)
  BY DEF Processed
<1>2. \A v, q : MetricQuantile(v, q, short).quantile = q
  BY DEF MetricQuantile
<1> QED
  BY <1>1, <1>2 DEF QuantilesUnder

\* No two lines that Relay makes of a metric have the same name.
LEMMA SeriesDiffers ==
    ASSUME config \in Configs, OwnNamespaces(config), NEW type \in Types, NEW m,
           type = "timer" => /\ DOMAIN m.quantiles = DOMAIN config.percentile
                             /\ \A i \in DOMAIN config.percentile :
                                   m.quantiles[i].quantile = config.percentile[i]
    PROVE  NamesDiffer(Series(type, m))
<1> DEFINE r == Series(type, m)
<1>0. \A k, a, v : Line(k, a, v).name = Name(k, a)
  BY DEF Line
<1>1. Types \subseteq Namespaces /\ "rate" \in Namespaces
  BY DEF Namespaces
<1>2. CASE type \in {"gauge", "set"}
  <2>1. \E x : r = <<x>>
    BY <1>2 DEF Series
  <2> HIDE DEF r
  <2>2. NamesDiffer(r)
    BY <2>1 DEF NamesDiffer
  <2> QED
    BY <2>2 DEF r
<1>3. CASE type = "counter"
  <2> DEFINE a == Line(<<"key">>, "rate", m.rate)
             b == Line(<<"key">>, "counter", Plain(m.last))
  <2>1. r = <<a, b>>
    BY <1>3 DEF Series
  <2>2. a.name # b.name
    <3>1. <<"key">> \in Seq(Parts) /\ "counter" \in Namespaces /\ "rate" # "counter"
      BY <1>1, KeysAre DEF Types
    <3>2. a.name = Name(<<"key">>, "rate") /\ b.name = Name(<<"key">>, "counter")
      BY <1>0
    <3> HIDE DEF a, b
    <3> QED
      BY <1>1, <3>1, <3>2, NamesApart
  <2> HIDE DEF a, b, r
  <2>3. NamesDiffer(r)
    BY <2>1, <2>2 DEF NamesDiffer
  <2> QED
    BY <2>3 DEF r
<1>4. CASE type = "timer"
  <2> DEFINE a == Line(<<"key">>, "rate", m.rate)
             b == Line(<<"key", "mean">>, "timer", Plain(m.mean))
             d == Line(<<"key", "median">>, "timer", Plain(m.median))
             e == Line(<<"key", "max">>, "timer", Plain(m.max))
             f == Line(<<"key", "min">>, "timer", Plain(m.min))
             h == <<a, b, d, e, f>>
             Q == [i \in DOMAIN m.quantiles |-> QuantileSeries(m.quantiles[i])]
             n == Len(config.percentile)
  <2>1. r = h \o FlattenSeq(Q)
    BY <1>4 DEF Series
  <2>2. "timer" \in Namespaces /\ "rate" # "timer"
    BY <1>1 DEF Types
  <2>3. /\ a.name = Name(<<"key">>, "rate") /\ b.name = Name(<<"key", "mean">>, "timer")
        /\ d.name = Name(<<"key", "median">>, "timer") /\ e.name = Name(<<"key", "max">>, "timer")
        /\ f.name = Name(<<"key", "min">>, "timer")
    BY <1>0
  <2>4. /\ n \in Nat /\ DOMAIN config.percentile = 1 .. n
        /\ \A i \in 1 .. n : config.percentile[i] \in DOMAIN Digits
    <3>1. config.percentile \in Seq(Int)
      BY MetricsAssumption DEF ConfigType
    <3> QED
      BY <3>1, MetricsAssumption DEF ToSet
  <2>5. Q = [i \in 1 .. n |-> Q[i]] /\ DOMAIN Q = 1 .. n /\ \A i \in 1 .. n : Q[i] = QuantileSeries(m.quantiles[i])
    BY <1>4, <2>4
  <2> HIDE DEF a, b, d, e, f, Q, r, n
  <2>6. /\ <<"key">> \in Seq(Parts) /\ <<"key", "mean">> \in Seq(Parts)
        /\ <<"key", "median">> \in Seq(Parts) /\ <<"key", "max">> \in Seq(Parts)
        /\ <<"key", "min">> \in Seq(Parts)
    BY KeysAre, PartsAre
  <2>7. NamesDiffer(h)
    <3>1. \A w, x \in Parts : Name(<<"key", w>>, "timer") = Name(<<"key", x>>, "timer") => w = x
      <4> SUFFICES ASSUME NEW w \in Parts, NEW x \in Parts,
                          Name(<<"key", w>>, "timer") = Name(<<"key", x>>, "timer")
                   PROVE  w = x
        OBVIOUS
      <4>1. <<"key", w>> \in Seq(Parts) /\ <<"key", x>> \in Seq(Parts)
        BY KeysAre
      <4>2. <<"key", w>> = <<"key", x>>
        BY <2>2, <4>1, NamesApart
      <4> QED
        BY <4>2
    <3>2. \A k \in Seq(Parts) : Name(<<"key">>, "rate") # Name(k, "timer")
      BY <1>1, <2>2, <2>6, NamesApart
    <3>3. /\ b.name # d.name /\ b.name # e.name /\ b.name # f.name
          /\ d.name # e.name /\ d.name # f.name /\ e.name # f.name
      BY <2>3, <3>1, PartsAre
    <3>4. a.name # b.name /\ a.name # d.name /\ a.name # e.name /\ a.name # f.name
      BY <2>3, <2>6, <3>2
    <3>5. /\ DOMAIN h = 1 .. 5
          /\ h[1] = a /\ h[2] = b /\ h[3] = d /\ h[4] = e /\ h[5] = f
      OBVIOUS
    <3>6. \A j \in 1 .. 5 : j = 1 \/ j = 2 \/ j = 3 \/ j = 4 \/ j = 5
      OBVIOUS
    <3> HIDE DEF h
    <3> QED
      BY <3>3, <3>4, <3>5, <3>6 DEF NamesDiffer
  <2> DEFINE T == UNION {{Q[i][j] : j \in 1 .. 4} : i \in 1 .. n}
             U == {a, b, d, e, f} \cup T
  <2>8. ASSUME NEW i \in 1 .. n
        PROVE  /\ Q[i] \in Seq(T) /\ DOMAIN Q[i] = 1 .. 4 /\ NamesDiffer(Q[i])
               /\ \A j \in 1 .. 4 : \E w \in Parts :
                     Q[i][j].name = Name(<<"key", w, Digits[config.percentile[i]]>>, "timer")
    <3> DEFINE q == m.quantiles[i]
    <3>1. q.quantile = config.percentile[i] /\ q.quantile \in DOMAIN Digits
      BY <1>4, <2>4
    <3>2. Q[i] = QuantileSeries(q)
      BY <2>5
    <3> HIDE DEF q
    <3>3. /\ (\A j \in 1 .. 4 : QuantileSeries(q)[j] \in T) => QuantileSeries(q) \in Seq(T)
          /\ DOMAIN QuantileSeries(q) = 1 .. 4 /\ NamesDiffer(QuantileSeries(q))
          /\ \A j \in 1 .. 4 : \E w \in Parts :
                QuantileSeries(q)[j].name = Name(<<"key", w, Digits[q.quantile]>>, "timer")
      BY <3>1, QuantileNames
    <3> DEFINE s == QuantileSeries(q)
    <3> HIDE DEF s
    <3>4. \A j \in 1 .. 4 : s[j] \in T
      BY <3>2 DEF s
    <3> HIDE DEF T
    <3>5. s \in Seq(T)
      BY <3>3, <3>4 DEF s
    <3> QED
      BY <3>1, <3>2, <3>3, <3>5 DEF s
  <2> HIDE DEF T
  <2>9. Q \in Seq(Seq(T))
    <3>1. Q = [i \in 1 .. n |-> Q[i]] /\ \A i \in 1 .. n : Q[i] \in Seq(T)
      BY <2>5, <2>8
    <3> QED
      BY <2>4, <3>1
  <2>10. \A w, x \in Parts : \A i, j \in 1 .. n :
            Name(<<"key", w, Digits[config.percentile[i]]>>, "timer")
              = Name(<<"key", x, Digits[config.percentile[j]]>>, "timer") => i = j
    <3> SUFFICES ASSUME NEW w \in Parts, NEW x \in Parts, NEW i \in 1 .. n, NEW j \in 1 .. n,
                        Name(<<"key", w, Digits[config.percentile[i]]>>, "timer")
                          = Name(<<"key", x, Digits[config.percentile[j]]>>, "timer")
                 PROVE  i = j
      OBVIOUS
    <3> DEFINE y == Digits[config.percentile[i]]
               z == Digits[config.percentile[j]]
    <3>1. y \in Parts /\ z \in Parts
      BY <2>4, PartsAre
    <3>2. y = z => i = j
      BY <2>4, MetricsAssumption DEF IsInjective, OwnNamespaces
    <3> HIDE DEF y, z
    <3>3. <<"key", w, y>> \in Seq(Parts) /\ <<"key", x, z>> \in Seq(Parts)
      BY <3>1, KeysAre
    <3>4. <<"key", w, y>> = <<"key", x, z>>
      BY <2>2, <3>3, NamesApart DEF y, z
    <3> QED
      BY <3>2, <3>4
  <2>11. NamesDiffer(FlattenSeq(Q)) /\ FlattenSeq(Q) \in Seq(T)
    <3>1. \A i \in DOMAIN Q : NamesDiffer(Q[i])
      BY <2>5, <2>8
    <3>2. ASSUME NEW i \in DOMAIN Q, NEW j \in DOMAIN Q,
                 NEW k \in DOMAIN Q[i], NEW l \in DOMAIN Q[j], Q[i][k].name = Q[j][l].name
          PROVE  i = j
      <4>1. i \in 1 .. n /\ j \in 1 .. n /\ k \in 1 .. 4 /\ l \in 1 .. 4
        BY <2>5, <2>8
      <4>2. PICK w \in Parts :
               Q[i][k].name = Name(<<"key", w, Digits[config.percentile[i]]>>, "timer")
        BY <2>8, <4>1
      <4>3. PICK x \in Parts :
               Q[j][l].name = Name(<<"key", x, Digits[config.percentile[j]]>>, "timer")
        BY <2>8, <4>1
      <4> QED
        BY <2>10, <3>2, <4>1, <4>2, <4>3
    <3> QED
      BY <2>9, <3>1, <3>2, FlattenDiffers, FlattenTyped
  <2>12. \A i \in DOMAIN h, j \in DOMAIN FlattenSeq(Q) : h[i].name # FlattenSeq(Q)[j].name
    <3> SUFFICES ASSUME NEW i \in DOMAIN h, NEW j \in DOMAIN FlattenSeq(Q),
                        h[i].name = FlattenSeq(Q)[j].name
                 PROVE  FALSE
      OBVIOUS
    <3>1. FlattenSeq(Q)[j] \in T
      BY <2>11
    <3>2. PICK k \in 1 .. n : \E l \in 1 .. 4 : FlattenSeq(Q)[j] = Q[k][l]
      BY <3>1 DEF T
    <3>3. PICK w \in Parts :
             FlattenSeq(Q)[j].name = Name(<<"key", w, Digits[config.percentile[k]]>>, "timer")
      BY <2>8, <3>2
    <3> DEFINE z == <<"key", w, Digits[config.percentile[k]]>>
    <3>4. z \in Seq(Parts) /\ Len(z) = 3
      <4>1. Digits[config.percentile[k]] \in Parts
        BY <2>4, PartsAre
      <4> QED
        BY <4>1, KeysAre
    <3>5. \E g \in Seq(Parts), x \in Namespaces : h[i].name = Name(g, x) /\ Len(g) <= 2
      <4>1. /\ DOMAIN h = 1 .. 5
            /\ h[1] = a /\ h[2] = b /\ h[3] = d /\ h[4] = e /\ h[5] = f
        OBVIOUS
      <4>2. i = 1 \/ i = 2 \/ i = 3 \/ i = 4 \/ i = 5
        BY <4>1
      <4>3. /\ Len(<<"key">>) <= 2 /\ Len(<<"key", "mean">>) <= 2 /\ Len(<<"key", "median">>) <= 2
            /\ Len(<<"key", "max">>) <= 2 /\ Len(<<"key", "min">>) <= 2
        OBVIOUS
      <4> HIDE DEF h
      <4> QED
        BY <1>1, <2>2, <2>3, <2>6, <4>1, <4>2, <4>3
    <3>6. PICK g \in Seq(Parts), x \in Namespaces : h[i].name = Name(g, x) /\ Len(g) <= 2
      BY <3>5
    <3>7. Name(g, x) = Name(z, "timer")
      BY <3>3, <3>6
    <3> HIDE DEF z
    <3>8. g = z
      BY <2>2, <3>4, <3>6, <3>7, NamesApart
    <3>9. Len(g) = 3
      BY <3>4, <3>8
    <3>10. Len(g) <= 2
      BY <3>6
    <3> QED
      BY <3>9, <3>10
  <2>13. h \in Seq(U) /\ FlattenSeq(Q) \in Seq(U)
    <3>1. T \subseteq U /\ a \in U /\ b \in U /\ d \in U /\ e \in U /\ f \in U
      OBVIOUS
    <3> HIDE DEF U
    <3> QED
      BY <2>11, <3>1
  <2> DEFINE fq == FlattenSeq(Q)
  <2> HIDE DEF h, fq, U
  <2>14. NamesDiffer(h \o fq)
    BY <2>7, <2>11, <2>12, <2>13, ConcatDiffers DEF fq
  <2> QED
    BY <2>1, <2>14 DEF r, fq
<1> QED
  BY <1>2, <1>3, <1>4 DEF Types

-----------------------------------------------------------------------------
(***************************************************************************)
(* The invariant: the entry is what its lines add up to, the report is     *)
(* what Flush makes of them, and a dead daemon met an entry it panics on.  *)
(***************************************************************************)

\* What a report says of the lines.
Reported(c, ls, r) ==
    /\ r.type = GatheredOf(ls).type
    /\ Processed(c, ls, r.short, r.metric)
    /\ SeriesOK(r)
    /\ OwnNamespaces(c) => NamesDiffer(r.series)

LinesOK ==
    /\ config \in Configs /\ dead \in BOOLEAN
    /\ inputs \in EntryLines \cup {<<>>}

EntryGathered == entry # None => inputs \in EntryLines /\ entry = GatheredOf(inputs)
ReportSent == report # None => inputs \in EntryLines /\ Reported(config, inputs, report)
DeadPanicked ==
    dead => /\ entry # None /\ entry.type = "timer"
            /\ \E short : PanicsUnder(config, Sorted(entry.all), short)

MetricsInv == LinesOK /\ EntryGathered /\ ReportSent /\ DeadPanicked

\* Every step of Receive and Flush keeps the invariant: AggregateMetric joins a
\* line to what the others add up to, and Flush reports and deletes it.
THEOREM MetricsInvariant == Spec => []MetricsInv
<1>1. Init => MetricsInv
  BY DEF Init, MetricsInv, LinesOK, EntryGathered, ReportSent, DeadPanicked
<1>2. MetricsInv /\ [Next]_vars => MetricsInv'
  <2> SUFFICES ASSUME MetricsInv, [Next]_vars PROVE MetricsInv'
    OBVIOUS
  <2>0. LinesOK /\ EntryGathered /\ ReportSent /\ DeadPanicked
    BY DEF MetricsInv
  <2>1. ASSUME NEW line \in Inputs, Receive(line) PROVE MetricsInv'
    <3> DEFINE m == ParseMetricString(line)
    <3>1. /\ Parses(line) /\ ~dead
          /\ entry # None => Len(entry.all) < MaxLines
          /\ entry' = AggregateMetric(entry, m)
          /\ inputs' = IF entry = None THEN <<line>> ELSE Append(inputs, line)
          /\ report' = None /\ config' = config /\ dead' = dead
      BY <2>1 DEF Receive
    <3> HIDE DEF m
    <3>2. inputs' \in EntryLines /\ entry' = GatheredOf(inputs')
      <4>1. CASE entry = None
        <5>1. entry' = m /\ inputs' = <<line>>
          BY <3>1, <4>1 DEF AggregateMetric
        <5>2. <<line>> \in EntryLines /\ GatheredOf(<<line>>) = m
          BY <3>1, FirstLine DEF m
        <5> QED
          BY <5>1, <5>2
      <4>2. CASE entry # None
        <5>1. inputs \in EntryLines /\ entry = GatheredOf(inputs)
          BY <2>0, <4>2 DEF EntryGathered
        <5>2. entry.all = ValuesOf(inputs)
          BY <5>1 DEF GatheredOf
        <5>3. Len(inputs) < MaxLines
          BY <3>1, <4>2, <5>1, <5>2, GatheredIs
        <5>4. Append(inputs, line) \in EntryLines
          BY <3>1, <5>1, <5>3, LineAdded
        <5>5. GatheredOf(Append(inputs, line)) = AggregateMetric(GatheredOf(inputs), m)
          BY <3>1, <4>2, <5>1, <5>3, FurtherLine DEF m
        <5> QED
          BY <3>1, <4>2, <5>1, <5>4, <5>5
      <4> QED
        BY <4>1, <4>2
    <3>3. LinesOK'
      BY <2>0, <3>1, <3>2 DEF LinesOK
    <3>4. EntryGathered'
      BY <3>2 DEF EntryGathered
    <3>5. ReportSent'
      BY <3>1 DEF ReportSent
    <3>6. DeadPanicked'
      BY <3>1 DEF DeadPanicked
    <3> QED
      BY <3>3, <3>4, <3>5, <3>6 DEF MetricsInv
  <2>2. CASE Flush
    <3>1. /\ ~dead /\ entry # None /\ config' = config /\ inputs' = inputs
          /\ \E short :
                IF entry.type = "timer" /\ Panics(Sorted(entry.all), short)
                  THEN dead' = TRUE /\ entry' = entry /\ report' = report
                  ELSE /\ report' = [type   |-> entry.type,
                                     metric |-> ProcessMetric(entry, short),
                                     series |-> Series(entry.type, ProcessMetric(entry, short)),
                                     short  |-> short]
                       /\ entry' = None /\ dead' = dead
      BY <2>2 DEF Flush
    <3>2. inputs \in EntryLines /\ entry = GatheredOf(inputs) /\ config \in Configs
      BY <2>0, <3>1 DEF EntryGathered, LinesOK
    <3>3. entry.all = ValuesOf(inputs)
      BY <3>2 DEF GatheredOf
    <3>4. ASSUME NEW short, entry.type = "timer",
                 Panics(Sorted(entry.all), short),
                 dead' = TRUE, entry' = entry, report' = report
          PROVE  MetricsInv'
      <4>1. LinesOK' /\ EntryGathered'
        BY <2>0, <3>1, <3>2, <3>4 DEF LinesOK, EntryGathered
      <4>2. ReportSent'
        BY <2>0, <3>1, <3>4 DEF ReportSent
      <4>3. PanicsUnder(config, Sorted(entry.all), short)
        BY <3>4 DEF Panics, PanicsUnder
      <4>4. DeadPanicked'
        BY <3>1, <3>4, <4>3 DEF DeadPanicked
      <4> QED
        BY <4>1, <4>2, <4>4 DEF MetricsInv
    <3>5. ASSUME NEW short,
                 ~(entry.type = "timer" /\ Panics(Sorted(entry.all), short)),
                 report' = [type   |-> entry.type,
                            metric |-> ProcessMetric(entry, short),
                            series |-> Series(entry.type, ProcessMetric(entry, short)),
                            short  |-> short],
                 entry' = None, dead' = dead
          PROVE  MetricsInv'
      <4>1. LinesOK' /\ EntryGathered' /\ DeadPanicked'
        BY <2>0, <3>1, <3>5 DEF LinesOK, EntryGathered, DeadPanicked
      <4> DEFINE m == ProcessMetric(entry, short)
      <4>2. GatheredOf(inputs).type = "timer" => ~Panics(Sorted(ValuesOf(inputs)), short)
        BY <3>2, <3>3, <3>5
      <4>3. Processed(config, inputs, short, m)
        BY <3>2, <4>2, ProcessedIs
      <4>4. /\ report'.type = entry.type /\ report'.metric = m
            /\ report'.series = Series(entry.type, m) /\ report'.short = short
        BY <3>5
      <4> HIDE DEF m
      <4>5. SeriesOK(report')
        BY <3>2, <4>3, <4>4, SeriesTyped DEF SeriesOK
      <4>6. OwnNamespaces(config) => NamesDiffer(report'.series)
        <5>1. GatheredOf(inputs).type = entry.type /\ entry.type \in Types
          BY <3>2, GatheredFields
        <5>2. entry.type = "timer" =>
                 /\ DOMAIN m.quantiles = DOMAIN config.percentile
                 /\ \A i \in DOMAIN config.percentile :
                       m.quantiles[i].quantile = config.percentile[i]
          BY <4>3, <5>1, QuantilesNamed
        <5> QED
          BY <2>0, <4>4, <5>1, <5>2, SeriesDiffers DEF LinesOK
      <4>8. Reported(config, inputs, report')
        BY <3>2, <4>3, <4>4, <4>5, <4>6 DEF Reported
      <4>7. ReportSent'
        BY <3>1, <3>2, <4>8 DEF ReportSent
      <4> QED
        BY <4>1, <4>7 DEF MetricsInv
    <3> QED
      BY <3>1, <3>4, <3>5
<2>3. CASE UNCHANGED vars
    <3>1. config' = config /\ entry' = entry /\ report' = report /\ dead' = dead /\ inputs' = inputs
      BY <2>3 DEF vars
    <3>2. LinesOK' /\ EntryGathered'
      BY <2>0, <3>1 DEF LinesOK, EntryGathered
    <3>3. ReportSent'
      BY <2>0, <3>1 DEF ReportSent
    <3>4. DeadPanicked'
      BY <2>0, <3>1 DEF DeadPanicked
    <3> QED
      BY <3>2, <3>3, <3>4 DEF MetricsInv
  <2>4. ASSUME NEW line \in Inputs, Reject(line) PROVE UNCHANGED vars
    BY <2>4 DEF Reject
  <2>5. Dead => UNCHANGED vars
    BY DEF Dead
  <2> QED
    BY <2>1, <2>2, <2>3, <2>4, <2>5 DEF Next
<1> QED
  BY <1>1, <1>2, PTL DEF Spec

-----------------------------------------------------------------------------
(***************************************************************************)
(* The properties.                                                         *)
(***************************************************************************)

\* What the properties say of "inputs" is what is said above of any lines.
LEMMA OfInputs ==
    /\ \A i : Parsed(i) = ParsedOf(inputs, i)
    /\ Values = ValuesOf(inputs)
    /\ Expected = ExpectedOf(inputs)
<1>1. \A i : Parsed(i) = ParsedOf(inputs, i)
  BY DEF Parsed, ParsedOf
<1>2. Values = ValuesOf(inputs)
  BY DEF Values, ValuesOf, Parsed, ParsedOf
<1>3. LastReset = ResetOf(inputs)
  BY DEF LastReset, ResetOf, ResetsOf, Parsed, ParsedOf
<1>4. Expected = ExpectedOf(inputs)
  BY <1>3 DEF Expected, ExpectedOf, AddedOf, Added, Parsed, ParsedOf
<1> QED
  BY <1>1, <1>2, <1>4

\* The entry, report and history have their types (TypeOK): a series holds
\* nothing but numbers, and quotients by 0.
THEOREM MetricsTyped == Spec => []TypeOK
<1>1. MetricsInv => TypeOK
  <2> SUFFICES ASSUME MetricsInv PROVE TypeOK
    OBVIOUS
  <2>1. config \in Configs /\ dead \in BOOLEAN /\ inputs \in EntryLines \cup {<<>>}
    BY DEF MetricsInv, LinesOK
  <2>2. inputs \in Seq(Inputs) /\ Len(inputs) <= MaxLines
    <3>1. CASE inputs = <<>>
      BY <3>1, MetricsAssumption
    <3>2. CASE inputs \in EntryLines
      BY <3>2 DEF EntryLines
    <3> QED
      BY <2>1, <3>1, <3>2
  <2>3. ASSUME entry # None
        PROVE  /\ entry.type \in Types /\ entry.hits \in Nat /\ entry.last \in Int
               /\ entry.all \in Seq(Int) /\ Len(entry.all) = Len(inputs)
    <3>1. inputs \in EntryLines /\ entry = GatheredOf(inputs)
      BY <2>3 DEF MetricsInv, EntryGathered
    <3> QED
      BY <3>1, GatheredFields, GatheredIs
  <2>4. ASSUME report # None
        PROVE  /\ report.type \in Types
               /\ \A i \in DOMAIN report.series : report.series[i].value \in Value
    <3>1. inputs \in EntryLines /\ report.type = GatheredOf(inputs).type /\ SeriesOK(report)
      BY <2>4 DEF MetricsInv, ReportSent, Reported
    <3> QED
      BY <3>1, GatheredFields DEF SeriesOK
  <2> QED
    BY <2>1, <2>2, <2>3, <2>4 DEF TypeOK
<1> QED
  BY <1>1, MetricsInvariant, PTL

\* The value under a key is that of the latest line that set it with the later
\* counters added, in the entry and in the report (LastValueFromReset).
THEOREM LastValueKept == Spec => []LastValueFromReset
<1>1. MetricsInv => LastValueFromReset
  <2> SUFFICES ASSUME MetricsInv PROVE LastValueFromReset
    OBVIOUS
  <2>1. Parsed(1) = ParsedOf(inputs, 1) /\ Expected = ExpectedOf(inputs)
    BY OfInputs
  <2>2. ASSUME entry # None
        PROVE  entry.last = Expected /\ entry.type = Parsed(1).type
    <3>1. inputs \in EntryLines /\ entry = GatheredOf(inputs)
      BY <2>2 DEF MetricsInv, EntryGathered
    <3> QED
      BY <2>1, <3>1, GatheredFields
  <2>3. ASSUME report # None
        PROVE  /\ report.type = Parsed(1).type
               /\ report.type # "set" => report.metric.last = Expected
    <3>1. /\ inputs \in EntryLines /\ report.type = GatheredOf(inputs).type
          /\ Processed(config, inputs, report.short, report.metric)
      BY <2>3 DEF MetricsInv, ReportSent, Reported
    <3>2. /\ GatheredOf(inputs).type \in Types
          /\ GatheredOf(inputs).type = ParsedOf(inputs, 1).type
          /\ GatheredOf(inputs).last = ExpectedOf(inputs)
      BY <3>1, GatheredFields
    <3>3. report.type # "set" => report.metric.last = GatheredOf(inputs).last
      BY <3>1, <3>2 DEF Processed, Types
    <3> QED
      BY <2>1, <3>1, <3>2, <3>3
  <2> QED
    BY <2>2, <2>3 DEF LastValueFromReset
<1> QED
  BY <1>1, MetricsInvariant, PTL

\* A least, and a greatest, element is the one that Min and Max choose.
LEMMA ExtremesAre ==
    ASSUME NEW S, \A x \in S : x \in Int, NEW m \in S
    PROVE  /\ (\A x \in S : m <= x) => Min(S) = m
           /\ (\A x \in S : x <= m) => Max(S) = m
<1>1. ASSUME \A x \in S : m <= x PROVE Min(S) = m
  <2>1. Min(S) \in S /\ \A x \in S : Min(S) <= x
    BY <1>1 DEF Min
  <2> HIDE DEF Min
  <2>2. Min(S) <= m /\ m <= Min(S) /\ Min(S) \in Int /\ m \in Int
    BY <1>1, <2>1
  <2> QED
    BY <2>2
<1>2. ASSUME \A x \in S : x <= m PROVE Max(S) = m
  <2>1. Max(S) \in S /\ \A x \in S : x <= Max(S)
    BY <1>2 DEF Max
  <2>2. Max(S) <= m /\ m <= Max(S) /\ Max(S) \in Int /\ m \in Int
    BY <1>2, <2>1
  <2> QED
    BY <2>2
<1> QED
  BY <1>1, <1>2

\* The indices of the values that are in B.
AreIndices(A, vals, B) == A = {i \in DOMAIN vals : vals[i] \in B}

\* The values of s are those of vals, moved by p.
Reorders(p, vals, s) ==
    /\ vals \in Seq(Int) /\ s \in Seq(Int) /\ Len(s) = Len(vals)
    /\ Permutes(p, Len(vals)) /\ \A k \in 1 .. Len(vals) : s[k] = vals[p[k]]

\* As many of the sorted values as of the values are in a set.
LEMMA CountSorted ==
    ASSUME NEW vals, NEW s, NEW p, Reorders(p, vals, s), NEW B,
           NEW A, AreIndices(A, vals, B), NEW C, AreIndices(C, s, B)
    PROVE  Cardinality(A) = Cardinality(C)
<1> DEFINE n == Len(vals)
<1>1. n \in Nat /\ DOMAIN vals = 1 .. n /\ DOMAIN s = 1 .. n /\ A \in SUBSET (1 .. n)
  BY DEF AreIndices, Reorders
<1>2. \A k \in 1 .. n : p[k] \in 1 .. n /\ s[k] = vals[p[k]]
  BY PermutesIs DEF Reorders
<1>3. C = {k \in 1 .. n : p[k] \in A}
  BY <1>1, <1>2 DEF AreIndices
<1>4. Cardinality(C) = Cardinality(A)
  <2> HIDE DEF n
  <2>1. Permutes(p, n)
    BY DEF n, Reorders
  <2> QED
    BY <1>1, <1>3, <2>1, PermutedCardinality
<1> QED
  BY <1>4

\* What TimerFigures says of the n values: their extremes, mean and median.
AreFigures(vals, n, min, max, mean, median) ==
    /\ min = Min(ToSet(vals)) /\ max = Max(ToSet(vals))
    /\ mean * n = SumFunction(vals)
    /\ 2 * Cardinality({i \in DOMAIN vals : vals[i] < median}) <= n
    /\ 2 * Cardinality({i \in DOMAIN vals : vals[i] > median}) <= n
    /\ IF n % 2 = 1 THEN median \in ToSet(vals)
       ELSE \E i, j \in DOMAIN vals :
               /\ i # j /\ vals[i] + vals[j] = 2 * median
               /\ ~\E k \in DOMAIN vals \ {i, j} :
                     vals[k] > vals[i] /\ vals[k] < vals[j]

\* They are computed from the sorted values, whatever the order of the lines.
LEMMA TimerFiguresOf ==
    ASSUME NEW ls \in EntryLines
    PROVE  LET s == Sorted(ValuesOf(ls))
           IN AreFigures(ValuesOf(ls), Len(ls),
                         Minmax(s).min, Minmax(s).max, Mean(s), Median(s))
<1> DEFINE vals == ValuesOf(ls)
           s == Sorted(vals)
           med == Median(s)
           n == Len(ls)
<1>1. vals \in Seq(Int) /\ Len(vals) = n /\ n \in Nat /\ DOMAIN vals = 1 .. n
  BY GatheredIs
<1>2. /\ s \in Seq(Int) /\ s # <<>> /\ Len(s) = n /\ Ordered(s) /\ DOMAIN s = 1 .. n
      /\ \A i \in 1 .. n : MultipleOf(s[i], Quantum) /\ MultipleOf(Quantum, i)
      /\ MultipleOf(Quantum, 2)
      /\ \E p : Permutes(p, n) /\ \A k \in 1 .. n : s[k] = vals[p[k]]
      /\ med \in Int
  BY SortedFigures
<1> HIDE DEF vals, s, n
<1>3. PICK p : Permutes(p, n) /\ \A k \in 1 .. n : s[k] = vals[p[k]]
  BY <1>2
<1>4. /\ \A k \in 1 .. n : p[k] \in 1 .. n
      /\ \A i, j \in 1 .. n : p[i] = p[j] => i = j
      /\ \A i \in 1 .. n : \E k \in 1 .. n : p[k] = i
  BY <1>3, PermutesIs
<1>5. Quantum \in Int
  BY MetricsAssumption
<1>6. Minmax(s).min = Min(ToSet(vals)) /\ Minmax(s).max = Max(ToSet(vals))
  <2> DEFINE S == ToSet(vals)
             lo == Minmax(s).min
             hi == Minmax(s).max
  <2>1. \A x : x \in S <=> \E i \in 1 .. n : x = vals[i]
    BY <1>1 DEF ToSet
  <2>2. /\ \E i \in 1 .. n : lo = s[i]
        /\ \E i \in 1 .. n : hi = s[i]
        /\ \A i \in 1 .. n : lo <= s[i] /\ s[i] <= hi
    BY <1>2, MinmaxIs
  <2> HIDE DEF S, lo, hi
  <2>3. lo \in S /\ hi \in S
    BY <1>3, <1>4, <2>1, <2>2
  <2>4. \A i \in 1 .. n : lo <= vals[i] /\ vals[i] <= hi
    BY <1>3, <1>4, <2>2
  <2>5. \A x \in S : x \in Int
    BY <1>1, <2>1
  <2>6. \A x \in S : lo <= x /\ x <= hi
    BY <2>1, <2>4
  <2>7. Min(S) = lo /\ Max(S) = hi
    BY <2>3, <2>5, <2>6, ExtremesAre
  <2> QED
    BY <2>7 DEF S, lo, hi
<1>7. Mean(s) * n = SumFunction(vals)
  <2>1. Mean(s) * Len(s) = SumFunction(s)
    BY <1>2, <1>5, MeanIs
  <2>2. /\ Len(s) = Len(vals) /\ Permutes(p, Len(vals))
        /\ \A k \in 1 .. Len(vals) : s[k] = vals[p[k]]
    BY <1>1, <1>2, <1>3
  <2>3. SumFunction(s) = SumFunction(vals)
    BY <1>1, <1>2, <2>2, PermutedSum
  <2> QED
    BY <1>2, <2>1, <2>3
<1>8. /\ 2 * Cardinality({i \in 1 .. n : s[i] < med}) <= n
      /\ 2 * Cardinality({i \in 1 .. n : s[i] > med}) <= n
      /\ IF n % 2 = 1 THEN \E k \in 1 .. n : med = s[k]
         ELSE \E k \in 1 .. n :
                 /\ k + 1 \in 1 .. n /\ s[k] + s[k + 1] = 2 * med
                 /\ \A j \in 1 .. n : s[j] <= s[k] \/ s[j] >= s[k + 1]
  BY <1>2, <1>5, MedianIs
<1> HIDE DEF med
<1>9. /\ 2 * Cardinality({i \in DOMAIN vals : vals[i] < med}) <= n
      /\ 2 * Cardinality({i \in DOMAIN vals : vals[i] > med}) <= n
  <2> DEFINE A == {i \in DOMAIN vals : vals[i] < med}
             B == {i \in 1 .. n : s[i] < med}
             below == {x \in Int : x < med}
             C == {i \in DOMAIN vals : vals[i] > med}
             D == {i \in 1 .. n : s[i] > med}
             above == {x \in Int : x > med}
  <2>1. AreIndices(A, vals, below) /\ AreIndices(C, vals, above)
    BY <1>1 DEF AreIndices
  <2>2. AreIndices(B, s, below) /\ AreIndices(D, s, above)
    BY <1>2 DEF AreIndices
  <2> HIDE DEF A, B, C, D, below, above
  <2>3. Reorders(p, vals, s)
    BY <1>1, <1>2, <1>3 DEF Reorders
  <2>4. Cardinality(A) = Cardinality(B) /\ Cardinality(C) = Cardinality(D)
    <3>1. Cardinality(A) = Cardinality(B)
      BY ONLY <2>1, <2>2, <2>3, CountSorted
    <3>2. Cardinality(C) = Cardinality(D)
      BY ONLY <2>1, <2>2, <2>3, CountSorted
    <3> QED
      BY <3>1, <3>2
  <2> USE DEF A, B, C, D
  <2> QED
    BY <1>8, <2>4
<1>10. ASSUME n % 2 = 1 PROVE med \in ToSet(vals)
  <2>1. PICK k \in 1 .. n : med = s[k]
    BY <1>8, <1>10
  <2>2. p[k] \in DOMAIN vals /\ med = vals[p[k]]
    BY <1>1, <1>3, <1>4, <2>1
  <2> QED
    BY <2>2 DEF ToSet
<1>11. ASSUME ~(n % 2 = 1)
       PROVE  \E i, j \in 1 .. n :
                 /\ i # j /\ vals[i] + vals[j] = 2 * med
                 /\ ~\E k \in (1 .. n) \ {i, j} : vals[k] > vals[i] /\ vals[k] < vals[j]
  <2>1. PICK k \in 1 .. n :
           /\ k + 1 \in 1 .. n /\ s[k] + s[k + 1] = 2 * med
           /\ \A j \in 1 .. n : s[j] <= s[k] \/ s[j] >= s[k + 1]
    BY <1>8, <1>11
  <2>2. /\ p[k] \in 1 .. n /\ p[k + 1] \in 1 .. n /\ p[k] # p[k + 1]
        /\ vals[p[k]] = s[k] /\ vals[p[k + 1]] = s[k + 1]
    <3>1. k # k + 1
      BY <1>1
    <3> QED
      BY <1>3, <1>4, <2>1, <3>1
  <2>3. \A i \in 1 .. n : vals[i] <= s[k] \/ vals[i] >= s[k + 1]
    BY <1>3, <1>4, <2>1
  <2>4. \A i \in 1 .. n : vals[i] \in Int
    BY <1>1
  <2>5. s[k] \in Int /\ s[k + 1] \in Int
    BY <2>2, <2>4
  <2>6. ~\E i \in (1 .. n) \ {p[k], p[k + 1]} : vals[i] > vals[p[k]] /\ vals[i] < vals[p[k + 1]]
    BY <2>2, <2>3, <2>4, <2>5
  <2> QED
    BY <2>1, <2>2, <2>6
<1> QED
  BY <1>1, <1>6, <1>7, <1>9, <1>10, <1>11 DEF AreFigures, vals, s, med, n

\* A timer's figures are those of the values received, in any order
\* (TimerFigures): extremes, mean and median.
THEOREM TimerReported == Spec => []TimerFigures
<1>1. MetricsInv => TimerFigures
  <2> SUFFICES ASSUME MetricsInv, report # None, report.type = "timer"
               PROVE  AreFigures(Values, Len(inputs), report.metric.min, report.metric.max,
                                 report.metric.mean, report.metric.median)
    BY DEF TimerFigures, Count, AreFigures
  <2>1. /\ inputs \in EntryLines /\ GatheredOf(inputs).type = "timer"
        /\ Processed(config, inputs, report.short, report.metric)
    BY DEF MetricsInv, ReportSent, Reported
  <2> DEFINE s == Sorted(ValuesOf(inputs))
  <2>2. /\ report.metric.min = Minmax(s).min /\ report.metric.max = Minmax(s).max
        /\ report.metric.median = Median(s) /\ report.metric.mean = Mean(s)
    BY <2>1 DEF Processed
  <2>3. Values = ValuesOf(inputs)
    BY OfInputs
  <2> QED
    BY <2>1, <2>2, <2>3, TimerFiguresOf
<1> QED
  BY <1>1, MetricsInvariant, PTL

\* A set reports how many different values came (SetCardinality).
THEOREM SetReported == Spec => []SetCardinality
<1>1. MetricsInv => SetCardinality
  <2> SUFFICES ASSUME MetricsInv, report # None, report.type = "set"
               PROVE  report.metric.last = Unit * Cardinality(ToSet(Values))
    BY DEF SetCardinality
  <2>1. /\ inputs \in EntryLines /\ GatheredOf(inputs).type = "set"
        /\ Processed(config, inputs, report.short, report.metric)
    BY DEF MetricsInv, ReportSent, Reported
  <2> DEFINE vals == ValuesOf(inputs)
             s == Sorted(vals)
             n == Len(inputs)
  <2>2. report.metric.last = UniqueCount(s) * Unit
    BY <2>1 DEF Processed
  <2>3. vals \in Seq(Int) /\ Len(vals) = n /\ DOMAIN vals = 1 .. n /\ n \in Nat
    BY <2>1, GatheredIs
  <2>4. /\ s \in Seq(Int) /\ DOMAIN s = 1 .. n
        /\ \E p : Permutes(p, n) /\ \A k \in 1 .. n : s[k] = vals[p[k]]
    BY <2>1, SortedFigures
  <2> HIDE DEF vals, s, n
  <2>5. UniqueCount(s) = Cardinality(ToSet(s))
    BY <2>4, UniqueIs
  <2>6. ToSet(s) = ToSet(vals)
    <3>1. PICK p : Permutes(p, n) /\ \A k \in 1 .. n : s[k] = vals[p[k]]
      BY <2>4
    <3>2. /\ \A k \in 1 .. n : p[k] \in 1 .. n
          /\ \A i \in 1 .. n : \E k \in 1 .. n : p[k] = i
      BY <3>1, PermutesIs
    <3>3. \A x : x \in ToSet(s) <=> \E k \in 1 .. n : x = s[k]
      BY <2>4 DEF ToSet
    <3>4. \A x : x \in ToSet(vals) <=> \E k \in 1 .. n : x = vals[k]
      BY <2>3 DEF ToSet
    <3>5. \A x : x \in ToSet(s) <=> x \in ToSet(vals)
      BY <3>1, <3>2, <3>3, <3>4
    <3> QED
      BY <3>5
  <2>7. Cardinality(ToSet(vals)) \in Int /\ Unit \in Int
    <3>1. IsFiniteSet(1 .. n)
      BY <2>3, FS_Interval
    <3>2. IsFiniteSet(ToSet(vals))
      <4> DEFINE f == [i \in 1 .. n |-> vals[i]]
      <4>1. ToSet(vals) = {f[i] : i \in 1 .. n}
        BY <2>3 DEF ToSet
      <4>2. f \in Surjection(1 .. n, ToSet(vals))
        BY <2>3 DEF Surjection, ToSet
      <4> QED
        BY <3>1, <4>2, FS_Surjection
    <3> QED
      BY <3>2, FS_CardinalityType, MetricsAssumption
  <2>8. Values = vals
    BY OfInputs DEF vals
  <2>9. \A x, y \in Int : x * y = y * x
    OBVIOUS
  <2> QED
    BY <2>2, <2>5, <2>6, <2>7, <2>8, <2>9
<1> QED
  BY <1>1, MetricsInvariant, PTL

\* What PercentilesNested says of a quantile taken of the values.
LEMMA QuantileOf ==
    ASSUME NEW ls \in EntryLines, NEW q \in Int, NEW short,
           Within(Sorted(ValuesOf(ls)), q, short) # <<>>,
           CanQuantile(Sorted(ValuesOf(ls)), q, q \in short),
           NEW B, \A x \in Int :
                     x \in B <=> x <= MetricQuantile(Sorted(ValuesOf(ls)), q, short).max,
           NEW A, AreIndices(A, ValuesOf(ls), B)
    PROVE  MetricQuantile(Sorted(ValuesOf(ls)), q, short).size = Cardinality(A)
<1> DEFINE vals == ValuesOf(ls)
           s == Sorted(vals)
           w == Within(s, q, short)
           m == MetricQuantile(s, q, short)
           n == Len(ls)
           k == Len(w)
<1>1. vals \in Seq(Int) /\ Len(vals) = n /\ n \in Nat /\ DOMAIN vals = 1 .. n
  BY GatheredIs
<1>2. /\ s \in Seq(Int) /\ s # <<>> /\ Len(s) = n /\ Ordered(s) /\ DOMAIN s = 1 .. n
      /\ \E p : Permutes(p, n) /\ \A i \in 1 .. n : s[i] = vals[p[i]]
  BY SortedFigures
<1>3. m.size = k /\ m.max = Minmax(w).max /\ m.max \in Int
  BY QuantileFigures
<1>4. w # <<>> /\ CanQuantile(s, q, q \in short) /\ AreIndices(A, vals, B)
      /\ \A x \in Int : x \in B <=> x <= m.max
  OBVIOUS
<1> HIDE DEF vals, n, s, m
<1>5. PICK p : Permutes(p, n) /\ \A i \in 1 .. n : s[i] = vals[p[i]]
  BY <1>2
<1>6. Quantile(s, q, q \in short) \in Int
  BY <1>2, <1>4, QuantileAtLeast
<1>7. /\ k \in 1 .. Len(s) /\ Minmax(w).max = s[k]
      /\ \A i \in 1 .. Len(s) : s[i] <= s[k] <=> i \in 1 .. k
  BY <1>2, <1>4, <1>6, WithinCount
<1> HIDE DEF w, k
<1> DEFINE C == 1 .. k
<1>8. Reorders(p, vals, s)
  BY <1>1, <1>2, <1>5 DEF Reorders
<1>9. AreIndices(C, s, B)
  <2>1. \A i \in DOMAIN s : s[i] \in Int
    BY <1>2
  <2>2. \A i \in 1 .. n : s[i] \in B <=> i \in 1 .. k
    BY <1>2, <1>3, <1>4, <1>7, <2>1
  <2>3. \A i \in 1 .. k : i \in 1 .. n
    BY <1>1, <1>2, <1>7
  <2>4. \A i : i \in C <=> i \in {j \in DOMAIN s : s[j] \in B}
    BY <1>2, <2>2, <2>3
  <2> QED
    BY <2>4 DEF AreIndices
<1> HIDE DEF C
<1>10. Cardinality(A) = Cardinality(C)
  BY ONLY <1>4, <1>8, <1>9, CountSorted
<1>11. Cardinality(C) = k
  BY <1>1, <1>2, <1>7, FS_Interval DEF C
<1> QED
  BY <1>3, <1>10, <1>11 DEF m, s, vals

\* Percentiles are nested and take their share, whichever of the products that give
\* their ranks come out low, and their greatest value, sum and mean agree
\* (PercentilesNested).
THEOREM PercentilesReported == Spec => []PercentilesNested
<1>1. MetricsInv => PercentilesNested
  <2> SUFFICES ASSUME MetricsInv, report # None, report.type = "timer",
                      NEW i \in DOMAIN report.metric.quantiles
               PROVE  LET qs == report.metric.quantiles
                          n  == Len(inputs)
                      IN /\ qs[i].mean * qs[i].size = qs[i].sum
                         /\ qs[i].size = Cardinality({j \in DOMAIN Values : Values[j] <= qs[i].max})
                         /\ ~FellShort(qs[i].quantile) =>
                               /\ 100 * qs[i].size >= qs[i].quantile * (n - 1)
                               /\ qs[i].quantile >= 100 => qs[i].size = n
                               /\ \A j \in DOMAIN qs : qs[j].quantile <= qs[i].quantile
                                                         => qs[j].size <= qs[i].size
    BY DEF PercentilesNested, Count
  <2>1. /\ inputs \in EntryLines /\ GatheredOf(inputs).type = "timer"
        /\ Processed(config, inputs, report.short, report.metric)
        /\ config \in Configs
    BY DEF MetricsInv, ReportSent, Reported, LinesOK
  <2> DEFINE s == Sorted(ValuesOf(inputs))
             qs == report.metric.quantiles
             ps == config.percentile
             short == report.short
             n == Len(inputs)
  <2>2. qs = QuantilesUnder(config, s, short) /\ ~PanicsUnder(config, s, short)
    BY <2>1 DEF Processed
  <2>3. ps \in Seq(Int)
    BY <2>1, MetricsAssumption DEF ConfigType
  <2>4. DOMAIN qs = DOMAIN ps
    BY <2>2 DEF QuantilesUnder
  <2>5. /\ s \in Seq(Int) /\ s # <<>> /\ Len(s) = n /\ Ordered(s)
    BY <2>1, SortedFigures
  <2>6. ASSUME NEW j \in DOMAIN qs
        PROVE  /\ ps[j] \in Int /\ qs[j] = MetricQuantile(s, ps[j], short)
               /\ CanQuantile(s, ps[j], ps[j] \in short) /\ Within(s, ps[j], short) # <<>>
               /\ qs[j].quantile = ps[j] /\ qs[j].size = Len(Within(s, ps[j], short))
               /\ qs[j].size \in 1 .. n
               /\ qs[j].mean * qs[j].size = qs[j].sum
    <3>1. ps[j] \in Int /\ j \in DOMAIN ps
      BY <2>3, <2>4
    <3>2. qs[j] = MetricQuantile(s, ps[j], short)
      BY <2>2, <3>1 DEF QuantilesUnder
    <3>3. CanQuantile(s, ps[j], ps[j] \in short) /\ Within(s, ps[j], short) # <<>>
      BY <2>2, <3>1 DEF PanicsUnder
    <3> HIDE DEF qs, ps
    <3> QED
      BY <2>1, <3>1, <3>2, <3>3, QuantileFigures
  <2>7. Values = ValuesOf(inputs)
    BY OfInputs
  <2>8. qs[i].size = Cardinality({j \in DOMAIN Values : Values[j] <= qs[i].max})
    <3> DEFINE A == {j \in DOMAIN Values : Values[j] <= qs[i].max}
               B == {x \in Int : x <= qs[i].max}
    <3>1. AreIndices(A, ValuesOf(inputs), B)
      <4>1. \A j \in DOMAIN ValuesOf(inputs) : ValuesOf(inputs)[j] \in Int
        BY <2>1, GatheredIs
      <4> QED
        BY <2>7, <4>1 DEF AreIndices
    <3>3. \A x \in Int : x \in B <=> x <= MetricQuantile(s, ps[i], short).max
      BY <2>6
    <3>4. /\ ps[i] \in Int /\ CanQuantile(s, ps[i], ps[i] \in short)
          /\ Within(s, ps[i], short) # <<>>
      BY <2>6
    <3> HIDE DEF A, B, qs, ps
    <3>2. MetricQuantile(s, ps[i], short).size = Cardinality(A)
      BY <2>1, <3>1, <3>3, <3>4, QuantileOf
    <3> QED
      BY <2>6, <3>2 DEF A, qs
  <2> HIDE DEF s, qs, ps, n
  <2>9. ASSUME ~FellShort(qs[i].quantile)
        PROVE  /\ 100 * qs[i].size >= qs[i].quantile * (n - 1)
               /\ qs[i].quantile >= 100 => qs[i].size = n
               /\ \A j \in DOMAIN qs : qs[j].quantile <= qs[i].quantile
                                         => qs[j].size <= qs[i].size
    <3>0. i \in DOMAIN qs
      BY DEF qs
    <3>1. /\ ps[i] \in Int /\ CanQuantile(s, ps[i], ps[i] \in short)
          /\ qs[i].size = Len(Within(s, ps[i], short)) /\ qs[i].quantile = ps[i]
      BY <2>6, <3>0
    <3>2. ~(ps[i] \in short /\ MayFallShort(s, ps[i]))
      BY <2>7, <2>9, <3>1 DEF FellShort, s, short
    <3>3. /\ 100 * qs[i].size >= ps[i] * (n - 1)
          /\ ps[i] >= 100 => qs[i].size = n
          /\ \A r \in Int : CanQuantile(s, r, r \in short) /\ r <= ps[i]
                => Len(Within(s, r, short)) <= qs[i].size
      <4> HIDE DEF short
      <4> QED
        BY <2>5, <3>1, <3>2, WithinShare
    <3>4. ASSUME NEW j \in DOMAIN qs, qs[j].quantile <= qs[i].quantile
          PROVE  qs[j].size <= qs[i].size
      <4>1. /\ ps[j] \in Int /\ CanQuantile(s, ps[j], ps[j] \in short)
            /\ qs[j].size = Len(Within(s, ps[j], short)) /\ qs[j].quantile = ps[j]
        BY <2>6
      <4> QED
        BY <3>1, <3>3, <3>4, <4>1
    <3> QED
      BY <3>1, <3>3, <3>4
  <2> QED
    BY <2>6, <2>8, <2>9 DEF qs, n
<1> QED
  BY <1>1, MetricsInvariant, PTL

\* The daemon dies in a flush only of a timer, and only of a percentile that is
\* outside 0 .. 100 or lies between equal smallest values (DeathExplained).
THEOREM DeathOnlyOfPercentiles == Spec => []DeathExplained
<1>1. MetricsInv => DeathExplained
  <2> SUFFICES ASSUME MetricsInv, dead
               PROVE  /\ entry.type = "timer"
                      /\ \E i \in DOMAIN config.percentile :
                            LET q == config.percentile[i]
                                s == Sorted(entry.all)
                            IN \/ q \notin 0 .. 100
                               \/ /\ q % 25 # 0 /\ Len(s) > 1
                                  /\ s[1] = s[Boundary(s, q, TRUE) + 2]
    BY DEF DeathExplained
  <2>1. /\ entry # None /\ entry.type = "timer"
        /\ \E short : PanicsUnder(config, Sorted(entry.all), short)
    BY DEF MetricsInv, DeadPanicked
  <2>2. inputs \in EntryLines /\ entry.all = ValuesOf(inputs)
    <3>1. inputs \in EntryLines /\ entry = GatheredOf(inputs)
      BY <2>1 DEF MetricsInv, EntryGathered
    <3> QED
      BY <3>1, GatheredFields
  <2> DEFINE s == Sorted(entry.all)
  <2>3. s \in Seq(Int) /\ s # <<>> /\ Ordered(s)
    BY <2>2, SortedFigures
  <2>4. \E short : PanicsUnder(config, s, short)
    BY <2>1
  <2>6. PICK short : PanicsUnder(config, s, short)
    BY <2>4
  <2>7. PICK i \in DOMAIN config.percentile :
           LET q == config.percentile[i]
           IN ~CanQuantile(s, q, q \in short) \/ Within(s, q, short) = <<>>
    BY <2>6 DEF PanicsUnder
  <2> DEFINE q == config.percentile[i]
  <2> HIDE DEF s
  <2>5. ASSUME q \in 0 .. 100
        PROVE  q % 25 # 0 /\ Len(s) > 1 /\ s[1] = s[Boundary(s, q, TRUE) + 2]
    <3> HIDE DEF q
    <3>1. CanQuantile(s, q, q \in short)
      BY <2>3, <2>5, CanQuantileOf
    <3>2. Within(s, q, short) = <<>>
      BY <2>7, <3>1 DEF q
    <3>3. q \in Nat
      BY <2>5
    <3> QED
      BY <2>3, <3>1, <3>2, <3>3, WithinEmpty
  <2> QED
    BY <2>1, <2>5 DEF s
<1> QED
  BY <1>1, MetricsInvariant, PTL

\* For a flush interval of whole seconds, a rate times the interval is what came in
\* it (RateAgainstInterval).
THEOREM RateReported == Spec => []RateAgainstInterval
<1>1. MetricsInv => RateAgainstInterval
  <2> SUFFICES ASSUME MetricsInv, report # None, report.type \in {"counter", "timer"},
                      WholeSeconds
               PROVE  LET amount == IF report.type = "counter" THEN report.metric.last
                                    ELSE SumFunction([i \in DOMAIN inputs |-> Parsed(i).hits])
                          rate == report.metric.rate
                      IN rate.num * config.flush = amount * 1000 * rate.den
    BY DEF RateAgainstInterval
  <2>1. /\ inputs \in EntryLines /\ GatheredOf(inputs).type = report.type
        /\ Processed(config, inputs, report.short, report.metric) /\ config \in Configs
    BY DEF MetricsInv, ReportSent, Reported, LinesOK
  <2> DEFINE g == GatheredOf(inputs)
  <2>2. /\ g.last \in Int /\ g.hits \in Int
        /\ g.hits = SumFunction([i \in DOMAIN inputs |-> Parsed(i).hits])
    <3>1. HitsOf(inputs) = [i \in DOMAIN inputs |-> Parsed(i).hits]
      BY DEF HitsOf, Parsed, ParsedOf
    <3>2. g.last = ExpectedOf(inputs) /\ g.hits = SumFunction(HitsOf(inputs))
      BY <2>1, GatheredFields
    <3>3. ExpectedOf(inputs) \in Int /\ SumFunction(HitsOf(inputs)) \in Nat
      BY <2>1, GatheredIs
    <3> HIDE DEF g
    <3> QED
      BY <3>1, <3>2, <3>3
  <2>3. ASSUME NEW v \in Int
        PROVE  PerSecondUnder(config, v).num * config.flush
                 = v * 1000 * PerSecondUnder(config, v).den
    <3> DEFINE f == config.flush
               d == f \div 1000
    <3>1. f \in Nat /\ f % 1000 = 0
      BY <2>1, MetricsAssumption DEF ConfigType, WholeSeconds
    <3>2. d \in Nat /\ f = 1000 * d
      <4> HIDE DEF f
      <4> QED
        BY <3>1
    <3>3. PerSecondUnder(config, v).num = v /\ PerSecondUnder(config, v).den = d
      BY DEF PerSecondUnder
    <3> HIDE DEF d, f
    <3>4. v * (1000 * d) = v * 1000 * d
      BY <3>2
    <3> QED
      BY <3>2, <3>3, <3>4 DEF f
  <2>4. CASE report.type = "counter"
    <3>1. report.metric.last = g.last /\ report.metric.rate = PerSecondUnder(config, g.last)
      BY <2>1, <2>4 DEF Processed
    <3> HIDE DEF g
    <3> QED
      BY <2>2, <2>3, <2>4, <3>1
  <2>5. CASE report.type = "timer"
    <3>1. report.metric.rate = PerSecondUnder(config, g.hits)
      BY <2>1, <2>5 DEF Processed
    <3> HIDE DEF g
    <3> QED
      BY <2>2, <2>3, <2>5, <3>1
  <2> QED
    BY <2>4, <2>5
<1> QED
  BY <1>1, MetricsInvariant, PTL

-----------------------------------------------------------------------------
(***************************************************************************)
(* How far the total at the backend is from that of the lines.             *)
(***************************************************************************)

\* A bound on every line, with a slack, bounds the sums of the lines.
LEMMA SumSlackBound ==
    ASSUME NEW n \in Nat, NEW f, NEW g, NEW a \in Int, NEW b \in Int, NEW c \in Int,
           \A i \in 1 .. n : f[i] \in Int /\ g[i] \in Int /\ a * f[i] <= b * g[i] + c
    PROVE  a * SumFunctionOnSet(f, 1 .. n) <= b * SumFunctionOnSet(g, 1 .. n) + n * c
<1> DEFINE F(k) == SumFunctionOnSet(f, 1 .. k)
           H(k) == SumFunctionOnSet(g, 1 .. k)
           Good == {k \in Nat : k <= n => a * F(k) <= b * H(k) + k * c}
<1>1. 0 \in Good
  <2>1. 1 .. 0 = {}
    OBVIOUS
  <2>2. F(0) = 0 /\ H(0) = 0
    BY <2>1, SumEmpty
  <2>3. a * 0 <= b * 0 + 0 * c
    OBVIOUS
  <2> HIDE DEF F, H
  <2> QED
    BY <2>2, <2>3
<1>2. ASSUME NEW k \in Nat, k \in Good PROVE k + 1 \in Good
  <2> SUFFICES ASSUME k + 1 <= n PROVE a * F(k + 1) <= b * H(k + 1) + (k + 1) * c
    OBVIOUS
  <2>1. a * F(k) <= b * H(k) + k * c
    BY <1>2
  <2>2. (\A i \in 1 .. k : i \in 1 .. n) /\ k + 1 \in 1 .. n
    OBVIOUS
  <2>3. F(k + 1) = F(k) + f[k + 1] /\ H(k + 1) = H(k) + g[k + 1]
    <3>1. 0 \in Nat /\ 0 <= k /\ 0 + 1 = 1
      OBVIOUS
    <3>2. \A i \in 1 .. k : f[i] \in Int /\ g[i] \in Int
      BY <2>2
    <3>3. f[k + 1] \in Int /\ g[k + 1] \in Int
      BY <2>2
    <3>4. SumFunctionOnSet(f, 0 + 1 .. k + 1) = SumFunctionOnSet(f, 0 + 1 .. k) + f[k + 1]
      BY <3>1, <3>2, <3>3, SumAdded
    <3>5. SumFunctionOnSet(g, 0 + 1 .. k + 1) = SumFunctionOnSet(g, 0 + 1 .. k) + g[k + 1]
      BY <3>1, <3>2, <3>3, SumAdded
    <3> QED
      BY <3>1, <3>4, <3>5
  <2>4. F(k) \in Int /\ H(k) \in Int
    <3>1. IsFiniteSet(1 .. k)
      BY FS_Interval
    <3> QED
      BY <2>2, <3>1, SumType
  <2> DEFINE x == F(k)
             y == H(k)
             u == f[k + 1]
             v == g[k + 1]
  <2>5. x \in Int /\ y \in Int /\ u \in Int /\ v \in Int /\ a * u <= b * v + c
        /\ a * x <= b * y + k * c
    BY <2>1, <2>2, <2>4
  <2>6. F(k + 1) = x + u /\ H(k + 1) = y + v
    BY <2>3
  <2> HIDE DEF F, H, x, y, u, v
  <2>7. /\ a * (x + u) = a * x + a * u /\ b * (y + v) = b * y + b * v
        /\ (k + 1) * c = k * c + c
        /\ a * x \in Int /\ a * u \in Int /\ b * y \in Int /\ b * v \in Int /\ k * c \in Int
    BY <2>5
  <2> QED
    BY <2>5, <2>6, <2>7
<1> HIDE DEF Good
<1>3. Nat \subseteq Good
  BY <1>1, <1>2, NatInd
<1>4. n \in Good
  BY <1>3
<1> QED
  BY <1>4 DEF Good

\* Unsampled counters add up to the sum of what was read of them.
LEMMA UnsampledTotal ==
    ASSUME NEW ls \in EntryLines,
           \A i \in DOMAIN ls : ParsedOf(ls, i).type = "counter" /\ ParsedOf(ls, i).hits = Unit
    PROVE  ExpectedOf(ls) = SumFunctionOnSet(ValuesOf(ls), 1 .. Len(ls))
<1> DEFINE n == Len(ls)
           S == 1 .. n
           U == 2 .. n
           f == AddedOf(ls)
           g == ValuesOf(ls)
<1>0. n \in Nat \ {0} /\ DOMAIN ls = S
  BY DEF EntryLines
<1>1. \A i \in S : ParsedOf(ls, i).last \in Int /\ g[i] = ParsedOf(ls, i).last
  BY GatheredIs
<1>2. \A i \in S : f[i] = g[i] /\ g[i] \in Int
  <2> SUFFICES ASSUME NEW i \in S PROVE f[i] = g[i] /\ g[i] \in Int
    OBVIOUS
  <2> DEFINE a == ParsedOf(ls, i).last
  <2>1. f[i] = (a * Unit) \div Unit
    BY <1>0 DEF AddedOf
  <2>2. a \in Int /\ g[i] = a
    BY <1>1
  <2>3. Unit \in Nat \ {0}
    BY MetricsAssumption
  <2> HIDE DEF a, f, g
  <2>4. (a * Unit) \div Unit = a
    <3> DEFINE x == a * Unit
               q == x \div Unit
               r == x % Unit
    <3>1. x \in Int
      BY <2>2, <2>3
    <3>2. q \in Int /\ r \in Int /\ 0 <= r /\ r < Unit /\ x = Unit * q + r
      <4> HIDE DEF x
      <4>1. \A y \in Int, z \in Nat \ {0} :
               /\ y \div z \in Int /\ y % z \in Int /\ 0 <= y % z /\ y % z < z
               /\ y = ((z * (y \div z)) + (y % z))
        OBVIOUS
      <4> QED
        BY <2>3, <3>1, <4>1
    <3> HIDE DEF q, r
    <3> DEFINE t == a - q
    <3>3. t \in Int /\ Unit * t = r
      <4>1. Unit * t = a * Unit - Unit * q /\ t \in Int /\ Unit * q \in Int
        BY <2>2, <2>3, <3>2
      <4> QED
        BY <3>1, <3>2, <4>1 DEF x
    <3>4. t = 0
      <4> HIDE DEF t
      <4>0. \A y, z \in Nat : y * z >= 0
        OBVIOUS
      <4>1. ASSUME t >= 1 PROVE Unit * t >= Unit
        <5>1. Unit * (t - 1) >= 0 /\ Unit * (t - 1) = Unit * t - Unit
          BY <2>3, <3>3, <4>0, <4>1
        <5> QED
          BY <2>3, <3>2, <3>3, <5>1
      <4>2. ASSUME t <= -1 PROVE Unit * t <= -Unit
        <5>1. Unit * (-t - 1) >= 0 /\ Unit * (-t - 1) = -(Unit * t) - Unit
          BY <2>3, <3>3, <4>0, <4>2
        <5> QED
          BY <2>3, <3>2, <3>3, <5>1
      <4> QED
        BY <2>3, <3>2, <3>3, <4>1, <4>2
    <3> QED
      BY <2>2, <3>2, <3>4 DEF x, q, t
  <2> QED
    BY <2>1, <2>2, <2>4
<1>3. ResetOf(ls) = 1
  <2>1. /\ ResetOf(ls) \in 1 .. n
        /\ ResetOf(ls) = 1 \/ ParsedOf(ls, ResetOf(ls)).type # "counter"
    BY ResetIs
  <2> QED
    BY <1>0, <2>1
<1>4. ExpectedOf(ls) = g[1] + SumFunctionOnSet(f, U)
  <2>1. 1 + 1 .. n = U
    OBVIOUS
  <2>2. 1 \in S
    BY <1>0
  <2>3. g[1] = ParsedOf(ls, 1).last
    BY <1>1, <2>2
  <2> QED
    BY <1>3, <2>1, <2>3 DEF ExpectedOf
<1>5. /\ IsFiniteSet(S) /\ IsFiniteSet(U) /\ 1 \in S /\ S \ {1} = U
      /\ \A i \in U : i \in S
  <2>1. IsFiniteSet(S) /\ IsFiniteSet(U)
    BY <1>0, FS_Interval
  <2>2. \A i : i \in S \ {1} <=> i \in U
    BY <1>0
  <2> QED
    BY <1>0, <2>1, <2>2
<1> HIDE DEF S, U, f, g, n
<1>6. SumFunctionOnSet(f, U) = SumFunctionOnSet(g, U)
  <2>1. \A i \in U : f[i] \in Int /\ f[i] = g[i]
    BY <1>2, <1>5
  <2> QED
    BY <1>5, <2>1, SumEqual
<1>7. SumFunctionOnSet(g, S) = g[1] + SumFunctionOnSet(g, U)
  <2>1. \A i \in S : g[i] \in Int
    BY <1>2
  <2>2. SumFunctionOnSet(g, S) = g[1] + SumFunctionOnSet(g, S \ {1})
    BY <1>5, <2>1, SumRemove
  <2> QED
    BY <1>5, <2>2
<1> QED
  BY <1>4, <1>6, <1>7 DEF S, g, n

\* What is given for both signs is given for the magnitude.
LEMMA MagnitudeBound ==
    ASSUME NEW x \in Int, NEW k \in Int, NEW y \in Int
    PROVE  /\ k * x <= y /\ -(k * x) <= y => k * Magnitude(x) <= y
           /\ k >= 0 /\ k * Magnitude(x) <= y => k * x <= y /\ -(k * x) <= y
<1>1. CASE x >= 0
  <2>1. Magnitude(x) = x
    BY <1>1, MagnitudeIs
  <2>2. k >= 0 => k * x >= 0
    <3>1. \A r, t \in Nat : r * t >= 0
      OBVIOUS
    <3> QED
      BY <1>1, <3>1
  <2>3. k * x \in Int
    OBVIOUS
  <2> QED
    BY <2>1, <2>2, <2>3
<1>2. CASE x < 0
  <2>1. Magnitude(x) = -x
    BY <1>2, MagnitudeIs
  <2>2. k >= 0 => k * (-x) >= 0
    <3>1. \A r, t \in Nat : r * t >= 0
      OBVIOUS
    <3>2. -x \in Nat
      BY <1>2
    <3> QED
      BY <3>1, <3>2
  <2>3. k * x \in Int /\ k * (-x) = -(k * x)
    OBVIOUS
  <2> QED
    BY <1>2, <2>1, <2>2, <2>3
<1> QED
  BY <1>1, <1>2

\* Reading the numbers as float32 moves a total of counters by a share of it and
\* half of the smallest step for each.
LEMMA CountersAccurate ==
    ASSUME NEW ls \in EntryLines,
           \A i \in DOMAIN ls : /\ ls[i].value >= 0 /\ ParsedOf(ls, i).type = "counter"
                                /\ ParsedOf(ls, i).hits = Unit
    PROVE  LET P == Pow2[Mantissa]
               E == SumFunction([i \in DOMAIN ls |-> ls[i].value])
               T == ExpectedOf(ls)
               s == Len(ls) * (Quantum * P)
           IN /\ E \in Nat /\ T \in Int
              /\ (2 * P) * T <= (2 * P + 2) * E + s
              /\ (-(2 * P)) * T <= (2 - 2 * P) * E + s
<1> DEFINE P == Pow2[Mantissa]
           n == Len(ls)
           S == 1 .. n
           f == ValuesOf(ls)
           g == [i \in DOMAIN ls |-> ls[i].value]
           E == SumFunction(g)
           T == ExpectedOf(ls)
           c == Quantum * P
<1>0. n \in Nat \ {0} /\ DOMAIN ls = S /\ IsFiniteSet(S)
  <2>1. n \in Nat \ {0} /\ DOMAIN ls = S
    BY DEF EntryLines
  <2> QED
    BY <2>1, FS_Interval
<1>1. P \in Nat \ {0} /\ Quantum \in Nat \ {0} /\ c \in Int
  <2>1. P \in Nat \ {0} /\ Quantum \in Nat \ {0}
    BY MetricsAssumption, Pow2Is
  <2> HIDE DEF P
  <2> QED
    BY <2>1
<1>2. \A i \in S : f[i] = Float32(ls[i].value, 1) /\ g[i] = ls[i].value /\ ls[i].value \in Nat
  <2> SUFFICES ASSUME NEW i \in S
               PROVE  f[i] = Float32(ls[i].value, 1) /\ g[i] = ls[i].value /\ ls[i].value \in Nat
    OBVIOUS
  <2>1. ls[i] \in Inputs
    BY <1>0 DEF EntryLines
  <2>2. ls[i].value \in Int /\ ls[i].value >= 0
    BY <1>0, <2>1, MetricsAssumption
  <2>3. f[i] = Float32(ls[i].value, 1)
    BY <1>0 DEF ValuesOf, ParsedOf, ParseMetricString
  <2> QED
    BY <1>0, <2>2, <2>3
<1>3. \A i \in S : /\ f[i] \in Int /\ g[i] \in Int /\ g[i] >= 0
                   /\ (2 * P) * f[i] <= (2 * P + 2) * g[i] + c
                   /\ (-(2 * P)) * f[i] <= (2 - 2 * P) * g[i] + c
  <2> SUFFICES ASSUME NEW i \in S
               PROVE  /\ f[i] \in Int /\ g[i] \in Int /\ g[i] >= 0
                      /\ (2 * P) * f[i] <= (2 * P + 2) * g[i] + c
                      /\ (-(2 * P)) * f[i] <= (2 - 2 * P) * g[i] + c
    OBVIOUS
  <2> DEFINE x == f[i]
             v == g[i]
  <2>1. v \in Nat /\ x = Float32(v, 1)
    BY <1>2
  <2> HIDE DEF v, x
  <2>2. /\ x \in Int /\ 2 * Magnitude(1 * x - v) * P <= 2 * Magnitude(v) + 1 * Quantum * P
    BY <2>1, Float32Is DEF P
  <2>3. Magnitude(v) = v
    BY <2>1, MagnitudeIs
  <2> DEFINE d == x - v
             m == Magnitude(d)
  <2>4. d \in Int /\ 1 * x - v = d /\ 1 * Quantum * P = c
    BY <1>1, <2>1, <2>2
  <2>5. m \in Nat
    BY <2>4, MagnitudeIs
  <2> HIDE DEF P, c, d, m
  <2>6. (2 * P) * m <= 2 * v + c
    <3>1. 2 * m * P <= 2 * v + c
      BY <2>2, <2>3, <2>4 DEF m
    <3>2. 2 * m * P = (2 * P) * m
      BY <1>1, <2>5
    <3> QED
      BY <3>1, <3>2
  <2>7. (2 * P) * d <= 2 * v + c /\ -((2 * P) * d) <= 2 * v + c
    <3>1. 2 * P \in Int /\ 2 * P >= 0 /\ 2 * v + c \in Int
      BY <1>1, <2>1
    <3> QED
      BY <2>4, <2>6, <3>1, MagnitudeBound DEF m
  <2>8. /\ (2 * P) * d = (2 * P) * x - (2 * P) * v
        /\ (2 * P + 2) * v = (2 * P) * v + 2 * v
        /\ (2 - 2 * P) * v = 2 * v - (2 * P) * v
        /\ (-(2 * P)) * x = -((2 * P) * x)
        /\ (2 * P) * x \in Int /\ (2 * P) * v \in Int
    BY <1>1, <2>1, <2>2 DEF d
  <2>9. (2 * P) * x <= (2 * P + 2) * v + c /\ (-(2 * P)) * x <= (2 - 2 * P) * v + c
    BY <1>1, <2>1, <2>7, <2>8
  <2> QED
    BY <2>1, <2>2, <2>9 DEF x, v
<1>4. T = SumFunctionOnSet(f, S)
  BY UnsampledTotal
<1>5. E = SumFunctionOnSet(g, S)
  BY <1>0 DEF SumFunction
<1> HIDE DEF P, n, f, g, c, E, T
<1>6. T \in Int /\ E \in Int
  BY <1>0, <1>3, <1>4, <1>5, SumType
<1>7. E >= 0
  <2> DEFINE zero == [i \in S |-> 0]
  <2>1. \A i \in S : zero[i] = 0 /\ zero[i] \in Int /\ g[i] \in Int /\ 1 * zero[i] <= 1 * g[i]
    BY <1>3
  <2> HIDE DEF zero, S
  <2>2. SumFunctionOnSet(zero, S) = 0
    BY <1>0, <2>1, SumZero
  <2>3. 1 * SumFunctionOnSet(zero, S) <= 1 * E
    BY <1>0, <1>5, <2>1, SumScaleBound, 1 \in Int
  <2> QED
    BY <1>6, <2>2, <2>3
<1>8. (2 * P) * T <= (2 * P + 2) * E + n * c
  <2>1. \A i \in 1 .. n : f[i] \in Int /\ g[i] \in Int /\ (2 * P) * f[i] <= (2 * P + 2) * g[i] + c
    BY <1>3
  <2>2. 2 * P \in Int /\ 2 * P + 2 \in Int /\ n \in Nat
    BY <1>0, <1>1
  <2> QED
    BY <1>1, <1>4, <1>5, <2>1, <2>2, SumSlackBound
<1>9. (-(2 * P)) * T <= (2 - 2 * P) * E + n * c
  <2>1. \A i \in 1 .. n : f[i] \in Int /\ g[i] \in Int
                          /\ (-(2 * P)) * f[i] <= (2 - 2 * P) * g[i] + c
    BY <1>3
  <2>2. -(2 * P) \in Int /\ 2 - 2 * P \in Int /\ n \in Nat
    BY <1>0, <1>1
  <2> QED
    BY <1>1, <1>4, <1>5, <2>1, <2>2, SumSlackBound
<1> QED
  BY <1>6, <1>7, <1>8, <1>9 DEF P, n, g, c, E, T

\* The roundings of the lines, of the total and of its decimals, one after another.
LEMMA ThreeRoundings ==
    ASSUME NEW P \in Nat \ {0}, NEW E \in Nat, NEW T \in Int, NEW F \in Int, NEW W \in Int,
           NEW n \in Nat, NEW Q \in Nat, NEW M \in Nat,
           (2 * P) * T <= (2 * P + 2) * E + n * (Q * P),
           (-(2 * P)) * T <= (2 - 2 * P) * E + n * (Q * P),
           2 * Magnitude(F - T) * P <= 2 * Magnitude(T) + Q * P,
           2 * Magnitude(W - F) <= M
    PROVE  2 * P * P * Magnitude(W - E)
             <= 2 * (2 * P + 1) * E + P * P * ((2 * n + 1) * Q + M)
<1> DEFINE K == n * (Q * P)
           X == P * E
           d == T - E
           e == F - T
           h == W - F
           Y == P * T
<1>1. K \in Nat /\ X \in Nat /\ Y \in Int /\ d \in Int /\ e \in Int /\ h \in Int
  <2>1. \A y, z \in Nat : y * z \in Nat
    OBVIOUS
  <2> QED
    BY <2>1
<1>2. \A y, z \in Int : y <= z => P * y <= P * z
  <2> SUFFICES ASSUME NEW y \in Int, NEW z \in Int, y <= z PROVE P * y <= P * z
    OBVIOUS
  <2>1. P * (z - y) >= 0
    <3>1. z - y \in Nat /\ P \in Nat
      OBVIOUS
    <3>2. \A r, t \in Nat : r * t >= 0
      OBVIOUS
    <3> QED
      BY <3>1, <3>2
  <2>2. P * (z - y) = P * z - P * y /\ P * z \in Int /\ P * y \in Int
    OBVIOUS
  <2> QED
    BY <2>1, <2>2
\* The lines: E to T.
<1>3. /\ 2 * Y <= 2 * X + 2 * E + K /\ -(2 * Y) <= 2 * E - 2 * X + K
  <2>1. /\ (2 * P) * T = 2 * Y /\ (-(2 * P)) * T = -(2 * Y)
        /\ (2 * P + 2) * E = 2 * X + 2 * E /\ (2 - 2 * P) * E = 2 * E - 2 * X
    OBVIOUS
  <2> HIDE DEF K, X, Y
  <2> QED
    BY <2>1 DEF K
<1>4. P * d = Y - X
  OBVIOUS
\* The total: T to F.
<1>5. 2 * (P * e) <= 2 * Magnitude(T) + Q * P /\ -(2 * (P * e)) <= 2 * Magnitude(T) + Q * P
  <2>1. Magnitude(e) \in Nat /\ Magnitude(T) \in Nat
    BY <1>1, MagnitudeIs
  <2>2. 2 * Magnitude(e) * P = (2 * P) * Magnitude(e)
    <3> HIDE DEF e
    <3> QED
      BY <2>1
  <2>3. (2 * P) * Magnitude(e) <= 2 * Magnitude(T) + Q * P
    BY <2>2
  <2> HIDE DEF e
  <2>4. 2 * P \in Int /\ 2 * P >= 0 /\ 2 * Magnitude(T) + Q * P \in Int
    BY <2>1
  <2>5. (2 * P) * e <= 2 * Magnitude(T) + Q * P /\ -((2 * P) * e) <= 2 * Magnitude(T) + Q * P
    BY <1>1, <2>3, <2>4, MagnitudeBound
  <2>6. (2 * P) * e = 2 * (P * e)
    BY <1>1
  <2> QED
    BY <2>5, <2>6
<1>6. P * (2 * Magnitude(T)) <= 2 * X + 2 * E + K
  <2>1. CASE T >= 0
    <3>1. Magnitude(T) = T /\ P * (2 * T) = 2 * Y
      BY <2>1, MagnitudeIs
    <3> QED
      BY <1>3, <3>1
  <2>2. CASE T < 0
    <3>1. Magnitude(T) = -T /\ P * (2 * (-T)) = -(2 * Y)
      BY <2>2, MagnitudeIs
    <3> HIDE DEF K, X, Y
    <3> QED
      BY <1>1, <1>3, <3>1
  <2> QED
    BY <2>1, <2>2
\* The decimals: F to W.
<1>7. 2 * h <= M /\ -(2 * h) <= M
  BY <1>1, MagnitudeIs
<1> DEFINE A == P * (P * d)
           B == P * (P * e)
           C == P * (P * h)
           PK == P * K
           L == P * (Q * P)
           N == P * (P * M)
<1>8. /\ A \in Int /\ B \in Int /\ C \in Int /\ PK \in Nat /\ L \in Nat /\ N \in Nat
      /\ K <= PK
  <2>1. \A y, z \in Nat : y * z \in Nat
    OBVIOUS
  <2>2. \A y, z \in Int : y * z \in Int
    OBVIOUS
  <2>3. K <= PK
    <3> HIDE DEF K
    <3>1. P * K = K + (P - 1) * K /\ (P - 1) * K \in Nat
      <4>1. P - 1 \in Nat
        OBVIOUS
      <4> QED
        BY <1>1, <2>1, <4>1
    <3> QED
      BY <1>1, <3>1
  <2> QED
    BY <1>1, <2>1, <2>2, <2>3
<1>9. 2 * A <= 2 * X + PK /\ -(2 * A) <= 2 * X + PK
  <2> DEFINE z == P * d
  <2>1. z \in Int /\ 2 * z <= 2 * E + K /\ -(2 * z) <= 2 * E + K
    <3> HIDE DEF K, X, Y, d
    <3> QED
      BY <1>1, <1>3, <1>4
  <2> HIDE DEF z, K
  <2>2. P * (2 * z) <= P * (2 * E + K) /\ P * (-(2 * z)) <= P * (2 * E + K)
    <3>1. 2 * z \in Int /\ -(2 * z) \in Int /\ 2 * E + K \in Int
      BY <1>1, <2>1
    <3> QED
      BY <1>2, <2>1, <3>1
  <2>3. P * (2 * z) = 2 * (P * z) /\ P * (-(2 * z)) = -(2 * (P * z))
        /\ P * (2 * E + K) = 2 * X + PK
    BY <1>1, <2>1
  <2> QED
    BY <2>2, <2>3 DEF z
<1>10. 2 * B <= 2 * X + 2 * E + K + L /\ -(2 * B) <= 2 * X + 2 * E + K + L
  <2> DEFINE z == P * e
             m == Magnitude(T)
             r == Q * P
  <2>1. z \in Int /\ m \in Nat /\ r \in Nat
        /\ 2 * z <= 2 * m + r /\ -(2 * z) <= 2 * m + r
    <3>1. \A y, x \in Nat : y * x \in Nat
      OBVIOUS
    <3>2. \A y, x \in Int : y * x \in Int
      OBVIOUS
    <3> QED
      BY <1>1, <1>5, <3>1, <3>2, MagnitudeIs
  <2>2. P * (2 * m) <= 2 * X + 2 * E + K
    BY <1>6
  <2> HIDE DEF z, m, r, K, X
  <2>3. P * (2 * z) <= P * (2 * m + r) /\ P * (-(2 * z)) <= P * (2 * m + r)
    <3>1. 2 * z \in Int /\ -(2 * z) \in Int /\ 2 * m + r \in Int
      BY <2>1
    <3> QED
      BY <1>2, <2>1, <3>1
  <2>4. P * (2 * z) = 2 * (P * z) /\ P * (-(2 * z)) = -(2 * (P * z))
        /\ P * (2 * m + r) = P * (2 * m) + P * r
        /\ P * z \in Int /\ P * (2 * m) \in Int /\ P * r \in Int
    BY <2>1
  <2>5. 2 * (P * z) <= 2 * X + 2 * E + K + P * r /\ -(2 * (P * z)) <= 2 * X + 2 * E + K + P * r
    BY <1>1, <2>2, <2>3, <2>4
  <2> QED
    BY <2>5 DEF z, r
<1>11. 2 * C <= N /\ -(2 * C) <= N
  <2>1. P * (2 * h) <= P * M /\ P * (-(2 * h)) <= P * M
    <3>1. 2 * h \in Int /\ -(2 * h) \in Int /\ M \in Int
      BY <1>1
    <3> HIDE DEF h
    <3> QED
      BY <1>2, <1>7, <3>1
  <2> HIDE DEF h
  <2> DEFINE z == P * h
             y == P * M
  <2>2. z \in Int /\ y \in Int /\ 2 * z <= y /\ -(2 * z) <= y
    <3>1. P * (2 * h) = 2 * (P * h) /\ P * (-(2 * h)) = -(2 * (P * h))
          /\ P * h \in Int /\ P * M \in Int
      BY <1>1
    <3> QED
      BY <2>1, <3>1
  <2> HIDE DEF z, y
  <2>3. P * (2 * z) <= P * y /\ P * (-(2 * z)) <= P * y
    <3>1. 2 * z \in Int /\ -(2 * z) \in Int
      BY <2>2
    <3> QED
      BY <1>2, <2>2, <3>1
  <2>4. P * (2 * z) = 2 * (P * z) /\ P * (-(2 * z)) = -(2 * (P * z))
    BY <2>2
  <2> QED
    BY <2>3, <2>4 DEF z, y
<1> DEFINE w == W - E
           G == P * (P * w)
<1>12. w \in Int /\ G \in Int /\ G = A + B + C
  <2>1. w \in Int /\ w = d + e + h
    OBVIOUS
  <2> HIDE DEF w, d, e, h
  <2>2. P * w = P * d + P * e + P * h
    BY <1>1, <2>1
  <2> DEFINE x == P * d
             y == P * e
             z == P * h
  <2>3. x \in Int /\ y \in Int /\ z \in Int /\ P * w = x + y + z
    BY <1>1, <2>2
  <2> HIDE DEF x, y, z
  <2>4. P * (x + y + z) = P * x + P * y + P * z
    BY <2>3
  <2>5. P * (P * w) = P * x + P * y + P * z
    BY <2>3, <2>4
  <2>6. P * (P * w) \in Int
    BY <2>1
  <2> QED
    BY <2>1, <2>5, <2>6 DEF x, y, z
<1>13. 2 * (2 * P + 1) * E + P * P * ((2 * n + 1) * Q + M) = 4 * X + 2 * E + 2 * PK + L + N
  <2>1. 2 * (2 * P + 1) * E = 4 * X + 2 * E
    OBVIOUS
  <2>2. P * P * ((2 * n + 1) * Q + M) = 2 * PK + L + N
    <3> DEFINE a == n * Q
    <3>1. (2 * n + 1) * Q = 2 * a + Q /\ a \in Int
      OBVIOUS
    <3>2. PK = P * (a * P)
      <4>1. n * (Q * P) = (n * Q) * P
        OBVIOUS
      <4> QED
        BY <4>1
    <3> HIDE DEF a, PK
    <3>3. P * P * (2 * a + Q + M) = 2 * (P * (a * P)) + P * (Q * P) + P * (P * M)
      BY <3>1
    <3> QED
      BY <3>1, <3>2, <3>3
  <2> DEFINE u == 2 * (2 * P + 1) * E
             v == P * P * ((2 * n + 1) * Q + M)
  <2>3. u = 4 * X + 2 * E /\ v = 2 * PK + L + N
    BY <2>1, <2>2
  <2> HIDE DEF u, v, X, PK, L, N, K
  <2>4. u + v = 4 * X + 2 * E + 2 * PK + L + N
    <3>1. X \in Nat /\ PK \in Nat /\ L \in Nat /\ N \in Nat /\ E \in Nat
      BY <1>1, <1>8
    <3> QED
      BY <2>3, <3>1
  <2> QED
    BY <2>4 DEF u, v
<1> HIDE DEF K, X, Y, d, e, h, A, B, C, PK, L, N, w, G
<1>14. 2 * G <= 4 * X + 2 * E + 2 * PK + L + N /\ -(2 * G) <= 4 * X + 2 * E + 2 * PK + L + N
  BY <1>1, <1>8, <1>9, <1>10, <1>11, <1>12
<1>15. 2 * P * P * Magnitude(w) <= 4 * X + 2 * E + 2 * PK + L + N
  <2> DEFINE b == 2 * P * P
             R == 4 * X + 2 * E + 2 * PK + L + N
  <2>1. b \in Int /\ R \in Int /\ b * w = 2 * G
    BY <1>1, <1>8, <1>12 DEF G
  <2>2. b * w <= R /\ -(b * w) <= R
    BY <1>14, <2>1
  <2> HIDE DEF b, R
  <2>3. b * Magnitude(w) <= R
    BY <1>12, <2>1, <2>2, MagnitudeBound
  <2> QED
    BY <2>3 DEF b, R
<1> QED
  BY <1>13, <1>15 DEF w

\* What the backend gets of an unsampled counter's total is off by the conversions
\* to float32 and to decimals only, however many lines there were (BackendAccurate).
THEOREM CountersReported == Spec => []BackendAccurate
<1>1. MetricsInv => BackendAccurate
  <2> DEFINE P == Pow2[Mantissa]
             n == Len(inputs)
  <2> SUFFICES ASSUME MetricsInv, report # None,
                      \A i \in DOMAIN inputs : /\ inputs[i].value >= 0
                                               /\ Parsed(i).type = "counter"
                                               /\ Parsed(i).hits = Unit
               PROVE  2 * P * P * Magnitude(Last(report.series).value.num - Exact)
                        <= 2 * (2 * P + 1) * Exact
                           + P * P * ((2 * n + 1) * Quantum + Millionth)
    BY DEF BackendAccurate
  <2>1. /\ inputs \in EntryLines /\ GatheredOf(inputs).type = report.type
        /\ Processed(config, inputs, report.short, report.metric)
        /\ SeriesOK(report)
    BY DEF MetricsInv, ReportSent, Reported
  <2> DEFINE E == SumFunction([i \in DOMAIN inputs |-> inputs[i].value])
             T == ExpectedOf(inputs)
             F == Float32(T, 1)
             W == Nearest(F, 1, Millionth)
  <2>2. \A i \in DOMAIN inputs : /\ inputs[i].value >= 0 /\ ParsedOf(inputs, i).type = "counter"
                                 /\ ParsedOf(inputs, i).hits = Unit
    BY OfInputs
  <2>3. Exact = E
    BY DEF Exact
  <2>4. report.type = "counter"
    <3>1. 1 \in DOMAIN inputs
      BY <2>1 DEF EntryLines
    <3> QED
      BY <2>1, <2>2, <3>1, GatheredFields
  <2>5. Last(report.series).value.num = W
    <3>1. report.metric.last = T
      BY <2>1, <2>4, GatheredFields DEF Processed
    <3> QED
      BY <2>1, <2>4, <3>1 DEF SeriesOK, Rounded
  <2>6. /\ E \in Nat /\ T \in Int
        /\ (2 * P) * T <= (2 * P + 2) * E + n * (Quantum * P)
        /\ (-(2 * P)) * T <= (2 - 2 * P) * E + n * (Quantum * P)
    BY <2>1, <2>2, CountersAccurate
  <2>7. /\ P \in Nat \ {0} /\ n \in Nat /\ Quantum \in Nat \ {0} /\ Millionth \in Nat \ {0}
        /\ 1 \in Nat \ {0}
    <3>1. n \in Nat
      BY <2>1 DEF EntryLines
    <3>2. P \in Nat \ {0}
      BY MetricsAssumption, Pow2Is
    <3> QED
      BY <3>1, <3>2, MetricsAssumption
  <2> HIDE DEF E, T, n
  <2>8. F \in Int /\ 2 * Magnitude(1 * F - T) * P <= 2 * Magnitude(T) + 1 * Quantum * P
    BY <2>6, <2>7, Float32Is
  <2> HIDE DEF F
  <2>9. W \in Int /\ 2 * Magnitude(1 * W - F) <= 1 * Millionth
    BY <2>7, <2>8, NearestIs
  <2> HIDE DEF W, P
  <2>10. /\ 1 * F = F /\ 1 * W = W /\ 1 * Quantum = Quantum /\ 1 * Millionth = Millionth
         /\ Quantum \in Nat /\ Millionth \in Nat
    BY <2>7, <2>8, <2>9
  <2>12. /\ 2 * Magnitude(F - T) * P <= 2 * Magnitude(T) + Quantum * P
         /\ 2 * Magnitude(W - F) <= Millionth
    BY <2>8, <2>9, <2>10
  <2>11. 2 * P * P * Magnitude(W - E)
           <= 2 * (2 * P + 1) * E + P * P * ((2 * n + 1) * Quantum + Millionth)
    BY <2>6, <2>7, <2>8, <2>9, <2>10, <2>12, ThreeRoundings
  <2> QED
    BY <2>3, <2>5, <2>11
<1> QED
  BY <1>1, MetricsInvariant, PTL

\* No two lines of a report have the same name at the backend, where each type
\* has a namespace of its own (NamesDistinct).
THEOREM NamesKeptApart == Spec => []NamesDistinct
<1>1. MetricsInv => NamesDistinct
  <2> SUFFICES ASSUME MetricsInv, report # None, OwnNamespaces(config)
               PROVE  NamesDiffer(report.series)
    BY DEF NamesDistinct, NamesDiffer
  <2> QED
    BY DEF MetricsInv, ReportSent, Reported
<1> QED
  BY <1>1, MetricsInvariant, PTL
==============================================================================
