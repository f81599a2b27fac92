--------------------------- MODULE ReadInputProofs ---------------------------
(***************************************************************************)
(* Proofs about ReadInput for every text, every length of the buffer and   *)
(* every way in which reads can end.                                       *)
(***************************************************************************)
EXTENDS ReadInput, FoldTheorems, SequenceTheorems

\* A set of integers with a lower bound has a least element.
LEMMA LeastInt ==
    ASSUME NEW b \in Int, NEW S \in SUBSET Int, S # {}, \A x \in S : b <= x
    PROVE  \E x \in S : \A y \in S : x <= y
<1> DEFINE T == {x - b : x \in S}
<1>1. T \in SUBSET Nat /\ T # {}
  <2>1. \A x \in S : x - b \in Nat
    OBVIOUS
  <2>2. PICK x \in S : TRUE
    OBVIOUS
  <2> QED
    BY <2>1, <2>2
<1>2. PICK t \in T : \A u \in T : t <= u
  BY <1>1, Least
<1>3. PICK x \in S : t = x - b
  OBVIOUS
<1>4. ASSUME NEW y \in S PROVE x <= y
  <2>1. x - b <= y - b
    BY <1>2, <1>3
  <2> QED
    BY <2>1
<1> QED
  BY <1>4

\* One with an upper bound has a greatest element.
LEMMA GreatestInt ==
    ASSUME NEW b \in Int, NEW S \in SUBSET Int, S # {}, \A x \in S : x <= b
    PROVE  \E x \in S : \A y \in S : y <= x
<1> DEFINE T == {b - x : x \in S}
<1>1. T \in SUBSET Nat /\ T # {}
  <2>1. \A x \in S : b - x \in Nat
    OBVIOUS
  <2>2. PICK x \in S : TRUE
    OBVIOUS
  <2> QED
    BY <2>1, <2>2
<1>2. PICK t \in T : \A u \in T : t <= u
  BY <1>1, Least
<1>3. PICK x \in S : t = b - x
  OBVIOUS
<1>4. ASSUME NEW y \in S PROVE y <= x
  <2>1. b - x <= b - y
    BY <1>2, <1>3
  <2> QED
    BY <2>1
<1> QED
  BY <1>4

-----------------------------------------------------------------------------
(***************************************************************************)
(* The pieces of what has been read.                                       *)
(***************************************************************************)

\* The end of a piece is the byte before the next newline, or the last byte.
LEMMA EndOfIs ==
    ASSUME NEW j \in Int, NEW b \in Int, b <= j + 1
    PROVE  /\ EndOf(b, j) \in b - 1 .. j
           /\ \A n \in b .. EndOf(b, j) : text[n] # NL
           /\ EndOf(b, j) = j \/ text[EndOf(b, j) + 1] = NL
<1> DEFINE S == {n \in b .. j + 1 : n = j + 1 \/ text[n] = NL}
<1>1. S \in SUBSET Int /\ j + 1 \in S /\ \A x \in S : b <= x
  OBVIOUS
<1>2. PICK m \in S : \A n \in S : m <= n
  BY <1>1, LeastInt
<1> DEFINE e == m - 1
<1>3. e \in b - 1 .. j
  BY <1>2
<1>4. \A n \in b .. e : text[n] # NL
  <2> SUFFICES ASSUME NEW n \in b .. e, text[n] = NL PROVE FALSE
    OBVIOUS
  <2>1. n \in S
    BY <1>3
  <2> QED
    BY <1>2, <1>3, <2>1
<1>5. e = j \/ text[e + 1] = NL
  BY <1>2
<1> QED
  BY <1>3, <1>4, <1>5 DEF EndOf

\* Where a piece can begin.
LEMMA BeginsAre ==
    ASSUME NEW i \in Int, NEW j \in Int, i <= j + 1
    PROVE  /\ i \in Begins(i, j) /\ Begins(i, j) \subseteq i .. j + 1
           /\ \A b \in Begins(i, j) :
                 \/ b = i
                 \/ b - 1 \in i .. j /\ text[b - 1] = NL
           /\ \A n \in i .. j : text[n] = NL => n + 1 \in Begins(i, j)
BY DEF Begins

\* The last piece begins after the last newline.
LEMMA LastBeginIs ==
    ASSUME NEW i \in Int, NEW j \in Int, i <= j + 1
    PROVE  /\ LastBegin(i, j) \in Begins(i, j)
           /\ \A b \in Begins(i, j) : b <= LastBegin(i, j)
           /\ LastBegin(i, j) \in i .. j + 1
           /\ \A n \in LastBegin(i, j) .. j : text[n] # NL
<1>1. /\ Begins(i, j) \in SUBSET Int /\ Begins(i, j) # {}
      /\ \A b \in Begins(i, j) : b <= j + 1
  BY BeginsAre
<1> DEFINE S == Begins(i, j)
<1>2. \E b \in S : \A n \in S : n <= b
  <2>1. S \in SUBSET Int /\ S # {} /\ \A b \in S : b <= j + 1
    BY <1>1
  <2>2. j + 1 \in Int
    OBVIOUS
  <2> HIDE DEF S
  <2> QED
    BY <2>1, <2>2, GreatestInt
<1>3. /\ LastBegin(i, j) \in Begins(i, j)
      /\ \A n \in Begins(i, j) : n <= LastBegin(i, j)
  BY <1>2 DEF LastBegin
<1>4. LastBegin(i, j) \in i .. j + 1
  BY <1>3, BeginsAre
<1>5. ASSUME NEW n \in LastBegin(i, j) .. j, text[n] = NL PROVE FALSE
  <2>1. n \in i .. j
    BY <1>4, <1>5
  <2>2. n + 1 \in Begins(i, j)
    BY <1>5, <2>1, BeginsAre
  <2> QED
    BY <1>3, <1>4, <2>1, <2>2
<1> QED
  BY <1>3, <1>4, <1>5

\* A piece ends before the newline in front of any later one.
LEMMA PiecesApart ==
    ASSUME NEW i \in Int, NEW j \in Int, i <= j + 1,
           NEW b \in Begins(i, j), NEW c \in Begins(i, j), b < c
    PROVE  EndOf(b, j) + 1 < c
<1>1. b \in i .. j + 1 /\ c \in i .. j + 1
  BY BeginsAre
<1>2. c - 1 \in i .. j /\ text[c - 1] = NL
  BY <1>1, BeginsAre
<1>3. /\ EndOf(b, j) \in b - 1 .. j
      /\ \A n \in b .. EndOf(b, j) : text[n] # NL
  BY <1>1, EndOfIs
<1>4. ~(c - 1 <= EndOf(b, j))
  BY <1>1, <1>2, <1>3
<1> QED
  BY <1>1, <1>3, <1>4

-----------------------------------------------------------------------------
(***************************************************************************)
(* Sequence puts a set of pieces in the order of the text.                 *)
(***************************************************************************)

\* Pieces told apart by where they begin.
Ordered(S) ==
    /\ IsFiniteSet(S)
    /\ \A s \in S : s[1] \in Int
    /\ \A s, t \in S : s[1] = t[1] => s = t

Rank(S, s) == Cardinality({t \in S : t[1] <= s[1]})

\* The ranks are the positions, and grow with the beginnings.
LEMMA RanksGrow ==
    ASSUME NEW S, Ordered(S)
    PROVE  /\ \A s \in S : Rank(S, s) \in 1 .. Cardinality(S)
           /\ \A s, t \in S : s[1] < t[1] => Rank(S, s) < Rank(S, t)
<1> DEFINE Upto(s) == {t \in S : t[1] <= s[1]}
<1>1. ASSUME NEW s \in S
      PROVE  /\ IsFiniteSet(Upto(s)) /\ Cardinality(Upto(s)) \in 1 .. Cardinality(S)
             /\ Rank(S, s) = Cardinality(Upto(s))
  <2>1. IsFiniteSet(Upto(s)) /\ Cardinality(Upto(s)) <= Cardinality(S)
    BY FS_Subset DEF Ordered
  <2>2. Cardinality(Upto(s)) \in Nat /\ Cardinality(S) \in Nat
    BY <2>1, FS_CardinalityType DEF Ordered
  <2>3. s \in Upto(s)
    BY DEF Ordered
  <2>4. Cardinality(Upto(s)) # 0
    BY <2>1, <2>3, FS_EmptySet
  <2> QED
    BY <2>1, <2>2, <2>4 DEF Rank
<1>2. ASSUME NEW s \in S, NEW t \in S, s[1] < t[1]
      PROVE  Cardinality(Upto(s)) < Cardinality(Upto(t))
  <2>1. t \in Upto(t) /\ t \notin Upto(s)
    BY <1>2 DEF Ordered
  <2>2. Upto(s) \subseteq Upto(t)
    BY <1>2 DEF Ordered
  <2>3. Cardinality(Upto(s)) <= Cardinality(Upto(t) \ {t})
    <3>1. Upto(s) \subseteq Upto(t) \ {t}
      BY <2>1, <2>2
    <3>2. IsFiniteSet(Upto(t) \ {t})
      BY <1>1, FS_RemoveElement
    <3> HIDE DEF Upto
    <3> QED
      BY <3>1, <3>2, FS_Subset
  <2>4. Cardinality(Upto(t) \ {t}) = Cardinality(Upto(t)) - 1
    BY <1>1, <2>1, FS_RemoveElement
  <2> HIDE DEF Upto
  <2> QED
    BY <1>1, <2>3, <2>4
<1> QED
  BY <1>1, <1>2

\* Every position is the rank of one piece.
LEMMA RanksCover ==
    ASSUME NEW S, Ordered(S), NEW n \in 1 .. Cardinality(S)
    PROVE  \E s \in S : Rank(S, s) = n
<1> SUFFICES ASSUME \A s \in S : Rank(S, s) # n PROVE FALSE
  OBVIOUS
<1> DEFINE T == (1 .. Cardinality(S)) \ {n}
           f == [s \in S |-> Rank(S, s)]
<1>1. Cardinality(S) \in Nat
  BY FS_CardinalityType DEF Ordered
<1>2. f \in [S -> T]
  BY RanksGrow
<1>3. IsFiniteSet(T) /\ Cardinality(T) < Cardinality(S)
  <2>1. /\ IsFiniteSet(1 .. Cardinality(S))
        /\ Cardinality(1 .. Cardinality(S)) = Cardinality(S)
    BY <1>1, FS_Interval
  <2>2. IsFiniteSet(T) /\ Cardinality(T) = Cardinality(1 .. Cardinality(S)) - 1
    BY <2>1, FS_RemoveElement
  <2> QED
    BY <1>1, <2>1, <2>2
<1>4. PICK s, t \in S : s # t /\ f[s] = f[t]
  <2> HIDE DEF f, T
  <2> QED
    BY <1>2, <1>3, FS_PigeonHole DEF Ordered
<1>5. Rank(S, s) = Rank(S, t) /\ s[1] # t[1]
  BY <1>4 DEF Ordered
<1>6. s[1] < t[1] \/ t[1] < s[1]
  BY <1>5 DEF Ordered
<1>7. Rank(S, s) \in Int /\ Rank(S, t) \in Int
  BY RanksGrow
<1> QED
  BY <1>5, <1>6, <1>7, RanksGrow

\* Sequence(S) has the elements of S, in order.
LEMMA SequenceIs ==
    ASSUME NEW S, Ordered(S)
    PROVE  /\ Sequence(S) \in Seq(S) /\ Len(Sequence(S)) = Cardinality(S)
           /\ DOMAIN Sequence(S) = 1 .. Len(Sequence(S))
           /\ \A m, n \in DOMAIN Sequence(S) :
                 m < n => Sequence(S)[m][1] < Sequence(S)[n][1]
           /\ \A s \in S : \E n \in DOMAIN Sequence(S) : Sequence(S)[n] = s
<1>1. Cardinality(S) \in Nat
  BY FS_CardinalityType DEF Ordered
<1>2. Sequence(S) = [n \in 1 .. Cardinality(S) |-> CHOOSE s \in S : Rank(S, s) = n]
  BY DEF Sequence, Rank
<1>3. ASSUME NEW n \in 1 .. Cardinality(S)
      PROVE  Sequence(S)[n] \in S /\ Rank(S, Sequence(S)[n]) = n
  BY <1>2, RanksCover
<1>4. /\ Sequence(S) \in Seq(S) /\ Len(Sequence(S)) = Cardinality(S)
      /\ DOMAIN Sequence(S) = 1 .. Cardinality(S)
  <2>1. Sequence(S) \in [1 .. Cardinality(S) -> S]
    BY <1>2, <1>3
  <2> QED
    BY <1>1, <2>1
<1>5. ASSUME NEW m \in 1 .. Cardinality(S), NEW n \in 1 .. Cardinality(S), m < n
      PROVE  Sequence(S)[m][1] < Sequence(S)[n][1]
  <2>1. PICK s \in S : s = Sequence(S)[m] /\ Rank(S, s) = m
    BY <1>3
  <2>2. PICK t \in S : t = Sequence(S)[n] /\ Rank(S, t) = n
    BY <1>3
  <2>3. s[1] \in Int /\ t[1] \in Int
    BY DEF Ordered
  <2>4. s[1] # t[1]
    BY <1>5, <2>1, <2>2 DEF Ordered
  <2>5. ~(t[1] < s[1])
    BY <1>5, <2>1, <2>2, RanksGrow
  <2> QED
    BY <2>1, <2>2, <2>3, <2>4, <2>5
<1>6. ASSUME NEW s \in S PROVE Sequence(S)[Rank(S, s)] = s
  <2>1. Rank(S, s) \in 1 .. Cardinality(S)
    BY RanksGrow
  <2>2. PICK t \in S : t = Sequence(S)[Rank(S, s)] /\ Rank(S, t) = Rank(S, s)
    BY <1>3, <2>1
  <2>3. ~(s[1] < t[1]) /\ ~(t[1] < s[1])
    BY <2>1, <2>2, RanksGrow
  <2> QED
    BY <2>2, <2>3 DEF Ordered
<1>7. \A s \in S : Rank(S, s) \in 1 .. Cardinality(S)
  BY RanksGrow
<1> QED
  BY <1>4, <1>5, <1>6, <1>7

-----------------------------------------------------------------------------
(***************************************************************************)
(* What a read sends.                                                      *)
(***************************************************************************)
Pieces(i, j) == {<<b, EndOf(b, j)>> : b \in Begins(i, j)}

Sends(i, j, kept) == LongEnough(Counted(Pieces(i, j), kept))

\* The pieces sent lie in what has been read, before what is kept, and those
\* that lie there and are long enough are sent.
LEMMA SendsAre ==
    ASSUME text \in Seq(Kinds), NEW i \in Int, NEW j \in Int,
           1 <= i, i <= j + 1, j <= Len(text), NEW kept \in Int
    PROVE  /\ \A s \in Sends(i, j, kept) :
                 /\ s \in Intervals /\ s = <<s[1], s[2]>>
                 /\ s[1] \in Begins(i, j) /\ s[2] = EndOf(s[1], j)
                 /\ i <= s[1] /\ s[1] <= s[2] /\ s[2] <= j /\ s[1] < kept
           /\ Ordered(Sends(i, j, kept))
           /\ \A s, t \in Sends(i, j, kept) : s[1] < t[1] => s[2] < t[1]
           /\ \A b \in Begins(i, j) :
                 b < kept /\ EndOf(b, j) - b + 1 > MinimumLengthMessage
                    => <<b, EndOf(b, j)>> \in Sends(i, j, kept)
<1> USE ReadInputAssumption
<1>1. ASSUME NEW s \in Sends(i, j, kept)
      PROVE  /\ s \in Intervals /\ s = <<s[1], s[2]>>
             /\ s[1] \in Begins(i, j) /\ s[2] = EndOf(s[1], j)
             /\ i <= s[1] /\ s[1] <= s[2] /\ s[2] <= j /\ s[1] < kept
             /\ s \in (i .. j + 1) \X (i - 1 .. j)
  <2>1. PICK b \in Begins(i, j) : s = <<b, EndOf(b, j)>>
    BY DEF Sends, LongEnough, Counted, Pieces
  <2>2. b \in i .. j + 1
    BY BeginsAre
  <2>3. EndOf(b, j) \in b - 1 .. j
    BY <2>2, EndOfIs
  <2>4. s[1] < kept /\ s[2] - s[1] + 1 > MinimumLengthMessage
    BY DEF Sends, LongEnough, Counted
  <2>5. Len(text) \in Nat
    OBVIOUS
  <2> QED
    BY <2>1, <2>2, <2>3, <2>4, <2>5 DEF Intervals
<1>2. IsFiniteSet(Sends(i, j, kept))
  <2>1. IsFiniteSet(i .. j + 1) /\ IsFiniteSet(i - 1 .. j)
    BY FS_Interval
  <2>2. IsFiniteSet((i .. j + 1) \X (i - 1 .. j))
    BY <2>1, FS_Product
  <2> QED
    BY <1>1, <2>2, FS_Subset
<1>3. ASSUME NEW s \in Sends(i, j, kept), NEW t \in Sends(i, j, kept), s[1] < t[1]
      PROVE  s[2] < t[1]
  <2>1. EndOf(s[1], j) + 1 < t[1]
    BY <1>1, <1>3, PiecesApart
  <2>2. s[2] = EndOf(s[1], j) /\ s[2] \in Int /\ t[1] \in Int
    BY <1>1 DEF Intervals
  <2> QED
    BY <2>1, <2>2
<1>4. ASSUME NEW b \in Begins(i, j), b < kept,
             EndOf(b, j) - b + 1 > MinimumLengthMessage
      PROVE  <<b, EndOf(b, j)>> \in Sends(i, j, kept)
  BY <1>4 DEF Sends, LongEnough, Counted, Pieces
<1>5. Ordered(Sends(i, j, kept))
  <2>1. \A s \in Sends(i, j, kept) : s[1] \in Int
    BY <1>1 DEF Intervals
  <2>2. \A s, t \in Sends(i, j, kept) : s[1] = t[1] => s = t
    BY <1>1
  <2> QED
    BY <1>2, <2>1, <2>2 DEF Ordered
<1> QED
  BY <1>1, <1>3, <1>4, <1>5

\* Pieces in order, none of them empty, that end before k.
InOrder(p, k) ==
    /\ \A n \in DOMAIN p : p[n][1] <= p[n][2] /\ p[n][2] < k
    /\ \A m, n \in DOMAIN p : m < n => p[m][2] < p[n][1]

Holds(p, s) == \E n \in DOMAIN p : p[n] = s

\* What a read sends goes behind what was sent before.
LEMMA Appended ==
    ASSUME NEW i \in Int, NEW k \in Int, i <= k,
           NEW p \in Seq(Intervals), InOrder(p, i),
           NEW S, Ordered(S), S \subseteq Intervals,
           \A s \in S : i <= s[1] /\ s[1] <= s[2] /\ s[2] < k,
           \A s, t \in S : s[1] < t[1] => s[2] < t[1]
    PROVE  /\ p \o Sequence(S) \in Seq(Intervals)
           /\ InOrder(p \o Sequence(S), k)
           /\ \A s : Holds(p, s) \/ s \in S => Holds(p \o Sequence(S), s)
<1> DEFINE z == Sequence(S)
           q == p \o z
<1>1. /\ z \in Seq(S) /\ DOMAIN z = 1 .. Len(z)
      /\ \A m, n \in DOMAIN z : m < n => z[m][1] < z[n][1]
      /\ \A s \in S : \E n \in DOMAIN z : z[n] = s
  BY SequenceIs
<1> HIDE DEF z
<1>2. z \in Seq(Intervals)
  BY <1>1
<1>3. /\ q \in Seq(Intervals) /\ Len(q) = Len(p) + Len(z)
      /\ \A n \in 1 .. Len(p) : q[n] = p[n]
      /\ \A n \in Len(p) + 1 .. Len(p) + Len(z) : q[n] = z[n - Len(p)]
  BY <1>2, ConcatProperties
<1>4. /\ Len(p) \in Nat /\ Len(z) \in Nat
      /\ DOMAIN q = 1 .. Len(p) + Len(z) /\ DOMAIN p = 1 .. Len(p)
  BY <1>2, <1>3
<1> HIDE DEF q
<1>5. \A n \in 1 .. Len(z) : z[n] \in S
  BY <1>1
<1>6. \A n \in 1 .. Len(p) : p[n] \in Intervals
  OBVIOUS
<1>7. ASSUME NEW n \in DOMAIN q PROVE q[n][1] <= q[n][2] /\ q[n][2] < k
  <2>1. CASE n \in 1 .. Len(p)
    <3>1. q[n] = p[n] /\ p[n][1] <= p[n][2] /\ p[n][2] < i
      BY <1>3, <1>4, <2>1 DEF InOrder
    <3>2. p[n][2] \in Int
      BY <1>6, <2>1 DEF Intervals
    <3> QED
      BY <3>1, <3>2
  <2>2. CASE n \in Len(p) + 1 .. Len(p) + Len(z)
    <3>1. n - Len(p) \in 1 .. Len(z)
      BY <1>4, <2>2
    <3> QED
      BY <1>3, <1>5, <2>2, <3>1
  <2> QED
    BY <1>4, <2>1, <2>2
<1>8. ASSUME NEW m \in DOMAIN q, NEW n \in DOMAIN q, m < n
      PROVE  q[m][2] < q[n][1]
  <2>1. CASE n \in 1 .. Len(p)
    <3>1. m \in 1 .. Len(p)
      BY <1>4, <1>8, <2>1
    <3> QED
      BY <1>3, <1>4, <1>8, <2>1, <3>1 DEF InOrder
  <2>2. CASE m \in 1 .. Len(p) /\ n \in Len(p) + 1 .. Len(p) + Len(z)
    <3>1. q[m] = p[m] /\ p[m][2] < i /\ p[m][2] \in Int
      BY <1>3, <1>4, <1>6, <2>2 DEF InOrder, Intervals
    <3>2. n - Len(p) \in 1 .. Len(z)
      BY <1>4, <2>2
    <3>3. q[n] \in S
      BY <1>3, <1>5, <2>2, <3>2
    <3>4. q[n][1] \in Int /\ i <= q[n][1]
      BY <3>3 DEF Intervals
    <3> QED
      BY <3>1, <3>4
  <2>3. CASE m \in Len(p) + 1 .. Len(p) + Len(z)
    <3>1. n \in Len(p) + 1 .. Len(p) + Len(z)
      BY <1>4, <1>8, <2>3
    <3>2. /\ m - Len(p) \in 1 .. Len(z) /\ n - Len(p) \in 1 .. Len(z)
          /\ m - Len(p) < n - Len(p)
      BY <1>4, <1>8, <2>3, <3>1
    <3>3. z[m - Len(p)] \in S /\ z[n - Len(p)] \in S
      BY <1>5, <3>2
    <3>4. z[m - Len(p)][1] < z[n - Len(p)][1]
      BY <1>1, <3>2
    <3> QED
      BY <1>3, <2>3, <3>1, <3>3, <3>4
  <2> QED
    BY <1>4, <2>1, <2>2, <2>3
<1>9. ASSUME NEW s, Holds(p, s) PROVE Holds(q, s)
  BY <1>3, <1>4, <1>9 DEF Holds
<1>10. ASSUME NEW s \in S PROVE Holds(q, s)
  <2>1. PICK n \in 1 .. Len(z) : z[n] = s
    BY <1>1
  <2>2. Len(p) + n \in Len(p) + 1 .. Len(p) + Len(z) /\ (Len(p) + n) - Len(p) = n
    BY <1>4, <2>1
  <2>3. q[Len(p) + n] = s
    BY <1>3, <2>1, <2>2
  <2>4. Len(p) + n \in DOMAIN q
    BY <1>4, <2>2
  <2> QED
    BY <2>3, <2>4 DEF Holds
<1>11. q \in Seq(Intervals) /\ InOrder(q, k)
  BY <1>3, <1>7, <1>8 DEF InOrder
<1> QED
  BY <1>9, <1>10, <1>11 DEF q, z

-----------------------------------------------------------------------------
(***************************************************************************)
(* The steps, and the order of what is sent.                               *)
(***************************************************************************)

\* overflow begins where the last piece does or behind all that has been read;
\* the pieces sent end before it.
LEMMA KeptIs ==
    ASSUME text \in Seq(Kinds), NEW i \in Int, NEW j \in Int,
           1 <= i, i <= j + 1, j <= Len(text), NEW n
    PROVE  /\ NextStart(n, i, j) \in i .. j + 1
           /\ \A s \in Sends(i, j, NextStart(n, i, j)) : s[2] < NextStart(n, i, j)
<1>1. CASE KeepsLast(n, i, j)
  <2>1. NextStart(n, i, j) = LastBegin(i, j)
    BY <1>1 DEF NextStart
  <2>2. LastBegin(i, j) \in Begins(i, j) /\ LastBegin(i, j) \in i .. j + 1
    BY LastBeginIs
  <2>3. ASSUME NEW s \in Sends(i, j, LastBegin(i, j)) PROVE s[2] < LastBegin(i, j)
    <3>1. /\ s[1] \in Begins(i, j) /\ s[2] = EndOf(s[1], j) /\ s[1] < LastBegin(i, j)
          /\ s \in Intervals
      BY <2>2, SendsAre
    <3>2. EndOf(s[1], j) + 1 < LastBegin(i, j)
      BY <2>2, <3>1, PiecesApart
    <3>3. s[2] \in Int
      BY <3>1 DEF Intervals
    <3> QED
      BY <2>2, <3>1, <3>2, <3>3
  <2> QED
    BY <2>1, <2>2, <2>3
<1>2. CASE ~KeepsLast(n, i, j)
  <2>1. NextStart(n, i, j) = j + 1
    BY <1>2 DEF NextStart
  <2>2. ASSUME NEW s \in Sends(i, j, j + 1) PROVE s[2] < j + 1
    <3>1. s[2] <= j /\ s \in Intervals
      BY SendsAre
    <3> QED
      BY <3>1 DEF Intervals
  <2> QED
    BY <2>1, <2>2
<1> QED
  BY <1>1, <1>2

\* One turn of readInput's loop.
LEMMA ReadIs ==
    ASSUME TypeOK, NEW n \in 1 .. ReadLength, Read(n)
    PROVE  /\ transport = "stream" /\ ~closed
           /\ UNCHANGED <<transport, text, closed>>
           /\ pos' = pos + n /\ pos + n \in 1 .. Len(text) /\ text \in Seq(Kinds)
           /\ start' = NextStart(n, start, pos + n)
           /\ start' \in start .. pos + n + 1
           /\ sent' = sent \o Sequence(Sends(start, pos + n, start'))
           /\ cuts' = IF n < ReadLength THEN cuts \cup {pos + n} ELSE cuts
<1>1. /\ transport = "stream" /\ ~closed
      /\ UNCHANGED <<transport, text, closed>>
      /\ pos' = pos + n /\ pos + n <= Len(text)
      /\ start' = NextStart(n, start, pos + n)
      /\ sent' = sent \o Sequence(Sends(start, pos + n, start'))
      /\ cuts' = IF n < ReadLength THEN cuts \cup {pos + n} ELSE cuts
  BY DEF Read, Sends, Pieces
<1>2. text \in Seq(Kinds) /\ Len(text) \in Nat /\ ReadLength \in Nat
  BY ReadInputAssumption DEF TypeOK
<1>3. pos + n \in 1 .. Len(text) /\ start \in Int /\ 1 <= start /\ start <= pos + n + 1
  BY <1>1, <1>2 DEF TypeOK
<1>4. NextStart(n, start, pos + n) \in start .. pos + n + 1
  BY <1>1, <1>2, <1>3, KeptIs
<1> QED
  BY <1>1, <1>2, <1>3, <1>4

\* How much of a datagram is read.
Received == IF Len(text) < ReadLength THEN Len(text) ELSE ReadLength

\* One datagram.
LEMMA DatagramIs ==
    ASSUME TypeOK, ReadDatagram
    PROVE  /\ transport = "datagram" /\ UNCHANGED <<transport, text>> /\ closed'
           /\ Received \in 0 .. Len(text) /\ text \in Seq(Kinds)
           /\ pos' = Received /\ start' = Received + 1
           /\ sent' = IF Received > MinimumLengthMessage
                        THEN Sequence(Sends(1, Received, Received + 2)) ELSE <<>>
           /\ cuts' = IF Received < Len(text) THEN cuts \cup {Received} ELSE cuts
<1>1. text \in Seq(Kinds) /\ Len(text) \in Nat /\ ReadLength \in Nat \ {0}
  BY ReadInputAssumption DEF TypeOK
<1>2. Received \in 0 .. Len(text)
  BY <1>1 DEF Received
<1>3. Counted(Pieces(1, Received), Received + 2) = Pieces(1, Received)
  <2>1. ASSUME NEW s \in Pieces(1, Received) PROVE s[1] < Received + 2
    <3>1. PICK b \in Begins(1, Received) : s = <<b, EndOf(b, Received)>>
      BY DEF Pieces
    <3>2. b \in 1 .. Received + 1
      BY <1>2, BeginsAre
    <3> QED
      BY <1>2, <3>1, <3>2
  <2> QED
    BY <2>1 DEF Counted
<1> QED
  BY <1>1, <1>2, <1>3 DEF ReadDatagram, Received, Sends, Pieces

\* What is known of the pieces already sent; the empty sequence has none.
SentInOrder == InOrder(sent, start)

\* A turn of readInput's loop keeps the types and the order, and what was sent.
LEMMA ReadOrder ==
    ASSUME TypeOK, SentInOrder, NEW n \in 1 .. ReadLength, Read(n)
    PROVE  /\ TypeOK' /\ SentInOrder'
           /\ \A s : Holds(sent, s) \/ s \in Sends(start, pos + n, start')
                        => Holds(sent', s)
<1> DEFINE j == pos + n
           S == Sends(start, j, start')
<1>1. /\ UNCHANGED <<transport, text, closed>> /\ pos' = j
      /\ j \in 1 .. Len(text) /\ text \in Seq(Kinds) /\ start' \in start .. j + 1
      /\ start' = NextStart(n, start, j)
      /\ sent' = sent \o Sequence(S)
      /\ cuts' = IF n < ReadLength THEN cuts \cup {j} ELSE cuts
  BY ReadIs
<1>2. /\ start \in Int /\ 1 <= start /\ start <= j + 1 /\ Len(text) \in Nat
      /\ j \in Int /\ j <= Len(text)
  BY <1>1 DEF TypeOK
<1>3. start' \in Int /\ start <= start'
  BY <1>1, <1>2
<1>4. /\ Ordered(S) /\ S \subseteq Intervals
      /\ \A s \in S : start <= s[1] /\ s[1] <= s[2]
      /\ \A s, t \in S : s[1] < t[1] => s[2] < t[1]
  <2> HIDE DEF j
  <2> QED
    BY <1>1, <1>2, <1>3, SendsAre
<1>5. \A s \in S : s[2] < start'
  <2> HIDE DEF j
  <2> QED
    BY <1>1, <1>2, KeptIs
<1>6. /\ sent' \in Seq(Intervals) /\ InOrder(sent', start')
      /\ \A s : Holds(sent, s) \/ s \in S => Holds(sent', s)
  <2>1. sent \in Seq(Intervals) /\ InOrder(sent, start)
    BY DEF TypeOK, SentInOrder
  <2> HIDE DEF j, S
  <2> QED
    BY <1>1, <1>2, <1>3, <1>4, <1>5, <2>1, Appended
<1>7. Intervals' = Intervals
  BY <1>1 DEF Intervals
<1>8. /\ start' \in 1 .. pos' + 1 /\ pos' \in 0 .. Len(text')
      /\ cuts' \subseteq 1 .. Len(text')
  BY <1>1, <1>2 DEF TypeOK
<1> QED
  BY <1>1, <1>6, <1>7, <1>8 DEF TypeOK, SentInOrder

\* So does a datagram, all of which is sent.
LEMMA DatagramOrder ==
    ASSUME TypeOK, SentInOrder, ReadDatagram
    PROVE  /\ TypeOK' /\ SentInOrder'
           /\ Received > MinimumLengthMessage =>
                 \A s \in Sends(1, Received, Received + 2) : Holds(sent', s)
<1> DEFINE j == Received
           S == Sends(1, j, j + 2)
<1>1. /\ UNCHANGED <<transport, text>> /\ closed' = TRUE
      /\ j \in 0 .. Len(text) /\ text \in Seq(Kinds)
      /\ pos' = j /\ start' = j + 1
      /\ sent' = IF j > MinimumLengthMessage THEN Sequence(S) ELSE <<>>
      /\ cuts' = IF j < Len(text) THEN cuts \cup {j} ELSE cuts
  BY DatagramIs DEF ReadDatagram
<1>2. Len(text) \in Nat /\ j \in Int /\ j <= Len(text) /\ 1 <= j + 1
  BY <1>1
<1>3. /\ Ordered(S) /\ S \subseteq Intervals
      /\ \A s \in S : 1 <= s[1] /\ s[1] <= s[2] /\ s[2] <= j
      /\ \A s, t \in S : s[1] < t[1] => s[2] < t[1]
  <2> DEFINE k == j + 2
  <2>1. 1 \in Int /\ 1 <= 1 /\ k \in Int
    BY <1>2
  <2> HIDE DEF j, k
  <2>2. /\ Ordered(Sends(1, j, k)) /\ Sends(1, j, k) \subseteq Intervals
        /\ \A s \in Sends(1, j, k) : 1 <= s[1] /\ s[1] <= s[2] /\ s[2] <= j
        /\ \A s, t \in Sends(1, j, k) : s[1] < t[1] => s[2] < t[1]
    BY <1>1, <1>2, <2>1, SendsAre
  <2> QED
    BY <2>2 DEF k
<1>4. /\ <<>> \in Seq(Intervals) /\ InOrder(<<>>, 1) /\ InOrder(<<>>, j + 1)
  BY DEF InOrder
<1>5. /\ Sequence(S) \in Seq(Intervals) /\ InOrder(Sequence(S), j + 1)
      /\ \A s \in S : Holds(Sequence(S), s)
  <2>1. \A s \in S : s[2] < j + 1
    BY <1>2, <1>3 DEF Intervals
  <2>2. <<>> \o Sequence(S) = Sequence(S)
    <3>1. Sequence(S) \in Seq(S)
      BY <1>3, SequenceIs
    <3> HIDE DEF S
    <3> QED
      BY <3>1, ConcatEmptySeq
  <2> DEFINE k == j + 1
             e == <<>>
  <2>3. 1 \in Int /\ k \in Int /\ 1 <= k /\ \A s \in S : s[2] < k
    BY <1>2, <2>1
  <2>4. e \in Seq(Intervals) /\ InOrder(e, 1)
    BY <1>4
  <2> HIDE DEF j, S, k, e
  <2>5. /\ e \o Sequence(S) \in Seq(Intervals) /\ InOrder(e \o Sequence(S), k)
        /\ \A s \in S : Holds(e \o Sequence(S), s)
    BY <1>3, <2>3, <2>4, Appended
  <2> QED
    BY <2>2, <2>5 DEF e, k
<1>6. /\ sent' \in Seq(Intervals) /\ InOrder(sent', start')
      /\ j > MinimumLengthMessage => \A s \in S : Holds(sent', s)
  BY <1>1, <1>4, <1>5
<1>7. Intervals' = Intervals
  BY <1>1 DEF Intervals
<1>8. /\ start' \in 1 .. pos' + 1 /\ pos' \in 0 .. Len(text')
  BY <1>1, <1>2
<1>9. cuts' \subseteq 1 .. Len(text')
  <2>1. CASE j < Len(text)
    <3>1. j = ReadLength /\ j \in 1 .. Len(text)
      BY <1>1, <2>1, ReadInputAssumption DEF Received
    <3> QED
      BY <1>1, <3>1 DEF TypeOK
  <2>2. CASE ~(j < Len(text))
    BY <1>1, <2>2 DEF TypeOK
  <2> QED
    BY <2>1, <2>2
<1> QED
  BY <1>1, <1>6, <1>7, <1>8, <1>9 DEF TypeOK, SentInOrder

\* Every step keeps the types and the order.
LEMMA OrderStep == TypeOK /\ SentInOrder /\ [Next]_vars => TypeOK' /\ SentInOrder'
<1> SUFFICES ASSUME TypeOK, SentInOrder, [Next]_vars
             PROVE  TypeOK' /\ SentInOrder'
  OBVIOUS
<1>1. ASSUME NEW n \in 1 .. ReadLength, Read(n) PROVE TypeOK' /\ SentInOrder'
  BY <1>1, ReadOrder
<1>2. CASE ReadDatagram
  BY <1>2, DatagramOrder
<1>3. CASE ReadError
  BY <1>3 DEF ReadError, TypeOK, SentInOrder, InOrder, Intervals
<1>4. CASE Done \/ UNCHANGED vars
  BY <1>4 DEF Done, vars, TypeOK, SentInOrder, InOrder, Intervals
<1> QED
  BY <1>1, <1>2, <1>3, <1>4 DEF Next

\* At first nothing has been read or sent.
LEMMA InitInOrder == Init => TypeOK /\ SentInOrder
<1> SUFFICES ASSUME Init PROVE TypeOK /\ SentInOrder
  OBVIOUS
<1>1. text \in Seq(Kinds) /\ Len(text) \in Nat
  BY ReadInputAssumption DEF Init
<1>2. <<>> \in Seq(Intervals) /\ InOrder(<<>>, 1)
  BY DEF InOrder
<1>3. pos \in 0 .. Len(text) /\ start \in 1 .. pos + 1
  BY <1>1 DEF Init
<1> QED
  BY <1>2, <1>3 DEF Init, TypeOK, SentInOrder

\* The types: overflow is an end of what has been read.
THEOREM TypeCorrect == Spec => []TypeOK
<1> QED
  BY InitInOrder, OrderStep, PTL DEF Spec

\* The pieces reach parseChannel in the order of the text and without overlap,
\* however the reads split it (readInput, readInputUdp).
THEOREM PiecesStayInOrder == Spec => []PiecesInOrder
<1>1. TypeOK /\ SentInOrder => PiecesInOrder
  <2> SUFFICES ASSUME TypeOK, SentInOrder, NEW n \in DOMAIN sent
               PROVE  sent[n][1] < start
    BY DEF PiecesInOrder, SentInOrder, InOrder
  <2>1. sent[n] \in Intervals
    BY DEF TypeOK
  <2> QED
    BY <2>1 DEF SentInOrder, InOrder, Intervals, TypeOK
<1> QED
  BY <1>1, InitInOrder, OrderStep, PTL DEF Spec

-----------------------------------------------------------------------------
(***************************************************************************)
(* Nothing is skipped at the buffer's boundary.                            *)
(***************************************************************************)

\* A fragment that parses has at least five bytes.
LEMMA ParsesLong ==
    ASSUME NEW i \in Int, NEW j \in Int, Parses(i, j)
    PROVE  i + 4 <= j
BY DEF Parses

\* Each byte that is no newline is in one of the pieces.
LEMMA Covering ==
    ASSUME NEW i \in Int, NEW j \in Int, NEW x \in i .. j, text[x] # NL
    PROVE  \E b \in Begins(i, j) : b <= x /\ x <= EndOf(b, j)
<1> DEFINE S == {b \in Begins(i, j) : b <= x}
<1>1. Begins(i, j) \subseteq i .. j + 1 /\ i \in Begins(i, j) /\ i <= j + 1
  BY BeginsAre
<1>2. S \in SUBSET Int /\ S # {} /\ \A b \in S : b <= x
  BY <1>1
<1>3. PICK b \in S : \A c \in S : c <= b
  <2>1. x \in Int
    OBVIOUS
  <2> HIDE DEF S
  <2> QED
    BY <1>2, <2>1, GreatestInt
<1>4. b \in Begins(i, j) /\ b <= x /\ b \in i .. j + 1
  BY <1>1, <1>3
<1>5. /\ EndOf(b, j) \in b - 1 .. j
      /\ EndOf(b, j) = j \/ text[EndOf(b, j) + 1] = NL
  BY <1>4, EndOfIs
<1>6. x <= EndOf(b, j)
  <2> SUFFICES ASSUME EndOf(b, j) < x PROVE FALSE
    BY <1>4, <1>5
  <2> DEFINE e == EndOf(b, j)
  <2>1. e \in Int /\ b - 1 <= e /\ e < x /\ text[e + 1] = NL
    BY <1>4, <1>5
  <2> HIDE DEF e
  <2>2. e + 1 # x
    BY <2>1
  <2>3. e + 1 \in i .. j /\ (e + 1) + 1 <= x
    BY <1>4, <2>1, <2>2
  <2>4. (e + 1) + 1 \in Begins(i, j)
    BY <1>1, <2>1, <2>3, BeginsAre
  <2> QED
    BY <1>3, <1>4, <2>1, <2>3, <2>4
<1> QED
  BY <1>4, <1>6

\* The last piece ends where the read does.
LEMMA LastEnd ==
    ASSUME NEW i \in Int, NEW j \in Int, i <= j + 1
    PROVE  EndOf(LastBegin(i, j), j) = j
<1> DEFINE b == LastBegin(i, j)
<1>1. b \in i .. j + 1 /\ \A n \in b .. j : text[n] # NL
  BY LastBeginIs
<1> HIDE DEF b
<1>2. b \in Int /\ b <= j + 1
  BY <1>1
<1>3. /\ EndOf(b, j) \in b - 1 .. j
      /\ EndOf(b, j) = j \/ text[EndOf(b, j) + 1] = NL
  BY <1>2, EndOfIs
<1>4. EndOf(b, j) = j
  BY <1>1, <1>2, <1>3
<1> QED
  BY <1>4 DEF b

\* What stands before overflow: a newline, the end of a read that did not fill
\* the buffer, or a piece that was sent.
Boundary ==
    transport = "stream" =>
        \/ start = 1
        \/ text[start - 1] = NL
        \/ start - 1 \in cuts
        \/ InPiece(start - 1)

\* A turn of the loop skips nothing.
LEMMA ReadSkipsNothing ==
    ASSUME TypeOK, SentInOrder, Boundary, NothingSkipped,
           MinimumLengthMessage <= 1, NEW n \in 1 .. ReadLength, Read(n)
    PROVE  Boundary' /\ NothingSkipped'
<1>0. PICK j : j = pos + n
  OBVIOUS
<1> DEFINE last == LastBegin(start, j)
<1>1. /\ transport = "stream" /\ UNCHANGED <<transport, text>> /\ pos' = j
      /\ j \in 1 .. Len(text) /\ text \in Seq(Kinds) /\ start' \in start .. j + 1
      /\ start' = NextStart(n, start, j)
      /\ cuts' = IF n < ReadLength THEN cuts \cup {j} ELSE cuts
  BY <1>0, ReadIs
<1>2. /\ start \in Int /\ 1 <= start /\ start <= pos + 1 /\ start <= j + 1
      /\ pos \in Int /\ Len(text) \in Nat /\ j \in Int /\ j <= Len(text)
      /\ start' \in Int /\ start <= start'
  BY <1>0, <1>1 DEF TypeOK
<1>3. \A s : Holds(sent, s) \/ s \in Sends(start, j, start') => Holds(sent', s)
  BY <1>0, ReadOrder
<1>4. /\ last \in Begins(start, j) /\ last \in start .. j + 1
      /\ \A b \in Begins(start, j) : b <= last
      /\ EndOf(last, j) = j
  BY <1>2, LastBeginIs, LastEnd
<1>5. cuts \subseteq cuts' /\ (n < ReadLength => j \in cuts')
  BY <1>1
<1>6. ASSUME NEW x, InPiece(x) PROVE InPiece(x)'
  <2>1. PICK k \in DOMAIN sent : x \in sent[k][1] .. sent[k][2]
    BY <1>6 DEF InPiece
  <2>2. Holds(sent, sent[k])
    BY DEF Holds
  <2>3. PICK m \in DOMAIN sent' : sent'[m] = sent[k]
    BY <1>3, <2>2 DEF Holds
  <2> QED
    BY <2>1, <2>3 DEF InPiece
<1>7. ASSUME NEW b \in Begins(start, j), b < start',
             EndOf(b, j) - b + 1 > MinimumLengthMessage, NEW x \in b .. EndOf(b, j)
      PROVE  InPiece(x)'
  <2>1. <<b, EndOf(b, j)>> \in Sends(start, j, start')
    BY <1>1, <1>2, <1>7, SendsAre
  <2>2. PICK m \in DOMAIN sent' : sent'[m] = <<b, EndOf(b, j)>>
    BY <1>3, <2>1 DEF Holds
  <2> QED
    BY <1>7, <2>2 DEF InPiece
<1>8. (n = ReadLength \/ n < ReadLength) /\ MinimumLengthMessage \in Nat
  BY ReadInputAssumption
<1> HIDE DEF last
\* What is not sent before overflow is one byte between two ends.
<1>9. ASSUME NEW x \in 1 .. j, text[x] # NL, ~InPiece(x)', x < start',
             x = j => x \in cuts'
      PROVE  Alone(x)'
  <2>1. CASE x < start
    <3>1. Alone(x)
      BY <1>2, <1>6, <1>9, <2>1 DEF NothingSkipped
    <3> QED
      BY <1>1, <1>5, <1>6, <3>1 DEF Alone
  <2>2. CASE start <= x
    <3>1. x \in start .. j
      BY <1>2, <1>9, <2>2
    <3>2. PICK b \in Begins(start, j) : b <= x /\ x <= EndOf(b, j)
      BY <1>2, <1>9, <3>1, Covering
    <3>3. b \in start .. j + 1
      BY <1>2, BeginsAre
    <3>4. /\ EndOf(b, j) \in b - 1 .. j
          /\ EndOf(b, j) = j \/ text[EndOf(b, j) + 1] = NL
      BY <1>2, <3>3, EndOfIs
    <3>5. b < start' /\ x \in b .. EndOf(b, j)
      BY <1>2, <1>9, <3>2, <3>3, <3>4
    <3>6. ~(EndOf(b, j) - b + 1 > MinimumLengthMessage)
      BY <1>7, <1>9, <3>5
    <3>7. b = x /\ EndOf(b, j) = x
      BY <1>2, <1>8, <3>1, <3>2, <3>3, <3>4, <3>6
    <3>8. x = start \/ text[x - 1] = NL
      BY <1>2, <3>7, BeginsAre
    <3>9. x = 1 \/ text[x - 1] = NL \/ x - 1 \in cuts' \/ InPiece(x - 1)'
      BY <1>1, <1>5, <1>6, <3>8 DEF Boundary
    <3>10. x \in cuts' \/ text[x + 1] = NL
      BY <1>9, <3>4, <3>7
    <3> QED
      BY <1>1, <3>9, <3>10 DEF Alone
  <2> QED
    BY <1>2, <2>1, <2>2
<1>10. CASE KeepsLast(n, start, j)
  <2>1. start' = last
    BY <1>1, <1>10 DEF NextStart, last
  <2>2. last = start \/ text[last - 1] = NL
    BY <1>2, <1>4, BeginsAre
  <2>3. Boundary'
    BY <1>1, <1>5, <1>6, <2>1, <2>2 DEF Boundary
  <2>4. ASSUME NEW x \in 1 .. j, text[x] # NL, ~InPiece(x)', x < start'
        PROVE  Alone(x)'
    <3>1. CASE x < j
      BY <1>9, <2>4, <3>1
    <3>2. CASE x = j
      <4>1. last = j + 1
        BY <1>2, <1>4, <2>1, <2>4, <3>2
      <4>2. last = start
        BY <1>2, <2>2, <2>4, <3>2, <4>1
      <4> QED
        BY <1>0, <1>2, <4>1, <4>2, ReadInputAssumption
    <3> QED
      BY <1>2, <3>1, <3>2
  <2> QED
    BY <1>1, <1>2, <2>3, <2>4 DEF NothingSkipped
<1>11. CASE ~KeepsLast(n, start, j)
  <2>1. start' = j + 1
    BY <1>1, <1>11 DEF NextStart
  <2>2. n < ReadLength \/ Parses(last, j)
    BY <1>8, <1>11 DEF KeepsLast, last
  <2>3. j \in cuts' \/ InPiece(j)'
    <3>1. CASE n < ReadLength
      BY <1>5, <3>1
    <3>2. CASE Parses(last, j)
      <4>1. last + 4 <= j
        BY <1>2, <1>4, <3>2, ParsesLong
      <4>2. EndOf(last, j) - last + 1 > MinimumLengthMessage
        BY <1>2, <1>4, <1>8, <4>1
      <4>3. last < start' /\ j \in last .. EndOf(last, j)
        BY <1>2, <1>4, <2>1, <4>1
      <4> QED
        BY <1>4, <1>7, <4>2, <4>3
    <3> QED
      BY <2>2, <3>1, <3>2
  <2>4. Boundary'
    <3>1. start' - 1 = j
      BY <1>2, <2>1
    <3> QED
      BY <2>3, <3>1 DEF Boundary
  <2>5. ASSUME NEW x \in 1 .. j, text[x] # NL, ~InPiece(x)', x < start'
        PROVE  Alone(x)'
    BY <1>9, <2>3, <2>5
  <2> QED
    BY <1>1, <1>2, <2>4, <2>5 DEF NothingSkipped
<1> QED
  BY <1>10, <1>11

\* Of a datagram only what does not fit into the buffer is skipped.
LEMMA DatagramSkipsNothing ==
    ASSUME TypeOK, SentInOrder, MinimumLengthMessage <= 1, ReadDatagram
    PROVE  Boundary' /\ NothingSkipped'
<1>0. PICK j : j = Received
  OBVIOUS
<1>1. /\ transport = "datagram" /\ UNCHANGED <<transport, text>>
      /\ j \in 0 .. Len(text) /\ text \in Seq(Kinds) /\ pos' = j
      /\ j < Len(text) => j \in cuts'
  BY <1>0, DatagramIs
<1>2. j > MinimumLengthMessage => \A s \in Sends(1, j, j + 2) : Holds(sent', s)
  BY <1>0, DatagramOrder
<1>3. j \in Int /\ 1 <= j + 1 /\ j <= Len(text) /\ Len(text) \in Nat
  BY <1>1
<1>4. MinimumLengthMessage \in Nat
  BY ReadInputAssumption
<1>5. ASSUME NEW x \in 1 .. j, text[x] # NL, ~InPiece(x)' PROVE Alone(x)'
  <2>0. PICK i \in Int : i = 1
    OBVIOUS
  <2>1. PICK b \in Begins(1, j) : b <= x /\ x <= EndOf(b, j)
    <3>1. \E b \in Begins(i, j) : b <= x /\ x <= EndOf(b, j)
      BY <1>3, <1>5, <2>0, Covering
    <3> QED
      BY <2>0, <3>1
  <2>2. b \in 1 .. j + 1 /\ (b = 1 \/ text[b - 1] = NL)
    BY <1>3, BeginsAre
  <2>3. /\ EndOf(b, j) \in b - 1 .. j
        /\ EndOf(b, j) = j \/ text[EndOf(b, j) + 1] = NL
    BY <1>3, <2>2, EndOfIs
  <2>4. ~(EndOf(b, j) - b + 1 > MinimumLengthMessage)
    <3> SUFFICES ASSUME EndOf(b, j) - b + 1 > MinimumLengthMessage PROVE FALSE
      OBVIOUS
    <3>1. j > MinimumLengthMessage
      BY <1>3, <1>4, <2>2, <2>3
    <3>2. b < j + 2 /\ j + 2 \in Int /\ 1 \in Int /\ 1 <= 1
      BY <1>3, <2>2
    <3>3. <<b, EndOf(b, j)>> \in Sends(1, j, j + 2)
      <4> DEFINE k == j + 2
      <4> HIDE DEF k
      <4>1. b < k /\ k \in Int
        BY <3>2 DEF k
      <4>2. <<b, EndOf(b, j)>> \in Sends(1, j, k)
        BY <1>1, <1>3, <3>2, <4>1, SendsAre
      <4> QED
        BY <4>2 DEF k
    <3>4. PICK m \in DOMAIN sent' : sent'[m] = <<b, EndOf(b, j)>>
      BY <1>2, <3>1, <3>3 DEF Holds
    <3>5. x \in b .. EndOf(b, j)
      BY <1>3, <2>1, <2>2, <2>3
    <3> QED
      BY <1>5, <3>4, <3>5 DEF InPiece
  <2>5. b = x /\ EndOf(b, j) = x
    BY <1>3, <1>4, <2>1, <2>2, <2>3, <2>4
  <2>6. x = Len(text) \/ text[x + 1] = NL \/ x \in cuts'
    BY <1>1, <1>3, <2>3, <2>5
  <2> QED
    BY <1>1, <2>2, <2>5, <2>6 DEF Alone
<1> QED
  BY <1>1, <1>5 DEF Boundary, NothingSkipped

\* Every step keeps both.
LEMMA SkipStep ==
    ASSUME MinimumLengthMessage <= 1
    PROVE  TypeOK /\ SentInOrder /\ Boundary /\ NothingSkipped /\ [Next]_vars
              => Boundary' /\ NothingSkipped'
<1> SUFFICES ASSUME TypeOK, SentInOrder, Boundary, NothingSkipped, [Next]_vars
             PROVE  Boundary' /\ NothingSkipped'
  OBVIOUS
<1>1. ASSUME NEW n \in 1 .. ReadLength, Read(n) PROVE Boundary' /\ NothingSkipped'
  BY <1>1, ReadSkipsNothing
<1>2. CASE ReadDatagram
  BY <1>2, DatagramSkipsNothing
<1>3. CASE ReadError \/ Done \/ UNCHANGED vars
  BY <1>3 DEF ReadError, Done, vars, Boundary, NothingSkipped, InPiece, Alone
<1> QED
  BY <1>1, <1>2, <1>3 DEF Next

\* The buffer's boundary loses nothing but a byte that stands alone, as the code's
\* MinimumLengthMessage of 1 allows (readInput, readInputUdp).
THEOREM SkipsNothing ==
    ASSUME MinimumLengthMessage <= 1
    PROVE  Spec => []NothingSkipped
<1>1. Init => Boundary /\ NothingSkipped
  BY DEF Init, Boundary, NothingSkipped
<1> QED
  BY <1>1, InitInOrder, OrderStep, SkipStep, PTL DEF Spec

-----------------------------------------------------------------------------
(***************************************************************************)
(* Metrics that only full buffers cut.                                     *)
(***************************************************************************)

\* A metric that no other read cuts waits in overflow as a whole until it has
\* been read to its end, and then it has been sent.
WholeOrWaiting ==
    \A m \in Metrics : Uncut(m) =>
        /\ pos < m[2] => start <= m[1]
        /\ m[2] <= pos => Delivered(m)

\* A metric is a piece of any read that takes in all of it.
LEMMA MetricPiece ==
    ASSUME NEW m \in Metrics, text \in Seq(Kinds), NEW i \in Int, NEW j \in Int,
           1 <= i, i <= m[1], m[1] <= j
    PROVE  /\ m = <<m[1], m[2]>> /\ m[1] \in Int /\ m[2] \in Int
           /\ m[1] + 4 <= m[2] /\ m[2] < Len(text)
           /\ m[1] \in Begins(i, j)
           /\ m[2] <= j => EndOf(m[1], j) = m[2]
<1>1. /\ m \in Intervals /\ Parses(m[1], m[2])
      /\ \A n \in m[1] .. m[2] : text[n] # NL
      /\ m[1] = 1 \/ text[m[1] - 1] = NL
      /\ m[2] < Len(text) /\ text[m[2] + 1] = NL
  BY DEF Metrics
<1>2. m = <<m[1], m[2]>> /\ m[1] \in Int /\ m[2] \in Int /\ Len(text) \in Nat
  BY <1>1 DEF Intervals
<1>3. m[1] + 4 <= m[2]
  BY <1>1, <1>2, ParsesLong
<1>4. m[1] \in Begins(i, j)
  <2>1. CASE m[1] = i
    BY <1>2, <2>1, BeginsAre
  <2>2. CASE m[1] # i
    <3>1. PICK k : k = m[1] - 1
      OBVIOUS
    <3>2. k \in i .. j /\ text[k] = NL /\ k + 1 = m[1]
      BY <1>1, <1>2, <2>2, <3>1
    <3>3. i <= j + 1
      BY <1>2
    <3>4. k + 1 \in Begins(i, j)
      BY <3>2, <3>3, BeginsAre
    <3> QED
      BY <3>2, <3>4
  <2> QED
    BY <2>1, <2>2
<1>5. ASSUME m[2] <= j PROVE EndOf(m[1], j) = m[2]
  <2>1. PICK a : a = m[1]
    OBVIOUS
  <2>2. PICK b : b = m[2]
    OBVIOUS
  <2>3. /\ a \in Int /\ b \in Int /\ a + 4 <= b /\ b <= j /\ a <= j + 1
        /\ \A n \in a .. b : text[n] # NL
        /\ text[b + 1] = NL
    BY <1>1, <1>2, <1>3, <1>5, <2>1, <2>2
  <2>4. /\ EndOf(a, j) \in a - 1 .. j
        /\ \A n \in a .. EndOf(a, j) : text[n] # NL
        /\ EndOf(a, j) = j \/ text[EndOf(a, j) + 1] = NL
    BY <2>3, EndOfIs
  <2>5. ~(EndOf(a, j) < b)
    BY <2>3, <2>4
  <2>6. ~(b < EndOf(a, j))
    BY <2>3, <2>4
  <2> QED
    BY <2>1, <2>2, <2>3, <2>4, <2>5, <2>6
<1> QED
  BY <1>1, <1>2, <1>3, <1>4, <1>5

\* Which stretches of the text are metrics does not change.
LEMMA SameMetrics == text' = text => Metrics' = Metrics
BY DEF Metrics, Intervals, Parses

\* A turn of the loop: the beginning of a metric stays in overflow, and a metric
\* whose last byte has been read is sent, since then it parses.
LEMMA ReadKeepsWhole ==
    ASSUME TypeOK, SentInOrder, WholeOrWaiting,
           MinimumLengthMessage <= 1, NEW n \in 1 .. ReadLength, Read(n)
    PROVE  WholeOrWaiting'
<1>0. PICK j : j = pos + n
  OBVIOUS
<1> DEFINE last == LastBegin(start, j)
<1>1. /\ UNCHANGED text /\ pos' = j
      /\ j \in 1 .. Len(text) /\ text \in Seq(Kinds) /\ start' \in start .. j + 1
      /\ start' = NextStart(n, start, j)
      /\ cuts' = IF n < ReadLength THEN cuts \cup {j} ELSE cuts
  BY <1>0, ReadIs
<1>2. /\ start \in Int /\ 1 <= start /\ start <= pos + 1 /\ start <= j + 1
      /\ pos \in Int /\ Len(text) \in Nat /\ j \in Int /\ j <= Len(text)
      /\ start' \in Int /\ start <= start'
  BY <1>0, <1>1 DEF TypeOK
<1>3. \A s : Holds(sent, s) \/ s \in Sends(start, j, start') => Holds(sent', s)
  BY <1>0, ReadOrder
<1>4. /\ last \in start .. j + 1 /\ \A b \in Begins(start, j) : b <= last
      /\ last = start \/ text[last - 1] = NL
      /\ \A k \in last .. j : text[k] # NL
  <2>1. /\ last \in start .. j + 1 /\ \A b \in Begins(start, j) : b <= last
        /\ \A k \in last .. j : text[k] # NL
        /\ last \in Begins(start, j)
    BY <1>2, LastBeginIs
  <2> HIDE DEF last
  <2>2. last = start \/ text[last - 1] = NL
    BY <1>2, <2>1, BeginsAre
  <2> QED
    BY <2>1, <2>2
<1>5. (n = ReadLength \/ n < ReadLength) /\ MinimumLengthMessage \in Nat
  BY ReadInputAssumption
<1>6. \/ start' = j + 1 /\ (n < ReadLength \/ Parses(last, j))
      \/ start' = last /\ ~Parses(last, j)
  BY <1>1, <1>5 DEF NextStart, KeepsLast
<1> HIDE DEF last
<1>7. ASSUME NEW m \in Metrics, Uncut(m)'
      PROVE  /\ pos' < m[2] => start' <= m[1]
             /\ m[2] <= pos' => Delivered(m)'
  <2>1. Uncut(m)
    <3>1. cuts \subseteq cuts'
      BY <1>1
    <3>2. \A k \in m[1] .. m[2] - 1 : ~Parses(m[1], k)
      BY <1>1, <1>7 DEF Uncut, Parses
    <3>3. cuts' \cap (m[1] .. m[2] - 1) = {}
      BY <1>7 DEF Uncut
    <3> QED
      BY <3>1, <3>2, <3>3 DEF Uncut
  <2>2. /\ pos < m[2] => start <= m[1]
        /\ m[2] <= pos => Holds(sent, m)
    BY <2>1 DEF WholeOrWaiting, Delivered, Holds
  <2>3. PICK a, b : a = m[1] /\ b = m[2]
    OBVIOUS
  <2>4. /\ m = <<a, b>> /\ a \in Int /\ b \in Int /\ a + 4 <= b /\ b < Len(text)
        /\ \A k \in a .. b : text[k] # NL
        /\ text[b + 1] = NL /\ Parses(a, b)
    <3>1. m \in Intervals
      BY DEF Metrics
    <3>2. /\ m = <<m[1], m[2]>> /\ m[1] \in Int /\ m[2] \in Int
          /\ m[2] < Len(text) /\ text[m[2] + 1] = NL /\ Parses(m[1], m[2])
          /\ \A k \in m[1] .. m[2] : text[k] # NL
      BY <3>1 DEF Metrics, Intervals
    <3> QED
      BY <2>3, <3>2, ParsesLong
  <2>5. \A k \in a .. b - 1 : k \notin cuts' /\ ~Parses(a, k)
    BY <1>1, <1>7, <2>3 DEF Uncut, Parses
  <2>6. ASSUME start <= a, a <= j
        PROVE  a \in Begins(start, j) /\ (b <= j => EndOf(a, j) = b) /\ a <= last
    BY <1>1, <1>2, <1>4, <2>3, <2>6, MetricPiece
  <2>7. CASE b <= pos
    <3>1. Holds(sent', m)
      BY <1>3, <2>2, <2>3, <2>7
    <3>2. ~(pos' < b)
      BY <1>0, <1>1, <1>2, <2>4, <2>7
    <3> QED
      BY <2>3, <3>1, <3>2 DEF Holds, Delivered
  <2>8. CASE pos < b /\ j < b
    <3>1. start' <= a
      <4>1. CASE j < a
        BY <1>1, <1>2, <2>4, <4>1
      <4>2. CASE a <= j
        <5>1. start <= a /\ a <= last
          BY <2>2, <2>3, <2>6, <2>8, <4>2
        <5>2. ~(a < last)
          <6> SUFFICES ASSUME a < last PROVE FALSE
            OBVIOUS
          <6>1. text[last - 1] = NL
            BY <1>2, <1>4, <2>4, <5>1
          <6>2. last - 1 \in a .. b
            BY <1>2, <1>4, <2>4, <2>8
          <6> QED
            BY <2>4, <6>1, <6>2
        <5>3. last = a
          BY <1>2, <1>4, <2>4, <5>1, <5>2
        <5>4. j \in a .. b - 1
          BY <1>2, <2>4, <2>8, <4>2
        <5>5. ~(n < ReadLength) /\ ~Parses(last, j)
          BY <1>1, <2>5, <5>3, <5>4
        <5> QED
          BY <1>6, <2>4, <5>3, <5>5
      <4> QED
        BY <1>2, <2>4, <4>1, <4>2
    <3>2. ~(b <= pos')
      BY <1>1, <1>2, <2>4, <2>8
    <3> QED
      BY <2>3, <3>1, <3>2
  <2>9. CASE pos < b /\ b <= j
    <3>1. start <= a /\ a <= j
      BY <1>2, <2>2, <2>3, <2>4, <2>9
    <3>2. a \in Begins(start, j) /\ EndOf(a, j) = b /\ a <= last
      BY <2>6, <2>9, <3>1
    <3>3. a < start'
      <4>1. CASE start' = j + 1
        BY <1>2, <2>4, <3>1, <4>1
      <4>2. CASE start' = last /\ ~Parses(last, j)
        <5> SUFFICES ASSUME last = a PROVE FALSE
          BY <1>2, <1>4, <2>4, <3>2, <4>2
        <5>1. \A k \in a .. j : text[k] # NL
          BY <1>4
        <5>2. ~(b < j)
          BY <1>2, <2>4, <5>1
        <5>3. b = j
          BY <1>2, <2>4, <2>9, <5>2
        <5> QED
          BY <2>4, <4>2, <5>3
      <4> QED
        BY <1>6, <4>1, <4>2
    <3>4. EndOf(a, j) - a + 1 > MinimumLengthMessage
      BY <1>5, <2>4, <3>2
    <3>5. <<a, EndOf(a, j)>> \in Sends(start, j, start')
      BY <1>1, <1>2, <3>2, <3>3, <3>4, SendsAre
    <3>6. Holds(sent', m)
      BY <1>3, <2>4, <3>2, <3>5
    <3>7. ~(pos' < b)
      BY <1>1, <1>2, <2>4, <2>9
    <3> QED
      BY <2>3, <3>6, <3>7 DEF Holds, Delivered
  <2> QED
    BY <1>2, <2>4, <2>7, <2>8, <2>9
<1>8. Metrics' = Metrics
  BY <1>1, SameMetrics
<1> QED
  BY <1>7, <1>8 DEF WholeOrWaiting

\* A datagram that fits into the buffer is sent metric by metric.
LEMMA DatagramKeepsWhole ==
    ASSUME TypeOK, SentInOrder, MinimumLengthMessage <= 1, ReadDatagram
    PROVE  WholeOrWaiting'
<1>0. PICK j : j = Received
  OBVIOUS
<1>1. /\ UNCHANGED text /\ text \in Seq(Kinds)
      /\ j \in 0 .. Len(text) /\ pos' = j /\ start' = j + 1
      /\ j < Len(text) => j \in cuts'
  BY <1>0, DatagramIs
<1>2. j > MinimumLengthMessage => \A s \in Sends(1, j, j + 2) : Holds(sent', s)
  BY <1>0, DatagramOrder
<1>3. j \in Int /\ 1 <= j + 1 /\ j <= Len(text) /\ Len(text) \in Nat
  BY <1>1
<1>4. MinimumLengthMessage \in Nat
  BY ReadInputAssumption
<1>5. ASSUME NEW m \in Metrics, Uncut(m)'
      PROVE  /\ pos' < m[2] => start' <= m[1]
             /\ m[2] <= pos' => Delivered(m)'
  <2>1. PICK a, b : a = m[1] /\ b = m[2]
    OBVIOUS
  <2>2. /\ m = <<a, b>> /\ a \in Int /\ b \in Int /\ a + 4 <= b /\ b < Len(text)
        /\ 1 <= a
    <3>1. m \in Intervals
      BY DEF Metrics
    <3>2. /\ m = <<m[1], m[2]>> /\ m[1] \in Int /\ m[2] \in Int /\ 1 <= m[1]
          /\ m[2] < Len(text) /\ Parses(m[1], m[2])
      BY <3>1 DEF Metrics, Intervals
    <3> QED
      BY <2>1, <3>2, ParsesLong
  <2>3. \A k \in a .. b - 1 : k \notin cuts'
    BY <1>5, <2>1 DEF Uncut
  <2>4. CASE j < b
    <3>1. ~(a <= j)
      BY <1>1, <1>3, <2>2, <2>3, <2>4
    <3> QED
      BY <1>1, <1>3, <2>1, <2>2, <2>4, <3>1
  <2>5. CASE b <= j
    <3> DEFINE k == j + 2
    <3>1. k \in Int /\ a < k /\ a <= j
      BY <1>3, <2>2, <2>5
    <3>2. PICK i \in Int : i = 1
      OBVIOUS
    <3> HIDE DEF k
    <3>3. a \in Begins(i, j) /\ EndOf(a, j) = b
      BY <1>1, <1>3, <2>1, <2>2, <2>5, <3>1, <3>2, MetricPiece
    <3>4. EndOf(a, j) - a + 1 > MinimumLengthMessage
      BY <1>4, <2>2, <3>3
    <3>5. <<a, EndOf(a, j)>> \in Sends(i, j, k)
      <4>1. 1 <= i /\ i <= j + 1 /\ j <= Len(text)
        BY <1>3, <3>2
      <4> QED
        BY <1>1, <1>3, <3>1, <3>3, <3>4, <4>1, SendsAre
    <3>6. j > MinimumLengthMessage
      BY <1>3, <1>4, <2>2, <2>5
    <3>7. Holds(sent', m)
      BY <1>2, <2>2, <3>2, <3>3, <3>5, <3>6 DEF k
    <3> QED
      BY <1>1, <1>3, <2>1, <2>2, <2>5, <3>7 DEF Holds, Delivered
  <2> QED
    BY <1>3, <2>2, <2>4, <2>5
<1>6. Metrics' = Metrics
  BY <1>1, SameMetrics
<1> QED
  BY <1>5, <1>6 DEF WholeOrWaiting

\* Every step keeps it.
LEMMA WholeStep ==
    ASSUME MinimumLengthMessage <= 1
    PROVE  TypeOK /\ SentInOrder /\ WholeOrWaiting /\ [Next]_vars => WholeOrWaiting'
<1> SUFFICES ASSUME TypeOK, SentInOrder, WholeOrWaiting, [Next]_vars
             PROVE  WholeOrWaiting'
  OBVIOUS
<1>1. ASSUME NEW n \in 1 .. ReadLength, Read(n) PROVE WholeOrWaiting'
  BY <1>1, ReadKeepsWhole
<1>2. CASE ReadDatagram
  BY <1>2, DatagramKeepsWhole
<1>3. CASE ReadError \/ Done \/ UNCHANGED vars
  <2>1. UNCHANGED <<text, pos, start, sent, cuts>>
    BY <1>3 DEF ReadError, Done, vars
  <2>2. Metrics' = Metrics
    BY <2>1, SameMetrics
  <2> QED
    BY <2>1, <2>2 DEF WholeOrWaiting, Uncut, Delivered, Parses
<1> QED
  BY <1>1, <1>2, <1>3 DEF Next

\* A metric that only full buffers cut is put together and sent whole, whatever
\* the text, the length of the buffer and the reads (overflow in readInput).
THEOREM WholeMetrics ==
    ASSUME MinimumLengthMessage <= 1
    PROVE  Spec => []WholeUnlessCut
<1>1. Init => WholeOrWaiting
  <2> SUFFICES ASSUME Init, NEW m \in Metrics
               PROVE  start <= m[1] /\ ~(m[2] <= pos)
    BY DEF WholeOrWaiting
  <2>1. m \in Intervals /\ Parses(m[1], m[2])
    BY DEF Metrics
  <2>2. m[1] \in Int /\ m[2] \in Int /\ 1 <= m[1]
    BY <2>1 DEF Intervals
  <2>3. m[1] + 4 <= m[2]
    BY <2>1, <2>2, ParsesLong
  <2> QED
    BY <2>2, <2>3 DEF Init
<1>2. WholeOrWaiting /\ TypeOK => WholeUnlessCut
  <2> SUFFICES ASSUME WholeOrWaiting, TypeOK, NEW m \in Metrics, m[2] < pos, Uncut(m)
               PROVE  Delivered(m)
    BY DEF WholeUnlessCut
  <2>1. m[2] \in Int /\ pos \in Int
    BY DEF Metrics, Intervals, TypeOK
  <2> QED
    BY <2>1 DEF WholeOrWaiting
<1> QED
  BY <1>1, <1>2, InitInOrder, OrderStep, WholeStep, PTL DEF Spec
=============================================================================
