----------------------------- MODULE Statistics -----------------------------
(***************************************************************************)
(* The functions of ValueSlice (statsgod/statistics.go).                   *)
(*                                                                         *)
(* Values are integers that count a unit small enough for the divisions to *)
(* be exact; rounding is dealt with where it can be noticed.  NaN cannot   *)
(* be told from a number here, so the values are finite.  Indices are      *)
(* those of the code, from 0: Get adds the one that TLA+ wants.            *)
(***************************************************************************)
EXTENDS Integers, Sequences, FiniteSets, SequencesExt

Get(values, i) == values[i + 1]

\* Indexing outside the slice panics.
CanGet(values, i) == i \in 0 .. Len(values) - 1

Less(x, y) == x < y

\* Mutated form: the values stay as they came.
Unsorted(values) == values

\* The place of the value with index i; equal values, which nobody can tell
\* apart, keep their order.
Rank(values, i) ==
    Cardinality({j \in DOMAIN values :
        Less(values[j], values[i]) \/ (values[j] = values[i] /\ j <= i)})

\* sort.Sort, which sees the slice through Len, Less and Swap.
Sorted(values) ==
    [k \in DOMAIN values |->
        values[CHOOSE i \in DOMAIN values : Rank(values, i) = k]]

UniqueCount(values) ==
    LET s == Sorted(values)
    IN Cardinality({i \in DOMAIN s : i = 1 \/ s[i - 1] # s[i]})

\* Indexes the first value before it looks at the length.
Minmax(values) ==
    FoldLeft(LAMBDA m, x : CASE x < m.min -> [m EXCEPT !.min = x]
                             [] x > m.max -> [m EXCEPT !.max = x]
                             [] OTHER     -> m,
             [min |-> Get(values, 0), max |-> Get(values, 0)],
             values)

\* Mutated form: the upper of the two middle values.
MedianUpper(values) ==
    IF values = <<>> THEN 0 ELSE Get(values, Len(values) \div 2)

\* Of sorted values.
Median(values) ==
    LET left  == (Len(values) - 1) \div 2
        right == Len(values) \div 2
    IN IF values = <<>> THEN 0
       ELSE (Get(values, left) + Get(values, right)) \div 2

\* The running mean: every value pulls it by its share.
Mean(values) ==
    FoldLeftDomain(LAMBDA mean, i : mean + (values[i] - mean) \div i, 0, values)

Sum(values) == FoldLeft(LAMBDA s, x : s + x, 0, values)

-----------------------------------------------------------------------------
(***************************************************************************)
(* Quantile(q / 100).  The index is in hundredths, and so is the result.   *)
(* "low" stands for what the digits of q / 100 make of the product with    *)
(* the length, see Index.                                                  *)
(***************************************************************************)

\* q / 100 * (length - 1) is a product of floating-point numbers: where it should
\* be whole it may come out just below (0.29 * 100 is 28.999...), but not with
\* whole quarters, which are exact.
MayBeLow(values, q) ==
    /\ q % 25 # 0
    /\ q * (Len(values) - 1) # 0
    /\ (q * (Len(values) - 1)) % 100 = 0

\* Just below, in magnitude, is a hundredth here: which values are mixed and which
\* of them the result exceeds is the same.  A product just above takes the same
\* values as a whole one or, where mixing comes out below, as a low one.
Index(values, q, low) ==
    LET rank == q * (Len(values) - 1)
    IN IF low /\ MayBeLow(values, q)
       THEN (IF q > 0 THEN rank - 1 ELSE rank + 1)
       ELSE rank

\* int(index) truncates towards zero.
Boundary(values, q, low) ==
    LET index == Index(values, q, low)
    IN IF index >= 0 THEN index \div 100 ELSE -((-index) \div 100)

Delta(values, q, low) == Index(values, q, low) - 100 * Boundary(values, q, low)

\* Mutated form: there is always a right neighbour.
InterpolatesAlways(values, q, low) == Len(values) > 0

\* The last index is taken as it is; below it two neighbours are mixed.
Interpolates(values, q, low) == Boundary(values, q, low) # Len(values) - 1

\* Whether Quantile returns: both neighbours exist.
CanQuantile(values, q, low) ==
    LET b == Boundary(values, q, low)
    IN \/ values = <<>>
       \/ CanGet(values, b) /\ (Interpolates(values, q, low) => CanGet(values, b + 1))

Quantile(values, q, low) ==
    LET b == Boundary(values, q, low)
        d == Delta(values, q, low)
    IN CASE values = <<>> -> 0
         [] values # <<>> /\ ~Interpolates(values, q, low) -> 100 * Get(values, b)
         [] OTHER -> (100 - d) * Get(values, b) + d * Get(values, b + 1)

\* (1 - delta) * x + delta * x need not give x back: with equal neighbours the
\* floating-point sum may, depending on the digits, come out just below them.
\* With weights of whole quarters it is exact, for values read as float32.
MayFallShort(values, q) ==
    LET b == Boundary(values, q, TRUE)
    IN /\ Interpolates(values, q, TRUE) /\ q % 25 # 0
       /\ Get(values, b) = Get(values, b + 1)
       /\ Get(values, b) # 0
=============================================================================
