----------------------------- MODULE MCMetrics ------------------------------
(***************************************************************************)
(* Small instances of Metrics for TLC.  float32 has three binary digits    *)
(* and sixteenths as its smallest numbers, and one decimal is written.     *)
(***************************************************************************)
EXTENDS Metrics

\* A value of so many tenths.
Line3(t, tenths, r) == [type |-> t, value |-> (tenths * Unit) \div 10, rate |-> r]

\* 9 is read as 8, 2.5 and 5 exactly; 30 % is read as 5/16; 150 is no rate; "h" is no
\* type.
SomeInputs ==
    {Line3("c", 10, 0), Line3("c", 90, 0), Line3("c", 30, 30),
     Line3("g", -25, 0), Line3("s", 50, 150), Line3("ms", 50, 25), Line3("h", 10, 0)}

\* At most three different lines come under one key, in any number and order; of six
\* lines at most two are different.
FewKinds ==
    Cardinality(ToSet(inputs)) <= IF Len(inputs) < MaxLines THEN 3 ELSE 2

\* Counters only.
SomeCounters == {l \in SomeInputs : l.type = "c"}

Nothing == [x \in Namespaces |-> <<>>]
Own == [x \in Namespaces |-> <<x>>]

\* By a prefix or by a suffix, whole seconds or not; 20 and 80 of six values have
\* whole ranks.
SomeConfigs ==
    {[flush |-> f, percentile |-> p, prefix |-> <<"stats">>, suffix |-> <<>>,
      prefixes |-> Own, suffixes |-> Nothing] :
        <<f, p>> \in {<<1500, <<33, 100>>>>, <<500, <<50, 150>>>>, <<2000, <<-50, 0>>>>}}
    \cup
    {[flush |-> 3000, percentile |-> <<80, 20>>, prefix |-> <<>>, suffix |-> <<"host">>,
      prefixes |-> Nothing, suffixes |-> Own]}

SomeDigits == [q \in UNION {ToSet(c.percentile) : c \in SomeConfigs} |-> ToString(q)]
=============================================================================
