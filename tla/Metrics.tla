------------------------------ MODULE Metrics -------------------------------
(***************************************************************************)
(* What a key's lines become (statsgod/metric.go and Relay in              *)
(* statsgod/relay.go): ParseMetricString's values, AggregateMetric,        *)
(* ProcessMetric and the series of lines written to the backend.           *)
(*                                                                         *)
(* The state is one worker's entry for one key: entries of other keys and  *)
(* workers share nothing with it.  Lines of any type arrive under the key  *)
(* until a flush processes the entry, sends its series and deletes it.     *)
(*                                                                         *)
(* Numbers are integers in units of 1/Unit, see Statistics; a rate is a    *)
(* fraction [num, den] of such an integer.  float32 and the six decimals   *)
(* written at the end are modelled by their rounding, float64 as exact.    *)
(***************************************************************************)
EXTENDS Statistics

CONSTANTS
    Inputs,       \* lines: [type, value, rate]; value in units, rate a percentage
    Configs,      \* configurations, see ConfigType
    None,         \* no entry, no report
    Unit,         \* how many units make 1
    Quantum,      \* units between the smallest float32 numbers
    Millionth,    \* units in one of the last decimal that FormatFloat writes
    Mantissa,     \* significant binary digits of a float32: 24
    Digits,       \* strconv.FormatInt: how a percentile is written
    MaxLines      \* bound: lines between two flushes

Types == {"counter", "gauge", "set", "timer"}
Namespaces == Types \cup {"rate"}

\* Names are sequences of the parts between the dots.
ConfigType ==
    [flush : Nat,                      \* relay.flush in milliseconds
     percentile : Seq(Int),            \* stats.percentile
     prefix : Seq(STRING), suffix : Seq(STRING),
     prefixes : [Namespaces -> Seq(STRING)],
     suffixes : [Namespaces -> Seq(STRING)]]

ASSUME MetricsAssumption ==
    /\ \A l \in Inputs : l.value \in Int /\ l.rate \in Int
    /\ Configs \subseteq ConfigType
    /\ Unit \in Nat \ {0} /\ Quantum \in Nat \ {0} /\ Millionth \in Nat \ {0}
    /\ Mantissa \in Nat
    /\ Digits \in [DOMAIN Digits -> STRING] /\ IsInjective(Digits)
    /\ \A c \in Configs : ToSet(c.percentile) \subseteq DOMAIN Digits
    /\ MaxLines \in Nat \ {0}
    /\ \A n \in 1 .. MaxLines : Quantum % (2 * n) = 0

VARIABLES
    config,     \* what CreateRelay read
    entry,      \* metrics[key]: [type, hits, last, all], or None
    report,     \* what the last flush of the key sent, or None
    dead,       \* ProcessMetric panicked
    inputs      \* history: the lines accepted since the entry was created

vars == <<config, entry, report, dead, inputs>>

Init ==
    /\ config \in Configs
    /\ entry = None
    /\ report = None
    /\ dead = FALSE
    /\ inputs = <<>>

-----------------------------------------------------------------------------
(***************************************************************************)
(* ParseMetricString.                                                      *)
(***************************************************************************)
Magnitude(v) == IF v < 0 THEN -v ELSE v

Pow2[n \in Nat] == IF n = 0 THEN 1 ELSE 2 * Pow2[n - 1]

\* The multiple of grain nearest to num / den, of two the even one.
Nearest(num, den, grain) ==
    LET cell  == den * grain
        whole == Magnitude(num) \div cell
        rest  == 2 * (Magnitude(num) % cell)
        up    == rest > cell \/ (rest = cell /\ whole % 2 = 1)
    IN (IF num < 0 THEN -1 ELSE 1) * (IF up THEN whole + 1 ELSE whole) * grain

\* float32(num / den): the spacing grows with the power of two.
Float32(num, den) ==
    LET Fits(e) == Magnitude(num) < den * Quantum * Pow2[e + Mantissa]
        e == CHOOSE n \in 0 .. Magnitude(num) \div (den * Quantum) : Fits(n) /\ (n = 0 \/ ~Fits(n - 1))
    IN Nearest(num, den, Quantum * Pow2[e])

GetMetricType(short) ==
    CASE short = "c"  -> "counter"
      [] short = "g"  -> "gauge"
      [] short = "s"  -> "set"
      [] short = "ms" -> "timer"
      [] OTHER        -> "unknown"

\* A missing or senseless rate counts as 1.  ParseFloat reads it with 32 bits: the
\* hits for 0.1 are not quite 10.
TotalHits(rate) ==
    LET sample == Float32(rate * Unit, 100)
    IN IF sample > 0 /\ sample < Unit THEN (Unit * Unit) \div sample ELSE Unit

Parses(line) == GetMetricType(line.type) # "unknown"

ParseMetricString(line) ==
    LET value == Float32(line.value, 1)
    IN [type |-> GetMetricType(line.type), hits |-> TotalHits(line.rate),
        last |-> value, all |-> <<value>>]

-----------------------------------------------------------------------------
(***************************************************************************)
(* AggregateMetric.                                                        *)
(***************************************************************************)

\* Mutated form: the type of the entry decides, not that of the metric.
CombineByEntry(old, metric) ==
    IF old.type = "counter" THEN old.last + (metric.last * metric.hits) \div Unit
    ELSE metric.last

\* Mutated form: the accumulated value is kept as a float32.
CombineFloat32(old, metric) ==
    IF metric.type = "counter" THEN Float32(old.last + (metric.last * metric.hits) \div Unit, 1)
    ELSE metric.last

\* The switch on the type of the metric that joins the entry.
Combine(old, metric) ==
    IF metric.type = "counter" THEN old.last + (metric.last * metric.hits) \div Unit
    ELSE metric.last

\* Mutated form: AllValues is not appended to.
AggregateWithoutValues(old, metric) ==
    IF old = None THEN metric
    ELSE [old EXCEPT !.hits = @ + metric.hits, !.last = Combine(old, metric)]

\* Mutated form: the hits are those of the first line.
AggregateKeepsHits(old, metric) ==
    IF old = None THEN metric
    ELSE [old EXCEPT !.all = Append(@, metric.last), !.last = Combine(old, metric)]

AggregateMetric(old, metric) ==
    IF old = None THEN metric
    ELSE [old EXCEPT !.hits = @ + metric.hits,
                     !.all  = Append(@, metric.last),
                     !.last = Combine(old, metric)]

Receive(line) ==
    /\ ~dead
    /\ Parses(line)
    /\ entry # None => Len(entry.all) < MaxLines
    /\ entry' = AggregateMetric(entry, ParseMetricString(line))
    /\ inputs' = IF entry = None THEN <<line>> ELSE Append(inputs, line)
    /\ report' = None
    /\ UNCHANGED <<config, dead>>

-----------------------------------------------------------------------------
(***************************************************************************)
(* ProcessMetric.  "short" holds the percentiles whose floating-point      *)
(* index, or interpolation, came out low wherever it may.                  *)
(***************************************************************************)

\* Mutated form: values equal to the boundary are left out.
WithinStrictly(values, q, short) ==
    LET kept == {i \in DOMAIN values :
                    \A j \in 1 .. i : 100 * values[j] < Quantile(values, q, q \in short)}
    IN SubSeq(values, 1, Max(kept \cup {0}))

\* The values up to the boundary: the loop stops at the first greater one.
Within(values, q, short) ==
    LET boundary == Quantile(values, q, q \in short)
        missed   == q \in short /\ MayFallShort(values, q)
        Greater(v) == 100 * v > boundary \/ (missed /\ 100 * v = boundary)
        kept == {i \in DOMAIN values : \A j \in 1 .. i : ~Greater(values[j])}
    IN SubSeq(values, 1, Max(kept \cup {0}))

\* Quantile indexes outside its values, or Minmax indexes an empty slice.
Panics(values, short) ==
    \E i \in DOMAIN config.percentile :
        LET q == config.percentile[i]
        IN ~CanQuantile(values, q, q \in short) \/ Within(values, q, short) = <<>>

MetricQuantile(values, q, short) ==
    LET w == Within(values, q, short)
    IN [quantile |-> q, size |-> Len(w), max |-> Minmax(w).max,
        mean |-> Mean(w), median |-> Median(w), sum |-> Sum(w)]

Plain(v) == [num |-> v, den |-> 1]

\* flushDuration / time.Second is a whole number, 0 below a second: then 0 per
\* second is NaN and anything else infinite.
PerSecond(v) == [num |-> v, den |-> config.flush \div 1000]

ProcessMetric(metric, short) ==
    LET all == Sorted(metric.all)
    IN CASE metric.type = "counter" ->
              [last |-> metric.last, rate |-> PerSecond(metric.last)]
         [] metric.type = "gauge" ->
              [last |-> metric.last, median |-> Median(all), mean |-> Mean(all)]
         [] metric.type = "set" ->
              [last |-> UniqueCount(all) * Unit]
         [] metric.type = "timer" ->
              [last |-> metric.last, rate |-> PerSecond(metric.hits),
               min |-> Minmax(all).min, max |-> Minmax(all).max,
               median |-> Median(all), mean |-> Mean(all),
               quantiles |-> [i \in DOMAIN config.percentile |->
                   MetricQuantile(all, config.percentile[i], short)]]

-----------------------------------------------------------------------------
(***************************************************************************)
(* Relay: the series of a metric.                                          *)
(***************************************************************************)

\* SetPrefixesAndSuffixes and ApplyPrefixAndSuffix.
Name(key, space) ==
    config.prefix \o config.prefixes[space] \o key
        \o config.suffixes[space] \o config.suffix

\* FormatFloat(v, 'f', 6, 32): a float32 and then six decimals.  What is no finite
\* number stays as it is.
FormatFloat(v) ==
    IF v.den = 0 THEN v
    ELSE Plain(Nearest(Float32(v.num, v.den), 1, Millionth))

Line(key, space, v) == [name |-> Name(key, space), value |-> FormatFloat(v)]

\* The statistics' names are part of the key: "mean_" and the percentile.
QuantileSeries(q) ==
    <<Line(<<"key", "mean", Digits[q.quantile]>>, "timer", Plain(q.mean)),
      Line(<<"key", "median", Digits[q.quantile]>>, "timer", Plain(q.median)),
      Line(<<"key", "upper", Digits[q.quantile]>>, "timer", Plain(q.max)),
      Line(<<"key", "sum", Digits[q.quantile]>>, "timer", Plain(q.sum))>>

\* Mutated form: the rate of a counter goes by the counter's namespace.
SeriesRateAsCounter(type, m) ==
    CASE type = "counter" -> <<Line(<<"key">>, "counter", m.rate),
                               Line(<<"key">>, "counter", Plain(m.last))>>
      [] OTHER -> <<>>

Series(type, m) ==
    CASE type = "gauge"   -> <<Line(<<"key">>, "gauge", Plain(m.last))>>
      [] type = "counter" -> <<Line(<<"key">>, "rate", m.rate),
                               Line(<<"key">>, "counter", Plain(m.last))>>
      [] type = "set"     -> <<Line(<<"key">>, "set", Plain(m.last))>>
      [] type = "timer"   ->
           <<Line(<<"key">>, "rate", m.rate),
             Line(<<"key", "mean">>, "timer", Plain(m.mean)),
             Line(<<"key", "median">>, "timer", Plain(m.median)),
             Line(<<"key", "max">>, "timer", Plain(m.max)),
             Line(<<"key", "min">>, "timer", Plain(m.min))>>
           \o FlattenSeq([i \in DOMAIN m.quantiles |-> QuantileSeries(m.quantiles[i])])

\* RelayAllMetrics and Relay for the entry; a panic is not recovered.
Flush ==
    /\ ~dead
    /\ entry # None
    /\ \E short \in SUBSET ToSet(config.percentile) :
          IF entry.type = "timer" /\ Panics(Sorted(entry.all), short)
            THEN /\ dead' = TRUE
                 /\ UNCHANGED <<entry, report>>
            ELSE LET m == ProcessMetric(entry, short)
                 IN /\ report' = [type |-> entry.type, metric |-> m,
                                  series |-> Series(entry.type, m), short |-> short]
                    /\ entry' = None
                    /\ UNCHANGED dead
    /\ UNCHANGED <<config, inputs>>

\* ParseMetricString returns an error and ParseMetrics drops the line.
Reject(line) == ~dead /\ ~Parses(line) /\ UNCHANGED vars

Dead == dead /\ UNCHANGED vars

Next == Flush \/ Dead \/ \E line \in Inputs : Receive(line) \/ Reject(line)

Spec == Init /\ [][Next]_vars

-----------------------------------------------------------------------------
(***************************************************************************)
(* Properties.                                                             *)
(***************************************************************************)
Value == [num : Int, den : {0, 1}]

\* The entry is a metric of a known type with as many values as lines, and a
\* report consists of named values.
TypeOK ==
    /\ config \in Configs
    /\ entry = None \/ /\ entry.type \in Types
                       /\ entry.hits \in Nat /\ entry.last \in Int
                       /\ entry.all \in Seq(Int)
                       /\ Len(entry.all) = Len(inputs)
    /\ report = None \/ /\ report.type \in Types
                        /\ \A i \in DOMAIN report.series :
                              report.series[i].value \in Value
    /\ dead \in BOOLEAN
    /\ inputs \in Seq(Inputs) /\ Len(inputs) <= MaxLines

Parsed(i) == ParseMetricString(inputs[i])

\* The latest line that set the value: the first, or one that is no counter.
LastReset ==
    Max({i \in DOMAIN inputs : i = 1 \/ Parsed(i).type # "counter"})

\* A counter of several lines per hit.
Sampled(i) == Parsed(i).type = "counter" /\ Parsed(i).hits # Unit

\* What a counter adds.
Added(i) == (Parsed(i).last * Parsed(i).hits) \div Unit

\* The value of a key is that of the latest line that set it, and every later
\* counter adds its value, inflated by its sample rate; under one key a gauge
\* discards counters while counters add to a gauge.
Expected ==
    Parsed(LastReset).last
      + SumFunctionOnSet([i \in DOMAIN inputs |-> Added(i)],
                         LastReset + 1 .. Len(inputs))

\* The entry, and a report of anything but a set, carry that value under the type
\* of the first line, in whatever order lines of all types came (AggregateMetric's
\* switch).  A sampled counter that starts an entry is CountersInflated's case.
LastValueFromReset ==
    /\ entry # None =>
          /\ entry.type = Parsed(1).type
          /\ ~Sampled(LastReset) => entry.last = Expected
    /\ report # None =>
          /\ report.type = Parsed(1).type
          /\ report.type # "set" /\ ~Sampled(LastReset) =>
                report.metric.last = Expected

\* README: "Counters will inflate the value accordingly so that it can be accurately
\* used to calculate a rate": a counter is reported with the sum of its inflated
\* values, the one that starts the entry included (AggregateMetric stores that one).
CountersInflated ==
    report # None /\ (\A i \in DOMAIN inputs : Parsed(i).type = "counter") =>
        report.metric.last = SumFunction([i \in DOMAIN inputs |-> Added(i)])

Values == [i \in DOMAIN inputs |-> Parsed(i).last]
Count(vs, P(_)) == Cardinality({i \in DOMAIN vs : P(vs[i])})

\* A timer's figures are those of the values received, of any type and in any
\* order: extremes, mean, and a median with half of the values on either side
\* (the timer's branch of ProcessMetric over the sorted AllValues).
TimerFigures ==
    report # None /\ report.type = "timer" =>
      LET m  == report.metric
          vs == Values
          n  == Len(inputs)
      IN /\ m.min = Min(ToSet(vs)) /\ m.max = Max(ToSet(vs))
         /\ m.mean * n = SumFunction(vs)
         /\ 2 * Count(vs, LAMBDA v : v < m.median) <= n
         /\ 2 * Count(vs, LAMBDA v : v > m.median) <= n
         /\ IF n % 2 = 1 THEN m.median \in ToSet(vs)
            ELSE \E i, j \in DOMAIN vs :
                    /\ i # j /\ vs[i] + vs[j] = 2 * m.median
                    /\ ~\E k \in DOMAIN vs \ {i, j} : vs[k] > vs[i] /\ vs[k] < vs[j]

\* A set reports how many different values came, whatever lies between equal
\* ones (UniqueCount compares neighbours, so it depends on its sort).
SetCardinality ==
    report # None /\ report.type = "set" =>
        report.metric.last = Unit * Cardinality(ToSet(Values))

\* A report's percentile whose interpolation between equal values fell short.
FellShort(q) ==
    q \in report.short /\ MayFallShort(Sorted(Values), q)

\* A higher percentile never leaves out a value that a lower one takes; each takes
\* at least the values below its rank, 100 takes all, also where the product that
\* gives the rank comes out low; and its greatest value and sum agree with its mean
\* and size.  Excepted are those whose interpolation fell short (the loop over the
\* quantiles in ProcessMetric).
PercentilesNested ==
    report # None /\ report.type = "timer" =>
      LET qs == report.metric.quantiles
          n  == Len(inputs)
      IN \A i \in DOMAIN qs :
            /\ qs[i].mean * qs[i].size = qs[i].sum
            /\ qs[i].size = Count(Values, LAMBDA v : v <= qs[i].max)
            /\ ~FellShort(qs[i].quantile) =>
                  /\ 100 * qs[i].size >= qs[i].quantile * (n - 1)
                  /\ qs[i].quantile >= 100 => qs[i].size = n
                  /\ \A j \in DOMAIN qs : qs[j].quantile <= qs[i].quantile
                                            => qs[j].size <= qs[i].size

WholeSeconds == config.flush >= 1000 /\ config.flush % 1000 = 0

\* For a flush interval of whole seconds, a rate times the interval is what came in
\* it: the value of a counter, the inflated hits of a timer's lines
\* (flushDuration / time.Second, and TotalHits over all lines).
RateAgainstInterval ==
    report # None /\ report.type \in {"counter", "timer"} /\ WholeSeconds =>
      LET amount == IF report.type = "counter" THEN report.metric.last
                    ELSE SumFunction([i \in DOMAIN inputs |-> Parsed(i).hits])
          rate == report.metric.rate
      IN rate.num * config.flush = amount * 1000 * rate.den

\* The total the backend gets for an unsampled counter differs from that of the
\* numbers in the lines by at most the error of the two conversions to float32 and
\* of the decimals, however many lines there were: in between it is kept as a
\* float64.
Exact == SumFunction([i \in DOMAIN inputs |-> inputs[i].value])

BackendAccurate ==
    report # None /\ (\A i \in DOMAIN inputs :
                          /\ inputs[i].value >= 0
                          /\ Parsed(i).type = "counter" /\ Parsed(i).hits = Unit)
      => LET p == Pow2[Mantissa]
         IN 2 * p * p * Magnitude(Last(report.series).value.num - Exact)
              <= 2 * (2 * p + 1) * Exact
                 + p * p * ((2 * Len(inputs) + 1) * Quantum + Millionth)

\* The daemon dies in a flush only for a timer, and only when a percentile is
\* outside 0 .. 100 or lies between equal values that are the smallest of all:
\* then the quantile's list may come out empty.
DeathExplained ==
    dead =>
      /\ entry.type = "timer"
      /\ \E i \in DOMAIN config.percentile :
            LET q == config.percentile[i]
                s == Sorted(entry.all)
            IN \/ q \notin 0 .. 100
               \/ /\ q % 25 # 0 /\ Len(s) > 1
                  /\ s[1] = s[Boundary(s, q, TRUE) + 2]

\* The configuration c gives each type a namespace of its own, by its prefix, its
\* suffix or both, all of equally many parts, and names no percentile twice.
OwnNamespaces(c) ==
    /\ \A a, b \in Namespaces :
          /\ Len(c.prefixes[a]) = Len(c.prefixes[b])
          /\ Len(c.suffixes[a]) = Len(c.suffixes[b])
          /\ c.prefixes[a] = c.prefixes[b] /\ c.suffixes[a] = c.suffixes[b] => a = b
    /\ IsInjective(c.percentile)

\* With such namespaces, no two lines of a report have the same name at the
\* backend, where one would replace the other (the keys that Relay builds with
\* ApplyPrefixAndSuffix).
NamesDistinct ==
    report # None /\ OwnNamespaces(config) =>
        \A i, j \in DOMAIN report.series :
            report.series[i].name = report.series[j].name => i = j
=============================================================================
