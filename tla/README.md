# A TLA+ model of statsgod

statsgod is a metrics daemon written in Go. Clients send lines such as
`a.b:1|c` over TCP, UDP or a Unix socket; the daemon parses them, aggregates them
per key in memory, and writes the aggregates to a carbon backend at a fixed
interval. This directory holds TLA+ modules that model its concurrent core, its
arithmetic and the life of its process, TLC configurations that check them on small
instances, and TLAPS proofs.

- [1. The system](#1-the-system): components, state, interactions, what is hard
- [2. The modules](#2-the-modules) and how they correspond to the code
- [3. The runs](#3-the-runs), their bounds and what they show
- [4. Where the code departs from what it says](#4-where-the-code-departs-from-what-it-says)
- [5. Fairness](#5-fairness)
- [6. The proofs](#6-the-proofs)
- [7. What is abstracted and what is not modelled](#7-what-is-abstracted-and-what-is-not-modelled)
- [8. Plan](#8-plan)

To repeat the checks, in this directory:

    tlc -workers 2 -config MCPool.cfg MCConnectionPool
    tlc -workers 2 -config MCLifecycle.cfg MCLifecycle
    tlapm ConnectionPoolProofs.tla
    tlapm FoldTheorems.tla

and so for the other configurations and the other modules named `...Proofs`.

## 1. The system

`main` (`src/statsgod.go`) makes two buffered channels of `MaxReqs` places
(`parseChannel`, `relayChannel`), creates the relay with its connection pool, and
starts goroutines that run until the shared flag `quit` is set:

    clients --> readers --parseChannel--> ParseMetrics --relayChannel--> RelayMetrics x N
                (one per connection)      (one)                          (own map each)
                                                                             |
                                                                 CarbonRelay.Relay
                                                                             |
                                                     sendCarbonMetric <--> connection pool
                                                                             |
                                                                          backend

| Component | State | Operations | What makes it correct |
|---|---|---|---|
| Connection pool, `connectionpool.go` | a buffered channel of `Size` connections; `ErrorCount`; a deadline per connection | `CreateConnectionPool`, `CreateConnection`, `GetConnection`, `ReleaseConnection` | no connection is forgotten, added or shared; the channel sends never block; a get times out only when connections were lost |
| NilConn, `nilconn.go` | none | every method panics | it is never used unless connections were lost |
| `sendCarbonMetric`, `relay.go` | local: connection, `dataSent`, `retry` | get, write, release, one retry | at most one copy of a line reaches the backend; a line reported as not sent was not; the call ends |
| Relay loop, `relay.go` | per worker: `metrics` map, tick channel | `RelayMetrics`, `RelayAllMetrics`, `PrepareRuntimeMetrics`, `PrepareFlushMetrics` | each line is settled once; order per key; internal metrics do not replace client data; the last lines before a silence are flushed |
| Carbon and mock relay, `relay.go` | prefixes, percentiles, the pool | `CreateRelay`, `Relay` | the lines per aggregate are those of its type |
| Parse loop, `metric.go` | the metric in hand | `ParseMetrics` | a bad line stops nothing; a full `relayChannel` stops only for a while |
| Metric parsing and arithmetic, `metric.go` | a `Metric` | `ParseMetricString`, `AggregateMetric`, `ProcessMetric` | the type's rule is applied to all values alike |
| Statistics, `statistics.go` | none | median, mean, quantile, unique count, min/max, sum | agree with the definitions |
| Sockets, `socket.go` | a listener; per connection the buffer and `overflow` | `Listen`, `Close`, `readInput`, `readInputUdp` | bytes become messages without loss, overlap or reordering |
| Authentication, `auth.go` | the token map, shared with the configuration | `Authenticate` | a line needs a live token |
| Configuration, `config.go` | one structure, shared by all goroutines | `CreateConfig`, `LoadFile` | a reload is seen as a whole |
| Signals and `main`, `signals.go`, `statsgod.go` | `quit`, the list of sockets | SIGHUP reloads, other signals finish | the daemon stops and does not lose what it need not |
| Logger, tools, packaging | none that matters here | | |

The hard behaviour, each item with its source line and the properties that watch
over it, is listed under "hazards" in `PROJECT.json`. In short:

- **Shared pool without a lock.** `CreateConnection` tests the length of the
  channel, dials, and only then sends to the channel; `ErrorCount++` is not atomic.
- **Deadlines that are set on release.** A connection that waits in the pool longer
  than the timeout is handed out expired.
- **Partial failure.** A write fails, the connection is closed, the dial fails too:
  a place in the pool is gone for good. The get that later times out ends the
  process.
- **Two bounded channels and a flush that blocks its worker.** Back pressure has to
  dissolve by itself.
- **Several workers with maps of their own.** Values of one key can be flushed out
  of order and as partial sums.
- **Reads that end anywhere.** TCP cuts lines where it likes.
- **The end of the process.** `main` waits for nobody.
- **A configuration that changes under its readers.** A reload first sets the defaults and
  then decodes the file, in the structure that `main`, the workers and the UDP reader read;
  the token map of the parse loop is part of it.
- **What one process leaves to the next.** A sock file that nobody removed stops the daemon
  from starting.
- **Arithmetic at the edges.** Sample rates that apply to all values but the first, whole
  seconds, percentiles between equal values, mixed types under one key.

## 2. The modules

| Module | What it is |
|---|---|
| `ConnectionPool` | the pool, `sendCarbonMetric`, `NilConn`, and the backend as environment |
| `LineRelay` | abstract specification: what the pool and `sendCarbonMetric` promise a worker |
| `Pipeline` | readers, parse loop, relay loop, the two channels, ticks, `quit` |
| `MetricFlow` | abstract specification: what the daemon promises for a line |
| `ReadInput` | how bytes become messages in `readInput` and `readInputUdp` |
| `Statistics` | the functions of `ValueSlice` as operators on sequences of scaled integers |
| `Metrics` | one key's entry: parsing of values, aggregation, processing, the series sent |
| `CarbonFlush` | a flush over the pool: `Relay`'s lines in several workers, composed with `ConnectionPool` |
| `Lifecycle` | `main`, `Listen` and `Close`, the signal handler, the reload, the token map, restarts |
| `ConnectionPoolProofs`, `PipelineProofs` | TLAPS proofs of their invariants, and that they implement `LineRelay` and `MetricFlow` |
| `ReadInputProofs`, `LifecycleProofs`, `CarbonFlushProofs`, `MetricsProofs` | TLAPS proofs of their invariants |
| `StatisticsProofs` | what each function of `ValueSlice` computes, for every sequence of values |
| `FoldTheorems` | induction and what folds and sums compute, used by the other proofs |
| `MCConnectionPool`, `MCPipeline`, `MCReadInput`, `MCMetrics`, `MCCarbonFlush`, `MCLifecycle` | instances for TLC |

`PROJECT.json` maps each definition to the lines it stands for.

### ConnectionPool

The steps of a send are the points at which another goroutine or the backend can
come in between.

| Label of `pc[w]` | Where the goroutine is | Actions |
|---|---|---|
| `idle` | between two calls | `Begin` |
| `get` | the select in `GetConnection` | `GetConnection`, `GetTimeout` |
| `write` | `conn.Write` | `WriteOk`, `WriteFail` |
| `release` | `ReleaseConnection(conn, false)` | `Release` |
| `close` | `ReleaseConnection(conn, true)`, at `conn.Close()` | `Close`, `ClosePanic` |
| `dial` | `CreateConnection`, after the test of the pool's length | `DialOk`, `DialFail` |
| `put` | the channel send of the new connection | `Put` |
| `count`, `store` | the read and the write of `ErrorCount++` | `CountRead`, `CountStore` |

`FillOk`, `FillFail` and `CreateRelay` are start-up: one goroutine fills the pool, and
`CreateRelay` panics when any dial failed. The workers start only afterwards.

A connection is `open`, `hungup` (the peer reads no more from it: writes go on
succeeding, and their bytes are lost), `reset` or `closed`, and independently its deadline may have
passed (`expired`). How many writes a hung-up connection takes is open: the reset that answers the first
may arrive after any number of others, since `Relay` sends the lines of a series back to back. A peer that dies with bytes it
has not read is a hang-up before those bytes and a reset later, so bytes accepted while the connection is `open` are bytes that
the backend reads. `Faults` selects what the environment may do; `"idle"` and `"late"`
separate a deadline that passes during a pause from one that passes during a send.
A write that is refused because the deadline has passed, because the connection was
reset, or because the backend does not read all end in `WriteFail`.

`failures` and `copies` are history variables; the code has neither.

### LineRelay

Workers, a number of lanes, and one line per worker. A line is delivered at most once
during its call; `dropped` means no copy; a lane can be lost; the process dies only when
a worker sends with fewer lanes than workers. The mapping is in `ConnectionPool`:
lanes are the connections made less those lost, a worker is busy when its `pc` is not
`idle`, delivered is `copies`, outcome is `result`. `sent` does not promise delivery:
after a hang-up TCP accepts writes until the reset is back.

### Pipeline

`ReaderSend` is the blocking hand-over of a reader; `ParseReceive`, `ParseTimeout`,
`ParsePush` and `ParseCheck` are the turn of `ParseMetrics`: the select with its one-second
timer, the blocking send and the look at `quit`. A worker's turn of `RelayMetrics` is
`WorkerTop` (the look at `quit`), `WorkerReceive` or `WorkerTimeout` (the first select),
`WorkerNoTick` or `WorkerTick` (the second select, with its default). A flush is `WorkerTick`
(`PrepareRuntimeMetrics`), `RelayOne` for each entry in any order (Go's map order),
`FlushInternal` (`PrepareFlushMetrics`), `RelayOne` for what that has written, and
`FlushDone`. `Tick` fills `time.Tick`'s channel of one place. `Finish` is a terminating signal;
`MainReturns` ends the process whatever the goroutines are doing.

A store maps a key to the sequence of the lines aggregated into it, in order. The
value is left out: what these properties tell apart is which lines went into an
aggregate, and in which order. `fate` is history.

### MetricFlow

A line is with its client, inside, or has met one end: rejected, reported, lost. Lines
settle together only with lines of their key; only the lines of the daemon's own keys (`OwnKeys`) can be overwritten, all of one key at once.
In the mapping, `Stage` reads the fate of a
line and where it is; what an internal metric overwrites and what the relay drops are
both `lost`. `OwnKeys` are the keys of the runtime metrics.

### ReadInput

A byte is a newline or one of the six kinds that `ParseMetricString` tells apart. What
`overflow` holds is always the end of what has been read, so every string of the program is an
interval of the text, and `overflow` is one number, where it begins. `Read(n)` is one turn of the loop with
a read of `n` bytes; `KeepsLast` is the decision to keep the last piece: the read filled the
buffer and the piece does not parse. `ReadDatagram` is the UDP variant, one datagram and no
`overflow`.

### Statistics and Metrics

`Statistics` has one operator for each function of `ValueSlice`. `Sorted` is defined by the rank of each value, equal values
keeping their order: `sort.Sort` is not stable, but equal numbers cannot be told apart. `Metrics` is the entry of one
key in one worker's map: `Receive` is a line that parses and joins the entry
(`ParseMetricString`, `AggregateMetric`), `Reject` one that does not, `Flush` is
`ProcessMetric` and the lines that `Relay` makes of the result, after which the entry
is deleted. Entries of other keys and workers share nothing with it.

Values are integers in units of `1/Unit`: fractions, as in the code. `Quantum` is how many units lie between the smallest
float32 numbers, and `Unit` is fine enough for a mean or a median of such numbers to be exact. Where floating point can be noticed it is a case of its own:

- `Float32` rounds to `Mantissa` binary digits, ties to even, with a spacing of at least `Quantum`, as `ParseFloat` with 32 bits does for values
  and for sample rates: with the instance's three digits 0.3 is read as 5/16 and counts 3.2 hits, as 0.1 counts 9.9999998 in the code. Sums in between are
  those of a float64 that is wide enough.
- `FormatFloat` is what `FormatFloat(v, 'f', 6, 32)` does on the way out: a float32, then the nearest multiple of `Millionth`, the last decimal
  written. A value below half of it is sent as 0.
- A rate is a fraction, since `flushDuration / time.Second` may be 0: then a total of 0 gives NaN and any other an infinity
  (`PerSecond`, a denominator of 0). No other value of a series is a quotient by 0, which `TypeOK` says.
- `short`: the rank of a percentile is the product of two floating-point numbers, and where it should be whole it may come out just below
  (`0.29 * 100` is 28.999...), so that its boundary is one lower (`MayBeLow`, `Index`); and `(1-delta)*x + delta*x` may come out just below `x` (for instance
  for percentile 1 and two values of 63.725040435791016). Whether either happens depends on digits that the model does
  not have, so `Flush` has both outcomes for each percentile wherever they are possible (`MayFallShort`).

`Within`, the loop over the values of a percentile that stops at the first one over the boundary, is the longest first part of
the values without such a one.

`Panics` says when `ProcessMetric` panics: the index of a percentile is outside the values, or the
values up to the boundary are none.

### CarbonFlush

Each worker takes the entries of its store one by one (`TakeEntry`), makes a call of
`sendCarbonMetric` for every line of the series (`SendLine` is `ConnectionPool`'s `Begin`, `Step` its
`SendStep`), whatever the calls return, and deletes the entry (`DeleteEntry`). `SeriesLength` is
the switch in `Relay`. `Breakdown` (a deadline, a hang-up, a reset), and in `Step` a stall or a failed dial, are faults; `faults` and
`hangups` count them, and `delivered`, `dropped` and `lost` what became of the lines, so that
loss can be held against its causes: a line is dropped for two faults, but one hang-up may swallow any number of lines. A fault is one event of one connection: a pause
that lets two deadlines pass is two.

### Lifecycle

| State | In the code |
|---|---|
| `file`, `sockFile` | the configuration file and the Unix socket's file: they outlive the process |
| `main` | where `main` is: not running, starting, waiting for `finishChannel`, about to close a socket, about to return |
| `started`, `goroutine`, `listener` | the sockets `main` created, where their `Listen` is, and the field `Listener` |
| `on`, `host`, `relay`, `tokens` | `Connection.*.Enabled`, `Service.Hostname`, `Debug.Relay`, `Service.Tokens` of the live configuration |
| `auth` | whether `CreateAuth` chose tokens; the map itself is `tokens`, which it shares |
| `pending`, `handler`, `source`, `todo` | `signalChannel`, the handler's place, the contents it has read, the sections still to decode |

`Start` is `main` up to `ListenForSignals`. `LoadDefaults`, `LoadRead`, the three `Decode`
actions in any order and `LoadEnds` are `LoadFile` in the handler; at the start, when no other
goroutine runs, it is one step. `Bind` and `Publish` are the two halves of `Listen`, between which
`Close` finds nil. `CloseNilSocket` and `CloseNilListener` are the two panics of the end. `Kill` is
any death from outside or by a panic elsewhere. `MapRace` is the concurrent use of a map, which some
builds detect and answer by ending the process. `seen`, the tokens that some file the process has read calls valid, `switched`, that a load has read
a file that names other sockets than those created, and `tainted` are history. `switched` looks at what the file says, not at what the decoding makes of it: that a reload of the same sockets leaves
the flags right, while it runs and after it, is what `CloseFindsSocket` and `CleanExit` are about.

## 3. The runs

Properties are stated and explained in the modules.

| Run | Instance | Shows |
|---|---|---|
| `pool` | 2 workers, 2 connections, all faults, fairness | `TypeOK`, `SlotAccounting`, `ReleaseNeverBlocks`, `ExclusiveConn`, `PanicOnlyAfterLoss`, `AtMostOnce`, `ErrorCountBounded`, `CallReturns`; `ImplementsFairLines`: the refinement of `LineRelay` with its fairness (29 000 states) |
| `pipeline` | 1 worker, 2 clients, 5 lines, internal keys, relay failures, fairness | `TypeOK`, `OnePlace`, `OverwrittenOnlyRuntime`, `LastInWins`, `EveryLineSettled`; `ImplementsFlow`, `ImplementsFairFlow`: the refinement of `MetricFlow`, internal keys included, without and with its fairness (74 000) |
| `read_input` | 12 texts of two lines, buffer of 4, every split | `TypeOK`, `PiecesInOrder`, `NothingSkipped`, `WholeUnlessCut` (70 000) |
| `metrics` | 7 lines of all types, up to 5 in a history, of 3 different ones at most, and 6 of 2, 4 configurations | `TypeOK`, `LastValueFromReset`, `TimerFigures`, `SetCardinality`, `PercentilesNested`, `RateAgainstInterval`, `BackendAccurate`, `DeathExplained`, `NamesDistinct` (105 000) |
| `carbon_flush` | 2 workers, 2 connections, a gauge, a set and a timer, 2 faults, fairness | `LinesAccounted`, `LossBounded`, `FlushEnds` (330 000) |
| `lifecycle` | 3 sockets, 3 files, 2 tokens, any number of reloads, stops, kills and restarts, fairness | `TypeOK`, `WholeOutsideLoad`, `TokensFromFiles`, `CloseFindsSocket`, `CleanExit`, `RestartWorks`, `TermEnds` (320 000) |
| `pool_stale_retry`, `pool_nilconn`, `pipeline_gauge`, `read_input_split`, `metrics_inflate`, `lifecycle_tokens` | see section 4 | one violated claim each |

**Bounds of the pool.** Nothing in `ConnectionPool` grows without limit: `failures` is at most
the number of connections, since each failed dial loses one. Two workers put one
between the length test and the channel send while the other releases or takes, lose an increment of `ErrorCount`, compete for the last
connection, and give the retry a second old one. What needs a third worker is left to the proofs, which cover every
number for each of the run's properties but the liveness.

**Bounds of the pipeline.** Every line is sent once and there are as many lines as the
script names; ticks and turns of the loops are unbounded. Two clients of three and two lines
fill both channels; these have two places, so that order within a
channel matters and the third line meets a full one. One client sends the same key twice around a line that does not parse, and the
other sends that key, which is also a flush metric's, and the key of a runtime metric. One relay worker is the default; that lines stay in one place with
several, and that these implement `MetricFlow`, is proved for every number (section 6), and `pipeline_gauge` has two.

**Bounds of the reader.** The buffer of 4 bytes is shorter than every well-formed line, so a
boundary falls on each position of a line, on its newline and after it; the texts hold
lines longer than one buffer, with a sample rate, too short to parse, too short to be
a message, and empty.

**Bounds of the metrics.** Six lines are enough for a median of an even and of an odd number of values, for
every order of a type that resets the value and one that adds to it, and for a percentile whose rank falls on a value, between two, between equal ones,
and on a value where the product may come out low: that needs a whole rank that is no quarter, 20 and 80 of six values. A history has up to three
different lines, and one of six lines two (`FewKinds`, a bound), in any number and order. The lines include a
sampled counter and timer, a senseless rate, a negative gauge with a fraction, an unknown type and two numbers that three
binary digits do not hold: the value 9 and the rate 0.3. A float32 has 24 digits, and six decimals are written; with three and one the roundings
happen with few values. The configurations have flush intervals of 0.5, 1.5, 2 and 3 seconds and
percentiles inside, at the ends of, and outside 0 to 100, rising and falling, with namespaces given by prefixes or by suffixes.
`metrics_inflate` has only the counters, and three lines.

**Bounds of the flush.** Two faults are the least that drop a line and the least that take a connection from the
pool; with one connection left the two workers compete, and a get may time out. `MaxFaults` is the only bound
besides the instance. A timer without percentiles is five lines, long enough for its worker to
meet the other one in every state of the pool.

**Bounds of the life cycle.** None: every variable is finite. The files are one that gives everything, one that turns off the Unix
socket, revokes a token and leaves the host name out, and one that cannot be read.

**Mutated forms.** Beside many definitions stands a mutated form with a comment: a dropped
guard, a missing return, a swapped order. Each property of each passing run is
violated when its form replaces the definition; "mutants" in `PROJECT.json` pairs them.
They are not used by any specification.

## 4. Where the code departs from what it says

| Run | Claim | What happens |
|---|---|---|
| `pool_stale_retry` | `relay.go:238`, "recreate the connection and retry", and `relay.go:252`, "likely a socket timeout, we'll retry one time" | With two connections that have both waited past their deadline, the fresh connection goes to the tail of the channel and the retry takes the head, the other expired one. The line is dropped although the backend is healthy. |
| `pool_nilconn` | `relay.go:222`, "If there was an error connecting, recreate the connection and retry" | A get that times out returns a `NilConn`; recreating it begins with `Close`, which panics. With the default of one worker a single failed dial leads there, since it leaves the pool empty. `relay_test.go:117`-`121` expects that panic of a relay whose backend is gone. |
| `pipeline_gauge` | `README.md:82`, gauges are "a "last in" measurement" | With two workers the later of two values may be flushed first. |
| `read_input_split` | `README.md:43`, metrics are "separated by a newline character" | A read that ends inside a line without filling the buffer cuts the line in two: each piece is sent if it is longer than one byte, and dropped if it is not. |
| `metrics_inflate` | `README.md:35`, "Counters will inflate the value accordingly so that it can be accurately used to calculate a rate" | The line that creates a key's entry is stored as it is (`metric.go:214`); only later ones are multiplied by their hits (`metric.go:203`). A counter sampled at 0.3 that comes once in an interval is reported with a third of its value. |
| `lifecycle_tokens` | `README.md:154`, the tokens "are read into memory when the proces is started, so changes to the token map require a restart" | `CreateAuth` keeps the configuration's map (`auth.go:40`), into which a reload decodes the file: a SIGHUP puts new and revoked tokens in force. A token that is deleted from the file stays. |

Three more departures are excluded by the conditions of passing properties:

- `README.md:80` says that a counter's rate is the sum divided by the "duration of flush interval in seconds". `flushDuration / time.Second` is an integer division
  (`metric.go:219`): an interval of 1.5 seconds gives rates one and a half times too high, one below a second divides by 0, which gives an infinity, or NaN for a total of 0
  (`metric.go:225`, `235`). `RateAgainstInterval` is about intervals of whole seconds, for which the rate is right; `metrics` has the others too.
- `README.md:161` says of the terminating signals "Shut down the sockets and clean up before exiting". After a reload of a file that turns a socket off, `main` leaves it
  and its sock file; after one that turns a socket on, it panics. `CloseFindsSocket`, `CleanExit` and `RestartWorks` are about the reloads of files with the same sockets.
- `README.md:170`-`178` calls `connection.*` and `relay.*` not reloadable; `Enabled`, `Maxpacket` and `Relay.Flush` are read live.

The same properties, where they hold, are checked under the condition that makes them
hold: `PanicOnlyAfterLoss` (no panic before a failed dial), `LastInWins` with one worker,
`WholeUnlessCut` for lines that only full buffers cut, `LastValueFromReset` for entries that no sampled counter starts,
`TokensFromFiles` (whatever a reload does, only the files let a token in).

## 5. Fairness

`ConnectionPool!FairSpec` gives each worker weak fairness of its step while a call is in
progress. A goroutine that can run is run; a get is limited by `time.After`, a write by the
deadline, a dial by the operating system, and the channel sends are shown never to block.
Beginning a call is not fair: no line need arrive. Nothing is assumed of the backend.

`Pipeline!FairSpec` gives weak fairness to each reader with lines in hand, to the parse
loop, to each worker, to the ticks, and to the return of `main` once `quit` is set. No signal
need arrive, and `RelayOne` may always drop or, with `BackendFails`, panic. Weak fairness is
enough: a reader, the parser and a worker each wait at one channel, and nobody else takes the place
a sender waits for, except that several readers compete for `parseChannel`: senders that wait
at a Go channel are served in turn, and since each reader of the run sends finitely many lines, weak fairness serves both.

`CarbonFlush!FairFlushSpec` gives weak fairness to each worker's next step, its flush included: `RelayAllMetrics` goes
on to the next line and entry by itself. Faults need not happen. `TermEnds` and `FlushEnds` allow the
process to die.

`Lifecycle!FairSpec` gives weak fairness to `main`, to the handler and to each `Listen`. No signal need arrive, nobody
need start a process or edit the file. A reload that is followed by another without end does not delay a terminating
signal, because there is one place for both and the handler takes what is in it.

None uses strong fairness. Deadlock is checked in every run but `carbon_flush`, in which the end of the flush and the
death of the process are the ends of the model; elsewhere a process that has ended stutters explicitly (`Dead`, `Ended`, `Done`) or is started again.

## 6. The proofs

Six modules prove, for every value of the constants that the assumptions below admit, the following theorems; two more,
`FoldTheorems` and `StatisticsProofs`, hold lemmas they rest on.

| Module | Theorem | States |
|---|---|---|
| `ConnectionPoolProofs` | `TypeCorrect` | `Spec => [](TypeOK /\ Control)` |
| | `SlotsAccounted` | `Spec => []SlotAccounting` |
| | `NeverBlocks` | `Spec => []ReleaseNeverBlocks` |
| | `PanicNeedsLoss` | `Spec => []PanicOnlyAfterLoss` |
| | `SentAtMostOnce` | `Spec => []AtMostOnce` |
| | `ConnsExclusive` | `Spec => []ExclusiveConn` |
| | `ErrorsBounded` | `Spec => []ErrorCountBounded` |
| | `PoolImplementsLines` | `Spec => ImplementsLines`, that is `Spec => Lines!Spec` |
| `PipelineProofs` | `TypeCorrect` | `Spec => []TypeOK` |
| | `EachInOnePlace` | `Spec => []OnePlace` |
| | `OverwritesOwnKeys` | `Spec => []OverwrittenOnlyRuntime` |
| | `PipelineImplementsFlow` | `Spec => ImplementsFlow`, that is `Spec => Flow!Spec` |
| | `OneWorkerLastInWins` | with one worker, `Spec => []LastInWins` |
| `ReadInputProofs` | `TypeCorrect` | `Spec => []TypeOK` |
| | `PiecesStayInOrder` | `Spec => []PiecesInOrder` |
| | `SkipsNothing` | with `MinimumLengthMessage <= 1`, `Spec => []NothingSkipped` |
| | `WholeMetrics` | with `MinimumLengthMessage <= 1`, `Spec => []WholeUnlessCut` |
| `LifecycleProofs` | `TypeCorrect` | `Spec => []TypeOK` |
| | `LoadsWhole` | `Spec => []WholeOutsideLoad` |
| | `TokensComeFromFiles` | `Spec => []TokensFromFiles` |
| | `ClosesOwnSockets` | `Spec => []CloseFindsSocket` |
| | `ExitsClean` | `Spec => []CleanExit` |
| | `RestartsWork` | `Spec => []RestartWorks` |
| `CarbonFlushProofs` | `FlushImplementsPool` | `FlushSpec => Spec`, a flush is a behaviour of the pool |
| | `LossesBounded` | `FlushSpec => []LossBounded` |
| | `LinesCounted` | `FlushSpec => []LinesAccounted` |
| `MetricsProofs` | `MetricsInvariant` | `Spec => []MetricsInv`, the invariant of the following |
| | `MetricsTyped` | `Spec => []TypeOK` |
| | `LastValueKept` | `Spec => []LastValueFromReset` |
| | `TimerReported` | `Spec => []TimerFigures` |
| | `SetReported` | `Spec => []SetCardinality` |
| | `PercentilesReported` | `Spec => []PercentilesNested` |
| | `DeathOnlyOfPercentiles` | `Spec => []DeathExplained` |
| | `RateReported` | `Spec => []RateAgainstInterval` |
| | `CountersReported` | `Spec => []BackendAccurate` |
| | `NamesKeptApart` | `Spec => []NamesDistinct` |

**Assumptions.** TLC evaluates each in every run of its module.

- `PoolAssumption`: finitely many workers, as many as the pool has places (`main` starts `relay.concurrency` workers and
  gives the pool that size), and a `NilConn` that is no real connection. The connections need not be finitely many.
- `PipelineAssumption`: each line is in exactly one reader's script, once; every line has a key; no runtime metric has the key of a
  flush metric; the channels have at least one place. Nothing need be finite.
- `ReadInputAssumption`: texts are sequences of the kinds of byte, the buffer is not empty. Two theorems add that
  `MinimumLengthMessage` is at most 1, its value in `socket.go:39`.
- `LifecycleAssumption`: the files are well-formed, the default token and the local host's name exist, and that name is not empty.
- `FlushAssumption`: finitely many entries, each with a worker that owns it and one of the four types; `Percentiles` and `MaxFaults` are natural numbers.
- `MetricsAssumption`: values and rates are integers, `Unit`, `Quantum` and `Millionth` positive, and `Quantum` is a multiple of `2 * n` for each number `n` of lines up
  to `MaxLines`, so that means and medians of float32 numbers are exact. Such units exist for every `MaxLines`, so the theorems hold for any number of lines between two flushes;
  percentiles, intervals, values, sample rates and the mantissa's width are arbitrary.
  `Digits` is how `strconv.FormatInt` writes the configured percentiles: different numbers differently.

**The pool.** `TypeOK` is not inductive alone: what a step does with `conn[w]` depends on where
the worker is. `Control` ties the local variables to `pc`: no worker has left `idle` before
start-up is over, the process runs only if no start-up dial failed, and `conn[w]` is a real connection at `write`,
`release` and `put`. `TypeStep` and `ControlStep` prove that `TypeOK /\ Control` is inductive, one step per action.

On top of it `SlotAccounting`, channel length + holders + failed dials = connections made, is
inductive. The work is in the change of the set `Holders`, which `HoldersMove` and
`HoldersAfterAttempt` reduce to a worker that joins or leaves. `HoldersBounded` states that there are at
most `Size` holders, fewer when some worker is not one, and at least one when some worker is.

From the accounting follow the two results a reader of the code would doubt. A worker about to
send to the channel is a holder, so the others account for at most `Size - 1` places: the
test before the dial is sound although it reserves nothing (`NeverBlocks`). And a get
can time out only on an empty channel, at which moment the holders, of whom the waiting worker is none, are fewer
than `Size`, so some dial has failed (`PanicNeedsLoss`). `SentAtMostOnce` needs only `TypeOK /\ Control`
and itself: its conjunct about `pc` is what makes it inductive.

`ExclusiveConn` is made inductive by `Usable`, that a worker's connection is never closed: the socket a dial
returns is then nobody else's. `ErrorCountBounded` needs `ErrorsCounted`: with `p` workers between a failed dial and the
store of `ErrorCount++`, both the field and every value read from it stay `p` below the number of failures, so
that lost increments can only make the count too small.

`PoolImplementsLines` takes each action to its counterpart: `FillOk` to `OpenLane`, `CreateRelay` to `Launch`, `Begin` to
`Call`, `WriteOk` on an open connection to `Deliver`, `DialFail` to `LoseLane`, `ClosePanic` to `Crash`, the end of the last attempt to `Return`;
the others stutter. `Deliver` needs `AtMostOnce`, `LoseLane` needs `SlotAccounting` (the worker still holds a lane), and
`Crash` needs `PanicOnlyAfterLoss`.

**The flush.** `FlushStepIsPoolStep` carries every theorem about the pool over to the flush. `LossBounded` alone
is far from inductive: when a line is dropped, the faults that caused it lie many steps back. `Charged` keeps each fault in one place on
its way: in a connection it has spoilt (`Spoilt`), in an attempt that has failed because of it (`Failing`), in a call whose first
attempt has failed (`Second`), or, two by two, in a dropped line. The failed write is where the charge passes from the connection to the
attempt; that the connection is not charged to two workers is `ExclusiveConn`, and that it is not a closed one is `Usable`. That no line vanishes without a hang-up
needs `HungUp` and `Swallowed` empty too, the connections that would swallow one and the lines that were swallowed in a call under way.

`LinesAccounted` is about a sum, the lines of the series that are left. It is inductive with `Hands`, which says of each worker that the entry in its hands is
one of its own and still in the store. `TakeEntry` moves an entry's lines from the sum over the store to what its worker has left (`TakeCounts`), `SendLine` one of them to the calls under way (`SendCounts`), the end
of a call to what became of it (`StepCountsLine`, one case for each result), and `DeleteEntry` finds none left (`DeleteCounts`).

**The pipeline.** `OnePlace` says that a line is in one place, which says nothing of how often it is there. `Located` lists the places
of each line that has no fate, `Single` says that no sequence holds a line twice, `Owned` that a store keeps a line under its own key;
together with `Control`, what each goroutine's hands hold at its labels, they are inductive, one lemma per action. For the refinement the
mapping `Stage` is computed for each place, and each action is shown to be `Take`, `Reject`, `Settle` or `Overwrite` of
`MetricFlow`, or a stutter. A flush that prepares runtime metrics is the only `Overwrite`, and the keys are the daemon's own.

`OneWorkerLastInWins` needs one worker because `FlushOrdered`, that what the worker has reported precedes what it still holds, fails with two:
the run `pipeline_gauge` is the counterexample. One worker is the default (`config.go:137`). `FromScript` says that what a reader has not sent is
a final part of its script, and `Ordered` orders the lines of one client and key along the way, from store back to reader; the channels being queues, each action
moves a line to the far end of the next place.

**The reader.** `EndOf`, `LastBegin` and `Sequence` are CHOOSE expressions; the first lemmas show that what they choose exists. That every position
has a piece of that rank is an instance of the pigeonhole principle (`RanksCover`), not an induction. `PiecesInOrder` is made inductive by the end of
each piece, which lies before `start`. `NothingSkipped` needs `Boundary`, what stands before `overflow`. For `WholeUnlessCut` the invariant is
`WholeOrWaiting`: until its last byte has been read a metric is in `overflow` from its first byte on, and from then on it has been sent. A full buffer that ends inside
the metric keeps it because no beginning of it parses, one that ends with its last byte sends it because the whole parses.

**The life cycle.** `LoadProgress` says what the live configuration is when some sections have been decoded and
others not; `TokenProgress`, that what the file read last makes valid has been seen before it is merged into the map. `SocketsOn`, `SocketsClosed` and `SockFileOwned` tie the sockets and the sock file to the place where `main` is, unless a load has
read of other sockets (`switched`) or a process was killed (`tainted`). `CloseFindsSocket` is not in the invariant: it follows from `SocketsOn`, about the file, and `LoadProgress`, about how much of it is in force.

**Folds and induction.** The induction theorems of the library take a predicate as a parameter, which the provers cannot instantiate. `FoldTheorems`
states them with a set instead: `NatInd` says that a set of numbers that contains 0 and each successor of a member contains them all, and follows from
the existence of a least element (`Least`); `SetInd` does the same for the finite subsets of a set. A proof by induction defines the set of the good numbers or
subsets and shows that it is closed. In the same way `FoldExists` and `FoldUnique` take the step of a fold as a function. From these come
the laws of `SumFunctionOnSet` (`SumRemove`, `SumChange`, `SumScale`, `SumPermute`), of loops over a sequence (`LoopStep`) and of recursive functions (`RecursionExists`).

**The statistics.** `SortedIs`: the result is a permutation of the values, in order. That the ranks are a permutation is the pigeonhole principle again.
On it rest `MinmaxIs`, `MedianIs` (at most half of the values on either side), `UniqueIs` (the number of places at which a sorted sequence changes is the number of different values) and
`PermutedSum`. `MeanIs` is an induction over the turns of the running mean: after turn `i` it is the sum of the first `i` values divided by `i`. The step needs that
the sum is a multiple of every number up to the length (`MultipleOf`, the assumption on `Quantum`), so that no division truncates.
`IndexIs` and `IndexMonotone` say how far a rank may come out low and that two ranks never change places, also when one comes out low and the other does not;
`QuantileAtLeast` and `QuantileMonotone` bound the interpolated boundary from below by the value at the truncated rank, and order the boundaries of two percentiles.

**The metrics.** `MetricsInv` says at every moment what the state is as a function of the lines since the entry was created: the entry is `GatheredOf(inputs)` (type of the first line, sum of the hits,
the value of `LastReset` and what the later counters add, all values in order), the report is what `ProcessMetric` and `Relay` make of it, and a dead daemon met an entry it panics on. None of the properties is inductive
without it: a report keeps no trace of the entry, which is deleted in the same step. The step of `Receive` is `LineAdded`, what one line more does to sums and to the latest reset.
The properties are then statements about one sequence of lines, proved from the lemmas on the statistics. `DeathOnlyOfPercentiles` shows that between 0 and 100
both neighbours of the boundary exist, and that the first value is within the boundary unless the interpolation fell short on values equal to the
first. `RateReported` is short once `MetricsInv` has the hits of all lines.
`CountersReported` rests on `NearestIs` and `Float32Is`: a conversion is off by at most half a `Quantum` or a `2 ^ Mantissa`-th of the value. For values that are not negative these errors add up to at
most the same share of their sum, and half a `Quantum` each, however many there are (`CountersAccurate`), because the sum itself is not rounded; `ThreeRoundings` adds the conversion and the decimals on the way out.

`NamesKeptApart` needs the lines' place in the series: `FlattenDiffers` says that parts with different names stay different one after the other, and `NamesApart` that
namespaces with equally many parts cannot run into the key. Without that condition two names may coincide: for a prefix that ends like a key, or a percentile listed twice.

**Only model-checked.** The violated claims of section 4, and liveness, which is out of the prover's reach: `CallReturns`, `EveryLineSettled`, `TermEnds`,
`FlushEnds`, and the fairness half of the two refinements. Every invariant and safety property of the passing runs is a theorem. No module declares a `RECURSIVE` operator.

## 7. What is abstracted and what is not modelled

- **Contents of lines.** In `Pipeline` whether a line authenticates and parses is a constant of the line
  (the token map changes only with a reload). In `ConnectionPool` a line is "the worker's current line".
- **`Relay` as one report.** `CarbonRelay.Relay` makes several calls of `sendCarbonMetric` per aggregate and
  ignores what they return. In `Pipeline` that is one step with an outcome, or a panic; in `ConnectionPool`
  each call is a `Begin` of its own. A process that dies inside `Relay` leaves the entry in its store.
- **`quit`** is read and written without synchronisation; a late read is an earlier read, which the
  interleaving already contains. A compiler may also hoist the read out of a loop; the loops contain
  channel operations, so builds do not.
- **Time.** Timers may fire whenever the select they belong to would wait. A get is taken not to time out
  while the channel has a connection: `pool.Timeout` is far longer than a scheduling delay.
- **UDP** datagrams the kernel drops are lines that were never sent. The limit of 512 runes in `ParseMetricString` is left out,
  and so is the error of `ResolveUDPAddr` that `Listen` ignores. After `Close` the UDP loop reads errors until the process ends; it
  touches nothing.
- **Numbers.** NaN and infinite values, which `ParseFloat` accepts, and overflow are left out. float64 is taken as exact but for the two cases in `short`: its
  rounding of sums, means and products (a relative error of 2^-53 in each operation) is not in the model, and where a product of a value and its hits, or the inverse of a sample rate, is not
  a whole number of units, the model truncates it to one. So `BackendAccurate` is about unsampled counters and counts the roundings to float32 and to the decimals, not those of the additions.
- **Bytes on the way.** A connection that is hung up takes writes until its reset arrives, and nothing bounds how many (`WriteOk`).
- **Configuration.** Of the fields a reload changes the model keeps the sockets' `Enabled`, the host name, `Debug.Relay` and the tokens, one for
  each way in which they are read (by `main` at the end, by the workers, by the parse loop). A torn read of a string is not modelled,
  the defaults are set in one step, and percentiles, which yaml appends to on each reload, have no reader after the start.
- **Composition.** `CarbonFlush` starts with full stores and one flush; aggregation between flushes is `Pipeline`'s.
- **Logger, the tools in `extras`, packaging**: no state that the daemon's behaviour depends on.

## 8. Plan

In this order; 1 to 6 are done.

1. `ConnectionPool` with `LineRelay`: the only state all workers share.
2. `Pipeline` with `MetricFlow`: composes readers, parse loop and workers; the pool enters as the outcome of a
   report.
3. `ReadInput`.
4. `Statistics` and `Metrics`: the arithmetic, against reference definitions over bounded inputs.
5. `Lifecycle`: the reload in place and its readers, the token map, `Listen` and `Close`, restarts.
6. `CarbonFlush`: the series of lines of a flush over the pool.
7. Proofs: done for every passing safety property of `ConnectionPool`, `Pipeline`, `ReadInput`, `Lifecycle` and `CarbonFlush`, the refinements of `LineRelay` and
   `MetricFlow`, and every property of `Metrics`.

Left: `ParseMetricString`'s limit of 512 runes and its NaN and infinite values, and aggregation between the flushes of `CarbonFlush`.
