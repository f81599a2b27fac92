------------------------------ MODULE Pipeline ------------------------------
(***************************************************************************)
(* The path of a line through the daemon: the readers of the sockets       *)
(* (readInput, readInputUdp in statsgod/socket.go), the goroutine that     *)
(* authenticates and parses (ParseMetrics in statsgod/metric.go), and the  *)
(* relay workers that aggregate and flush (RelayMetrics, RelayAllMetrics,  *)
(* the Prepare functions in statsgod/relay.go), joined by the two bounded  *)
(* channels of statsgod.go and stopped by its shared flag quit.            *)
(*                                                                         *)
(* A metric in a store is the sequence of the lines aggregated into it, in *)
(* the order of aggregation; what is computed from them is left out.  So   *)
(* is how a reader splits what it reads into lines: it has a list of them. *)
(***************************************************************************)
EXTENDS Integers, Sequences, FiniteSets

CONSTANTS
    Lines,          \* the lines clients send; each is sent once
    Valid,          \* those that authenticate and parse
    Key,            \* Key[l]: the namespace in line l
    Readers,        \* goroutines that read a connection or the UDP socket
    Script,         \* Script[r]: the lines reader r gets, in order
    Workers,        \* the goroutines running RelayMetrics
    MaxReqs,        \* the capacity of both channels
    RuntimeKeys,    \* keys PrepareRuntimeMetrics writes, {} unless debug.relay
    FlushKeys,      \* keys PrepareFlushMetrics writes, {} unless debug.relay
    Internal,       \* stands for the value such a metric has
    None,           \* no line
    BackendFails    \* a report may be dropped, or the relay may panic

Keys == {Key[l] : l \in Lines} \cup RuntimeKeys \cup FlushKeys

Elements(s) == {s[i] : i \in DOMAIN s}

ASSUME PipelineAssumption ==
    /\ Valid \subseteq Lines
    /\ Key \in [Lines -> Keys]
    /\ Script \in [Readers -> Seq(Lines)]
    /\ \A r \in Readers : \A i, j \in DOMAIN Script[r] :
          Script[r][i] = Script[r][j] => i = j
    /\ \A q, r \in Readers : q # r =>
          Elements(Script[q]) \cap Elements(Script[r]) = {}
    /\ Lines = UNION {Elements(Script[r]) : r \in Readers}
    /\ MaxReqs \in Nat \ {0}
    /\ Internal \notin Lines /\ None \notin Lines
    /\ RuntimeKeys \cap FlushKeys = {}
    /\ BackendFails \in BOOLEAN

VARIABLES
    todo,           \* per reader: the lines it has still to hand on
    parseChannel, relayChannel,
    ppc, parsing,   \* ParseMetrics: where it is, the metric it has to push
    wpc, store,     \* per worker: where RelayMetrics is, its map metrics
    tick,           \* per worker: a tick waits in the channel of time.Tick
    quit,           \* the flag all loops look at
    up,             \* the process has neither returned from main nor panicked
    fate            \* history: [Lines -> what came of the line, how often]

parserVars == <<ppc, parsing>>
workerVars == <<wpc, store>>
vars == <<todo, parseChannel, relayChannel, parserVars, workerVars, tick, quit,
          up, fate>>

Fates == {"rejected", "reported", "dropped", "overwritten"}

TypeOK ==
    /\ todo \in [Readers -> Seq(Lines)]
    /\ parseChannel \in Seq(Lines) /\ Len(parseChannel) <= MaxReqs
    /\ relayChannel \in Seq(Lines) /\ Len(relayChannel) <= MaxReqs
    /\ ppc \in {"receive", "push", "check", "stopped"}
    /\ parsing \in Lines \cup {None}
    /\ wpc \in [Workers -> {"top", "receive", "check", "flush", "flushAgain",
                            "stopped"}]
    /\ store \in [Workers -> [Keys -> Seq(Lines \cup {Internal})]]
    /\ tick \in [Workers -> BOOLEAN]
    /\ quit \in BOOLEAN /\ up \in BOOLEAN
    /\ fate \in [Lines -> [Fates -> Nat]]

Init ==
    /\ todo = Script
    /\ parseChannel = <<>> /\ relayChannel = <<>>
    /\ ppc = "receive" /\ parsing = None
    /\ wpc = [w \in Workers |-> "top"]
    /\ store = [w \in Workers |-> [k \in Keys |-> <<>>]]
    /\ tick = [w \in Workers |-> FALSE]
    /\ quit = FALSE /\ up = TRUE
    /\ fate = [l \in Lines |-> [f \in Fates |-> 0]]

\* The lines in ls have met their fate f.
Meet(ls, f) ==
    fate' = [l \in Lines |->
                IF l \in ls THEN [fate[l] EXCEPT ![f] = @ + 1] ELSE fate[l]]

-----------------------------------------------------------------------------
(***************************************************************************)
(* Readers.  A connection that is open when the daemon is told to quit is  *)
(* read from until the process ends: only the listeners are closed.        *)
(***************************************************************************)
\* Mutated form: the channel has no capacity.
ReaderSendUnbounded(r) ==
    /\ up
    /\ todo[r] # <<>>
    /\ parseChannel' = Append(parseChannel, Head(todo[r]))
    /\ todo' = [todo EXCEPT ![r] = Tail(@)]
    /\ UNCHANGED <<relayChannel, parserVars, workerVars, tick, quit, up, fate>>

ReaderSend(r) ==
    /\ up
    /\ todo[r] # <<>>
    /\ Len(parseChannel) < MaxReqs
    /\ parseChannel' = Append(parseChannel, Head(todo[r]))
    /\ todo' = [todo EXCEPT ![r] = Tail(@)]
    /\ UNCHANGED <<relayChannel, parserVars, workerVars, tick, quit, up, fate>>

-----------------------------------------------------------------------------
(***************************************************************************)
(* ParseMetrics.  An invalid line leaves only the select, not the loop.    *)
(***************************************************************************)
\* Mutated form: no break after an error.
ParseReceiveAny ==
    /\ up /\ ppc = "receive"
    /\ parseChannel # <<>>
    /\ ppc' = "push" /\ parsing' = Head(parseChannel)
    /\ parseChannel' = Tail(parseChannel)
    /\ UNCHANGED <<todo, relayChannel, workerVars, tick, quit, up, fate>>

ParseReceive ==
    /\ up /\ ppc = "receive"
    /\ parseChannel # <<>>
    /\ LET l == Head(parseChannel) IN
       IF l \in Valid
         THEN ppc' = "push" /\ parsing' = l /\ UNCHANGED fate
         ELSE ppc' = "check" /\ Meet({l}, "rejected") /\ UNCHANGED parsing
    /\ parseChannel' = Tail(parseChannel)
    /\ UNCHANGED <<todo, relayChannel, workerVars, tick, quit, up>>

\* time.After(time.Second).
ParseTimeout ==
    /\ up /\ ppc = "receive"
    /\ parseChannel = <<>>
    /\ ppc' = "check"
    /\ UNCHANGED <<todo, parseChannel, relayChannel, parsing, workerVars, tick,
                   quit, up, fate>>

\* relayChannel <- metric.
ParsePush ==
    /\ up /\ ppc = "push"
    /\ Len(relayChannel) < MaxReqs
    /\ relayChannel' = Append(relayChannel, parsing)
    /\ ppc' = "check" /\ parsing' = None
    /\ UNCHANGED <<todo, parseChannel, workerVars, tick, quit, up, fate>>

ParseCheck ==
    /\ up /\ ppc = "check"
    /\ ppc' = IF quit THEN "stopped" ELSE "receive"
    /\ UNCHANGED <<todo, parseChannel, relayChannel, parsing, workerVars, tick,
                   quit, up, fate>>

ParseStep == ParseReceive \/ ParseTimeout \/ ParsePush \/ ParseCheck

-----------------------------------------------------------------------------
(***************************************************************************)
(* RelayMetrics.                                                           *)
(***************************************************************************)
WAt(w, label) == up /\ wpc[w] = label

Goto(w, label) == wpc' = [wpc EXCEPT ![w] = label]

Stored(w) == {k \in Keys : store[w][k] # <<>>}

WorkerTop(w) ==
    /\ WAt(w, "top")
    /\ Goto(w, IF quit THEN "stopped" ELSE "receive")
    /\ UNCHANGED <<todo, parseChannel, relayChannel, parserVars, store, tick,
                   quit, up, fate>>

\* Mutated form: the new line goes before the earlier ones.
AggregateBefore(entries, l) == [entries EXCEPT ![Key[l]] = <<l>> \o @]

\* AggregateMetric: a first line creates the entry of its key, a later one is
\* appended to it.
Aggregate(entries, l) == [entries EXCEPT ![Key[l]] = Append(@, l)]

WorkerReceive(w) ==
    /\ WAt(w, "receive")
    /\ relayChannel # <<>>
    /\ store' = [store EXCEPT ![w] = Aggregate(@, Head(relayChannel))]
    /\ relayChannel' = Tail(relayChannel)
    /\ Goto(w, "check")
    /\ UNCHANGED <<todo, parseChannel, parserVars, tick, quit, up, fate>>

\* Mutated form: the select has no time.After.
NoFlushTimer(w) == FALSE

\* time.After(config.Relay.Flush).
WorkerTimeout(w) ==
    /\ WAt(w, "receive")
    /\ relayChannel = <<>>
    /\ Goto(w, "check")
    /\ UNCHANGED <<todo, parseChannel, relayChannel, parserVars, store, tick,
                   quit, up, fate>>

WorkerNoTick(w) ==
    /\ WAt(w, "check")
    /\ ~tick[w]
    /\ Goto(w, "top")
    /\ UNCHANGED <<todo, parseChannel, relayChannel, parserVars, store, tick,
                   quit, up, fate>>

\* metrics[key] = *metric for each internal key: what is there is replaced.
Prepare(entries, internal) ==
    [k \in Keys |-> IF k \in internal THEN <<Internal>> ELSE entries[k]]

\* The client lines such an assignment throws away.
Replaced(w, internal) ==
    (UNION {Elements(store[w][k]) : k \in internal}) \ {Internal}

\* Mutated form: the flush metrics are written before the first round.
WorkerTickPreparesAll(w) ==
    /\ WAt(w, "check")
    /\ tick[w]
    /\ tick' = [tick EXCEPT ![w] = FALSE]
    /\ store' = [store EXCEPT ![w] = Prepare(@, RuntimeKeys \cup FlushKeys)]
    /\ Meet(Replaced(w, RuntimeKeys \cup FlushKeys), "overwritten")
    /\ Goto(w, "flush")
    /\ UNCHANGED <<todo, parseChannel, relayChannel, parserVars, quit, up>>

\* The tick is taken, PrepareRuntimeMetrics writes, RelayAllMetrics starts.
WorkerTick(w) ==
    /\ WAt(w, "check")
    /\ tick[w]
    /\ tick' = [tick EXCEPT ![w] = FALSE]
    /\ store' = [store EXCEPT ![w] = Prepare(@, RuntimeKeys)]
    /\ Meet(Replaced(w, RuntimeKeys), "overwritten")
    /\ Goto(w, "flush")
    /\ UNCHANGED <<todo, parseChannel, relayChannel, parserVars, quit, up>>

Flushing(w) == WAt(w, "flush") \/ WAt(w, "flushAgain")

\* Mutated form: the entry is deleted only if the backend took it.
RelayOneKeeps(w) ==
    /\ Flushing(w)
    /\ \E k \in Stored(w), f \in {"reported", "dropped"} :
          /\ f = "dropped" => BackendFails
          /\ Meet(Elements(store[w][k]) \ {Internal}, f)
          /\ store' = IF f = "dropped" THEN store
                      ELSE [store EXCEPT ![w][k] = <<>>]
    /\ UNCHANGED <<todo, parseChannel, relayChannel, parserVars, wpc, tick,
                   quit, up>>

\* One round of RelayAllMetrics' loop over the map, in any order: Relay, whose
\* result is ignored, then delete.
RelayOne(w) ==
    /\ Flushing(w)
    /\ \E k \in Stored(w), f \in {"reported", "dropped"} :
          /\ f = "dropped" => BackendFails
          /\ Meet(Elements(store[w][k]) \ {Internal}, f)
          /\ store' = [store EXCEPT ![w][k] = <<>>]
    /\ UNCHANGED <<todo, parseChannel, relayChannel, parserVars, wpc, tick,
                   quit, up>>

\* The relay panics on a lost connection: see module ConnectionPool.
RelayPanic(w) ==
    /\ Flushing(w) /\ Stored(w) # {}
    /\ BackendFails
    /\ up' = FALSE
    /\ UNCHANGED <<todo, parseChannel, relayChannel, parserVars, workerVars,
                   tick, quit, fate>>

\* The first RelayAllMetrics has returned, PrepareFlushMetrics writes, and the
\* second one starts.
FlushInternal(w) ==
    /\ WAt(w, "flush") /\ Stored(w) = {}
    /\ store' = [store EXCEPT ![w] = Prepare(@, FlushKeys)]
    /\ Meet(Replaced(w, FlushKeys), "overwritten")
    /\ Goto(w, "flushAgain")
    /\ UNCHANGED <<todo, parseChannel, relayChannel, parserVars, tick, quit, up>>

FlushDone(w) ==
    /\ WAt(w, "flushAgain") /\ Stored(w) = {}
    /\ Goto(w, "top")
    /\ UNCHANGED <<todo, parseChannel, relayChannel, parserVars, store, tick,
                   quit, up, fate>>

WorkerStep(w) ==
    \/ WorkerTop(w)
    \/ WorkerReceive(w) \/ WorkerTimeout(w)
    \/ WorkerNoTick(w) \/ WorkerTick(w)
    \/ RelayOne(w) \/ RelayPanic(w)
    \/ FlushInternal(w) \/ FlushDone(w)

-----------------------------------------------------------------------------
(***************************************************************************)
(* Time, signals and the end of main.                                      *)
(***************************************************************************)

\* time.Tick's channel holds one tick; those that find it there are dropped.
Tick(w) ==
    /\ up /\ ~tick[w]
    /\ tick' = [tick EXCEPT ![w] = TRUE]
    /\ UNCHANGED <<todo, parseChannel, relayChannel, parserVars, workerVars,
                   quit, up, fate>>

\* A signal other than SIGHUP: main takes it from finishChannel and sets quit.
Finish ==
    /\ up /\ ~quit
    /\ quit' = TRUE
    /\ UNCHANGED <<todo, parseChannel, relayChannel, parserVars, workerVars,
                   tick, up, fate>>

\* main closes the listeners and returns; it waits for no goroutine.
MainReturns ==
    /\ up /\ quit
    /\ up' = FALSE
    /\ UNCHANGED <<todo, parseChannel, relayChannel, parserVars, workerVars,
                   tick, quit, fate>>

Ended == ~up /\ UNCHANGED vars

Next ==
    \/ \E r \in Readers : ReaderSend(r)
    \/ ParseStep
    \/ \E w \in Workers : WorkerStep(w) \/ Tick(w)
    \/ Finish \/ MainReturns
    \/ Ended

Spec == Init /\ [][Next]_vars

\* Goroutines that can run do run, time passes, and main returns once it has
\* started to.  No signal need ever arrive.
FairSpec ==
    /\ Spec
    /\ \A r \in Readers : WF_vars(ReaderSend(r))
    /\ WF_vars(ParseStep)
    /\ \A w \in Workers : WF_vars(WorkerStep(w)) /\ WF_vars(Tick(w))
    /\ WF_vars(MainReturns)

-----------------------------------------------------------------------------
(***************************************************************************)
(* Properties.                                                             *)
(***************************************************************************)
Hits(s, l) == {i \in DOMAIN s : s[i] = l}

\* The places where line l is, or its fates, counted one by one.
Where(l) ==
    (UNION {{<<"reader", r, i>> : i \in Hits(todo[r], l)} : r \in Readers})
    \cup {<<"parseChannel", None, i>> : i \in Hits(parseChannel, l)}
    \cup {<<"parsing", None, i>> : i \in Hits(<<parsing>>, l)}
    \cup {<<"relayChannel", None, i>> : i \in Hits(relayChannel, l)}
    \cup (UNION {UNION {{<<k, w, i>> : i \in Hits(store[w][k], l)} : k \in Keys} :
                    w \in Workers})
    \cup (UNION {{<<f, None, i>> : i \in 1 .. fate[l][f]} : f \in Fates})

\* No line is lost on the way, copied, or reported twice: each one waits at its
\* reader, in a channel, with the parser or in one store under its own key, or
\* has met exactly one fate; with the process the lines in it end where they are.
OnePlace == \A l \in Lines : \E p \in Where(l) : Where(l) = {p}

\* What PrepareRuntimeMetrics writes may replace client data of the same key,
\* but PrepareFlushMetrics never does: it writes after the first
\* RelayAllMetrics has emptied the store, and nothing is received in between.
OverwrittenOnlyRuntime ==
    \A l \in Lines : fate[l].overwritten > 0 => Key[l] \in RuntimeKeys

Settled(l) == \E f \in Fates : fate[l][f] > 0

\* How far a line has come.
Progress(l) ==
    IF Settled(l) THEN 5
    ELSE IF \E w \in Workers : l \in Elements(store[w][Key[l]]) THEN 4
    ELSE IF l \in Elements(relayChannel) THEN 3
    ELSE IF l = parsing THEN 2
    ELSE IF l \in Elements(parseChannel) THEN 1
    ELSE 0

SentBefore(l, m) ==
    \E r \in Readers : \E i, j \in DOMAIN Script[r] :
        i < j /\ Script[r][i] = l /\ Script[r][j] = m

\* README on gauges: 'these are a "last in" measurement'.  Of two values that
\* one client sends for one key the later never overtakes the earlier, so the
\* value in the store, and the last one that is reported, is the last one sent.
LastInWins ==
    \A l, m \in Valid :
        SentBefore(l, m) /\ Key[l] = Key[m] =>
            /\ Progress(l) >= Progress(m)
            /\ \A w \in Workers :
                  LET s == store[w][Key[l]] IN
                  \A i, j \in DOMAIN s : s[i] = l /\ s[j] = m => i < j

\* Unless the daemon is told to quit or panics, every line is handed on, and is
\* rejected or flushed: full channels empty again, and the last lines before a
\* silence do not wait for another line to arrive.
EveryLineSettled == \A l \in Lines : <>(Settled(l) \/ quit \/ ~up)

\* Where a line is, seen from outside.
Stage(l) ==
    IF fate[l].rejected > 0 THEN "rejected"
    ELSE IF fate[l].reported > 0 THEN "reported"
    ELSE IF fate[l].dropped + fate[l].overwritten > 0 THEN "lost"
    ELSE IF Progress(l) = 0 THEN "client"
    ELSE "inside"

KeyOf(l) == Key[l]

Flow == INSTANCE MetricFlow
            WITH stage <- [l \in Lines |-> Stage(l)], OwnKeys <- RuntimeKeys

\* The goroutines and channels implement the promise of MetricFlow: what is taken
\* in is rejected or settled once, key by key.
ImplementsFlow == Flow!Spec

\* They do so with its fairness: what is taken in does not stay inside.
ImplementsFairFlow == Flow!FairSpec
=============================================================================
