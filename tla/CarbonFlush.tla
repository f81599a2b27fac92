---------------------------- MODULE CarbonFlush -----------------------------
(***************************************************************************)
(* A flush over the pool: RelayAllMetrics and CarbonRelay.Relay            *)
(* (statsgod/relay.go) in each worker, composed with ConnectionPool.       *)
(*                                                                         *)
(* An entry of a worker's store becomes a series of lines, each one call   *)
(* of sendCarbonMetric; Relay ignores what the calls return and reports    *)
(* success, and the entry is deleted after its last line.  Faults are      *)
(* counted and bounded, so that what is lost can be held against them.     *)
(***************************************************************************)
EXTENDS ConnectionPool, FiniteSetsExt

CONSTANTS
    Metrics,      \* the entries of the stores
    TypeOf(_),    \* "counter", "gauge", "set" or "timer"
    OwnerOf(_),   \* the worker that has aggregated the entry
    Percentiles,  \* how many percentiles are configured
    MaxFaults     \* bound: failures of the network and of the backend

ASSUME FlushAssumption ==
    /\ IsFiniteSet(Metrics)
    /\ \A m \in Metrics : /\ OwnerOf(m) \in Workers
                         /\ TypeOf(m) \in {"counter", "gauge", "set", "timer"}
    /\ Percentiles \in Nat /\ MaxFaults \in Nat

VARIABLES
    store,      \* the entries that are left
    current,    \* per worker: the entry in Relay's hands, as a set
    left,       \* per worker: how many lines of it are still to be sent
    delivered, dropped, lost,    \* history: what became of the lines
    faults, hangups              \* history: all faults; those that lose bytes

flushVars == <<store, current, left>>
lineVars  == <<delivered, dropped, lost>>
faultVars == <<faults, hangups>>
allVars   == <<vars, flushVars, lineVars, faultVars>>

\* Relay's switch: how many lines an entry makes.
SeriesLength(m) ==
    CASE TypeOf(m) \in {"gauge", "set"} -> 1
      [] TypeOf(m) = "counter" -> 2
      [] TypeOf(m) = "timer" -> 5 + 4 * Percentiles

FlushInit ==
    /\ Init
    /\ store = Metrics
    /\ current = [w \in Workers |-> {}]
    /\ left = [w \in Workers |-> 0]
    /\ delivered = 0 /\ dropped = 0 /\ lost = 0
    /\ faults = 0 /\ hangups = 0

-----------------------------------------------------------------------------
(***************************************************************************)
(* A worker's flush.                                                       *)
(***************************************************************************)
Entries(w) == {m \in store : OwnerOf(m) = w}

\* The range over the map visits the entries in any order.
TakeEntry(w) ==
    /\ At(w, "idle") /\ current[w] = {}
    /\ \E m \in Entries(w) :
          /\ current' = [current EXCEPT ![w] = {m}]
          /\ left' = [left EXCEPT ![w] = SeriesLength(m)]
    /\ UNCHANGED <<vars, store, lineVars, faultVars>>

\* The next call of sendCarbonMetric in Relay.
SendLine(w) ==
    /\ left[w] > 0
    /\ Begin(w)
    /\ left' = [left EXCEPT ![w] = @ - 1]
    /\ UNCHANGED <<store, current, lineVars, faultVars>>

\* Mutated form: Relay returns at the first line that is dropped.
DeleteAfterDrop(w) ==
    /\ At(w, "idle") /\ current[w] # {}
    /\ left[w] = 0 \/ result[w] = "dropped"
    /\ store' = store \ current[w]
    /\ current' = [current EXCEPT ![w] = {}]
    /\ left' = [left EXCEPT ![w] = 0]
    /\ UNCHANGED <<vars, lineVars, faultVars>>

\* Relay returns true, and RelayAllMetrics deletes the entry.
DeleteEntry(w) ==
    /\ At(w, "idle") /\ current[w] # {} /\ left[w] = 0
    /\ store' = store \ current[w]
    /\ current' = [current EXCEPT ![w] = {}]
    /\ UNCHANGED <<vars, left, lineVars, faultVars>>

\* A line is settled when its call returns.
Settled(w) == pc[w] # "idle" /\ pc'[w] = "idle"

\* A stall and a failed dial are faults that come to light in the sender.
Faulty(w) ==
    \/ pc[w] = "write" /\ pc'[w] = "close" /\ Writable(conn[w])
    \/ failures' # failures

Step(w) ==
    /\ SendStep(w)
    /\ Faulty(w) => faults < MaxFaults
    /\ faults' = faults + (IF Faulty(w) THEN 1 ELSE 0)
    /\ delivered' = delivered + (IF Settled(w) THEN copies'[w] ELSE 0)
    /\ dropped' = dropped + (IF Settled(w) /\ result'[w] = "dropped" THEN 1 ELSE 0)
    /\ lost' = lost + (IF Settled(w) /\ result'[w] = "sent" /\ copies'[w] = 0
                         THEN 1 ELSE 0)
    /\ UNCHANGED <<flushVars, hangups>>

WorkerStep(w) == TakeEntry(w) \/ SendLine(w) \/ Step(w) \/ DeleteEntry(w)

-----------------------------------------------------------------------------
(***************************************************************************)
(* Everything else.                                                        *)
(***************************************************************************)
StartUp == (FillOk \/ CreateRelay) /\ UNCHANGED <<flushVars, lineVars, faultVars>>

Breakdown ==
    /\ faults < MaxFaults /\ faults' = faults + 1
    /\ \E c \in Conns :
          \/ c \notin expired /\ Expire(c) /\ UNCHANGED hangups
          \/ PeerReset(c) /\ UNCHANGED hangups
          \/ PeerHangup(c) /\ hangups' = hangups + 1
    /\ UNCHANGED <<flushVars, lineVars>>

FlushNext ==
    \/ \E w \in Workers : WorkerStep(w)
    \/ StartUp \/ Breakdown

FlushSpec == FlushInit /\ [][FlushNext]_allVars

\* The flush is the worker's own loop; see ConnectionPool for the rest.
FairFlushSpec ==
    /\ FlushSpec
    /\ WF_allVars(StartUp)
    /\ \A w \in Workers : WF_allVars(WorkerStep(w))

-----------------------------------------------------------------------------
(***************************************************************************)
(* Properties.                                                             *)
(***************************************************************************)
InCall == {w \in Workers : pc[w] # "idle"}
Waiting == store \ UNION {current[w] : w \in Workers}
LineCount == [m \in Metrics |-> SeriesLength(m)]

\* Every line of every entry that is gone was sent once: it reached the backend
\* once, was dropped after the retry, or went down with a connection that the
\* backend no longer read.  So did the lines of the current entries that are not
\* left, except those whose call is running (Relay's calls in a row, with
\* RelayAllMetrics deleting the entry whatever they return).
LinesAccounted ==
    delivered + dropped + lost + Cardinality(InCall)
      + SumFunctionOnSet(LineCount, Waiting) + SumFunction(left)
    = SumFunction(LineCount)

\* What faults cost: lines vanish unnoticed only on connections that the backend
\* has hung up on, and it takes two faults for each line that is dropped.  One
\* late deadline, hangup, reset, stall or failed dial drops nothing while the
\* process lives (the retry of sendCarbonMetric over the pool, with several
\* workers).
LossBounded ==
    /\ hangups = 0 => lost = 0
    /\ 2 * dropped <= faults

\* Every flush ends, or the process dies in it; it does not hang in the pool
\* because the other workers keep the connections.
FlushEnds == \A w \in Workers : Entries(w) # {} ~> (Entries(w) = {} \/ phase = "dead")
=============================================================================
