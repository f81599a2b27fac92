--------------------------- MODULE ConnectionPool ---------------------------
(***************************************************************************)
(* The pool of backend connections (statsgod/connectionpool.go), the       *)
(* function that sends one line through it (sendCarbonMetric in            *)
(* statsgod/relay.go) and the stand-in connection of a timed-out get       *)
(* (statsgod/nilconn.go), with the carbon backend as the environment.      *)
(*                                                                         *)
(* Each worker is a RelayMetrics goroutine: it sends one line after the    *)
(* other.  The steps of a send are the points at which another goroutine   *)
(* or the backend can come in between: the receive from the channel, the   *)
(* write, the close, the dial, the unsynchronised increment of ErrorCount  *)
(* and the send back to the channel.                                       *)
(***************************************************************************)
EXTENDS Integers, Sequences, FiniteSets

CONSTANTS
    Workers,    \* the relay goroutines
    Conns,      \* identities of connections; a closed one may be dialled anew
    NilConn,    \* nilconn.go: what a timed-out GetConnection returns
    Size,       \* ConnectionPool.Size, the capacity of the channel
    Faults      \* what the network and the backend may do, see AllFaults

(***************************************************************************)
(* "dial"    a dial fails (net.Dial returns an error)                      *)
(* "idle"    a deadline passes while no send is in progress                *)
(* "late"    a deadline passes while some worker is sending                *)
(* "stall"   the backend does not read: a write blocks up to the deadline  *)
(* "hangup"  the backend reads no more from a connection: it has closed it *)
(*           or died; the socket goes on accepting bytes, which are lost   *)
(* "reset"   the reset of a connection arrives: its writes fail            *)
(***************************************************************************)
AllFaults == {"dial", "idle", "late", "stall", "hangup", "reset"}

\* main starts config.Relay.Concurrency workers and CreateRelay makes a pool of
\* the same size.
ASSUME PoolAssumption ==
    /\ IsFiniteSet(Workers)
    /\ Size \in Nat \ {0}
    /\ Cardinality(Workers) = Size
    /\ NilConn \notin Conns
    /\ Faults \subseteq AllFaults

VARIABLES
    connections,   \* pool.Connections: the buffered channel
    status,        \* per connection: the state of its socket
    expired,       \* the connections whose deadline has passed
    phase,         \* the process: "starting", "running" or "dead"
    made,          \* CreateConnectionPool's loop counter
    pc, conn, retry, result,   \* per worker: the local state of sendCarbonMetric
    seen,          \* per worker: the ErrorCount it read before it stores
    errorCount,    \* pool.ErrorCount
    failures,      \* history: the number of dials that failed
    copies         \* history: copies of the worker's line the backend reads

poolVars   == <<connections, status, expired>>
workerVars == <<pc, conn, retry, result>>
countVars  == <<seen, errorCount>>
vars == <<poolVars, phase, made, workerVars, countVars, failures, copies>>

States == {"idle", "get", "write", "release", "close", "dial", "put",
           "count", "store"}

TypeOK ==
    /\ connections \in Seq(Conns)
    /\ status \in [Conns -> {"closed", "open", "hungup", "reset"}]
    /\ expired \subseteq Conns
    /\ phase \in {"starting", "running", "dead"}
    /\ made \in 0 .. Size
    /\ pc \in [Workers -> States]
    /\ conn \in [Workers -> Conns \cup {NilConn}]
    /\ retry \in [Workers -> BOOLEAN]
    /\ result \in [Workers -> {"none", "sent", "dropped"}]
    /\ seen \in [Workers -> Nat]
    /\ errorCount \in Nat
    /\ failures \in Nat
    /\ copies \in [Workers -> Nat]

Init ==
    /\ connections = <<>>
    /\ status = [c \in Conns |-> "closed"]
    /\ expired = {}
    /\ phase = "starting"
    /\ made = 0
    /\ pc = [w \in Workers |-> "idle"]
    /\ conn = [w \in Workers |-> NilConn]
    /\ retry = [w \in Workers |-> FALSE]
    /\ result = [w \in Workers |-> "none"]
    /\ seen = [w \in Workers |-> 0]
    /\ errorCount = 0
    /\ failures = 0
    /\ copies = [w \in Workers |-> 0]

-----------------------------------------------------------------------------
(***************************************************************************)
(* Shared by the steps.                                                    *)
(***************************************************************************)

\* The test at the top of CreateConnection, and the channel's free capacity.
HasRoom == Len(connections) < Size

\* A successful dial: a fresh socket with a fresh deadline.
Connect(c) ==
    /\ status[c] = "closed"
    /\ status' = [status EXCEPT ![c] = "open"]
    /\ expired' = expired \ {c}

Goto(w, label) == pc' = [pc EXCEPT ![w] = label]

\* Mutated forms: dataSent is not looked at; retry is not; there is no retry.
ResendsAlways(w, sent) == retry[w]
TriesOnce(w, sent) == FALSE
RetriesForever(w, sent) == ~sent

\* "if !dataSent && retry": one more attempt, else the call returns dataSent.
TriesAgain(w, sent) == ~sent /\ retry[w]

\* The end of sendCarbonMetric.  The attempt's connection goes out of scope.
EndAttempt(w, sent) ==
    /\ conn' = [conn EXCEPT ![w] = NilConn]
    /\ retry' = [retry EXCEPT ![w] = FALSE]
    /\ IF TriesAgain(w, sent)
         THEN Goto(w, "get") /\ UNCHANGED result
         ELSE /\ Goto(w, "idle")
              /\ result' = [result EXCEPT ![w] = IF sent THEN "sent" ELSE "dropped"]

-----------------------------------------------------------------------------
(***************************************************************************)
(* Start-up: one goroutine fills the pool; CreateRelay panics when any of  *)
(* its dials failed, otherwise main starts the workers.                    *)
(***************************************************************************)
FillOk ==
    /\ phase = "starting" /\ made < Size /\ HasRoom
    /\ \E c \in Conns : Connect(c) /\ connections' = Append(connections, c)
    /\ made' = made + 1
    /\ UNCHANGED <<phase, workerVars, countVars, failures, copies>>

\* Mutated form: the loop runs once too often.
FillFailOnceMore ==
    /\ phase = "starting" /\ made <= Size
    /\ "dial" \in Faults
    /\ made' = made + 1
    /\ errorCount' = errorCount + 1
    /\ failures' = failures + 1
    /\ UNCHANGED <<poolVars, phase, workerVars, seen, copies>>

FillFail ==
    /\ phase = "starting" /\ made < Size
    /\ "dial" \in Faults
    /\ made' = made + 1
    /\ errorCount' = errorCount + 1
    /\ failures' = failures + 1
    /\ UNCHANGED <<poolVars, phase, workerVars, seen, copies>>

CreateRelay ==
    /\ phase = "starting" /\ made = Size
    /\ phase' = IF failures > 0 THEN "dead" ELSE "running"
    /\ UNCHANGED <<poolVars, made, workerVars, countVars, failures, copies>>

-----------------------------------------------------------------------------
(***************************************************************************)
(* sendCarbonMetric.                                                       *)
(***************************************************************************)
At(w, label) == phase = "running" /\ pc[w] = label

\* Relay calls sendCarbonMetric(..., retry = true, ...) with the next line.
Begin(w) ==
    /\ At(w, "idle")
    /\ Goto(w, "get")
    /\ retry' = [retry EXCEPT ![w] = TRUE]
    /\ result' = [result EXCEPT ![w] = "none"]
    /\ copies' = [copies EXCEPT ![w] = 0]
    /\ UNCHANGED <<poolVars, phase, made, conn, countVars, failures>>

GetConnection(w) ==
    /\ At(w, "get")
    /\ connections # <<>>
    /\ conn' = [conn EXCEPT ![w] = Head(connections)]
    /\ connections' = Tail(connections)
    /\ Goto(w, "write")
    /\ UNCHANGED <<status, expired, phase, made, retry, result, countVars,
                   failures, copies>>

\* Mutated form: the timer may win although a connection is in the channel.
GetTimeoutEager(w) ==
    /\ At(w, "get")
    /\ conn' = [conn EXCEPT ![w] = NilConn]
    /\ Goto(w, "close")
    /\ UNCHANGED <<poolVars, phase, made, retry, result, countVars, failures,
                   copies>>

\* time.After(pool.Timeout) fires first: only an empty channel keeps a
\* receiver waiting that long.  sendCarbonMetric goes on to release with
\* recreate = true.
GetTimeout(w) ==
    /\ At(w, "get")
    /\ connections = <<>>
    /\ conn' = [conn EXCEPT ![w] = NilConn]
    /\ Goto(w, "close")
    /\ UNCHANGED <<poolVars, phase, made, retry, result, countVars, failures,
                   copies>>

\* Whether a write of this connection can succeed.  The deadline is looked at
\* first.
Writable(c) == c \notin expired /\ status[c] \in {"open", "hungup"}

\* Mutated form: the connection is recreated after a write that succeeded too.
WriteOkRecreates(w) ==
    /\ At(w, "write")
    /\ Writable(conn[w]) /\ status[conn[w]] = "open"
    /\ Goto(w, "close")
    /\ copies' = [copies EXCEPT ![w] = @ + 1]
    /\ UNCHANGED <<poolVars, phase, made, conn, retry, result, countVars,
                   failures>>

\* The socket accepts the line.  After a hangup nobody reads it; the answer to it
\* is a reset, but other lines may be accepted before that is here.
WriteOk(w) ==
    /\ At(w, "write")
    /\ Writable(conn[w])
    /\ Goto(w, "release")
    /\ IF status[conn[w]] = "open"
         THEN /\ copies' = [copies EXCEPT ![w] = @ + 1]
              /\ UNCHANGED status
         ELSE /\ \E s \in {"hungup", "reset"} :
                    status' = [status EXCEPT ![conn[w]] = s]
              /\ UNCHANGED copies
    /\ UNCHANGED <<connections, expired, phase, made, conn, retry, result,
                   countVars, failures>>

\* Mutated form: a failed write skips ReleaseConnection.
WriteFailForgets(w) ==
    /\ At(w, "write")
    /\ ~Writable(conn[w]) \/ "stall" \in Faults
    /\ EndAttempt(w, FALSE)
    /\ UNCHANGED <<poolVars, phase, made, countVars, failures, copies>>

WriteFail(w) ==
    /\ At(w, "write")
    /\ ~Writable(conn[w]) \/ "stall" \in Faults
    /\ Goto(w, "close")
    /\ UNCHANGED <<poolVars, phase, made, conn, retry, result, countVars,
                   failures, copies>>

\* ReleaseConnection(conn, false): a new deadline, then the channel send, which
\* blocks while the channel is full.  dataSent = true.
Release(w) ==
    /\ At(w, "release")
    /\ HasRoom
    /\ expired' = expired \ {conn[w]}
    /\ connections' = Append(connections, conn[w])
    /\ EndAttempt(w, TRUE)
    /\ UNCHANGED <<status, phase, made, countVars, failures, copies>>

\* ReleaseConnection(conn, true) with the connection a timed-out get returned:
\* NilConn.Close panics, and no goroutine recovers.
ClosePanic(w) ==
    /\ At(w, "close")
    /\ conn[w] = NilConn
    /\ phase' = "dead"
    /\ UNCHANGED <<poolVars, made, workerVars, countVars, failures, copies>>

\* Mutated form: the closed connection goes back to the channel.
CloseAndReturn(w) ==
    /\ At(w, "close")
    /\ conn[w] # NilConn
    /\ status' = [status EXCEPT ![conn[w]] = "closed"]
    /\ connections' = Append(connections, conn[w])
    /\ EndAttempt(w, FALSE)
    /\ UNCHANGED <<expired, phase, made, countVars, failures, copies>>

\* ReleaseConnection(conn, true): conn.Close(), then CreateConnection's test of
\* the pool's size.  A full pool makes it return an error.
Close(w) ==
    /\ At(w, "close")
    /\ conn[w] # NilConn
    /\ status' = [status EXCEPT ![conn[w]] = "closed"]
    /\ IF HasRoom
         THEN /\ Goto(w, "dial")
              /\ conn' = [conn EXCEPT ![w] = NilConn]
              /\ UNCHANGED <<retry, result>>
         ELSE EndAttempt(w, FALSE)
    /\ UNCHANGED <<connections, expired, phase, made, countVars, failures,
                   copies>>

DialOk(w) ==
    /\ At(w, "dial")
    /\ \E c \in Conns : Connect(c) /\ conn' = [conn EXCEPT ![w] = c]
    /\ Goto(w, "put")
    /\ UNCHANGED <<connections, phase, made, retry, result, countVars, failures,
                   copies>>

\* Mutated form: the failed dial is not counted.
DialFailUncounted(w) ==
    /\ At(w, "dial")
    /\ "dial" \in Faults
    /\ failures' = failures + 1
    /\ EndAttempt(w, FALSE)
    /\ UNCHANGED <<poolVars, phase, made, countVars, copies>>

DialFail(w) ==
    /\ At(w, "dial")
    /\ "dial" \in Faults
    /\ failures' = failures + 1
    /\ Goto(w, "count")
    /\ UNCHANGED <<poolVars, phase, made, conn, retry, result, countVars, copies>>

\* pool.ErrorCount++ is a read and a write of a field the workers share.
CountRead(w) ==
    /\ At(w, "count")
    /\ seen' = [seen EXCEPT ![w] = errorCount]
    /\ Goto(w, "store")
    /\ UNCHANGED <<poolVars, phase, made, conn, retry, result, errorCount,
                   failures, copies>>

CountStore(w) ==
    /\ At(w, "store")
    /\ errorCount' = seen[w] + 1
    /\ EndAttempt(w, FALSE)
    /\ UNCHANGED <<poolVars, phase, made, seen, failures, copies>>

\* Mutated form: no return after the recreation, the release path follows.
PutFallsThrough(w) ==
    /\ At(w, "put")
    /\ HasRoom
    /\ connections' = Append(connections, conn[w])
    /\ Goto(w, "release")
    /\ UNCHANGED <<status, expired, phase, made, conn, retry, result, countVars,
                   failures, copies>>

\* CreateConnection's channel send of the new connection.
Put(w) ==
    /\ At(w, "put")
    /\ HasRoom
    /\ connections' = Append(connections, conn[w])
    /\ EndAttempt(w, FALSE)
    /\ UNCHANGED <<status, expired, phase, made, countVars, failures, copies>>

\* One step of a call in progress.
SendStep(w) ==
    \/ GetConnection(w) \/ GetTimeout(w)
    \/ WriteOk(w) \/ WriteFail(w)
    \/ Release(w)
    \/ ClosePanic(w) \/ Close(w)
    \/ DialOk(w) \/ DialFail(w)
    \/ CountRead(w) \/ CountStore(w)
    \/ Put(w)

-----------------------------------------------------------------------------
(***************************************************************************)
(* The environment: deadlines and the backend.                             *)
(***************************************************************************)
Quiet == \A w \in Workers : pc[w] = "idle"

\* SetDeadline is called when a connection is made and when it is released, so
\* a connection that waits in the channel longer than pool.Timeout is expired.
Expire(c) ==
    /\ phase # "dead"
    /\ status[c] # "closed"
    /\ (IF Quiet THEN "idle" ELSE "late") \in Faults
    /\ expired' = expired \cup {c}
    /\ UNCHANGED <<connections, status, phase, made, workerVars, countVars,
                   failures, copies>>

Disconnect(c, kind) ==
    /\ phase # "dead"
    /\ status[c] \in {"open", "hungup"}
    /\ status' = [status EXCEPT ![c] = kind]
    /\ UNCHANGED <<connections, expired, phase, made, workerVars, countVars,
                   failures, copies>>

PeerHangup(c) == "hangup" \in Faults /\ status[c] = "open" /\ Disconnect(c, "hungup")

PeerReset(c) == "reset" \in Faults /\ Disconnect(c, "reset")

Environment == \E c \in Conns : Expire(c) \/ PeerHangup(c) \/ PeerReset(c)

\* A panic has ended the process.
Dead == phase = "dead" /\ UNCHANGED vars

Next ==
    \/ FillOk \/ FillFail \/ CreateRelay
    \/ \E w \in Workers : Begin(w) \/ SendStep(w)
    \/ Environment
    \/ Dead

Spec == Init /\ [][Next]_vars

\* A goroutine with work to do runs; a get, a write and a dial return after at
\* most their time limits.  Nothing is assumed of the environment.
FairSpec == Spec /\ \A w \in Workers : WF_vars(SendStep(w))

-----------------------------------------------------------------------------
(***************************************************************************)
(* Properties.                                                             *)
(***************************************************************************)

\* A worker in these states owes the pool one connection.
HoldsSlot(w) ==
    \/ pc[w] \in {"write", "release", "dial", "put"}
    \/ pc[w] = "close" /\ conn[w] # NilConn

Holders == {w \in Workers : HoldsSlot(w)}

\* Every connection the pool was built with is in the channel, in the hands of
\* exactly one worker, or was lost to a failed dial.  No path through
\* sendCarbonMetric and ReleaseConnection forgets one or adds one.
SlotAccounting == Len(connections) + Cardinality(Holders) + failures = made

\* Both channel sends, in CreateConnection and in ReleaseConnection, find room:
\* the test of len(pool.Connections) is made before the dial and never holds a
\* place, yet no other worker can fill the channel in between.
ReleaseNeverBlocks ==
    \A w \in Workers : pc[w] \in {"release", "dial", "put"} => HasRoom

\* No two workers write to the same connection, no connection is in the channel
\* twice or while a worker uses it, and none in the channel was closed.
ExclusiveConn ==
    /\ \A i, j \in DOMAIN connections :
          connections[i] = connections[j] => i = j
    /\ \A i \in DOMAIN connections : status[connections[i]] # "closed"
    /\ \A w \in Workers, i \in DOMAIN connections : conn[w] # connections[i]
    /\ \A v, w \in Workers : v # w /\ conn[v] = conn[w] => conn[v] = NilConn

\* A worker times out in GetConnection, and panics on the connection that call
\* returns, only after a dial has failed: with all connections alive there is
\* always one for each worker.
PanicOnlyAfterLoss ==
    \A w \in Workers : pc[w] = "close" /\ conn[w] = NilConn => failures > 0

\* The retry never sends a line that the backend has, and a line reported as
\* not sent is one that the backend does not have.
AtMostOnce ==
    \A w \in Workers :
        /\ copies[w] <= 1
        /\ pc[w] \notin {"idle", "release"} => copies[w] = 0
        /\ result[w] = "dropped" => copies[w] = 0

\* A worker that runs out of the channel's connections is never left waiting:
\* each call of sendCarbonMetric returns, or the process has panicked.
CallReturns ==
    \A w \in Workers :
        pc[w] # "idle" ~> (pc[w] = "idle" \/ phase = "dead")

\* ErrorCount is at most the number of failed dials, whatever the workers
\* interleave; once every increment is stored it is zero only if none failed.
ErrorCountBounded ==
    /\ errorCount <= failures
    /\ (\A w \in Workers : pc[w] \notin {"count", "store"})
          => (failures > 0 => errorCount > 0)

-----------------------------------------------------------------------------
\* Workers, a number of lanes and one line per worker: what is left when the
\* connections, deadlines and attempts are hidden.
Lines == INSTANCE LineRelay WITH
    lanes     <- made - failures,
    busy      <- [w \in Workers |-> pc[w] # "idle"],
    delivered <- copies,
    outcome   <- result

\* The pool and sendCarbonMetric implement the promise of LineRelay: at most
\* one copy per line, a truthful "dropped", a death only for want of a lane.
ImplementsLines == Lines!Spec

\* They do so with its fairness: every call returns or ends the process.
ImplementsFairLines == Lines!FairSpec

-----------------------------------------------------------------------------
\* When every dial succeeds and the backend neither stalls nor resets, no line
\* is dropped: the retry does not meet another connection that is too old (the
\* comments "recreate the connection and retry" in sendCarbonMetric).
HealthyBackendNeverDrops == \A w \in Workers : result[w] # "dropped"

\* relay.go: "If there was an error connecting, recreate the connection and
\* retry": the recreation that follows a timed-out get does not end the process.
TimeoutRecreates ==
    [][\A w \in Workers :
          At(w, "close") /\ conn[w] = NilConn => phase' # "dead"]_vars
=============================================================================
