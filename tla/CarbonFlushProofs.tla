-------------------------- MODULE CarbonFlushProofs --------------------------
(***************************************************************************)
(* Proofs about CarbonFlush: a flush is one of the behaviours of the pool, *)
(* so that what ConnectionPoolProofs shows holds in it, and what faults    *)
(* cost, for every number of workers, connections, entries and faults.     *)
(***************************************************************************)
EXTENDS CarbonFlush, ConnectionPoolProofs, FoldTheorems

\* Each step of a flush is one of the pool or leaves the pool alone.
LEMMA FlushStepIsPoolStep == [FlushNext]_allVars => [Next]_vars
<1> SUFFICES ASSUME [FlushNext]_allVars PROVE [Next]_vars
  OBVIOUS
<1>1. ASSUME NEW w \in Workers, WorkerStep(w) PROVE [Next]_vars
  <2>1. CASE TakeEntry(w) \/ DeleteEntry(w)
    BY <2>1 DEF TakeEntry, DeleteEntry, vars
  <2>2. CASE SendLine(w) \/ Step(w)
    BY <2>2 DEF SendLine, Step, Next
  <2> QED
    BY <1>1, <2>1, <2>2 DEF WorkerStep
<1>2. CASE StartUp
  BY <1>2 DEF StartUp, Next
<1>3. CASE Breakdown
  BY <1>3 DEF Breakdown, Next, Environment
<1>4. CASE UNCHANGED allVars
  BY <1>4 DEF allVars, vars
<1> QED
  BY <1>1, <1>2, <1>3, <1>4 DEF FlushNext

\* A flush is a behaviour of the pool: every safety property of the pool holds
\* while Relay sends the lines of the entries (RelayAllMetrics, Relay).
THEOREM FlushImplementsPool == FlushSpec => Spec
<1>1. FlushInit => Init
  BY DEF FlushInit
<1> QED
  BY <1>1, FlushStepIsPoolStep, PTL DEF FlushSpec, Spec

-----------------------------------------------------------------------------
(***************************************************************************)
(* What faults cost.  Each fault is in one place at a time: in a           *)
(* connection that it has spoilt, in an attempt that fails because of it,  *)
(* in a call that has failed once, or in a line that was dropped.          *)
(***************************************************************************)

\* Connections whose next write fails or is lost, unless the write has been
\* made and the connection is about to be closed.
Spoilt ==
    {c \in Conns :
        /\ status[c] # "closed"
        /\ c \in expired \/ status[c] # "open"
        /\ \A w \in Workers : pc[w] = "close" => conn[w] # c}

\* Workers whose attempt has failed but has not ended.
Failing ==
    {w \in Workers :
        \/ pc[w] \in {"dial", "count", "store", "put"}
        \/ pc[w] = "close" /\ conn[w] # NilConn}

\* Workers in the second attempt of their call.
Second == {w \in Workers : pc[w] # "idle" /\ ~retry[w]}

\* Connections that swallow lines, and workers of which one has swallowed the line.
HungUp == {c \in Conns : status[c] = "hungup"}
Swallowed == {w \in Workers : pc[w] = "release" /\ copies[w] = 0}

FlushTypes ==
    /\ dropped \in Nat /\ lost \in Nat /\ faults \in Nat /\ hangups \in Nat
    /\ IsFiniteSet(Spoilt)

DropsCharged ==
    2 * dropped + Cardinality(Second) + Cardinality(Failing) + Cardinality(Spoilt)
        <= faults

LossesCharged ==
    hangups = 0 => lost = 0 /\ HungUp = {} /\ Swallowed = {}

Charged == FlushTypes /\ DropsCharged /\ LossesCharged

\* What is known of the pool in every state of a flush.
PoolInv == TypeOK /\ Control /\ ExclusiveConn /\ Usable /\ AtMostOnce

\* The sets are finite and their cardinalities numbers.
LEMMA Counted ==
    ASSUME FlushTypes
    PROVE  /\ IsFiniteSet(Second) /\ Cardinality(Second) \in Nat
           /\ IsFiniteSet(Failing) /\ Cardinality(Failing) \in Nat
           /\ Cardinality(Spoilt) \in Nat
<1>1. IsFiniteSet(Second) /\ IsFiniteSet(Failing)
  BY PoolAssumption, FS_Subset DEF Second, Failing
<1> QED
  BY <1>1, FS_CardinalityType DEF FlushTypes

\* A set that does not grow.
LEMMA NoMore ==
    ASSUME NEW S, NEW T, IsFiniteSet(S), T \subseteq S
    PROVE  /\ IsFiniteSet(T) /\ Cardinality(T) \in Nat
           /\ Cardinality(S) \in Nat /\ Cardinality(T) <= Cardinality(S)
BY FS_Subset, FS_CardinalityType

\* A set that gains at most one element.
LEMMA OneMore ==
    ASSUME NEW S, NEW T, NEW x, IsFiniteSet(S), T \subseteq S \cup {x}
    PROVE  /\ IsFiniteSet(T) /\ Cardinality(T) \in Nat
           /\ Cardinality(S) \in Nat /\ Cardinality(T) <= Cardinality(S) + 1
<1>1. /\ IsFiniteSet(S \cup {x})
      /\ Cardinality(S \cup {x}) \in {Cardinality(S), Cardinality(S) + 1}
  BY FS_AddElement
<1>2. Cardinality(S) \in Nat
  BY FS_CardinalityType
<1>3. IsFiniteSet(T) /\ Cardinality(T) \in Nat /\ Cardinality(T) <= Cardinality(S \cup {x})
  BY <1>1, NoMore
<1> QED
  BY <1>1, <1>2, <1>3

\* A set that loses an element.
LEMMA OneLess ==
    ASSUME NEW S, NEW T, NEW x, IsFiniteSet(S), x \in S, T \subseteq S \ {x}
    PROVE  /\ IsFiniteSet(T) /\ Cardinality(T) \in Nat
           /\ Cardinality(S) \in Nat /\ Cardinality(T) + 1 <= Cardinality(S)
<1>1. IsFiniteSet(S \ {x}) /\ Cardinality(S \ {x}) = Cardinality(S) - 1
  BY FS_RemoveElement
<1> QED
  BY <1>1, NoMore, FS_CardinalityType

\* A step that adds to nothing but the counts of faults leaves the bounds.
LEMMA NothingCharged ==
    ASSUME Charged,
           Second' \subseteq Second, Failing' \subseteq Failing,
           Spoilt' \subseteq Spoilt, HungUp' \subseteq HungUp,
           Swallowed' \subseteq Swallowed,
           dropped' = dropped, lost' = lost,
           faults' \in Nat, faults' >= faults, hangups' = hangups
    PROVE  Charged'
<1>1. /\ Cardinality(Second') <= Cardinality(Second) /\ Cardinality(Second') \in Nat
      /\ Cardinality(Failing') <= Cardinality(Failing) /\ Cardinality(Failing') \in Nat
  BY Counted, NoMore DEF Charged
<1>2. /\ Cardinality(Spoilt') <= Cardinality(Spoilt) /\ Cardinality(Spoilt') \in Nat
      /\ IsFiniteSet(Spoilt')
  BY NoMore DEF Charged, FlushTypes
<1> QED
  BY <1>1, <1>2, Counted DEF Charged, FlushTypes, DropsCharged, LossesCharged

\* What Step adds to the pool's step.
LEMMA StepCounts ==
    ASSUME PoolInv, FlushTypes, NEW w \in Workers, Step(w)
    PROVE  /\ faults' \in Nat /\ faults' >= faults /\ hangups' = hangups
           /\ Faulty(w) => faults' = faults + 1
           /\ ~Settled(w) => dropped' = dropped /\ lost' = lost
           /\ Settled(w) /\ result'[w] = "dropped" => dropped' = dropped + 1 /\ lost' = lost
           /\ Settled(w) /\ result'[w] = "sent" => dropped' = dropped
           /\ Settled(w) /\ result'[w] = "sent" /\ copies'[w] = 0 => lost' = lost + 1
           /\ Settled(w) /\ result'[w] = "sent" /\ copies'[w] # 0 => lost' = lost
<1>1. /\ faults' = faults + (IF Faulty(w) THEN 1 ELSE 0)
      /\ hangups' = hangups
      /\ dropped' = dropped + (IF Settled(w) /\ result'[w] = "dropped" THEN 1 ELSE 0)
      /\ lost' = lost + (IF Settled(w) /\ result'[w] = "sent" /\ copies'[w] = 0
                           THEN 1 ELSE 0)
  BY DEF Step
<1> QED
  BY <1>1 DEF FlushTypes

\* The steps of a call in which no attempt fails and none ends.
LEMMA QuietStep ==
    ASSUME PoolInv, Charged, NEW w \in Workers, Step(w),
           \/ GetConnection(w) \/ GetTimeout(w) \/ ClosePanic(w)
           \/ DialOk(w) \/ DialFail(w) \/ CountRead(w)
    PROVE  Charged'
<1> USE DEF PoolInv
<1>1. pc'[w] # "idle" \/ pc' = pc
  BY DEF GetConnection, GetTimeout, ClosePanic, DialOk, DialFail, CountRead,
         Goto, TypeOK, workerVars
<1>2. ~Settled(w)
  BY <1>1 DEF Settled
<1>3. copies' = copies /\ retry' = retry
  BY DEF GetConnection, GetTimeout, ClosePanic, DialOk, DialFail, CountRead,
         workerVars
<1>4. Second' \subseteq Second /\ Swallowed' \subseteq Swallowed
  <2>1. /\ pc[w] # "idle"
        /\ pc'[w] # "release" \/ pc' = pc
        /\ \A v \in Workers : v # w => pc'[v] = pc[v]
    BY DEF GetConnection, GetTimeout, ClosePanic, DialOk, DialFail, CountRead,
           At, Goto, TypeOK, workerVars
  <2> QED
    BY <1>3, <2>1 DEF Second, Swallowed
<1>5. Failing' \subseteq Failing
  <2>1. /\ \A v \in Workers : v # w => pc'[v] = pc[v] /\ conn'[v] = conn[v]
        /\ w \in Failing' => w \in Failing
    BY DEF GetConnection, GetTimeout, ClosePanic, DialOk, DialFail, CountRead,
           At, Goto, TypeOK, workerVars, Failing
  <2> QED
    BY <2>1 DEF Failing
<1>6. \A v \in Workers : pc[v] = "close" => pc'[v] = "close" /\ conn'[v] = conn[v]
  BY DEF GetConnection, GetTimeout, ClosePanic, DialOk, DialFail, CountRead,
         At, Goto, TypeOK, workerVars
<1>7. Spoilt' \subseteq Spoilt /\ HungUp' \subseteq HungUp
  <2>1. CASE UNCHANGED <<status, expired>>
    BY <1>6, <2>1 DEF Spoilt, HungUp
  <2>2. CASE DialOk(w)
    <3>1. PICK c \in Conns : Connect(c)
      BY <2>2 DEF DialOk
    <3>2. /\ status'[c] = "open" /\ c \notin expired'
          /\ \A d \in Conns : d # c =>
                /\ status'[d] = status[d]
                /\ d \in expired' => d \in expired
      BY <3>1 DEF Connect, TypeOK
    <3>3. ASSUME NEW d \in Conns, d \in Spoilt' PROVE d \in Spoilt
      <4>1. /\ status'[d] # "closed"
            /\ d \in expired' \/ status'[d] # "open"
            /\ \A v \in Workers : pc'[v] = "close" => conn'[v] # d
        BY <3>3 DEF Spoilt
      <4>2. d # c
        BY <3>2, <4>1
      <4>3. status'[d] = status[d] /\ (d \in expired' => d \in expired)
        BY <3>2, <4>2
      <4>4. \A v \in Workers : pc[v] = "close" => conn[v] # d
        BY <1>6, <4>1
      <4> QED
        BY <4>1, <4>3, <4>4 DEF Spoilt
    <3>4. Spoilt' \subseteq Conns
      BY DEF Spoilt
    <3>5. Spoilt' \subseteq Spoilt
      BY <3>3, <3>4
    <3>6. HungUp' \subseteq HungUp
      BY <3>2 DEF HungUp
    <3> QED
      BY <3>5, <3>6
  <2> QED
    BY <2>1, <2>2 DEF GetConnection, GetTimeout, ClosePanic, DialFail, CountRead,
                      poolVars
<1> QED
  BY <1>2, <1>4, <1>5, <1>7, StepCounts, NothingCharged DEF Charged

\* A write of a line: a connection that the backend has closed swallows it.
LEMMA WriteStep ==
    ASSUME PoolInv, Charged, NEW w \in Workers, Step(w), WriteOk(w)
    PROVE  Charged'
<1> USE DEF PoolInv
<1>1. /\ pc[w] = "write" /\ conn[w] \in Conns /\ conn' = conn /\ retry' = retry
      /\ pc' = [pc EXCEPT ![w] = "release"] /\ expired' = expired
      /\ Writable(conn[w])
  BY DEF WriteOk, At, Goto, Control
<1>2. /\ pc'[w] = "release"
      /\ \A v \in Workers : v # w => pc'[v] = pc[v]
  BY <1>1 DEF TypeOK
<1>3. ~Settled(w)
  BY <1>2 DEF Settled
<1>4. Second' \subseteq Second /\ Failing' \subseteq Failing
  BY <1>1, <1>2 DEF Second, Failing
<1>5. \A v \in Workers : pc[v] = "close" => pc'[v] = "close"
  BY <1>1, <1>2
<1>6. CASE status[conn[w]] = "open"
  <2>1. status' = status /\ copies' = [copies EXCEPT ![w] = @ + 1]
    BY <1>6 DEF WriteOk
  <2>2. Swallowed' \subseteq Swallowed
    BY <1>2, <2>1 DEF Swallowed, TypeOK
  <2>3. Spoilt' \subseteq Spoilt /\ HungUp' \subseteq HungUp
    BY <1>1, <1>5, <2>1 DEF Spoilt, HungUp
  <2> QED
    BY <1>3, <1>4, <2>2, <2>3, StepCounts, NothingCharged DEF Charged
<1>7. CASE status[conn[w]] # "open"
  <2>1. /\ status[conn[w]] = "hungup" /\ copies' = copies
        /\ \E t \in {"hungup", "reset"} : status' = [status EXCEPT ![conn[w]] = t]
    BY <1>1, <1>7 DEF WriteOk, Writable
  <2>2. hangups # 0
    BY <1>1, <2>1 DEF HungUp, Charged, LossesCharged
  <2>3. Spoilt' \subseteq Spoilt
    BY <1>1, <1>5, <2>1 DEF Spoilt, TypeOK
  <2>4. /\ Cardinality(Second') <= Cardinality(Second) /\ Cardinality(Second') \in Nat
        /\ Cardinality(Failing') <= Cardinality(Failing) /\ Cardinality(Failing') \in Nat
        /\ Cardinality(Spoilt') <= Cardinality(Spoilt) /\ Cardinality(Spoilt') \in Nat
        /\ IsFiniteSet(Spoilt')
    BY <1>4, <2>3, Counted, NoMore DEF Charged, FlushTypes
  <2> QED
    BY <1>3, <2>2, <2>4, StepCounts, Counted
       DEF Charged, FlushTypes, DropsCharged, LossesCharged
<1> QED
  BY <1>6, <1>7

\* A write that fails: the charge moves from the connection to the attempt, or
\* is a new fault when the backend stalls.
LEMMA WriteFailStep ==
    ASSUME PoolInv, Charged, NEW w \in Workers, Step(w), WriteFail(w)
    PROVE  Charged'
<1> USE DEF PoolInv
<1>1. /\ pc[w] = "write" /\ conn[w] \in Conns /\ conn' = conn /\ retry' = retry
      /\ pc' = [pc EXCEPT ![w] = "close"] /\ copies' = copies
      /\ status' = status /\ expired' = expired
  BY DEF WriteFail, At, Goto, Control, poolVars
<1>2. /\ pc'[w] = "close"
      /\ \A v \in Workers : v # w => pc'[v] = pc[v]
  BY <1>1 DEF TypeOK
<1>3. ~Settled(w)
  BY <1>2 DEF Settled
<1>4. /\ Second' \subseteq Second /\ Swallowed' \subseteq Swallowed
      /\ Failing' \subseteq Failing \cup {w} /\ HungUp' \subseteq HungUp
  BY <1>1, <1>2 DEF Second, Swallowed, Failing, HungUp
<1>5. Spoilt' \subseteq Spoilt
  BY <1>1, <1>2 DEF Spoilt
<1>6. Cardinality(Second') <= Cardinality(Second) /\ Cardinality(Second') \in Nat
  BY <1>4, Counted, NoMore DEF Charged, FlushTypes
<1>7. Cardinality(Failing') <= Cardinality(Failing) + 1 /\ Cardinality(Failing') \in Nat
  BY <1>4, Counted, OneMore DEF Charged
<1>8. CASE Writable(conn[w])
  <2>1. faults' = faults + 1
    BY <1>1, <1>2, <1>8, StepCounts DEF Faulty, Charged
  <2>2. /\ Cardinality(Spoilt') <= Cardinality(Spoilt) /\ Cardinality(Spoilt') \in Nat
        /\ IsFiniteSet(Spoilt')
    BY <1>5, NoMore DEF Charged, FlushTypes
  <2> QED
    BY <1>3, <1>4, <1>6, <1>7, <2>1, <2>2, StepCounts, Counted
       DEF Charged, FlushTypes, DropsCharged, LossesCharged
<1>9. CASE ~Writable(conn[w])
  <2>1. conn[w] \in Spoilt
    <3>1. conn[w] # NilConn
      BY <1>1, PoolAssumption
    <3>2. status[conn[w]] # "closed"
      BY <1>1, <3>1 DEF Usable
    <3>3. conn[w] \in expired \/ status[conn[w]] # "open"
      BY <1>9 DEF Writable
    <3>4. \A v \in Workers : pc[v] = "close" => conn[v] # conn[w]
      BY <1>1, <3>1 DEF ExclusiveConn
    <3> QED
      BY <1>1, <3>2, <3>3, <3>4 DEF Spoilt
  <2>2. conn[w] \notin Spoilt'
    BY <1>1, <1>2 DEF Spoilt
  <2>3. /\ Cardinality(Spoilt') + 1 <= Cardinality(Spoilt) /\ IsFiniteSet(Spoilt')
        /\ Cardinality(Spoilt') \in Nat
    BY <1>5, <2>1, <2>2, OneLess DEF Charged, FlushTypes
  <2> QED
    BY <1>3, <1>4, <1>6, <1>7, <2>3, StepCounts, Counted
       DEF Charged, FlushTypes, DropsCharged, LossesCharged
<1> QED
  BY <1>8, <1>9

\* The end of an attempt that has failed: its charge passes to the second
\* attempt, or both pass to the line that is dropped.
LEMMA AttemptFails ==
    ASSUME PoolInv, Charged, NEW w \in Workers, Step(w), EndAttempt(w, FALSE),
           w \in Failing, copies' = copies,
           Spoilt' \subseteq Spoilt, HungUp' \subseteq HungUp
    PROVE  Charged'
<1> USE DEF PoolInv
<1>1. AttemptEnded(w, FALSE)
  BY EndAttemptEffect
<1>2. /\ pc'[w] \in {"get", "idle"} /\ conn'[w] = NilConn
      /\ \A v \in Workers : v # w =>
            /\ pc'[v] = pc[v] /\ conn'[v] = conn[v] /\ retry'[v] = retry[v]
  BY <1>1 DEF AttemptEnded
<1>3. pc[w] # "idle"
  BY DEF Failing
<1>4. Failing' \subseteq Failing \ {w} /\ Swallowed' \subseteq Swallowed
  BY <1>2 DEF Failing, Swallowed
<1>5. /\ Cardinality(Failing') + 1 <= Cardinality(Failing)
      /\ Cardinality(Failing') \in Nat
  BY <1>4, Counted, OneLess DEF Charged
<1>6. /\ Cardinality(Spoilt') <= Cardinality(Spoilt) /\ Cardinality(Spoilt') \in Nat
      /\ IsFiniteSet(Spoilt')
  BY NoMore DEF Charged, FlushTypes
<1>7. HungUp = {} => HungUp' = {}
  OBVIOUS
<1>8. CASE retry[w]
  <2>1. pc'[w] = "get"
    BY <1>8 DEF EndAttempt, TriesAgain, Goto, TypeOK
  <2>2. Second' \subseteq Second \cup {w}
    BY <1>2 DEF Second
  <2>3. /\ Cardinality(Second') <= Cardinality(Second) + 1
        /\ Cardinality(Second') \in Nat
    BY <2>2, Counted, OneMore DEF Charged
  <2>4. ~Settled(w)
    BY <2>1 DEF Settled
  <2> QED
    BY <1>4, <1>5, <1>6, <1>7, <2>3, <2>4, StepCounts, Counted
       DEF Charged, FlushTypes, DropsCharged, LossesCharged
<1>9. CASE ~retry[w]
  <2>1. pc'[w] = "idle" /\ result'[w] = "dropped"
    BY <1>9 DEF EndAttempt, TriesAgain, Goto, TypeOK
  <2>2. w \in Second /\ Second' \subseteq Second \ {w}
    BY <1>2, <1>3, <1>9, <2>1 DEF Second
  <2>3. /\ Cardinality(Second') + 1 <= Cardinality(Second)
        /\ Cardinality(Second') \in Nat
    BY <2>2, Counted, OneLess DEF Charged
  <2>4. Settled(w)
    BY <1>3, <2>1 DEF Settled
  <2> QED
    BY <1>4, <1>5, <1>6, <1>7, <2>1, <2>3, <2>4, StepCounts, Counted
       DEF Charged, FlushTypes, DropsCharged, LossesCharged
<1> QED
  BY <1>8, <1>9

\* The release after a write ends the call; the line may have been swallowed.
LEMMA ReleaseStep ==
    ASSUME PoolInv, Charged, NEW w \in Workers, Step(w), Release(w)
    PROVE  Charged'
<1> USE DEF PoolInv
<1>1. /\ pc[w] = "release" /\ status' = status /\ copies' = copies
      /\ expired' = expired \ {conn[w]}
  BY DEF Release, At
<1>2. /\ pc'[w] = "idle" /\ result'[w] = "sent"
      /\ \A v \in Workers : v # w =>
            /\ pc'[v] = pc[v] /\ conn'[v] = conn[v] /\ retry'[v] = retry[v]
  <2>1. AttemptEnded(w, TRUE)
    BY EndAttemptEffect DEF Release
  <2> QED
    BY <2>1 DEF AttemptEnded
<1>3. /\ Second' \subseteq Second /\ Failing' \subseteq Failing
      /\ HungUp' \subseteq HungUp
  BY <1>1, <1>2 DEF Second, Failing, HungUp
<1>4. Spoilt' \subseteq Spoilt
  <2>1. \A v \in Workers : pc[v] = "close" => pc'[v] = "close" /\ conn'[v] = conn[v]
    BY <1>1, <1>2
  <2> QED
    BY <1>1, <2>1 DEF Spoilt
<1>5. Settled(w)
  BY <1>1, <1>2 DEF Settled
<1>6. CASE copies[w] # 0
  <2>1. Swallowed' \subseteq Swallowed
    BY <1>1, <1>2 DEF Swallowed
  <2>2. dropped' = dropped /\ lost' = lost
    BY <1>1, <1>2, <1>5, <1>6, StepCounts DEF Charged
  <2> QED
    BY <1>3, <1>4, <2>1, <2>2, StepCounts, NothingCharged DEF Charged
<1>7. CASE copies[w] = 0
  <2>1. hangups # 0
    BY <1>1, <1>7 DEF Swallowed, Charged, LossesCharged
  <2>2. dropped' = dropped /\ lost' = lost + 1
    BY <1>1, <1>2, <1>5, <1>7, StepCounts DEF Charged
  <2>3. /\ Cardinality(Second') <= Cardinality(Second) /\ Cardinality(Second') \in Nat
        /\ Cardinality(Failing') <= Cardinality(Failing) /\ Cardinality(Failing') \in Nat
    BY <1>3, Counted, NoMore DEF Charged
  <2>4. /\ Cardinality(Spoilt') <= Cardinality(Spoilt) /\ Cardinality(Spoilt') \in Nat
        /\ IsFiniteSet(Spoilt')
    BY <1>4, NoMore DEF Charged, FlushTypes
  <2> QED
    BY <2>1, <2>2, <2>3, <2>4, StepCounts, Counted
       DEF Charged, FlushTypes, DropsCharged, LossesCharged
<1> QED
  BY <1>6, <1>7

\* ReleaseConnection closes a connection whose attempt has failed.
LEMMA CloseStep ==
    ASSUME PoolInv, Charged, NEW w \in Workers, Step(w), Close(w)
    PROVE  Charged'
<1> USE DEF PoolInv
<1>1. /\ pc[w] = "close" /\ conn[w] \in Conns /\ conn[w] # NilConn
      /\ expired' = expired /\ copies' = copies
      /\ status' = [status EXCEPT ![conn[w]] = "closed"]
  BY DEF Close, At, TypeOK
<1>2. /\ status'[conn[w]] = "closed"
      /\ \A c \in Conns : c # conn[w] => status'[c] = status[c]
  BY <1>1 DEF TypeOK
<1>3. \A v \in Workers : v # w => pc'[v] = pc[v] /\ conn'[v] = conn[v]
  BY DEF Close, EndAttempt, Goto, TypeOK
<1>4. HungUp' \subseteq HungUp
  BY <1>2 DEF HungUp
<1>5. ASSUME NEW c \in Conns, c \in Spoilt' PROVE c \in Spoilt
  <2>1. /\ status'[c] # "closed"
        /\ c \in expired' \/ status'[c] # "open"
        /\ \A v \in Workers : pc'[v] = "close" => conn'[v] # c
    BY <1>5 DEF Spoilt
  <2>2. c # conn[w] /\ status'[c] = status[c]
    BY <1>2, <2>1
  <2>3. \A v \in Workers : pc[v] = "close" => conn[v] # c
    BY <1>3, <2>1, <2>2
  <2> QED
    BY <1>1, <2>1, <2>2, <2>3 DEF Spoilt
<1>6. Spoilt' \subseteq Spoilt
  <2>1. Spoilt' \subseteq Conns
    BY DEF Spoilt
  <2> QED
    BY <1>5, <2>1
<1>7. w \in Failing
  BY <1>1 DEF Failing
<1>8. CASE HasRoom
  <2>1. pc' = [pc EXCEPT ![w] = "dial"] /\ retry' = retry
    BY <1>8 DEF Close, Goto
  <2>2. pc'[w] = "dial"
    BY <2>1 DEF TypeOK
  <2>3. /\ Second' \subseteq Second /\ Swallowed' \subseteq Swallowed
        /\ Failing' \subseteq Failing
    BY <1>1, <1>3, <1>7, <2>1, <2>2 DEF Second, Swallowed, Failing
  <2>4. ~Settled(w)
    BY <2>2 DEF Settled
  <2> QED
    BY <1>4, <1>6, <2>3, <2>4, StepCounts, NothingCharged DEF Charged
<1>9. CASE ~HasRoom
  <2>1. EndAttempt(w, FALSE)
    BY <1>9 DEF Close
  <2> QED
    BY <1>1, <1>4, <1>6, <1>7, <2>1, AttemptFails
<1> QED
  BY <1>8, <1>9

\* The two other ends of a failed attempt.
LEMMA FailureStep ==
    ASSUME PoolInv, Charged, NEW w \in Workers, Step(w), Put(w) \/ CountStore(w)
    PROVE  Charged'
<1> USE DEF PoolInv
<1>1. /\ EndAttempt(w, FALSE) /\ copies' = copies
      /\ status' = status /\ expired' = expired
  BY DEF Put, CountStore, poolVars
<1>2. pc[w] \in {"put", "store"}
  BY DEF Put, CountStore, At
<1>3. \A v \in Workers : v # w => pc'[v] = pc[v] /\ conn'[v] = conn[v]
  BY <1>1 DEF EndAttempt, Goto, TypeOK
<1>4. \A v \in Workers : pc[v] = "close" => pc'[v] = "close" /\ conn'[v] = conn[v]
  BY <1>2, <1>3
<1>5. Spoilt' \subseteq Spoilt /\ HungUp' \subseteq HungUp
  BY <1>1, <1>4 DEF Spoilt, HungUp
<1>6. w \in Failing
  BY <1>2 DEF Failing
<1> QED
  BY <1>1, <1>5, <1>6, AttemptFails

-----------------------------------------------------------------------------
\* What the relay does between the calls costs nothing.
LEMMA RelayStep ==
    ASSUME PoolInv, Charged, NEW w \in Workers,
           TakeEntry(w) \/ SendLine(w) \/ DeleteEntry(w)
    PROVE  Charged'
<1> USE DEF PoolInv
<1>1. /\ UNCHANGED <<dropped, lost, faults, hangups>>
      /\ UNCHANGED <<status, expired, conn>>
  BY DEF TakeEntry, SendLine, DeleteEntry, Begin, lineVars, faultVars, vars,
         poolVars, workerVars
<1>2. CASE UNCHANGED vars
  BY <1>1, <1>2, NothingCharged
     DEF vars, workerVars, Second, Failing, Spoilt, HungUp, Swallowed, Charged,
         FlushTypes
<1>3. CASE Begin(w)
  <2>1. /\ pc[w] = "idle" /\ pc'[w] = "get" /\ retry'[w]
        /\ \A v \in Workers : v # w =>
              /\ pc'[v] = pc[v] /\ retry'[v] = retry[v] /\ copies'[v] = copies[v]
    BY <1>3 DEF Begin, At, Goto, TypeOK
  <2>2. /\ Second' \subseteq Second /\ Failing' \subseteq Failing
        /\ Swallowed' \subseteq Swallowed
    BY <1>1, <2>1 DEF Second, Failing, Swallowed
  <2>3. \A v \in Workers : pc[v] = "close" => pc'[v] = "close"
    BY <2>1
  <2>4. Spoilt' \subseteq Spoilt /\ HungUp' \subseteq HungUp
    BY <1>1, <2>3 DEF Spoilt, HungUp
  <2> QED
    BY <1>1, <2>2, <2>4, NothingCharged DEF Charged, FlushTypes
<1> QED
  BY <1>2, <1>3 DEF TakeEntry, SendLine, DeleteEntry

\* A connection that is made at the start is sound.
LEMMA StartUpStep ==
    ASSUME PoolInv, Charged, StartUp
    PROVE  Charged'
<1> USE DEF PoolInv
<1>1. /\ UNCHANGED <<dropped, lost, faults, hangups>>
      /\ UNCHANGED <<pc, conn, retry, copies>>
  BY DEF StartUp, FillOk, CreateRelay, lineVars, faultVars, workerVars
<1>2. /\ Second' \subseteq Second /\ Failing' \subseteq Failing
      /\ Swallowed' \subseteq Swallowed
  BY <1>1 DEF Second, Failing, Swallowed
<1>3. Spoilt' \subseteq Spoilt /\ HungUp' \subseteq HungUp
  <2>1. CASE CreateRelay
    BY <1>1, <2>1 DEF CreateRelay, poolVars, Spoilt, HungUp
  <2>2. CASE FillOk
    <3>1. PICK c \in Conns : Connect(c)
      BY <2>2 DEF FillOk
    <3>2. /\ status'[c] = "open" /\ c \notin expired'
          /\ \A d \in Conns : d # c =>
                /\ status'[d] = status[d]
                /\ d \in expired' => d \in expired
      BY <3>1 DEF Connect, TypeOK
    <3>3. ASSUME NEW d \in Conns, d \in Spoilt' PROVE d \in Spoilt
      <4>1. /\ status'[d] # "closed"
            /\ d \in expired' \/ status'[d] # "open"
            /\ \A v \in Workers : pc[v] = "close" => conn[v] # d
        BY <1>1, <3>3 DEF Spoilt
      <4> QED
        BY <3>2, <4>1 DEF Spoilt
    <3>4. Spoilt' \subseteq Conns
      BY DEF Spoilt
    <3>5. HungUp' \subseteq HungUp
      BY <3>2 DEF HungUp
    <3> QED
      BY <3>3, <3>4, <3>5
  <2> QED
    BY <2>1, <2>2 DEF StartUp
<1> QED
  BY <1>1, <1>2, <1>3, NothingCharged DEF Charged, FlushTypes

\* A fault spoils one connection and is charged to it.
LEMMA BreakdownStep ==
    ASSUME PoolInv, Charged, Breakdown
    PROVE  Charged'
<1> USE DEF PoolInv
<1>1. faults' = faults + 1 /\ UNCHANGED <<dropped, lost>>
  BY DEF Breakdown, lineVars
<1>2. PICK c \in Conns :
         \/ c \notin expired /\ Expire(c) /\ UNCHANGED hangups
         \/ PeerReset(c) /\ UNCHANGED hangups
         \/ PeerHangup(c) /\ hangups' = hangups + 1
  BY DEF Breakdown
<1>3. UNCHANGED <<pc, conn, retry, copies>>
  BY <1>2 DEF Expire, PeerReset, PeerHangup, Disconnect, workerVars
<1>4. \A d \in Conns : d # c =>
         /\ status'[d] = status[d]
         /\ d \in expired' => d \in expired
  BY <1>2 DEF Expire, PeerReset, PeerHangup, Disconnect, TypeOK
<1>5. Spoilt' \subseteq Spoilt \cup {c}
  <2>1. ASSUME NEW d \in Conns, d \in Spoilt', d # c PROVE d \in Spoilt
    <3>1. /\ status'[d] # "closed"
          /\ d \in expired' \/ status'[d] # "open"
          /\ \A v \in Workers : pc[v] = "close" => conn[v] # d
      BY <1>3, <2>1 DEF Spoilt
    <3> QED
      BY <1>4, <2>1, <3>1 DEF Spoilt
  <2>2. Spoilt' \subseteq Conns
    BY DEF Spoilt
  <2> QED
    BY <2>1, <2>2
<1>6. /\ Cardinality(Spoilt') <= Cardinality(Spoilt) + 1
      /\ Cardinality(Spoilt') \in Nat /\ IsFiniteSet(Spoilt')
  BY <1>5, OneMore DEF Charged, FlushTypes
<1>7. /\ Second' = Second /\ Failing' = Failing /\ Swallowed' = Swallowed
  BY <1>3 DEF Second, Failing, Swallowed
<1>8. hangups' \in Nat /\ (hangups' = 0 => hangups = 0 /\ HungUp' \subseteq HungUp)
  <2>1. CASE PeerHangup(c) /\ hangups' = hangups + 1
    BY <2>1 DEF Charged, FlushTypes
  <2>2. CASE (Expire(c) \/ PeerReset(c)) /\ UNCHANGED hangups
    <3>1. status'[c] = "hungup" => status[c] = "hungup"
      BY <2>2 DEF Expire, PeerReset, Disconnect, TypeOK
    <3>2. HungUp' \subseteq HungUp
      BY <1>4, <3>1 DEF HungUp
    <3> QED
      BY <2>2, <3>2 DEF Charged, FlushTypes
  <2> QED
    BY <1>2, <2>1, <2>2
<1> QED
  BY <1>1, <1>6, <1>7, <1>8, Counted
     DEF Charged, FlushTypes, DropsCharged, LossesCharged

\* Every step of a flush keeps each fault charged once.
LEMMA ChargedStep == PoolInv /\ Charged /\ [FlushNext]_allVars => Charged'
<1> SUFFICES ASSUME PoolInv, Charged, [FlushNext]_allVars PROVE Charged'
  OBVIOUS
<1>1. ASSUME NEW w \in Workers, WorkerStep(w) PROVE Charged'
  <2>1. CASE TakeEntry(w) \/ SendLine(w) \/ DeleteEntry(w)
    BY <2>1, RelayStep
  <2>2. CASE Step(w)
    <3>1. SendStep(w)
      BY <2>2 DEF Step
    <3> QED
      BY <2>2, <3>1, QuietStep, WriteStep, WriteFailStep, ReleaseStep, CloseStep,
         FailureStep DEF SendStep
  <2> QED
    BY <1>1, <2>1, <2>2 DEF WorkerStep
<1>2. CASE UNCHANGED allVars
  BY <1>2, NothingCharged
     DEF allVars, vars, poolVars, workerVars, lineVars, faultVars, Second,
         Failing, Spoilt, HungUp, Swallowed, Charged, FlushTypes
<1> QED
  BY <1>1, <1>2, StartUpStep, BreakdownStep DEF FlushNext

\* Before the first step there is neither a fault nor a connection.
LEMMA InitCharged == FlushInit => Charged
<1> SUFFICES ASSUME FlushInit PROVE Charged
  OBVIOUS
<1>1. /\ Second = {} /\ Failing = {} /\ Spoilt = {} /\ HungUp = {} /\ Swallowed = {}
  BY DEF FlushInit, Init, Second, Failing, Spoilt, HungUp, Swallowed
<1>2. IsFiniteSet({}) /\ Cardinality({}) = 0
  BY FS_EmptySet
<1> QED
  BY <1>1, <1>2 DEF FlushInit, Charged, FlushTypes, DropsCharged, LossesCharged

\* What is charged bounds what is lost.
LEMMA ChargedBounds == Charged => LossBounded
BY Counted DEF Charged, FlushTypes, DropsCharged, LossesCharged, LossBounded

\* No line is dropped for fewer than two faults and none vanishes unless the
\* backend has hung up, in any flush of any number of workers over the pool: the
\* one retry of sendCarbonMetric absorbs every single fault that does not end the
\* process.
THEOREM LossesBounded == FlushSpec => []LossBounded
<1>1. FlushSpec => []PoolInv
  BY FlushImplementsPool, TypeCorrect, ExclusiveAndUsable, SentAtMostOnce, PTL
     DEF PoolInv
<1>2. FlushSpec => []Charged
  BY <1>1, InitCharged, ChargedStep, PTL DEF FlushSpec
<1> QED
  BY <1>2, ChargedBounds, PTL

-----------------------------------------------------------------------------
(***************************************************************************)
(* No line is forgotten or sent for twice.                                 *)
(***************************************************************************)

\* An entry is in the hands of its owner at most, and only a worker with an entry
\* has lines left to send.
Hands ==
    /\ delivered \in Nat /\ dropped \in Nat /\ lost \in Nat
    /\ store \subseteq Metrics
    /\ current \in [Workers -> SUBSET Metrics]
    /\ left \in [Workers -> Nat]
    /\ \A w \in Workers : /\ current[w] \subseteq Entries(w)
                          /\ current[w] = {} => left[w] = 0

Accounting == Hands /\ LinesAccounted

\* An entry makes a number of lines.
LEMMA LineCountType == LineCount \in [Metrics -> Nat]
<1> SUFFICES ASSUME NEW m \in Metrics PROVE SeriesLength(m) \in Nat
  BY DEF LineCount
<1>1. Percentiles \in Nat /\ TypeOf(m) \in {"counter", "gauge", "set", "timer"}
  BY FlushAssumption
<1>2. CASE TypeOf(m) \in {"gauge", "set"}
  BY <1>2 DEF SeriesLength
<1>3. CASE TypeOf(m) = "counter"
  BY <1>3 DEF SeriesLength
<1>4. CASE TypeOf(m) = "timer"
  BY <1>1, <1>4 DEF SeriesLength
<1> QED
  BY <1>1, <1>2, <1>3, <1>4

\* The sums and the number of calls are numbers.
LEMMA SumsAreNumbers ==
    ASSUME Hands
    PROVE  /\ SumFunction(LineCount) \in Int
           /\ SumFunctionOnSet(LineCount, Waiting) \in Int
           /\ SumFunction(left) = SumFunctionOnSet(left, Workers)
           /\ SumFunction(left) \in Int
           /\ IsFiniteSet(InCall) /\ Cardinality(InCall) \in Nat
           /\ IsFiniteSet(Waiting) /\ Waiting \subseteq Metrics
<1>1. /\ IsFiniteSet(Metrics) /\ DOMAIN LineCount = Metrics
      /\ \A m \in Metrics : LineCount[m] \in Int
  BY FlushAssumption, LineCountType
<1>2. SumFunction(LineCount) \in Int
  BY <1>1, SumType DEF SumFunction
<1>3. IsFiniteSet(Waiting) /\ Waiting \subseteq Metrics
  BY <1>1, FS_Subset DEF Hands, Waiting
<1>4. SumFunctionOnSet(LineCount, Waiting) \in Int
  BY <1>1, <1>3, SumType
<1>5. IsFiniteSet(Workers)
  BY PoolAssumption
<1>6. DOMAIN left = Workers /\ \A w \in Workers : left[w] \in Int
  BY DEF Hands
<1>7. SumFunction(left) = SumFunctionOnSet(left, Workers)
  BY <1>6 DEF SumFunction
<1>8. SumFunctionOnSet(left, Workers) \in Int
  BY <1>5, <1>6, SumType
<1>9. IsFiniteSet(InCall) /\ Cardinality(InCall) \in Nat
  BY <1>5, FS_Subset, FS_CardinalityType DEF InCall
<1> QED
  BY <1>2, <1>3, <1>4, <1>7, <1>8, <1>9

\* A worker's lines change by d, those of the others do not.
LEMMA LeftChanges ==
    ASSUME Hands, Hands', NEW w \in Workers,
           \A v \in Workers : v # w => left'[v] = left[v]
    PROVE  SumFunction(left') = SumFunction(left) - left[w] + left'[w]
<1>1. IsFiniteSet(Workers)
  BY PoolAssumption
<1>2. \A v \in Workers : left[v] \in Int /\ left'[v] \in Int
  BY DEF Hands
<1>3. \A v \in Workers \ {w} : left[v] = left'[v]
  OBVIOUS
<1> DEFINE f == left  g == left'
<1>4. SumFunctionOnSet(g, Workers) = SumFunctionOnSet(f, Workers) - f[w] + g[w]
  <2> HIDE DEF f, g
  <2> SUFFICES /\ \A v \in Workers : f[v] \in Int /\ g[v] \in Int
               /\ \A v \in Workers \ {w} : f[v] = g[v]
    BY <1>1, SumChange
  <2> QED
    BY <1>2, <1>3 DEF f, g
<1>5. DOMAIN left = Workers /\ DOMAIN left' = Workers
  BY DEF Hands
<1> QED
  BY <1>4, <1>5 DEF SumFunction

\* Relay begins with an entry: its lines are now those left to its worker.
LEMMA TakeCounts ==
    ASSUME Accounting, NEW w \in Workers, TakeEntry(w)
    PROVE  Accounting'
<1> USE DEF Accounting
<1>1. PICK m \in Entries(w) : /\ current' = [current EXCEPT ![w] = {m}]
                              /\ left' = [left EXCEPT ![w] = SeriesLength(m)]
  BY DEF TakeEntry
<1>2. /\ m \in Metrics /\ m \in store /\ OwnerOf(m) = w
      /\ current[w] = {} /\ left[w] = 0
  BY DEF Hands, Entries, TakeEntry
<1>3. SeriesLength(m) \in Nat /\ LineCount[m] = SeriesLength(m)
  BY <1>2, LineCountType DEF LineCount
<1>4. Hands'
  BY <1>1, <1>2, <1>3 DEF Hands, Entries, TakeEntry, lineVars
<1>5. m \in Waiting /\ Waiting' = Waiting \ {m}
  <2>1. \A v \in Workers : v # w => m \notin current[v]
    BY <1>2 DEF Hands, Entries
  <2>2. /\ current'[w] = {m}
        /\ \A v \in Workers : v # w => current'[v] = current[v]
    BY <1>1 DEF Hands
  <2>3. store' = store
    BY DEF TakeEntry
  <2> QED
    BY <1>2, <2>1, <2>2, <2>3 DEF Waiting
<1>6. SumFunctionOnSet(LineCount, Waiting)
        = SeriesLength(m) + SumFunctionOnSet(LineCount, Waiting')
  <2>1. \A x \in Waiting : LineCount[x] \in Int
    BY LineCountType, SumsAreNumbers
  <2> QED
    BY <1>3, <1>5, <2>1, SumsAreNumbers, SumRemove
<1>7. SumFunction(left') = SumFunction(left) + SeriesLength(m)
  <2>1. left'[w] = SeriesLength(m) /\ \A v \in Workers : v # w => left'[v] = left[v]
    BY <1>1 DEF Hands
  <2>2. SumFunction(left') = SumFunction(left) - left[w] + left'[w]
    BY <1>4, <2>1, LeftChanges
  <2> QED
    BY <1>2, <1>3, <2>1, <2>2, SumsAreNumbers
<1>8. InCall' = InCall /\ UNCHANGED lineVars
  BY DEF TakeEntry, InCall, vars, workerVars
<1>9. SumFunctionOnSet(LineCount, Waiting') \in Int
  <2>1. /\ IsFiniteSet(Waiting \ {m})
        /\ \A x \in Waiting \ {m} : LineCount[x] \in Int
    BY LineCountType, SumsAreNumbers, FS_Subset
  <2> QED
    BY <1>5, <2>1, SumType
<1> QED
  BY <1>3, <1>4, <1>6, <1>7, <1>8, <1>9, SumsAreNumbers
     DEF LinesAccounted, lineVars, LineCount, Hands

\* A call of sendCarbonMetric begins for one of the lines left.
LEMMA SendCounts ==
    ASSUME PoolInv, Accounting, NEW w \in Workers, SendLine(w)
    PROVE  Accounting'
<1> USE DEF Accounting
<1>1. /\ left[w] > 0 /\ left' = [left EXCEPT ![w] = @ - 1]
      /\ UNCHANGED <<store, current, lineVars>>
      /\ pc[w] = "idle" /\ pc' = [pc EXCEPT ![w] = "get"]
  BY DEF SendLine, Begin, At, Goto
<1>2. Hands'
  BY <1>1 DEF Hands, Entries, lineVars
<1>3. SumFunction(left') = SumFunction(left) - 1
  <2>1. left'[w] = left[w] - 1 /\ \A v \in Workers : v # w => left'[v] = left[v]
    BY <1>1 DEF Hands
  <2>2. SumFunction(left') = SumFunction(left) - left[w] + left'[w]
    BY <1>2, <2>1, LeftChanges
  <2>3. left[w] \in Nat
    BY DEF Hands
  <2> QED
    BY <2>1, <2>2, <2>3, SumsAreNumbers
<1>4. Cardinality(InCall') = Cardinality(InCall) + 1
  <2>1. w \notin InCall /\ InCall' = InCall \cup {w}
    BY <1>1 DEF InCall, PoolInv, TypeOK
  <2> QED
    BY <2>1, FS_AddElement, SumsAreNumbers
<1>5. Waiting' = Waiting
  BY <1>1 DEF Waiting
<1> QED
  BY <1>1, <1>2, <1>3, <1>4, <1>5, SumsAreNumbers
     DEF LinesAccounted, lineVars, LineCount, Hands

\* A call goes on, or ends with exactly one fate for its line.
LEMMA StepCountsLine ==
    ASSUME PoolInv, PoolInv', Accounting, NEW w \in Workers, Step(w)
    PROVE  Accounting'
<1> USE DEF Accounting
<1>1. /\ pc[w] # "idle" /\ \A v \in Workers : v # w => pc'[v] = pc[v]
      /\ pc'[w] = "idle" => result'[w] \in {"sent", "dropped"}
  <2>1. CASE \E sent \in BOOLEAN : EndAttempt(w, sent)
    <3>1. PICK sent \in BOOLEAN : AttemptEnded(w, sent)
      BY <2>1, EndAttemptEffect DEF PoolInv
    <3> QED
      BY <3>1 DEF Step, SendStep, Release, Close, CountStore, Put, GetConnection,
         GetTimeout, WriteOk, WriteFail, ClosePanic, DialOk, DialFail, CountRead,
         At, AttemptEnded
  <2>2. CASE ~(\E sent \in BOOLEAN : EndAttempt(w, sent))
    <3>1. pc[w] # "idle"
      BY DEF Step, SendStep, Release, Close, CountStore, Put, GetConnection,
         GetTimeout, WriteOk, WriteFail, ClosePanic, DialOk, DialFail, CountRead, At
    <3>2. pc' = pc \/ \E label \in States \ {"idle"} : pc' = [pc EXCEPT ![w] = label]
      <4>1. CASE GetConnection(w) \/ GetTimeout(w) \/ WriteOk(w) \/ WriteFail(w)
        BY <4>1 DEF GetConnection, GetTimeout, WriteOk, WriteFail, Goto, States
      <4>2. CASE ClosePanic(w)
        BY <4>2 DEF ClosePanic, workerVars
      <4>3. CASE DialOk(w) \/ DialFail(w) \/ CountRead(w)
        BY <4>3 DEF DialOk, DialFail, CountRead, Goto, States
      <4>4. CASE Close(w)
        BY <2>2, <4>4 DEF Close, Goto, States
      <4>5. CASE Release(w) \/ CountStore(w) \/ Put(w)
        BY <2>2, <4>5 DEF Release, CountStore, Put
      <4> QED
        BY <4>1, <4>2, <4>3, <4>4, <4>5 DEF Step, SendStep
    <3>3. pc \in [Workers -> States]
      BY DEF PoolInv, TypeOK
    <3> QED
      BY <3>1, <3>2, <3>3
  <2> QED
    BY <2>1, <2>2
<1>2. /\ copies'[w] \in Nat /\ copies'[w] <= 1
      /\ result'[w] = "dropped" => copies'[w] = 0
  BY DEF PoolInv, TypeOK, AtMostOnce
<1>3. /\ UNCHANGED <<store, current, left>>
      /\ delivered' = delivered + (IF Settled(w) THEN copies'[w] ELSE 0)
      /\ dropped' = dropped + (IF Settled(w) /\ result'[w] = "dropped" THEN 1 ELSE 0)
      /\ lost' = lost + (IF Settled(w) /\ result'[w] = "sent" /\ copies'[w] = 0
                           THEN 1 ELSE 0)
  BY DEF Step, flushVars
<1>4. Hands'
  BY <1>2, <1>3 DEF Hands, Entries
<1>5. Waiting' = Waiting
  BY <1>3 DEF Waiting
<1>6. CASE Settled(w)
  <2>1. w \in InCall /\ InCall' = InCall \ {w}
    BY <1>1, <1>6 DEF InCall, Settled
  <2>2. Cardinality(InCall') = Cardinality(InCall) - 1
    BY <2>1, FS_RemoveElement, SumsAreNumbers
  <2>3. delivered' + dropped' + lost' = delivered + dropped + lost + 1
    <3>1. result'[w] \in {"sent", "dropped"}
      BY <1>1, <1>6 DEF Settled
    <3>2. copies'[w] \in {0, 1}
      BY <1>2
    <3>3. delivered \in Nat /\ dropped \in Nat /\ lost \in Nat
      BY DEF Hands
    <3>4. CASE result'[w] = "dropped"
      BY <1>2, <1>3, <1>6, <3>3, <3>4
    <3>5. CASE result'[w] = "sent" /\ copies'[w] = 0
      BY <1>3, <1>6, <3>3, <3>5
    <3>6. CASE result'[w] = "sent" /\ copies'[w] = 1
      BY <1>3, <1>6, <3>3, <3>6
    <3> QED
      BY <3>1, <3>2, <3>4, <3>5, <3>6
  <2> QED
    BY <1>3, <1>4, <1>5, <2>2, <2>3, SumsAreNumbers
       DEF LinesAccounted, LineCount, Hands
<1>7. CASE ~Settled(w)
  <2>1. InCall' = InCall
    BY <1>1, <1>7 DEF InCall, Settled
  <2>2. delivered' = delivered /\ dropped' = dropped /\ lost' = lost
    BY <1>3, <1>7 DEF Hands
  <2> QED
    BY <1>3, <1>4, <1>5, <2>1, <2>2 DEF LinesAccounted, LineCount
<1> QED
  BY <1>6, <1>7

\* RelayAllMetrics deletes the entry when none of its lines is left.
LEMMA DeleteCounts ==
    ASSUME Accounting, NEW w \in Workers, DeleteEntry(w)
    PROVE  Accounting'
<1> USE DEF Accounting
<1>1. /\ left[w] = 0 /\ store' = store \ current[w]
      /\ current' = [current EXCEPT ![w] = {}]
      /\ UNCHANGED <<left, lineVars>> /\ InCall' = InCall
  BY DEF DeleteEntry, vars, workerVars, InCall
<1>2. \A v \in Workers : v # w => current[v] \cap current[w] = {}
  BY DEF Hands, Entries
<1>3. /\ current'[w] = {}
      /\ \A v \in Workers : v # w => current'[v] = current[v]
  BY <1>1 DEF Hands
<1>4. Hands'
  BY <1>1, <1>2, <1>3 DEF Hands, Entries, lineVars
<1>5. Waiting' = Waiting
  BY <1>1, <1>2, <1>3 DEF Waiting
<1> QED
  BY <1>1, <1>4, <1>5 DEF LinesAccounted, lineVars, LineCount

\* Each step of the flush and of the pool below it keeps the account.
LEMMA AccountingStep ==
    PoolInv /\ PoolInv' /\ Accounting /\ [FlushNext]_allVars => Accounting'
<1> SUFFICES ASSUME PoolInv, PoolInv', Accounting, [FlushNext]_allVars
             PROVE  Accounting'
  OBVIOUS
<1>1. ASSUME NEW w \in Workers, WorkerStep(w) PROVE Accounting'
  BY <1>1, TakeCounts, SendCounts, StepCountsLine, DeleteCounts DEF WorkerStep
<1>2. CASE StartUp \/ Breakdown \/ UNCHANGED allVars
  <2>1. UNCHANGED <<store, current, left, delivered, dropped, lost, pc>>
    BY <1>2 DEF StartUp, Breakdown, FillOk, CreateRelay, Expire, PeerReset,
                PeerHangup, Disconnect, allVars, vars, workerVars, flushVars, lineVars
  <2> QED
    BY <2>1 DEF Accounting, Hands, Entries, LinesAccounted, Waiting, InCall, LineCount
<1> QED
  BY <1>1, <1>2 DEF FlushNext

\* Before the flush every line is waiting.
LEMMA InitAccounting == FlushInit => Accounting
<1> SUFFICES ASSUME FlushInit PROVE Accounting
  OBVIOUS
<1>1. Hands
  BY DEF FlushInit, Hands
<1>2. Waiting = Metrics /\ InCall = {}
  BY DEF FlushInit, Init, Waiting, InCall
<1>3. SumFunction(left) = 0
  <2>1. DOMAIN left = Workers /\ \A w \in Workers : left[w] = 0
    BY DEF FlushInit
  <2> QED
    BY <2>1, PoolAssumption, SumZero DEF SumFunction
<1>4. SumFunctionOnSet(LineCount, Waiting) = SumFunction(LineCount)
  BY <1>2, LineCountType DEF SumFunction
<1> QED
  BY <1>1, <1>2, <1>3, <1>4, SumsAreNumbers, FS_EmptySet
     DEF Accounting, LinesAccounted, FlushInit

\* Every line of every entry is sent for once and has one fate, in any flush of
\* any number of workers over the pool (Relay's calls, RelayAllMetrics).
THEOREM LinesCounted == FlushSpec => []LinesAccounted
<1>1. FlushSpec => []PoolInv
  BY FlushImplementsPool, TypeCorrect, ExclusiveAndUsable, SentAtMostOnce, PTL
     DEF PoolInv
<1>2. FlushSpec => []Accounting
  BY <1>1, InitAccounting, AccountingStep, PTL DEF FlushSpec
<1> QED
  BY <1>2, PTL DEF Accounting
=============================================================================
