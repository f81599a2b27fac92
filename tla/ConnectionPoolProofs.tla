------------------------ MODULE ConnectionPoolProofs ------------------------
(***************************************************************************)
(* Proofs about ConnectionPool for every number of workers and connections *)
(* and every set of faults.                                                *)
(***************************************************************************)
EXTENDS ConnectionPool, FiniteSetTheorems, TLAPS

\* Where the program counters stand in each phase, and what the local variables
\* of sendCarbonMetric hold at each of its steps.
Control ==
    /\ phase = "starting" => \A w \in Workers : pc[w] = "idle"
    /\ phase # "starting" => made = Size
    /\ \A w \in Workers :
          /\ pc[w] \in {"write", "release", "put"} => conn[w] \in Conns
          /\ pc[w] \in {"idle", "get", "dial", "count", "store"}
                => conn[w] = NilConn
          /\ pc[w] # "idle" => result[w] = "none"

\* What the end of an attempt does to its worker's local variables.
AttemptEnded(w, sent) ==
    /\ pc' \in [Workers -> States]
    /\ conn' \in [Workers -> Conns \cup {NilConn}]
    /\ retry' \in [Workers -> BOOLEAN]
    /\ result' \in [Workers -> {"none", "sent", "dropped"}]
    /\ pc'[w] \in {"get", "idle"} /\ conn'[w] = NilConn
    /\ pc'[w] = "get" => result'[w] = result[w] /\ ~sent
    /\ pc'[w] = "idle" => result'[w] = IF sent THEN "sent" ELSE "dropped"
    /\ \A v \in Workers : v # w =>
          /\ pc'[v] = pc[v] /\ conn'[v] = conn[v]
          /\ retry'[v] = retry[v] /\ result'[v] = result[v]

\* EndAttempt moves its worker to "get" or "idle", frees its connection and
\* leaves the other workers alone.
LEMMA EndAttemptEffect ==
    ASSUME TypeOK, NEW w \in Workers, NEW sent \in BOOLEAN, EndAttempt(w, sent)
    PROVE  AttemptEnded(w, sent)
<1>1. CASE TriesAgain(w, sent)
  BY <1>1 DEF TypeOK, States, EndAttempt, TriesAgain, Goto, AttemptEnded
<1>2. CASE ~TriesAgain(w, sent)
  BY <1>2 DEF TypeOK, States, EndAttempt, TriesAgain, Goto, AttemptEnded
<1> QED
  BY <1>1, <1>2

\* Each step preserves the types.
LEMMA TypeStep == TypeOK /\ Control /\ [Next]_vars => TypeOK'
<1> SUFFICES ASSUME TypeOK, Control, [Next]_vars PROVE TypeOK'
  OBVIOUS
<1>0. Size \in Nat
  BY PoolAssumption
<1>1. CASE FillOk
  BY <1>0, <1>1 DEF FillOk, HasRoom, Connect, TypeOK, workerVars, countVars
<1>2. CASE FillFail
  BY <1>0, <1>2 DEF FillFail, TypeOK, poolVars, workerVars
<1>3. CASE CreateRelay
  BY <1>3 DEF CreateRelay, TypeOK, poolVars, workerVars, countVars
<1>4. ASSUME NEW w \in Workers, Begin(w) PROVE TypeOK'
  BY <1>4 DEF Begin, Goto, States, TypeOK, poolVars, countVars
<1>5. ASSUME NEW w \in Workers, SendStep(w) PROVE TypeOK'
  <2>1. CASE GetConnection(w)
    BY <2>1 DEF GetConnection, Goto, States, TypeOK, countVars
  <2>2. CASE GetTimeout(w)
    BY <2>2 DEF GetTimeout, Goto, States, TypeOK, poolVars, countVars
  <2>3. CASE WriteOk(w)
    <3>1. conn[w] \in Conns
      BY <2>3 DEF WriteOk, At, Control, TypeOK
    <3>2. pc' \in [Workers -> States]
      BY <2>3 DEF WriteOk, Goto, States, TypeOK
    <3>3. /\ copies' \in [Workers -> Nat]
          /\ status' \in [Conns -> {"closed", "open", "hungup", "reset"}]
      <4>1. CASE status[conn[w]] = "open"
        <5>1. copies' = [copies EXCEPT ![w] = @ + 1] /\ status' = status
          BY <2>3, <4>1 DEF WriteOk
        <5> QED
          BY <5>1 DEF TypeOK
      <4>2. CASE status[conn[w]] # "open"
        <5>1. /\ copies' = copies
              /\ \E s \in {"hungup", "reset"} : status' = [status EXCEPT ![conn[w]] = s]
          BY <2>3, <4>2 DEF WriteOk
        <5> QED
          BY <3>1, <5>1 DEF TypeOK
      <4> QED
        BY <4>1, <4>2
    <3> QED
      BY <2>3, <3>2, <3>3 DEF WriteOk, TypeOK, countVars
  <2>4. CASE WriteFail(w)
    BY <2>4 DEF WriteFail, Goto, States, TypeOK, poolVars, countVars
  <2>5. CASE Release(w)
    <3>1. AttemptEnded(w, TRUE)
      BY <2>5, EndAttemptEffect DEF Release
    <3>2. conn[w] \in Conns
      BY <2>5 DEF Release, At, Control
    <3> QED
      BY <2>5, <3>1, <3>2 DEF Release, AttemptEnded, TypeOK, countVars
  <2>6. CASE ClosePanic(w)
    BY <2>6 DEF ClosePanic, TypeOK, poolVars, workerVars, countVars
  <2>7. CASE Close(w)
    <3>1. /\ pc' \in [Workers -> States]
          /\ conn' \in [Workers -> Conns \cup {NilConn}]
          /\ retry' \in [Workers -> BOOLEAN]
          /\ result' \in [Workers -> {"none", "sent", "dropped"}]
      <4>1. CASE HasRoom
        BY <2>7, <4>1 DEF Close, Goto, States, TypeOK
      <4>2. CASE ~HasRoom
        <5>1. AttemptEnded(w, FALSE)
          BY <2>7, <4>2, EndAttemptEffect DEF Close
        <5> QED
          BY <5>1 DEF AttemptEnded
      <4> QED
        BY <4>1, <4>2
    <3> QED
      BY <2>7, <3>1 DEF Close, TypeOK, countVars
  <2>8. CASE DialOk(w)
    BY <2>8 DEF DialOk, Connect, Goto, States, TypeOK, countVars
  <2>9. CASE DialFail(w)
    BY <2>9 DEF DialFail, Goto, States, TypeOK, poolVars, countVars
  <2>10. CASE CountRead(w)
    BY <2>10 DEF CountRead, Goto, States, TypeOK, poolVars
  <2>11. CASE CountStore(w)
    <3>1. AttemptEnded(w, FALSE)
      BY <2>11, EndAttemptEffect DEF CountStore
    <3> QED
      BY <2>11, <3>1 DEF CountStore, AttemptEnded, TypeOK, poolVars
  <2>12. CASE Put(w)
    <3>1. AttemptEnded(w, FALSE)
      BY <2>12, EndAttemptEffect DEF Put
    <3>2. conn[w] \in Conns
      BY <2>12 DEF Put, At, Control
    <3> QED
      BY <2>12, <3>1, <3>2 DEF Put, AttemptEnded, TypeOK, countVars
  <2> QED
    BY <1>5, <2>1, <2>2, <2>3, <2>4, <2>5, <2>6, <2>7, <2>8, <2>9, <2>10,
       <2>11, <2>12 DEF SendStep
<1>6. CASE Environment
  BY <1>6 DEF Environment, Expire, PeerHangup, PeerReset, Disconnect, TypeOK,
              workerVars, countVars
<1>7. CASE Dead \/ UNCHANGED vars
  BY <1>7 DEF Dead, vars, TypeOK, poolVars, workerVars, countVars
<1> QED
  BY <1>1, <1>2, <1>3, <1>4, <1>5, <1>6, <1>7 DEF Next

\* Each step preserves the values the local variables have.
LEMMA ControlStep == TypeOK /\ Control /\ [Next]_vars => Control'
<1> SUFFICES ASSUME TypeOK, Control, [Next]_vars PROVE Control'
  OBVIOUS
<1>1. CASE FillOk
  BY <1>1 DEF FillOk, Control, workerVars
<1>2. CASE FillFail
  BY <1>2 DEF FillFail, Control, workerVars
<1>3. CASE CreateRelay
  BY <1>3 DEF CreateRelay, Control, workerVars
<1>4. ASSUME NEW w \in Workers, Begin(w) PROVE Control'
  BY <1>4 DEF Begin, At, Goto, TypeOK, Control
<1>5. ASSUME NEW w \in Workers, SendStep(w) PROVE Control'
  <2>1. CASE GetConnection(w)
    BY <2>1 DEF GetConnection, At, Goto, TypeOK, Control
  <2>2. CASE GetTimeout(w)
    BY <2>2 DEF GetTimeout, At, Goto, TypeOK, Control
  <2>3. CASE WriteOk(w)
    BY <2>3 DEF WriteOk, At, Goto, TypeOK, Control
  <2>4. CASE WriteFail(w)
    BY <2>4 DEF WriteFail, At, Goto, TypeOK, Control
  <2>5. CASE Release(w)
    <3>1. AttemptEnded(w, TRUE)
      BY <2>5, EndAttemptEffect DEF Release
    <3> QED
      BY <2>5, <3>1 DEF Release, At, AttemptEnded, Control
  <2>6. CASE ClosePanic(w)
    BY <2>6 DEF ClosePanic, At, Control, workerVars
  <2>7. CASE Close(w)
    <3>1. CASE HasRoom
      BY <2>7, <3>1 DEF Close, At, Goto, TypeOK, Control
    <3>2. CASE ~HasRoom
      <4>1. AttemptEnded(w, FALSE)
        BY <2>7, <3>2, EndAttemptEffect DEF Close
      <4> QED
        BY <2>7, <4>1 DEF Close, At, AttemptEnded, Control
    <3> QED
      BY <3>1, <3>2
  <2>8. CASE DialOk(w)
    BY <2>8 DEF DialOk, At, Goto, TypeOK, Control
  <2>9. CASE DialFail(w)
    BY <2>9 DEF DialFail, At, Goto, TypeOK, Control
  <2>10. CASE CountRead(w)
    BY <2>10 DEF CountRead, At, Goto, TypeOK, Control
  <2>11. CASE CountStore(w)
    <3>1. AttemptEnded(w, FALSE)
      BY <2>11, EndAttemptEffect DEF CountStore
    <3> QED
      BY <2>11, <3>1 DEF CountStore, At, AttemptEnded, Control
  <2>12. CASE Put(w)
    <3>1. AttemptEnded(w, FALSE)
      BY <2>12, EndAttemptEffect DEF Put
    <3> QED
      BY <2>12, <3>1 DEF Put, At, AttemptEnded, Control
  <2> QED
    BY <1>5, <2>1, <2>2, <2>3, <2>4, <2>5, <2>6, <2>7, <2>8, <2>9, <2>10,
       <2>11, <2>12 DEF SendStep
<1>6. CASE Environment
  BY <1>6 DEF Environment, Expire, PeerHangup, PeerReset, Disconnect, Control,
              workerVars
<1>7. CASE Dead \/ UNCHANGED vars
  BY <1>7 DEF Dead, vars, Control, workerVars
<1> QED
  BY <1>1, <1>2, <1>3, <1>4, <1>5, <1>6, <1>7 DEF Next

\* The types hold in every state, and so do the values that the local variables
\* of sendCarbonMetric have at each of its steps.
THEOREM TypeCorrect == Spec => [](TypeOK /\ Control)
<1>1. Init => TypeOK /\ Control
  BY PoolAssumption DEF Init, TypeOK, Control, States
<1>2. (TypeOK /\ Control) /\ [Next]_vars => (TypeOK /\ Control)'
  BY TypeStep, ControlStep
<1> QED
  BY <1>1, <1>2, PTL DEF Spec

-----------------------------------------------------------------------------
(***************************************************************************)
(* The accounting of connections.                                          *)
(***************************************************************************)

\* The workers that hold a connection are finitely many, fewer than all when
\* one of them holds none, at least one when one of them does.
LEMMA HoldersBounded ==
    /\ IsFiniteSet(Holders)
    /\ Cardinality(Holders) \in 0 .. Size
    /\ \A w \in Workers : w \notin Holders => Cardinality(Holders) < Size
    /\ \A w \in Holders : Cardinality(Holders) >= 1
<1>1. IsFiniteSet(Holders) /\ Cardinality(Holders) <= Size
  BY PoolAssumption, FS_Subset DEF Holders
<1>2. Cardinality(Holders) \in Nat /\ Size \in Nat
  BY <1>1, FS_CardinalityType, PoolAssumption
<1>3. ASSUME NEW w \in Workers, w \notin Holders
      PROVE  Cardinality(Holders) < Size
  <2>1. Holders # Workers /\ Holders \in SUBSET Workers
    BY <1>3 DEF Holders
  <2>2. Cardinality(Workers) # Cardinality(Holders)
    BY <2>1, PoolAssumption, FS_Subset
  <2> QED
    BY <2>2, <1>1, <1>2, PoolAssumption
<1>4. ASSUME NEW w \in Holders PROVE Cardinality(Holders) >= 1
  BY <1>1, <1>2, <1>4, FS_EmptySet
<1> QED
  BY <1>1, <1>2, <1>3, <1>4

\* A step at which one worker takes or gives up its slot.
LEMMA HoldersMove ==
    ASSUME NEW w \in Workers
    PROVE  /\ Holders' = Holders \cup {w} /\ w \notin Holders
                 => Cardinality(Holders') = Cardinality(Holders) + 1
           /\ Holders' = Holders \ {w} /\ w \in Holders
                 => Cardinality(Holders') = Cardinality(Holders) - 1
<1>1. IsFiniteSet(Holders)
  BY HoldersBounded
<1> QED
  BY <1>1, FS_AddElement, FS_RemoveElement

\* The end of an attempt gives up the worker's slot and touches no other.
LEMMA HoldersAfterAttempt ==
    ASSUME TypeOK, NEW w \in Workers, NEW sent \in BOOLEAN, AttemptEnded(w, sent)
    PROVE  Holders' = Holders \ {w}
BY DEF AttemptEnded, Holders, HoldsSlot, TypeOK

\* What every step of a call does to the accounting.
LEMMA SlotSendStep ==
    ASSUME TypeOK, Control, SlotAccounting, NEW w \in Workers, SendStep(w)
    PROVE  SlotAccounting'
<1>0. /\ Len(connections) \in Nat
      /\ Cardinality(Holders) \in Nat
      /\ failures \in Nat /\ made \in Nat /\ Size \in Nat
  BY HoldersBounded, PoolAssumption DEF TypeOK
<1> USE DEF SlotAccounting
<1>1. CASE GetConnection(w)
  <2>1. Holders' = Holders \cup {w} /\ w \notin Holders
    BY <1>1 DEF GetConnection, At, Goto, Holders, HoldsSlot, TypeOK
  <2>2. Len(connections') = Len(connections) - 1
    BY <1>1 DEF GetConnection, TypeOK
  <2>3. Cardinality(Holders') = Cardinality(Holders) + 1
    BY <2>1, HoldersMove
  <2> QED
    BY <1>0, <1>1, <2>1, <2>2, <2>3 DEF GetConnection
<1>2. CASE GetTimeout(w)
  <2>1. Holders' = Holders
    BY <1>2 DEF GetTimeout, At, Goto, Holders, HoldsSlot, TypeOK
  <2> QED
    BY <1>2, <2>1 DEF GetTimeout, poolVars
<1>3. CASE WriteOk(w)
  <2>1. Holders' = Holders
    BY <1>3 DEF WriteOk, At, Goto, Holders, HoldsSlot, TypeOK
  <2> QED
    BY <1>3, <2>1 DEF WriteOk
<1>4. CASE WriteFail(w)
  <2>1. conn[w] # NilConn
    BY <1>4, PoolAssumption DEF WriteFail, At, Control
  <2>2. Holders' = Holders
    BY <1>4, <2>1 DEF WriteFail, At, Goto, Holders, HoldsSlot, TypeOK
  <2> QED
    BY <1>4, <2>2 DEF WriteFail, poolVars
<1>5. CASE Release(w)
  <2>1. Holders' = Holders \ {w} /\ w \in Holders
    BY <1>5, EndAttemptEffect, HoldersAfterAttempt
       DEF Release, At, Holders, HoldsSlot
  <2>2. Len(connections') = Len(connections) + 1
    BY <1>5 DEF Release, TypeOK
  <2>3. Cardinality(Holders') = Cardinality(Holders) - 1
    BY <2>1, HoldersMove
  <2> QED
    BY <1>0, <1>5, <2>1, <2>2, <2>3 DEF Release
<1>6. CASE ClosePanic(w)
  <2>1. Holders' = Holders
    BY <1>6 DEF ClosePanic, Holders, HoldsSlot, workerVars
  <2> QED
    BY <1>6, <2>1 DEF ClosePanic, poolVars
<1>7. CASE Close(w)
  <2>1. w \in Holders
    BY <1>7 DEF Close, At, Holders, HoldsSlot
  <2>2. made = Size
    BY <1>7 DEF Close, At, Control
  \* The pool's size is not reached: the error return is never taken here.
  <2>3. HasRoom
    BY <1>0, <2>1, <2>2, HoldersBounded DEF HasRoom
  <2>4. Holders' = Holders
    BY <1>7, <2>3 DEF Close, At, Goto, Holders, HoldsSlot, TypeOK
  <2> QED
    BY <1>7, <2>4 DEF Close
<1>8. CASE DialOk(w)
  <2>1. Holders' = Holders
    BY <1>8 DEF DialOk, At, Goto, Holders, HoldsSlot, TypeOK
  <2> QED
    BY <1>8, <2>1 DEF DialOk
<1>9. CASE DialFail(w)
  <2>1. Holders' = Holders \ {w} /\ w \in Holders
    BY <1>9 DEF DialFail, At, Goto, Holders, HoldsSlot, TypeOK
  <2>3. Cardinality(Holders') = Cardinality(Holders) - 1
    BY <2>1, HoldersMove
  <2> QED
    BY <1>0, <1>9, <2>1, <2>3 DEF DialFail, poolVars
<1>10. CASE CountRead(w)
  <2>1. Holders' = Holders
    BY <1>10 DEF CountRead, At, Goto, Holders, HoldsSlot, TypeOK
  <2> QED
    BY <1>10, <2>1 DEF CountRead, poolVars
<1>11. CASE CountStore(w)
  <2>1. Holders' = Holders
    BY <1>11, EndAttemptEffect, HoldersAfterAttempt
       DEF CountStore, At, Holders, HoldsSlot
  <2> QED
    BY <1>11, <2>1 DEF CountStore, poolVars
<1>12. CASE Put(w)
  <2>1. Holders' = Holders \ {w} /\ w \in Holders
    BY <1>12, EndAttemptEffect, HoldersAfterAttempt
       DEF Put, At, Holders, HoldsSlot
  <2>2. Len(connections') = Len(connections) + 1
    BY <1>12 DEF Put, TypeOK
  <2>3. Cardinality(Holders') = Cardinality(Holders) - 1
    BY <2>1, HoldersMove
  <2> QED
    BY <1>0, <1>12, <2>1, <2>2, <2>3 DEF Put
<1> QED
  BY <1>1, <1>2, <1>3, <1>4, <1>5, <1>6, <1>7, <1>8, <1>9, <1>10, <1>11, <1>12
     DEF SendStep

\* Every step keeps the account of the connections.
LEMMA SlotStep ==
    TypeOK /\ Control /\ SlotAccounting /\ [Next]_vars => SlotAccounting'
<1> SUFFICES ASSUME TypeOK, Control, SlotAccounting, [Next]_vars
             PROVE  SlotAccounting'
  OBVIOUS
<1>0. /\ Len(connections) \in Nat
      /\ Cardinality(Holders) \in Nat
      /\ failures \in Nat /\ made \in Nat
  BY HoldersBounded, PoolAssumption DEF TypeOK
<1>1. CASE FillOk
  <2>1. Holders' = Holders
    BY <1>1 DEF FillOk, Holders, HoldsSlot, workerVars
  <2>2. Len(connections') = Len(connections) + 1
    BY <1>1 DEF FillOk, TypeOK
  <2> QED
    BY <1>0, <1>1, <2>1, <2>2 DEF FillOk, SlotAccounting
<1>2. CASE FillFail
  <2>1. Holders' = Holders
    BY <1>2 DEF FillFail, Holders, HoldsSlot, workerVars
  <2> QED
    BY <1>0, <1>2, <2>1 DEF FillFail, SlotAccounting, poolVars
<1>3. CASE CreateRelay
  <2>1. Holders' = Holders
    BY <1>3 DEF CreateRelay, Holders, HoldsSlot, workerVars
  <2> QED
    BY <1>3, <2>1 DEF CreateRelay, SlotAccounting, poolVars
<1>4. ASSUME NEW w \in Workers, Begin(w) PROVE SlotAccounting'
  <2>1. Holders' = Holders
    BY <1>4 DEF Begin, At, Goto, Holders, HoldsSlot, TypeOK
  <2> QED
    BY <1>4, <2>1 DEF Begin, SlotAccounting, poolVars
<1>5. ASSUME NEW w \in Workers, SendStep(w) PROVE SlotAccounting'
  BY <1>5, SlotSendStep
<1>6. CASE Environment
  <2>1. Holders' = Holders
    BY <1>6 DEF Environment, Expire, PeerHangup, PeerReset, Disconnect,
                Holders, HoldsSlot, workerVars
  <2>2. UNCHANGED <<connections, failures, made>>
    BY <1>6 DEF Environment, Expire, PeerHangup, PeerReset, Disconnect
  <2> QED
    BY <2>1, <2>2 DEF SlotAccounting
<1>7. CASE Dead \/ UNCHANGED vars
  <2>1. Holders' = Holders /\ UNCHANGED <<connections, failures, made>>
    BY <1>7 DEF Dead, vars, Holders, HoldsSlot, workerVars, poolVars
  <2> QED
    BY <2>1 DEF SlotAccounting
<1> QED
  BY <1>1, <1>2, <1>3, <1>4, <1>5, <1>6, <1>7 DEF Next

\* Every connection made is in the channel, held by one worker or lost to a
\* failed dial, for every number of workers and every choice of faults.
THEOREM SlotsAccounted == Spec => []SlotAccounting
<1>1. Init => SlotAccounting
  <2> SUFFICES ASSUME Init PROVE SlotAccounting
    OBVIOUS
  <2>1. Holders = {}
    BY DEF Init, Holders, HoldsSlot
  <2> QED
    BY <2>1, FS_EmptySet DEF Init, SlotAccounting
<1>2. (TypeOK /\ Control) /\ SlotAccounting /\ [Next]_vars => SlotAccounting'
  BY SlotStep
<1> QED
  BY <1>1, <1>2, TypeCorrect, PTL DEF Spec

\* Both channel sends of the pool find room in the channel.
THEOREM NeverBlocks == Spec => []ReleaseNeverBlocks
<1>1. TypeOK /\ Control /\ SlotAccounting => ReleaseNeverBlocks
  <2> SUFFICES ASSUME TypeOK, Control, SlotAccounting,
                      NEW w \in Workers, pc[w] \in {"release", "dial", "put"}
               PROVE  HasRoom
    BY DEF ReleaseNeverBlocks
  <2>1. w \in Holders
    BY DEF Holders, HoldsSlot
  <2>2. /\ Len(connections) \in Nat
        /\ Cardinality(Holders) \in Nat
        /\ failures \in Nat /\ made \in 0 .. Size /\ Size \in Nat
    BY HoldersBounded, PoolAssumption DEF TypeOK
  <2> QED
    BY <2>1, <2>2, HoldersBounded DEF SlotAccounting, HasRoom
<1> QED
  BY <1>1, TypeCorrect, SlotsAccounted, PTL

-----------------------------------------------------------------------------
(***************************************************************************)
(* The panic on NilConn and the retry.                                     *)
(***************************************************************************)

\* A get can only time out after a connection was lost.
LEMMA PanicStep ==
    /\ TypeOK /\ Control /\ SlotAccounting
    /\ PanicOnlyAfterLoss /\ [Next]_vars
    => PanicOnlyAfterLoss'
<1> SUFFICES ASSUME TypeOK, Control, SlotAccounting, PanicOnlyAfterLoss,
                    [Next]_vars
             PROVE  PanicOnlyAfterLoss'
  OBVIOUS
<1> USE DEF PanicOnlyAfterLoss
<1>0. failures \in Nat /\ made \in Nat /\ Size \in Nat
  BY PoolAssumption DEF TypeOK
<1>1. CASE FillOk
  BY <1>1 DEF FillOk, workerVars
<1>2. CASE FillFail
  BY <1>0, <1>2 DEF FillFail, workerVars
<1>3. CASE CreateRelay
  BY <1>3 DEF CreateRelay, workerVars
<1>4. ASSUME NEW w \in Workers, Begin(w) PROVE PanicOnlyAfterLoss'
  BY <1>4 DEF Begin, Goto, TypeOK
<1>5. ASSUME NEW w \in Workers, SendStep(w) PROVE PanicOnlyAfterLoss'
  <2>1. CASE GetConnection(w)
    BY <2>1 DEF GetConnection, Goto, TypeOK
  <2>2. CASE GetTimeout(w)
    <3>1. w \notin Holders /\ made = Size
      BY <2>2 DEF GetTimeout, At, Holders, HoldsSlot, Control
    <3>2. Cardinality(Holders) \in Nat /\ Cardinality(Holders) < Size
      BY <3>1, HoldersBounded
    <3>3. Len(connections) = 0
      BY <2>2 DEF GetTimeout
    <3>4. failures > 0
      BY <1>0, <3>1, <3>2, <3>3 DEF SlotAccounting
    <3> QED
      BY <2>2, <3>4 DEF GetTimeout
  <2>3. CASE WriteOk(w)
    BY <2>3 DEF WriteOk, Goto, TypeOK
  <2>4. CASE WriteFail(w)
    <3>1. conn[w] # NilConn
      BY <2>4, PoolAssumption DEF WriteFail, At, Control
    <3> QED
      BY <2>4, <3>1 DEF WriteFail, Goto, TypeOK
  <2>5. CASE Release(w)
    <3>1. AttemptEnded(w, TRUE)
      BY <2>5, EndAttemptEffect DEF Release
    <3> QED
      BY <2>5, <3>1 DEF Release, AttemptEnded
  <2>6. CASE ClosePanic(w)
    BY <2>6 DEF ClosePanic, workerVars
  <2>7. CASE Close(w)
    <3>1. CASE HasRoom
      BY <2>7, <3>1 DEF Close, Goto, TypeOK
    <3>2. CASE ~HasRoom
      <4>1. AttemptEnded(w, FALSE)
        BY <2>7, <3>2, EndAttemptEffect DEF Close
      <4> QED
        BY <2>7, <4>1 DEF Close, AttemptEnded
    <3> QED
      BY <3>1, <3>2
  <2>8. CASE DialOk(w)
    BY <2>8 DEF DialOk, Goto, TypeOK
  <2>9. CASE DialFail(w)
    BY <1>0, <2>9 DEF DialFail, Goto, TypeOK
  <2>10. CASE CountRead(w)
    BY <2>10 DEF CountRead, Goto, TypeOK
  <2>11. CASE CountStore(w)
    <3>1. AttemptEnded(w, FALSE)
      BY <2>11, EndAttemptEffect DEF CountStore
    <3> QED
      BY <2>11, <3>1 DEF CountStore, AttemptEnded
  <2>12. CASE Put(w)
    <3>1. AttemptEnded(w, FALSE)
      BY <2>12, EndAttemptEffect DEF Put
    <3> QED
      BY <2>12, <3>1 DEF Put, AttemptEnded
  <2> QED
    BY <1>5, <2>1, <2>2, <2>3, <2>4, <2>5, <2>6, <2>7, <2>8, <2>9, <2>10,
       <2>11, <2>12 DEF SendStep
<1>6. CASE Environment
  BY <1>6 DEF Environment, Expire, PeerHangup, PeerReset, Disconnect, workerVars
<1>7. CASE Dead \/ UNCHANGED vars
  BY <1>7 DEF Dead, vars, workerVars
<1> QED
  BY <1>1, <1>2, <1>3, <1>4, <1>5, <1>6, <1>7 DEF Next

\* With every connection alive no get times out, so none is answered with the
\* NilConn whose Close panics.
THEOREM PanicNeedsLoss == Spec => []PanicOnlyAfterLoss
<1>1. Init => PanicOnlyAfterLoss
  BY DEF Init, PanicOnlyAfterLoss
<1>2. /\ (TypeOK /\ Control) /\ SlotAccounting
      /\ PanicOnlyAfterLoss /\ [Next]_vars
      => PanicOnlyAfterLoss'
  BY PanicStep
<1> QED
  BY <1>1, <1>2, TypeCorrect, SlotsAccounted, PTL DEF Spec

\* No step sends a line again that the backend has.
LEMMA OnceStep ==
    TypeOK /\ Control /\ AtMostOnce /\ [Next]_vars => AtMostOnce'
<1> SUFFICES ASSUME TypeOK, Control, AtMostOnce, [Next]_vars PROVE AtMostOnce'
  OBVIOUS
<1> USE DEF AtMostOnce
<1>1. CASE FillOk
  BY <1>1 DEF FillOk, workerVars
<1>2. CASE FillFail
  BY <1>2 DEF FillFail, workerVars
<1>3. CASE CreateRelay
  BY <1>3 DEF CreateRelay, workerVars
<1>4. ASSUME NEW w \in Workers, Begin(w) PROVE AtMostOnce'
  BY <1>4 DEF Begin, Goto, TypeOK
<1>5. ASSUME NEW w \in Workers, SendStep(w) PROVE AtMostOnce'
  <2>1. CASE GetConnection(w)
    BY <2>1 DEF GetConnection, At, Goto, TypeOK
  <2>2. CASE GetTimeout(w)
    BY <2>2 DEF GetTimeout, At, Goto, TypeOK
  <2>3. CASE WriteOk(w)
    <3>1. result[w] = "none" /\ copies[w] = 0
      BY <2>3 DEF WriteOk, At, Control
    <3>2. copies' \in [Workers -> Nat] /\ copies'[w] <= 1
      <4>1. CASE status[conn[w]] = "open"
        BY <2>3, <3>1, <4>1 DEF WriteOk, TypeOK
      <4>2. CASE status[conn[w]] # "open"
        BY <2>3, <3>1, <4>2 DEF WriteOk, TypeOK
      <4> QED
        BY <4>1, <4>2
    <3>3. \A v \in Workers : v # w => copies'[v] = copies[v]
      BY <2>3 DEF WriteOk, TypeOK
    <3> QED
      BY <2>3, <3>1, <3>2, <3>3 DEF WriteOk, Goto, TypeOK
  <2>4. CASE WriteFail(w)
    BY <2>4 DEF WriteFail, At, Goto, TypeOK
  <2>5. CASE Release(w)
    <3>1. AttemptEnded(w, TRUE)
      BY <2>5, EndAttemptEffect DEF Release
    <3> QED
      BY <2>5, <3>1 DEF Release, At, AttemptEnded
  <2>6. CASE ClosePanic(w)
    BY <2>6 DEF ClosePanic, workerVars
  <2>7. CASE Close(w)
    <3>1. CASE HasRoom
      BY <2>7, <3>1 DEF Close, At, Goto, TypeOK
    <3>2. CASE ~HasRoom
      <4>1. AttemptEnded(w, FALSE)
        BY <2>7, <3>2, EndAttemptEffect DEF Close
      <4> QED
        BY <2>7, <4>1 DEF Close, At, AttemptEnded
    <3> QED
      BY <3>1, <3>2
  <2>8. CASE DialOk(w)
    BY <2>8 DEF DialOk, At, Goto, TypeOK
  <2>9. CASE DialFail(w)
    BY <2>9 DEF DialFail, At, Goto, TypeOK
  <2>10. CASE CountRead(w)
    BY <2>10 DEF CountRead, At, Goto, TypeOK
  <2>11. CASE CountStore(w)
    <3>1. AttemptEnded(w, FALSE)
      BY <2>11, EndAttemptEffect DEF CountStore
    <3> QED
      BY <2>11, <3>1 DEF CountStore, At, AttemptEnded
  <2>12. CASE Put(w)
    <3>1. AttemptEnded(w, FALSE)
      BY <2>12, EndAttemptEffect DEF Put
    <3> QED
      BY <2>12, <3>1 DEF Put, At, AttemptEnded
  <2> QED
    BY <1>5, <2>1, <2>2, <2>3, <2>4, <2>5, <2>6, <2>7, <2>8, <2>9, <2>10,
       <2>11, <2>12 DEF SendStep
<1>6. CASE Environment
  BY <1>6 DEF Environment, Expire, PeerHangup, PeerReset, Disconnect, workerVars
<1>7. CASE Dead \/ UNCHANGED vars
  BY <1>7 DEF Dead, vars, workerVars
<1> QED
  BY <1>1, <1>2, <1>3, <1>4, <1>5, <1>6, <1>7 DEF Next

\* The backend receives no line twice, and none that was reported as not sent.
THEOREM SentAtMostOnce == Spec => []AtMostOnce
<1>1. Init => AtMostOnce
  BY DEF Init, AtMostOnce
<1>2. (TypeOK /\ Control) /\ AtMostOnce /\ [Next]_vars => AtMostOnce'
  BY OnceStep
<1> QED
  BY <1>1, <1>2, TypeCorrect, PTL DEF Spec

\* What makes ExclusiveConn inductive: a worker's connection is not closed, so
\* the one that a dial returns is nobody else's.
Usable == \A w \in Workers : conn[w] # NilConn => status[conn[w]] # "closed"

\* A worker puts its connection into the channel and gives it up.
LEMMA ExclusiveAppend ==
    ASSUME TypeOK, ExclusiveConn, Usable,
           NEW w \in Workers, conn[w] \in Conns,
           NEW sent \in BOOLEAN, AttemptEnded(w, sent),
           connections' = Append(connections, conn[w]), status' = status
    PROVE  ExclusiveConn' /\ Usable'
<1> DEFINE n == Len(connections)
<1>1. /\ n \in Nat /\ DOMAIN connections = 1 .. n
      /\ DOMAIN connections' = 1 .. n + 1
      /\ \A i \in 1 .. n : connections'[i] = connections[i]
      /\ connections'[n + 1] = conn[w]
  BY DEF TypeOK
<1>2. conn'[w] = NilConn /\ \A v \in Workers : v # w => conn'[v] = conn[v]
  BY DEF AttemptEnded
<1>3. conn[w] # NilConn
  BY PoolAssumption
<1>4. \A i \in 1 .. n : connections[i] \in Conns
  BY <1>1 DEF TypeOK
<1> HIDE DEF n
<1>5. \A i, j \in DOMAIN connections' : connections'[i] = connections'[j] => i = j
  BY <1>1 DEF ExclusiveConn
<1>6. \A i \in DOMAIN connections' : status'[connections'[i]] # "closed"
  BY <1>1, <1>3 DEF ExclusiveConn, Usable
<1>7. \A v \in Workers, i \in DOMAIN connections' : conn'[v] # connections'[i]
  <2> SUFFICES ASSUME NEW v \in Workers, NEW i \in 1 .. n + 1
               PROVE  conn'[v] # connections'[i]
    BY <1>1
  <2>1. CASE i \in 1 .. n
    BY <1>1, <1>2, <1>4, <2>1, PoolAssumption DEF ExclusiveConn
  <2>2. CASE i = n + 1
    BY <1>1, <1>2, <1>3, <2>2 DEF ExclusiveConn
  <2> QED
    BY <1>1, <2>1, <2>2
<1>8. \A u, v \in Workers : u # v /\ conn'[u] = conn'[v] => conn'[u] = NilConn
  BY <1>2 DEF ExclusiveConn
<1>9. Usable'
  BY <1>2 DEF Usable
<1> QED
  BY <1>5, <1>6, <1>7, <1>8, <1>9 DEF ExclusiveConn

\* A worker takes the first connection of the channel.
LEMMA ExclusiveTake ==
    ASSUME TypeOK, Control, ExclusiveConn, Usable,
           NEW w \in Workers, GetConnection(w)
    PROVE  ExclusiveConn' /\ Usable'
<1> DEFINE n == Len(connections)
<1>1. /\ n \in Nat /\ n >= 1 /\ DOMAIN connections = 1 .. n
      /\ DOMAIN connections' = 1 .. n - 1
      /\ \A i \in 1 .. n - 1 : connections'[i] = connections[i + 1]
  BY DEF GetConnection, TypeOK
<1>2. /\ conn'[w] = connections[1]
      /\ \A v \in Workers : v # w => conn'[v] = conn[v]
  BY DEF GetConnection, TypeOK
<1>3. status' = status
  BY DEF GetConnection
<1> HIDE DEF n
<1>4. \A i \in 1 .. n - 1 : i + 1 \in 1 .. n /\ 1 \in 1 .. n /\ i + 1 # 1
  BY <1>1
<1>5. \A i, j \in DOMAIN connections' : connections'[i] = connections'[j] => i = j
  <2> SUFFICES ASSUME NEW i \in 1 .. n - 1, NEW j \in 1 .. n - 1,
                      connections[i + 1] = connections[j + 1]
               PROVE  i = j
    BY <1>1
  <2>1. i + 1 = j + 1
    BY <1>1, <1>4 DEF ExclusiveConn
  <2> QED
    BY <1>1, <2>1
<1>6. \A i \in DOMAIN connections' : status'[connections'[i]] # "closed"
  BY <1>1, <1>3, <1>4 DEF ExclusiveConn
<1>7. \A v \in Workers, i \in DOMAIN connections' : conn'[v] # connections'[i]
  <2> SUFFICES ASSUME NEW v \in Workers, NEW i \in 1 .. n - 1
               PROVE  conn'[v] # connections[i + 1]
    BY <1>1
  <2>1. CASE v = w
    BY <1>1, <1>2, <1>4, <2>1 DEF ExclusiveConn
  <2>2. CASE v # w
    BY <1>1, <1>2, <1>4, <2>2 DEF ExclusiveConn
  <2> QED
    BY <2>1, <2>2
<1>8. \A u, v \in Workers : u # v /\ conn'[u] = conn'[v] => conn'[u] = NilConn
  <2>1. 1 \in DOMAIN connections
    BY <1>1
  <2> QED
    BY <1>2, <2>1 DEF ExclusiveConn
<1>9. Usable'
  <2>1. 1 \in DOMAIN connections
    BY <1>1
  <2> QED
    BY <1>2, <1>3, <2>1 DEF ExclusiveConn, Usable
<1> QED
  BY <1>5, <1>6, <1>7, <1>8, <1>9 DEF ExclusiveConn

\* Every step keeps each connection in one place.
LEMMA ExclusiveStep ==
    TypeOK /\ Control /\ ExclusiveConn /\ Usable /\ [Next]_vars
        => ExclusiveConn' /\ Usable'
<1> SUFFICES ASSUME TypeOK, Control, ExclusiveConn, Usable, [Next]_vars
             PROVE  ExclusiveConn' /\ Usable'
  OBVIOUS
<1> USE DEF ExclusiveConn, Usable
<1>0. NilConn \notin Conns
  BY PoolAssumption
<1>1. CASE FillOk
  <2>1. \A w \in Workers : conn[w] = NilConn
    BY <1>1 DEF FillOk, Control
  <2>2. PICK c \in Conns : Connect(c) /\ connections' = Append(connections, c)
    BY <1>1 DEF FillOk
  <2> QED
    BY <1>0, <1>1, <2>1, <2>2 DEF FillOk, Connect, TypeOK, workerVars
<1>2. CASE FillFail
  BY <1>2 DEF FillFail, poolVars, workerVars
<1>3. CASE CreateRelay
  BY <1>3 DEF CreateRelay, poolVars, workerVars
<1>4. ASSUME NEW w \in Workers, Begin(w) PROVE ExclusiveConn' /\ Usable'
  BY <1>4 DEF Begin, poolVars
<1>5. ASSUME NEW w \in Workers, SendStep(w) PROVE ExclusiveConn' /\ Usable'
  <2>1. CASE GetConnection(w)
    BY <2>1, ExclusiveTake
  <2>2. CASE GetTimeout(w)
    BY <2>2 DEF GetTimeout, poolVars, TypeOK
  <2>3. CASE WriteOk(w)
    BY <2>3 DEF WriteOk, Writable, TypeOK
  <2>4. CASE WriteFail(w)
    BY <2>4 DEF WriteFail, poolVars
  <2>5. CASE Release(w)
    <3>1. AttemptEnded(w, TRUE)
      BY <2>5, EndAttemptEffect DEF Release
    <3>2. conn[w] \in Conns
      BY <2>5 DEF Release, At, Control
    <3> QED
      BY <2>5, <3>1, <3>2, ExclusiveAppend DEF Release
  <2>6. CASE ClosePanic(w)
    BY <2>6 DEF ClosePanic, poolVars, workerVars
  <2>7. CASE Close(w)
    <3>1. conn[w] \in Conns /\ status' = [status EXCEPT ![conn[w]] = "closed"]
      BY <2>7 DEF Close, TypeOK
    <3>2. conn' = [conn EXCEPT ![w] = NilConn] /\ connections' = connections
      BY <2>7 DEF Close, EndAttempt
    <3> QED
      BY <1>0, <3>1, <3>2 DEF TypeOK
  <2>8. CASE DialOk(w)
    <3>1. PICK c \in Conns : Connect(c) /\ conn' = [conn EXCEPT ![w] = c]
      BY <2>8 DEF DialOk
    <3>2. connections' = connections
      BY <2>8 DEF DialOk
    <3> QED
      BY <1>0, <3>1, <3>2 DEF Connect, TypeOK
  <2>9. CASE DialFail(w)
    BY <2>9 DEF DialFail, poolVars
  <2>10. CASE CountRead(w)
    BY <2>10 DEF CountRead, poolVars
  <2>11. CASE CountStore(w)
    <3>1. AttemptEnded(w, FALSE)
      BY <2>11, EndAttemptEffect DEF CountStore
    <3>2. UNCHANGED <<connections, status>>
      BY <2>11 DEF CountStore, poolVars
    <3>3. conn'[w] = NilConn /\ \A v \in Workers : v # w => conn'[v] = conn[v]
      BY <3>1 DEF AttemptEnded
    <3>4. conn' = conn
      BY <2>11, <3>1, <3>3 DEF CountStore, At, Control, AttemptEnded, TypeOK
    <3> QED
      BY <3>2, <3>4
  <2>12. CASE Put(w)
    <3>1. AttemptEnded(w, FALSE)
      BY <2>12, EndAttemptEffect DEF Put
    <3>2. conn[w] \in Conns
      BY <2>12 DEF Put, At, Control
    <3> QED
      BY <2>12, <3>1, <3>2, ExclusiveAppend DEF Put
  <2> QED
    BY <1>5, <2>1, <2>2, <2>3, <2>4, <2>5, <2>6, <2>7, <2>8, <2>9, <2>10,
       <2>11, <2>12 DEF SendStep
<1>6. CASE Environment
  <2>1. UNCHANGED <<connections, conn>>
    BY <1>6 DEF Environment, Expire, PeerHangup, PeerReset, Disconnect, workerVars
  <2>2. \A c \in Conns : status[c] # "closed" => status'[c] # "closed"
    BY <1>6 DEF Environment, Expire, PeerHangup, PeerReset, Disconnect, TypeOK
  <2> QED
    BY <1>0, <2>1, <2>2 DEF TypeOK
<1>7. CASE Dead \/ UNCHANGED vars
  BY <1>7 DEF Dead, vars, poolVars, workerVars
<1> QED
  BY <1>1, <1>2, <1>3, <1>4, <1>5, <1>6, <1>7 DEF Next

\* The two hold together, and only together: Usable is what keeps a dial from
\* returning a socket that another worker still has (CreateConnection).
LEMMA ExclusiveAndUsable == Spec => [](ExclusiveConn /\ Usable)
<1>1. Init => ExclusiveConn /\ Usable
  BY DEF Init, ExclusiveConn, Usable
<1>2. /\ (TypeOK /\ Control) /\ (ExclusiveConn /\ Usable) /\ [Next]_vars
      => (ExclusiveConn /\ Usable)'
  BY ExclusiveStep
<1> QED
  BY <1>1, <1>2, TypeCorrect, PTL DEF Spec

\* No connection is used by two workers, or waits in the channel while it is
\* used, twice, or closed: the pool needs no lock but the channel's.
THEOREM ConnsExclusive == Spec => []ExclusiveConn
BY ExclusiveAndUsable, PTL

\* The workers whose failed dial is not in ErrorCount yet.
Pending == {w \in Workers : pc[w] \in {"count", "store"}}

\* What makes ErrorCountBounded inductive: each worker between the read and the
\* write of ErrorCount++ leaves room for one more, in the field and in what the
\* others have read of it.
ErrorsCounted ==
    /\ errorCount + Cardinality(Pending) <= failures
    /\ \A w \in Workers :
          pc[w] = "store" => seen[w] + Cardinality(Pending) <= failures
    /\ failures > 0 => errorCount > 0 \/ Pending # {}

\* How Cardinality(Pending) changes when a worker joins or leaves.
LEMMA PendingMove ==
    ASSUME NEW w \in Workers
    PROVE  /\ Cardinality(Pending) \in Nat
           /\ Pending' = Pending \cup {w} /\ w \notin Pending
                 => Cardinality(Pending') = Cardinality(Pending) + 1
           /\ Pending' = Pending \ {w} /\ w \in Pending
                 => Cardinality(Pending') = Cardinality(Pending) - 1
<1>1. IsFiniteSet(Pending)
  BY PoolAssumption, FS_Subset DEF Pending
<1> QED
  BY <1>1, FS_CardinalityType, FS_AddElement, FS_RemoveElement

\* A step that neither counts nor fails to dial leaves all of this alone.
LEMMA ErrorsUnchanged ==
    ASSUME ErrorsCounted, UNCHANGED <<errorCount, seen, failures>>,
           Pending' = Pending,
           \A w \in Workers : pc'[w] = "store" => pc[w] = "store"
    PROVE  ErrorsCounted'
BY DEF ErrorsCounted

\* The end of an attempt whose worker had nothing to count.
LEMMA ErrorsAfterAttempt ==
    ASSUME ErrorsCounted, UNCHANGED <<errorCount, seen, failures>>,
           NEW w \in Workers, w \notin Pending,
           NEW sent \in BOOLEAN, AttemptEnded(w, sent)
    PROVE  ErrorsCounted'
<1>1. Pending' = Pending
  BY DEF AttemptEnded, Pending
<1>2. \A v \in Workers : pc'[v] = "store" => pc[v] = "store"
  BY DEF AttemptEnded
<1> QED
  BY <1>1, <1>2, ErrorsUnchanged

\* The steps of a call that end an attempt or touch the counters.
LEMMA ErrorsSendStep ==
    ASSUME TypeOK, Control, ErrorsCounted, NEW w \in Workers, SendStep(w)
    PROVE  ErrorsCounted'
<1>0. /\ errorCount \in Nat /\ failures \in Nat
      /\ \A v \in Workers : seen[v] \in Nat
      /\ Cardinality(Pending) \in Nat
  BY PendingMove DEF TypeOK
<1>1. CASE GetConnection(w) \/ GetTimeout(w) \/ WriteOk(w) \/ WriteFail(w)
           \/ DialOk(w)
  <2>1. /\ pc[w] \notin {"count", "store"}
        /\ \E label \in {"write", "close", "release", "put"} :
              pc' = [pc EXCEPT ![w] = label]
    BY <1>1 DEF GetConnection, GetTimeout, WriteOk, WriteFail, DialOk, At, Goto
  <2>2. Pending' = Pending
    BY <2>1 DEF Pending, TypeOK
  <2>3. \A v \in Workers : pc'[v] = "store" => pc[v] = "store"
    BY <2>1 DEF TypeOK
  <2>4. UNCHANGED <<errorCount, seen, failures>>
    BY <1>1 DEF GetConnection, GetTimeout, WriteOk, WriteFail, DialOk, countVars
  <2> QED
    BY <2>2, <2>3, <2>4, ErrorsUnchanged
<1>2. CASE Release(w) \/ Put(w)
  <2>1. /\ w \notin Pending /\ UNCHANGED <<errorCount, seen, failures>>
        /\ \E sent \in BOOLEAN : EndAttempt(w, sent)
    BY <1>2 DEF Release, Put, At, Pending, countVars
  <2> QED
    BY <2>1, EndAttemptEffect, ErrorsAfterAttempt
<1>3. CASE ClosePanic(w)
  BY <1>3, ErrorsUnchanged DEF ClosePanic, workerVars, countVars, Pending
<1>4. CASE Close(w)
  <2>1. w \notin Pending /\ UNCHANGED <<errorCount, seen, failures>>
    BY <1>4 DEF Close, At, Pending, countVars
  <2>2. CASE HasRoom
    <3>1. pc' = [pc EXCEPT ![w] = "dial"]
      BY <1>4, <2>2 DEF Close, Goto
    <3>2. Pending' = Pending
      BY <2>1, <3>1 DEF Pending, TypeOK
    <3>3. \A v \in Workers : pc'[v] = "store" => pc[v] = "store"
      BY <3>1 DEF TypeOK
    <3> QED
      BY <2>1, <3>2, <3>3, ErrorsUnchanged
  <2>3. CASE ~HasRoom
    BY <1>4, <2>1, <2>3, EndAttemptEffect, ErrorsAfterAttempt DEF Close
  <2> QED
    BY <2>2, <2>3
<1>5. CASE DialFail(w)
  <2>1. /\ pc[w] = "dial" /\ pc' = [pc EXCEPT ![w] = "count"]
        /\ failures' = failures + 1 /\ UNCHANGED <<errorCount, seen>>
    BY <1>5 DEF DialFail, At, Goto, countVars
  <2>2. Pending' = Pending \cup {w} /\ w \notin Pending
    BY <2>1 DEF Pending, TypeOK
  <2>3. Cardinality(Pending') = Cardinality(Pending) + 1
    BY <2>2, PendingMove
  <2>4. \A v \in Workers : pc'[v] = "store" => pc[v] = "store"
    BY <2>1 DEF TypeOK
  <2> QED
    BY <1>0, <2>1, <2>2, <2>3, <2>4 DEF ErrorsCounted
<1>6. CASE CountRead(w)
  <2>1. /\ pc[w] = "count" /\ pc' = [pc EXCEPT ![w] = "store"]
        /\ seen' = [seen EXCEPT ![w] = errorCount]
        /\ UNCHANGED <<errorCount, failures>>
    BY <1>6 DEF CountRead, At, Goto
  <2>2. Pending' = Pending
    BY <2>1 DEF Pending, TypeOK
  <2>3. seen'[w] = errorCount
    BY <2>1 DEF TypeOK
  <2>4. \A v \in Workers :
            v # w => pc'[v] = pc[v] /\ seen'[v] = seen[v]
    BY <2>1 DEF TypeOK
  <2> QED
    BY <1>0, <2>1, <2>2, <2>3, <2>4 DEF ErrorsCounted
<1>7. CASE CountStore(w)
  <2>1. AttemptEnded(w, FALSE)
    BY <1>7, EndAttemptEffect DEF CountStore
  <2>2. /\ pc[w] = "store" /\ errorCount' = seen[w] + 1
        /\ UNCHANGED <<seen, failures>>
    BY <1>7 DEF CountStore, At
  <2>3. Pending' = Pending \ {w} /\ w \in Pending
    BY <2>1, <2>2 DEF AttemptEnded, Pending
  <2>4. Cardinality(Pending') = Cardinality(Pending) - 1
    BY <2>3, PendingMove
  <2>5. \A v \in Workers : pc'[v] = "store" => pc[v] = "store"
    BY <2>1 DEF AttemptEnded
  <2> QED
    BY <1>0, <2>2, <2>4, <2>5 DEF ErrorsCounted
<1> QED
  BY <1>1, <1>2, <1>3, <1>4, <1>5, <1>6, <1>7 DEF SendStep

\* Every step keeps ErrorsCounted.
LEMMA ErrorsStep ==
    TypeOK /\ Control /\ ErrorsCounted /\ [Next]_vars => ErrorsCounted'
<1> SUFFICES ASSUME TypeOK, Control, ErrorsCounted, [Next]_vars
             PROVE  ErrorsCounted'
  OBVIOUS
<1>1. CASE FillOk \/ CreateRelay
  BY <1>1, ErrorsUnchanged
     DEF FillOk, CreateRelay, workerVars, countVars, Pending
<1>2. CASE FillFail
  <2>1. /\ Pending' = Pending /\ Pending = {} /\ UNCHANGED <<pc, seen>>
    BY <1>2 DEF FillFail, Control, Pending, workerVars
  <2>2. Cardinality(Pending) = 0
    BY <2>1, FS_EmptySet
  <2>3. \A w \in Workers : pc'[w] # "store"
    BY <1>2, <2>1 DEF FillFail, Control
  <2> QED
    BY <1>2, <2>1, <2>2, <2>3 DEF FillFail, ErrorsCounted, TypeOK
<1>3. ASSUME NEW w \in Workers, Begin(w) PROVE ErrorsCounted'
  <2>1. pc[w] = "idle" /\ pc' = [pc EXCEPT ![w] = "get"]
    BY <1>3 DEF Begin, At, Goto
  <2>2. Pending' = Pending
    BY <2>1 DEF Pending, TypeOK
  <2>3. \A v \in Workers : pc'[v] = "store" => pc[v] = "store"
    BY <2>1 DEF TypeOK
  <2> QED
    BY <1>3, <2>2, <2>3, ErrorsUnchanged DEF Begin, countVars
<1>4. ASSUME NEW w \in Workers, SendStep(w) PROVE ErrorsCounted'
  BY <1>4, ErrorsSendStep
<1>5. CASE Environment
  BY <1>5, ErrorsUnchanged
     DEF Environment, Expire, PeerHangup, PeerReset, Disconnect, workerVars,
         countVars, Pending
<1>6. CASE Dead \/ UNCHANGED vars
  BY <1>6, ErrorsUnchanged DEF Dead, vars, workerVars, countVars, Pending
<1> QED
  BY <1>1, <1>2, <1>3, <1>4, <1>5, <1>6 DEF Next

\* ErrorCount, incremented by all workers without a lock, never exceeds the
\* number of failed dials, and is not zero once one failure has been counted.
THEOREM ErrorsBounded == Spec => []ErrorCountBounded
<1>1. Init => ErrorsCounted
  <2> SUFFICES ASSUME Init PROVE ErrorsCounted
    OBVIOUS
  <2>1. Pending = {}
    BY DEF Init, Pending
  <2> QED
    BY <2>1, FS_EmptySet DEF Init, ErrorsCounted
<1>2. (TypeOK /\ Control) /\ ErrorsCounted /\ [Next]_vars => ErrorsCounted'
  BY ErrorsStep
<1>3. TypeOK /\ Control /\ ErrorsCounted => ErrorCountBounded
  <2> SUFFICES ASSUME TypeOK, ErrorsCounted PROVE ErrorCountBounded
    OBVIOUS
  <2>1. Cardinality(Pending) \in Nat
    BY PoolAssumption, FS_Subset, FS_CardinalityType DEF Pending
  <2> QED
    BY <2>1 DEF ErrorCountBounded, ErrorsCounted, Pending, TypeOK
<1> QED
  BY <1>1, <1>2, <1>3, TypeCorrect, PTL DEF Spec

-----------------------------------------------------------------------------
(***************************************************************************)
(* ConnectionPool implements LineRelay, without its fairness.              *)
(***************************************************************************)
\* The invariants that the steps of the refinement rest on.
RefinementInv ==
    /\ TypeOK /\ Control
    /\ SlotAccounting /\ PanicOnlyAfterLoss /\ AtMostOnce

\* The values of the mapped variables: lanes and busy.
lanesOf == made - failures
busyOf == [w \in Workers |-> pc[w] # "idle"]

\* A step that LineRelay does not see.
LEMMA Hidden ==
    ASSUME UNCHANGED <<phase, made, failures, copies, result>>, busyOf' = busyOf
    PROVE  UNCHANGED Lines!vars
BY DEF Lines!vars, busyOf

\* The end of an attempt: the call goes on unseen or returns.
LEMMA ReturnOrRetry ==
    ASSUME TypeOK, AtMostOnce, phase = "running",
           UNCHANGED <<phase, made, failures, copies>>,
           NEW w \in Workers, pc[w] # "idle", result[w] = "none",
           NEW sent \in BOOLEAN, EndAttempt(w, sent),
           sent \/ copies[w] = 0
    PROVE  Lines!Return(w) \/ UNCHANGED Lines!vars
<1>1. CASE TriesAgain(w, sent)
  <2>1. pc' = [pc EXCEPT ![w] = "get"] /\ result' = result
    BY <1>1 DEF EndAttempt, Goto
  <2>2. busyOf' = busyOf
    BY <2>1 DEF busyOf, TypeOK
  <2> QED
    BY <2>1, <2>2, Hidden
<1>2. CASE ~TriesAgain(w, sent)
  <2>1. /\ pc' = [pc EXCEPT ![w] = "idle"]
        /\ result' = [result EXCEPT ![w] = IF sent THEN "sent" ELSE "dropped"]
    BY <1>2 DEF EndAttempt, Goto
  <2>2. busyOf[w] /\ busyOf' = [busyOf EXCEPT ![w] = FALSE]
    BY <2>1 DEF busyOf, TypeOK
  <2>3. CASE sent
    BY <2>1, <2>2, <2>3 DEF Lines!Return, busyOf
  <2>4. CASE ~sent
    BY <2>1, <2>2, <2>4 DEF Lines!Return, busyOf
  <2> QED
    BY <2>3, <2>4
<1> QED
  BY <1>1, <1>2

\* A call in progress does what LineRelay allows its worker.
LEMMA CallStep ==
    ASSUME RefinementInv, NEW w \in Workers, SendStep(w)
    PROVE  Lines!Next \/ UNCHANGED Lines!vars
<1> USE DEF RefinementInv
<1>a. phase = "running" /\ pc[w] # "idle"
  BY DEF SendStep, GetConnection, GetTimeout, WriteOk, WriteFail, Release,
         ClosePanic, Close, DialOk, DialFail, CountRead, CountStore, Put, At
<1>0. /\ phase = "running" /\ pc[w] # "idle" /\ result[w] = "none"
      /\ made = Size
      /\ made \in Nat /\ failures \in Nat
  BY <1>a, PoolAssumption DEF Control, TypeOK
<1>1. CASE GetConnection(w) \/ GetTimeout(w) \/ WriteFail(w) \/ DialOk(w)
           \/ CountRead(w)
  <2>1. \E label \in {"write", "close", "put", "store"} :
            pc' = [pc EXCEPT ![w] = label]
    BY <1>1 DEF GetConnection, GetTimeout, WriteFail, DialOk, CountRead, Goto
  <2>2. busyOf' = busyOf
    BY <1>0, <2>1 DEF busyOf, TypeOK
  <2>3. UNCHANGED <<phase, made, failures, copies, result>>
    BY <1>1 DEF GetConnection, GetTimeout, WriteFail, DialOk, CountRead
  <2> QED
    BY <2>2, <2>3, Hidden
<1>2. CASE WriteOk(w)
  <2>1. /\ pc[w] = "write" /\ pc' = [pc EXCEPT ![w] = "release"]
        /\ UNCHANGED <<phase, made, failures, result>>
    BY <1>2 DEF WriteOk, At, Goto
  <2>2. busyOf' = busyOf /\ busyOf[w]
    BY <2>1 DEF busyOf, TypeOK
  <2>3. CASE status[conn[w]] = "open"
    <3>1. copies[w] = 0
      BY <2>1 DEF AtMostOnce
    <3>2. copies' = [copies EXCEPT ![w] = 1]
      BY <1>2, <2>3, <3>1 DEF WriteOk
    <3>3. Lines!Deliver(w)
      BY <1>0, <2>1, <2>2, <3>1, <3>2 DEF Lines!Deliver, busyOf
    <3> QED
      BY <3>3 DEF Lines!Next
  <2>4. CASE status[conn[w]] # "open"
    BY <1>2, <2>1, <2>2, <2>4, Hidden DEF WriteOk
  <2> QED
    BY <2>3, <2>4
<1>3. CASE Release(w)
  <2>1. EndAttempt(w, TRUE) /\ UNCHANGED <<phase, made, failures, copies>>
    BY <1>3 DEF Release
  <2> QED
    BY <1>0, <2>1, ReturnOrRetry DEF Lines!Next
<1>4. CASE ClosePanic(w)
  <2>1. failures > 0
    BY <1>4 DEF ClosePanic, At, PanicOnlyAfterLoss
  <2>2. made - failures < Size
    BY <1>0, <2>1, PoolAssumption
  <2>3. /\ phase' = "dead"
        /\ UNCHANGED <<made, failures, pc, copies, result>>
    BY <1>4 DEF ClosePanic, workerVars
  <2>4. Lines!Crash(w)
    BY <1>0, <2>2, <2>3 DEF Lines!Crash
  <2> QED
    BY <2>4 DEF Lines!Next
<1>5. CASE Close(w)
  <2>1. /\ copies[w] = 0 /\ pc[w] = "close"
        /\ UNCHANGED <<phase, made, failures, copies>>
    BY <1>5 DEF Close, At, AtMostOnce
  <2>2. CASE HasRoom
    <3>1. pc' = [pc EXCEPT ![w] = "dial"] /\ result' = result
      BY <1>5, <2>2 DEF Close, Goto
    <3>2. busyOf' = busyOf
      BY <1>0, <3>1 DEF busyOf, TypeOK
    <3> QED
      BY <2>1, <3>1, <3>2, Hidden
  <2>3. CASE ~HasRoom
    <3>1. EndAttempt(w, FALSE)
      BY <1>5, <2>3 DEF Close
    <3> QED
      BY <1>0, <2>1, <3>1, ReturnOrRetry DEF Lines!Next
  <2> QED
    BY <2>2, <2>3
<1>6. CASE DialFail(w)
  <2>1. /\ pc[w] = "dial" /\ pc' = [pc EXCEPT ![w] = "count"]
        /\ failures' = failures + 1
        /\ UNCHANGED <<phase, made, copies, result>>
    BY <1>6 DEF DialFail, At, Goto
  <2>2. busyOf' = busyOf /\ busyOf[w]
    BY <2>1 DEF busyOf, TypeOK
  \* The worker holds one of the connections that are left.
  <2>3. made - failures > 0
    <3>1. w \in Holders
      BY <2>1 DEF Holders, HoldsSlot
    <3>2. Len(connections) \in Nat /\ Size \in Nat
      BY PoolAssumption DEF TypeOK
    <3> QED
      BY <1>0, <3>1, <3>2, HoldersBounded DEF SlotAccounting
  <2>4. made - failures' = (made - failures) - 1
    BY <1>0, <2>1
  <2>5. Lines!LoseLane(w)
    BY <1>0, <2>1, <2>2, <2>3, <2>4 DEF Lines!LoseLane, busyOf
  <2> QED
    BY <2>5 DEF Lines!Next
<1>7. CASE CountStore(w) \/ Put(w)
  <2>1. /\ EndAttempt(w, FALSE) /\ copies[w] = 0
        /\ UNCHANGED <<phase, made, failures, copies>>
    BY <1>7 DEF CountStore, Put, At, AtMostOnce
  <2> QED
    BY <1>0, <2>1, ReturnOrRetry DEF Lines!Next
<1> QED
  BY <1>1, <1>2, <1>3, <1>4, <1>5, <1>6, <1>7 DEF SendStep

\* Every step of the pool is a step of LineRelay or hidden from it.
LEMMA RefinementStep ==
    RefinementInv /\ [Next]_vars => [Lines!Next]_(Lines!vars)
<1> SUFFICES ASSUME RefinementInv, [Next]_vars
             PROVE  Lines!Next \/ UNCHANGED Lines!vars
  OBVIOUS
<1> USE DEF RefinementInv
<1>0. /\ made \in 0 .. Size /\ failures \in Nat /\ Size \in Nat
  BY PoolAssumption DEF TypeOK
<1>1. CASE FillOk
  <2>1. /\ phase = "starting" /\ made < Size /\ made' = made + 1
        /\ UNCHANGED <<phase, failures, copies, result, pc>>
    BY <1>1 DEF FillOk, workerVars
  <2>2. made - failures < Size /\ made' - failures = (made - failures) + 1
    BY <1>0, <2>1
  <2>3. Lines!OpenLane
    BY <2>1, <2>2 DEF Lines!OpenLane
  <2> QED
    BY <2>3 DEF Lines!Next
<1>2. CASE FillFail
  <2>1. /\ made' - failures' = made - failures
        /\ UNCHANGED <<phase, copies, result, pc>>
    BY <1>0, <1>2 DEF FillFail, workerVars
  <2> QED
    BY <2>1 DEF Lines!vars
<1>3. CASE CreateRelay
  <2>1. /\ phase = "starting"
        /\ phase' = IF failures > 0 THEN "dead" ELSE "running"
        /\ UNCHANGED <<made, failures, copies, result, pc>>
    BY <1>3 DEF CreateRelay, workerVars
  <2>2. failures > 0 <=> made - failures # Size
    BY <1>0, <1>3 DEF CreateRelay
  <2>3. Lines!Launch
    BY <2>1, <2>2 DEF Lines!Launch
  <2> QED
    BY <2>3 DEF Lines!Next
<1>4. ASSUME NEW w \in Workers, Begin(w)
      PROVE  Lines!Next
  <2>1. /\ phase = "running" /\ pc[w] = "idle"
        /\ pc' = [pc EXCEPT ![w] = "get"]
        /\ copies' = [copies EXCEPT ![w] = 0]
        /\ result' = [result EXCEPT ![w] = "none"]
        /\ UNCHANGED <<phase, made, failures>>
    BY <1>4 DEF Begin, At, Goto
  <2>2. ~busyOf[w] /\ busyOf' = [busyOf EXCEPT ![w] = TRUE]
    BY <2>1 DEF busyOf, TypeOK
  <2>3. Lines!Call(w)
    BY <2>1, <2>2 DEF Lines!Call, busyOf
  <2> QED
    BY <2>3 DEF Lines!Next
<1>5. ASSUME NEW w \in Workers, SendStep(w)
      PROVE  Lines!Next \/ UNCHANGED Lines!vars
  BY <1>5, CallStep
<1>6. CASE Environment
  BY <1>6 DEF Environment, Expire, PeerHangup, PeerReset, Disconnect,
              workerVars, Lines!vars
<1>7. CASE Dead \/ UNCHANGED vars
  BY <1>7 DEF Dead, vars, workerVars, Lines!vars
<1> QED
  BY <1>1, <1>2, <1>3, <1>4, <1>5, <1>6, <1>7 DEF Next

\* The pool and sendCarbonMetric keep LineRelay's promise to the relay workers:
\* a line is delivered at most once during its call, "dropped" is the truth,
\* and the process dies only with fewer connections than workers.
THEOREM PoolImplementsLines == Spec => ImplementsLines
<1>1. Init => Lines!Init
  <2> SUFFICES ASSUME Init PROVE Lines!Init
    OBVIOUS
  <2>1. \A w \in Workers : (pc[w] # "idle") = FALSE
    BY DEF Init
  <2>2. [w \in Workers |-> pc[w] # "idle"] = [w \in Workers |-> FALSE]
    BY <2>1, Zenon
  <2>3. made - failures = 0
    BY DEF Init
  <2> QED
    BY <2>2, <2>3 DEF Init, Lines!Init
<1>2. RefinementInv /\ [Next]_vars => [Lines!Next]_(Lines!vars)
  BY RefinementStep
<1>3. Spec => []RefinementInv
  BY TypeCorrect, SlotsAccounted, PanicNeedsLoss, SentAtMostOnce, PTL
     DEF RefinementInv
<1> QED
  BY <1>1, <1>2, <1>3, PTL DEF Spec, ImplementsLines, Lines!Spec
=============================================================================
