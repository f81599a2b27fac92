--------------------------- MODULE PipelineProofs ---------------------------
(***************************************************************************)
(* The safety properties of Pipeline, and that it implements MetricFlow,   *)
(* for every number of clients, lines and workers, every capacity of the   *)
(* channels and every set of internal keys.                                *)
(***************************************************************************)
EXTENDS Pipeline, SequenceTheorems, TLAPS

\* No element of s occurs twice.
Once(s) == \A i, j \in DOMAIN s : s[i] = s[j] => i = j

\* The parser holds a line exactly while it waits to push it, a valid one.
Control ==
    /\ ppc = "push" <=> parsing # None
    /\ parsing # None => parsing \in Valid

-----------------------------------------------------------------------------
(***************************************************************************)
(* Sequences.                                                              *)
(***************************************************************************)

\* What a send adds to a channel, and AggregateMetric to an entry.
LEMMA AppendElements ==
    ASSUME NEW S, NEW s \in Seq(S), NEW e \in S
    PROVE  /\ Append(s, e) \in Seq(S)
           /\ Elements(Append(s, e)) = Elements(s) \cup {e}
           /\ Once(s) /\ e \notin Elements(s) => Once(Append(s, e))
<1>1. /\ Append(s, e) \in Seq(S) /\ Len(Append(s, e)) = Len(s) + 1
      /\ \A i \in 1 .. Len(s) : Append(s, e)[i] = s[i]
      /\ Append(s, e)[Len(s) + 1] = e
  BY AppendProperties
<1>2. /\ Len(s) \in Nat /\ DOMAIN s = 1 .. Len(s)
      /\ DOMAIN Append(s, e) = 1 .. Len(s) + 1
  BY <1>1, LenProperties
<1>3. Elements(Append(s, e)) = Elements(s) \cup {e}
  BY <1>1, <1>2 DEF Elements
<1>4. Once(s) /\ e \notin Elements(s) => Once(Append(s, e))
  BY <1>1, <1>2 DEF Elements, Once
<1> QED
  BY <1>1, <1>3, <1>4

\* What a receive takes from a channel.
LEMMA TailElements ==
    ASSUME NEW S, NEW s \in Seq(S), s # <<>>
    PROVE  /\ Head(s) \in S /\ Tail(s) \in Seq(S)
           /\ Elements(s) = Elements(Tail(s)) \cup {Head(s)}
           /\ Once(s) => Once(Tail(s)) /\ Head(s) \notin Elements(Tail(s))
<1>1. /\ Head(s) \in S /\ Tail(s) \in Seq(S) /\ Len(Tail(s)) = Len(s) - 1
      /\ \A i \in 1 .. Len(Tail(s)) : Tail(s)[i] = s[i + 1]
  BY HeadTailProperties
<1>2. /\ Len(s) \in Nat \ {0} /\ DOMAIN s = 1 .. Len(s)
      /\ DOMAIN Tail(s) = 1 .. Len(s) - 1
      /\ Head(s) = s[1]
  BY <1>1, LenProperties, EmptySeq
<1>3. Elements(s) = Elements(Tail(s)) \cup {Head(s)}
  <2>1. \A i \in DOMAIN s : i = 1 \/ (i - 1 \in DOMAIN Tail(s) /\ Tail(s)[i - 1] = s[i])
    BY <1>1, <1>2
  <2>2. \A i \in DOMAIN Tail(s) : i + 1 \in DOMAIN s /\ Tail(s)[i] = s[i + 1]
    BY <1>1, <1>2
  <2>3. Head(s) \in Elements(s)
    BY <1>2 DEF Elements
  <2>4. Elements(s) \subseteq Elements(Tail(s)) \cup {Head(s)}
    BY <1>2, <2>1 DEF Elements
  <2>5. Elements(Tail(s)) \subseteq Elements(s)
    BY <2>2 DEF Elements
  <2> QED
    BY <2>3, <2>4, <2>5
<1>4. Once(s) => Once(Tail(s)) /\ Head(s) \notin Elements(Tail(s))
  BY <1>1, <1>2 DEF Elements, Once
<1> QED
  BY <1>1, <1>3, <1>4

\* An empty channel or entry.
LEMMA EmptyElements ==
    Elements(<<>>) = {} /\ Once(<<>>)
BY DEF Elements, Once

\* The elements are of the sequence's type.
LEMMA ElementsType ==
    ASSUME NEW S, NEW s \in Seq(S)
    PROVE  Elements(s) \subseteq S
BY ElementOfSeq, LenProperties DEF Elements

\* One element alone: an internal metric.
LEMMA OneElement ==
    ASSUME NEW e
    PROVE  /\ <<e>> \in Seq({e}) /\ Elements(<<e>>) = {e} /\ Once(<<e>>)
BY DEF Elements, Once

-----------------------------------------------------------------------------
(***************************************************************************)
(* The types.                                                              *)
(***************************************************************************)

\* Keys of lines and of internal metrics.
LEMMA KeyTypes ==
    /\ \A l \in Lines : Key[l] \in Keys
    /\ RuntimeKeys \subseteq Keys /\ FlushKeys \subseteq Keys
BY PipelineAssumption DEF Keys

\* A fate is met once more.
LEMMA MeetTypes ==
    ASSUME TypeOK, NEW ls, NEW f \in Fates, Meet(ls, f)
    PROVE  /\ fate' \in [Lines -> [Fates -> Nat]]
           /\ \A l \in Lines, g \in Fates :
                 fate'[l][g] = IF l \in ls /\ g = f THEN fate[l][g] + 1
                               ELSE fate[l][g]
BY DEF TypeOK, Meet

\* What Prepare leaves in a store.
LEMMA Prepared ==
    ASSUME NEW entries \in [Keys -> Seq(Lines \cup {Internal})],
           NEW internal \in SUBSET Keys
    PROVE  /\ Prepare(entries, internal) \in [Keys -> Seq(Lines \cup {Internal})]
           /\ \A k \in internal : Prepare(entries, internal)[k] = <<Internal>>
           /\ \A k \in Keys \ internal : Prepare(entries, internal)[k] = entries[k]
<1>1. <<Internal>> \in Seq(Lines \cup {Internal})
  OBVIOUS
<1> QED
  BY <1>1 DEF Prepare

\* What AggregateMetric leaves in a store.
LEMMA Aggregated ==
    ASSUME NEW entries \in [Keys -> Seq(Lines \cup {Internal})], NEW l \in Lines
    PROVE  /\ Aggregate(entries, l) \in [Keys -> Seq(Lines \cup {Internal})]
           /\ Aggregate(entries, l)[Key[l]] = Append(entries[Key[l]], l)
           /\ \A k \in Keys \ {Key[l]} : Aggregate(entries, l)[k] = entries[k]
<1>1. Key[l] \in Keys
  BY KeyTypes
<1>2. Append(entries[Key[l]], l) \in Seq(Lines \cup {Internal})
  BY <1>1, AppendElements
<1> QED
  BY <1>1, <1>2 DEF Aggregate

\* Nothing has been read and the stores are empty (main).
LEMMA TypeInit == Init => TypeOK /\ Control
<1> SUFFICES ASSUME Init PROVE TypeOK /\ Control
  OBVIOUS
<1>1. \A S : <<>> \in Seq(S) /\ Len(<<>>) = 0
  BY EmptySeq
<1>2. MaxReqs \in Nat
  BY PipelineAssumption
<1>3. store \in [Workers -> [Keys -> Seq(Lines \cup {Internal})]]
  BY <1>1 DEF Init
<1>4. fate \in [Lines -> [Fates -> Nat]]
  BY DEF Init
<1>5. todo \in [Readers -> Seq(Lines)]
  BY PipelineAssumption DEF Init
<1>6. /\ parseChannel \in Seq(Lines) /\ Len(parseChannel) <= MaxReqs
      /\ relayChannel \in Seq(Lines) /\ Len(relayChannel) <= MaxReqs
  <2>1. Len(parseChannel) = 0 /\ Len(relayChannel) = 0
    BY <1>1 DEF Init
  <2> QED
    BY <1>1, <1>2, <2>1 DEF Init
<1>7. Control
  BY DEF Init, Control
<1>8. TypeOK
  BY <1>3, <1>4, <1>5, <1>6 DEF Init, TypeOK
<1> QED
  BY <1>7, <1>8

\* Every step keeps the types, and what the parser holds.
LEMMA TypeStep ==
    ASSUME TypeOK, Control, [Next]_vars
    PROVE  TypeOK' /\ Control'
<1> USE DEF TypeOK, parserVars, workerVars
<1>0. /\ MaxReqs \in Nat \ {0} /\ None \notin Lines
  BY PipelineAssumption
<1>1. ASSUME NEW r \in Readers, ReaderSend(r)
      PROVE  TypeOK' /\ Control'
  <2>1. /\ Head(todo[r]) \in Lines /\ Tail(todo[r]) \in Seq(Lines)
    BY <1>1, TailElements DEF ReaderSend
  <2>2. /\ parseChannel' \in Seq(Lines) /\ Len(parseChannel') = Len(parseChannel) + 1
    BY <1>1, <2>1, AppendProperties DEF ReaderSend
  <2>3. Len(parseChannel') <= MaxReqs
    BY <1>0, <1>1, <2>2, LenProperties DEF ReaderSend
  <2> QED
    BY <1>1, <2>1, <2>2, <2>3 DEF ReaderSend, Control
<1>2. CASE ParseReceive
  <2>1. /\ Head(parseChannel) \in Lines
        /\ parseChannel' \in Seq(Lines) /\ Len(parseChannel') = Len(parseChannel) - 1
    BY <1>2, HeadTailProperties DEF ParseReceive
  <2>2. Len(parseChannel') <= MaxReqs
    BY <1>0, <2>1, LenProperties
  <2>3. fate' \in [Lines -> [Fates -> Nat]]
    BY <1>2, MeetTypes DEF ParseReceive, Fates
  <2>4. parsing' \in Lines \cup {None} /\ ppc' \in {"push", "check"}
    BY <1>2, <2>1 DEF ParseReceive
  <2>5. Control'
    BY <1>0, <1>2, <2>1 DEF ParseReceive, Control
  <2> QED
    BY <1>2, <2>1, <2>2, <2>3, <2>4, <2>5 DEF ParseReceive
<1>3. CASE ParseTimeout
  BY <1>3 DEF ParseTimeout, Control
<1>4. CASE ParsePush
  <2>1. parsing \in Lines
    BY <1>4 DEF ParsePush, Control
  <2>2. /\ relayChannel' \in Seq(Lines) /\ Len(relayChannel') = Len(relayChannel) + 1
    BY <1>4, <2>1, AppendProperties DEF ParsePush
  <2>3. Len(relayChannel') <= MaxReqs
    BY <1>0, <1>4, <2>2, LenProperties DEF ParsePush
  <2> QED
    BY <1>4, <2>2, <2>3 DEF ParsePush, Control
<1>5. CASE ParseCheck
  BY <1>5 DEF ParseCheck, Control
<1>6. ASSUME NEW w \in Workers, WorkerStep(w)
      PROVE  TypeOK' /\ Control'
  <2>0. ASSUME store' \in [Workers -> [Keys -> Seq(Lines \cup {Internal})]],
               relayChannel' \in Seq(Lines), Len(relayChannel') <= MaxReqs,
               fate' \in [Lines -> [Fates -> Nat]]
        PROVE  TypeOK' /\ Control'
    BY <1>6, <2>0 DEF WorkerStep, WorkerTop, WorkerReceive, WorkerTimeout,
         WorkerNoTick, WorkerTick, RelayOne, RelayPanic, FlushInternal,
         FlushDone, WAt, Flushing, Goto, Control
  <2>1. CASE WorkerReceive(w)
    <3>1. /\ Head(relayChannel) \in Lines
          /\ relayChannel' \in Seq(Lines) /\ Len(relayChannel') = Len(relayChannel) - 1
      BY <2>1, HeadTailProperties DEF WorkerReceive
    <3>2. Len(relayChannel') <= MaxReqs
      BY <1>0, <3>1, LenProperties
    <3>3. store' \in [Workers -> [Keys -> Seq(Lines \cup {Internal})]]
      BY <2>1, <3>1, Aggregated DEF WorkerReceive
    <3> QED
      BY <2>0, <2>1, <3>1, <3>2, <3>3 DEF WorkerReceive
  <2>2. CASE WorkerTick(w)
    <3>1. store' \in [Workers -> [Keys -> Seq(Lines \cup {Internal})]]
      BY <2>2, KeyTypes, Prepared DEF WorkerTick
    <3>2. fate' \in [Lines -> [Fates -> Nat]]
      BY <2>2, MeetTypes DEF WorkerTick, Fates
    <3> QED
      BY <2>0, <2>2, <3>1, <3>2 DEF WorkerTick
  <2>3. CASE FlushInternal(w)
    <3>1. store' \in [Workers -> [Keys -> Seq(Lines \cup {Internal})]]
      BY <2>3, KeyTypes, Prepared DEF FlushInternal
    <3>2. fate' \in [Lines -> [Fates -> Nat]]
      BY <2>3, MeetTypes DEF FlushInternal, Fates
    <3> QED
      BY <2>0, <2>3, <3>1, <3>2 DEF FlushInternal
  <2>4. CASE RelayOne(w)
    <3>1. PICK k \in Stored(w), f \in {"reported", "dropped"} :
             /\ Meet(Elements(store[w][k]) \ {Internal}, f)
             /\ store' = [store EXCEPT ![w][k] = <<>>]
      BY <2>4 DEF RelayOne
    <3>2. store' \in [Workers -> [Keys -> Seq(Lines \cup {Internal})]]
      BY <3>1, EmptySeq DEF Stored
    <3>3. fate' \in [Lines -> [Fates -> Nat]]
      BY <3>1, MeetTypes DEF Fates
    <3> QED
      BY <2>0, <2>4, <3>2, <3>3 DEF RelayOne
  <2>5. CASE \/ WorkerTop(w) \/ WorkerTimeout(w) \/ WorkerNoTick(w)
             \/ RelayPanic(w) \/ FlushDone(w)
    BY <2>0, <2>5 DEF WorkerTop, WorkerTimeout, WorkerNoTick, RelayPanic, FlushDone
  <2> QED
    BY <1>6, <2>1, <2>2, <2>3, <2>4, <2>5 DEF WorkerStep
<1>7. ASSUME NEW w \in Workers, Tick(w)
      PROVE  TypeOK' /\ Control'
  BY <1>7 DEF Tick, Control
<1>8. CASE Finish \/ MainReturns \/ Ended \/ UNCHANGED vars
  BY <1>8 DEF Finish, MainReturns, Ended, vars, Control
<1> QED
  BY <1>1, <1>2, <1>3, <1>4, <1>5, <1>6, <1>7, <1>8 DEF Next, ParseStep

-----------------------------------------------------------------------------
(***************************************************************************)
(* Where the lines are.                                                    *)
(***************************************************************************)
AtReader(l) == \E r \in Readers : l \in Elements(todo[r])
AtParse(l)  == l \in Elements(parseChannel)
AtRelay(l)  == l \in Elements(relayChannel)
AtStore(l)  == \E w \in Workers : l \in Elements(store[w][Key[l]])

\* What has been parsed is valid, and in a store it is under its own key.
Owned ==
    /\ Elements(relayChannel) \subseteq Valid
    /\ \A w \in Workers, k \in Keys : \A l \in Elements(store[w][k]) :
          l # Internal => l \in Valid /\ Key[l] = k

\* Nothing is twice in one of the places of a kind.
Single ==
    /\ \A r \in Readers : Once(todo[r])
    /\ \A q, r \in Readers : q # r => Elements(todo[q]) \cap Elements(todo[r]) = {}
    /\ Once(parseChannel) /\ Once(relayChannel)
    /\ \A w \in Workers, k \in Keys : Once(store[w][k])
    /\ \A v, w \in Workers, l \in Lines :
          /\ l \in Elements(store[v][Key[l]])
          /\ l \in Elements(store[w][Key[l]])
          => v = w
    /\ \A l \in Lines : \A f, g \in Fates :
          /\ fate[l][f] <= 1
          /\ fate[l][f] > 0 /\ fate[l][g] > 0 => f = g

\* Nor is it in places of two kinds, or nowhere.
Located ==
    \A l \in Lines :
        /\ AtReader(l) \/ AtParse(l) \/ l = parsing \/ AtRelay(l) \/ AtStore(l)
              \/ Settled(l)
        /\ AtReader(l) => /\ ~AtParse(l) /\ l # parsing /\ ~AtRelay(l)
                          /\ ~AtStore(l) /\ ~Settled(l)
        /\ AtParse(l) => l # parsing /\ ~AtRelay(l) /\ ~AtStore(l) /\ ~Settled(l)
        /\ l = parsing => ~AtRelay(l) /\ ~AtStore(l) /\ ~Settled(l)
        /\ AtRelay(l) => ~AtStore(l) /\ ~Settled(l)
        /\ AtStore(l) => ~Settled(l)

Placed == Owned /\ Single /\ Located

IInv == TypeOK /\ Control /\ Placed /\ OverwrittenOnlyRuntime

\* A line that moves leaves one place for another, and the others stay.
LEMMA SendPlaced ==
    ASSUME IInv, NEW r \in Readers, ReaderSend(r)
    PROVE  /\ Placed'
           /\ Head(todo[r]) \in Lines
           /\ \A l \in Lines : /\ AtReader(l)' <=> AtReader(l) /\ l # Head(todo[r])
                               /\ AtParse(l)' <=> AtParse(l) \/ l = Head(todo[r])
                               /\ AtRelay(l)' <=> AtRelay(l)
                               /\ AtStore(l)' <=> AtStore(l)
                               /\ Settled(l)' <=> Settled(l)
<1> DEFINE e == Head(todo[r])
<1> USE DEF IInv, Placed
<1>1. /\ e \in Lines
      /\ Elements(todo[r]) = Elements(todo'[r]) \cup {e}
      /\ e \notin Elements(todo'[r]) /\ Once(todo'[r])
      /\ \A q \in Readers : q # r => todo'[q] = todo[q]
  BY TailElements DEF ReaderSend, TypeOK, Single
<1>2. AtReader(e)
  BY <1>1 DEF AtReader
<1>3. e \notin Elements(parseChannel)
  BY <1>1, <1>2 DEF Located, AtParse
<1>4. /\ Elements(parseChannel') = Elements(parseChannel) \cup {e}
      /\ Once(parseChannel')
  BY <1>1, <1>3, AppendElements DEF ReaderSend, TypeOK, Single
<1>5. UNCHANGED <<relayChannel, parsing, store, fate>>
  BY DEF ReaderSend, parserVars, workerVars
<1>6. Owned'
  BY <1>5 DEF Owned
<1>7. Single'
  BY <1>1, <1>4, <1>5 DEF Single
<1>8. \A l \in Lines : /\ AtReader(l)' <=> AtReader(l) /\ l # e
                       /\ AtParse(l)' <=> AtParse(l) \/ l = e
                       /\ AtRelay(l)' <=> AtRelay(l)
                       /\ AtStore(l)' <=> AtStore(l)
                       /\ Settled(l)' <=> Settled(l)
  <2>1. TAKE l \in Lines
  <2>2. AtReader(l)' <=> AtReader(l) /\ l # e
    BY <1>1 DEF AtReader, Single
  <2>3. AtParse(l)' <=> AtParse(l) \/ l = e
    BY <1>4 DEF AtParse
  <2> QED
    BY <1>5, <2>2, <2>3 DEF AtRelay, AtStore, Settled
<1>9. Located'
  BY <1>2, <1>5, <1>8 DEF Located
<1> QED
  BY <1>1, <1>6, <1>7, <1>8, <1>9

\* ParseMetrics takes a line, and rejects it or holds it.
LEMMA ReceivePlaced ==
    ASSUME IInv, ParseReceive
    PROVE  /\ Placed'
           /\ Head(parseChannel) \in Lines
           /\ \A l \in Lines : /\ AtReader(l)' <=> AtReader(l)
                               /\ AtParse(l)' <=> AtParse(l) /\ l # Head(parseChannel)
                               /\ AtRelay(l)' <=> AtRelay(l)
                               /\ AtStore(l)' <=> AtStore(l)
                               /\ l = parsing' \/ Settled(l)' <=>
                                     l = Head(parseChannel) \/ Settled(l)
<1> DEFINE e == Head(parseChannel)
<1> USE DEF IInv, Placed
<1>1. /\ e \in Lines
      /\ Elements(parseChannel) = Elements(parseChannel') \cup {e}
      /\ e \notin Elements(parseChannel') /\ Once(parseChannel')
  BY TailElements DEF ParseReceive, TypeOK, Single
<1>2. AtParse(e)
  BY <1>1 DEF AtParse
<1>3. UNCHANGED <<todo, relayChannel, store>>
  BY DEF ParseReceive, workerVars
<1>4. parsing = None /\ None \notin Lines
  BY PipelineAssumption DEF ParseReceive, Control
<1>5. /\ \A l \in Lines : l = parsing' \/ Settled(l)' <=> l = e \/ Settled(l)
      /\ \A l \in Lines : ~(l = parsing' /\ Settled(l)')
      /\ \A l \in Lines, f \in Fates :
            \/ fate'[l][f] = fate[l][f]
            \/ l = e /\ f = "rejected" /\ fate'[l][f] = fate[l][f] + 1
  <2>1. CASE e \in Valid
    <3>1. parsing' = e /\ fate' = fate
      BY <2>1 DEF ParseReceive
    <3> QED
      BY <1>1, <1>2, <3>1 DEF Settled, Located
  <2>2. CASE e \notin Valid
    <3>1. parsing' = None /\ Meet({e}, "rejected") /\ "rejected" \in Fates
      BY <1>4, <2>2 DEF ParseReceive, Fates
    <3>2. \A l \in Lines, g \in Fates :
             fate'[l][g] = IF l \in {e} /\ g = "rejected" THEN fate[l][g] + 1
                           ELSE fate[l][g]
      BY <3>1, MeetTypes
    <3>3. \A l \in Lines, g \in Fates : fate[l][g] \in Nat
      BY DEF TypeOK
    <3> QED
      BY <1>4, <3>1, <3>2, <3>3 DEF Settled
  <2> QED
    BY <2>1, <2>2
<1>6. Owned'
  BY <1>3 DEF Owned
<1>7. Single'
  <2>1. \A f \in Fates : fate[e][f] = 0
    BY <1>1, <1>2 DEF Located, Settled, TypeOK
  <2>2. \A l \in Lines : \A f, g \in Fates :
          /\ fate'[l][f] <= 1
          /\ fate'[l][f] > 0 /\ fate'[l][g] > 0 => f = g
    <3>1. TAKE l \in Lines
    <3>2. CASE l = e
      BY <1>5, <2>1, <3>2
    <3>3. CASE l # e
      BY <1>5, <3>3 DEF Single
    <3> QED
      BY <3>2, <3>3
  <2> QED
    BY <1>1, <1>3, <2>2 DEF Single
<1>8. \A l \in Lines : /\ AtReader(l)' <=> AtReader(l)
                       /\ AtParse(l)' <=> AtParse(l) /\ l # e
                       /\ AtRelay(l)' <=> AtRelay(l)
                       /\ AtStore(l)' <=> AtStore(l)
  BY <1>1, <1>3 DEF AtReader, AtParse, AtRelay, AtStore
<1>9. Located'
  BY <1>2, <1>4, <1>5, <1>8 DEF Located
<1> QED
  BY <1>1, <1>5, <1>6, <1>7, <1>8, <1>9

\* ParseMetrics hands the line it holds to the workers.
LEMMA PushPlaced ==
    ASSUME IInv, ParsePush
    PROVE  /\ Placed'
           /\ parsing \in Lines /\ parsing' = None
           /\ \A l \in Lines : /\ AtReader(l)' <=> AtReader(l)
                               /\ AtParse(l)' <=> AtParse(l)
                               /\ AtRelay(l)' <=> AtRelay(l) \/ l = parsing
                               /\ AtStore(l)' <=> AtStore(l)
                               /\ Settled(l)' <=> Settled(l)
<1> USE DEF IInv, Placed
<1>1. /\ parsing \in Valid /\ parsing \in Lines /\ None \notin Lines
      /\ parsing' = None
  BY PipelineAssumption DEF ParsePush, Control
<1>2. /\ Elements(relayChannel') = Elements(relayChannel) \cup {parsing}
      /\ Once(relayChannel')
  <2>1. parsing \notin Elements(relayChannel)
    BY <1>1 DEF Located, AtRelay
  <2> QED
    BY <1>1, <2>1, AppendElements DEF ParsePush, TypeOK, Single
<1>3. UNCHANGED <<todo, parseChannel, store, fate>>
  BY DEF ParsePush, workerVars
<1>4. Owned'
  BY <1>1, <1>2, <1>3 DEF Owned
<1>5. Single'
  BY <1>2, <1>3 DEF Single
<1>6. \A l \in Lines : /\ AtReader(l)' <=> AtReader(l)
                       /\ AtParse(l)' <=> AtParse(l)
                       /\ AtRelay(l)' <=> AtRelay(l) \/ l = parsing
                       /\ AtStore(l)' <=> AtStore(l)
                       /\ Settled(l)' <=> Settled(l)
  BY <1>2, <1>3 DEF AtReader, AtParse, AtRelay, AtStore, Settled
<1>7. Located'
  BY <1>1, <1>6 DEF Located
<1> QED
  BY <1>1, <1>4, <1>5, <1>6, <1>7

\* AggregateMetric puts a line into the store of one worker, under its key.
LEMMA AggregatePlaced ==
    ASSUME IInv, NEW w \in Workers, WorkerReceive(w)
    PROVE  /\ Placed'
           /\ Head(relayChannel) \in Lines
           /\ \A l \in Lines : /\ AtReader(l)' <=> AtReader(l)
                               /\ AtParse(l)' <=> AtParse(l)
                               /\ AtRelay(l)' <=> AtRelay(l) /\ l # Head(relayChannel)
                               /\ AtStore(l)' <=> AtStore(l) \/ l = Head(relayChannel)
                               /\ Settled(l)' <=> Settled(l)
<1> DEFINE e == Head(relayChannel)
<1> USE DEF IInv, Placed
<1>1. /\ e \in Lines /\ e \in Valid /\ Key[e] \in Keys /\ e # Internal
      /\ Elements(relayChannel) = Elements(relayChannel') \cup {e}
      /\ e \notin Elements(relayChannel') /\ Once(relayChannel')
  BY TailElements, KeyTypes, PipelineAssumption DEF WorkerReceive, TypeOK, Single, Owned
<1>2. AtRelay(e)
  BY <1>1 DEF AtRelay
<1>3. UNCHANGED <<todo, parseChannel, parsing, fate>>
  BY DEF WorkerReceive, parserVars
<1>4. /\ \A v \in Workers : v # w => store'[v] = store[v]
      /\ \A k \in Keys : k # Key[e] => store'[w][k] = store[w][k]
      /\ store'[w][Key[e]] = Append(store[w][Key[e]], e)
  <2>1. store[w] \in [Keys -> Seq(Lines \cup {Internal})]
    BY DEF TypeOK
  <2>2. store' = [store EXCEPT ![w] = Aggregate(store[w], e)]
    BY DEF WorkerReceive
  <2>3. \A v \in Workers : store'[v] = IF v = w THEN Aggregate(store[w], e) ELSE store[v]
    BY <2>2 DEF TypeOK
  <2> QED
    BY <1>1, <2>1, <2>3, Aggregated
<1>5. /\ Elements(store'[w][Key[e]]) = Elements(store[w][Key[e]]) \cup {e}
      /\ Once(store'[w][Key[e]])
  <2>1. e \notin Elements(store[w][Key[e]])
    BY <1>1, <1>2 DEF Located, AtStore
  <2>2. store[w][Key[e]] \in Seq(Lines \cup {Internal})
    BY <1>1 DEF TypeOK
  <2> QED
    BY <1>1, <1>4, <2>1, <2>2, AppendElements DEF Single
<1>6. Owned'
  <2>1. \A v \in Workers, k \in Keys : \A l \in Elements(store'[v][k]) :
           l \in Elements(store[v][k]) \/ (l = e /\ k = Key[e])
    BY <1>4, <1>5
  <2> QED
    BY <1>1, <2>1 DEF Owned
<1>7. \A l \in Lines, v \in Workers :
         l \in Elements(store'[v][Key[l]]) <=>
            l \in Elements(store[v][Key[l]]) \/ (l = e /\ v = w)
  <2>1. TAKE l \in Lines, v \in Workers
  <2>2. Key[l] \in Keys
    BY KeyTypes
  <2>3. CASE v = w /\ Key[l] = Key[e]
    BY <1>5, <2>3
  <2>4. CASE v # w \/ Key[l] # Key[e]
    BY <1>4, <2>2, <2>4
  <2> QED
    BY <2>3, <2>4
<1>8. \A l \in Lines : /\ AtReader(l)' <=> AtReader(l)
                       /\ AtParse(l)' <=> AtParse(l)
                       /\ AtRelay(l)' <=> AtRelay(l) /\ l # e
                       /\ AtStore(l)' <=> AtStore(l) \/ l = e
                       /\ Settled(l)' <=> Settled(l)
  BY <1>1, <1>3, <1>7 DEF AtReader, AtParse, AtRelay, AtStore, Settled
<1>9. Located'
  BY <1>2, <1>3, <1>8 DEF Located
<1>10. Single'
  <2>1. \A v \in Workers, k \in Keys : Once(store'[v][k])
    BY <1>4, <1>5 DEF Single
  <2>2. \A u, v \in Workers, l \in Lines :
          /\ l \in Elements(store'[u][Key[l]])
          /\ l \in Elements(store'[v][Key[l]])
          => u = v
    BY <1>1, <1>2, <1>7 DEF Single, Located, AtStore
  <2> QED
    BY <1>1, <1>3, <2>1, <2>2 DEF Single
<1> QED
  BY <1>1, <1>6, <1>8, <1>9, <1>10

\* The lines under some keys of one worker leave the store for a fate: they are
\* flushed (RelayAllMetrics) or replaced (the Prepare functions).
Empties(w, K, f) ==
    /\ UNCHANGED <<todo, parseChannel, parsing, relayChannel>>
    /\ \A v \in Workers : v # w => store'[v] = store[v]
    /\ \A k \in Keys \ K : store'[w][k] = store[w][k]
    /\ \A k \in K : Elements(store'[w][k]) \subseteq {Internal} /\ Once(store'[w][k])
    /\ Meet(Replaced(w, K), f)

\* The lines of those keys, all of them and no others, are settled.
LEMMA SettlePlaced ==
    ASSUME IInv, NEW w \in Workers, NEW K \in SUBSET Keys, NEW f \in Fates,
           Empties(w, K, f)
    PROVE  /\ Placed'
           /\ \A l \in Lines : /\ AtReader(l)' <=> AtReader(l)
                               /\ AtParse(l)' <=> AtParse(l)
                               /\ AtRelay(l)' <=> AtRelay(l)
                               /\ AtStore(l)' <=> AtStore(l) /\ l \notin Replaced(w, K)
                               /\ Settled(l)' <=> Settled(l) \/ l \in Replaced(w, K)
                               /\ l \in Replaced(w, K) <=>
                                     l \in Elements(store[w][Key[l]]) /\ Key[l] \in K
<1> USE DEF Empties
<1> USE DEF IInv, Placed
<1>1. Internal \notin Lines
  BY PipelineAssumption
<1>2. \A l \in Lines : /\ l \in Replaced(w, K) => l \in Elements(store[w][Key[l]])
                       /\ l \in Elements(store[w][Key[l]]) /\ Key[l] \in K
                             => l \in Replaced(w, K)
                       /\ l \in Replaced(w, K) => Key[l] \in K
  BY <1>1, KeyTypes DEF Replaced, Owned
<1>3. \A l \in Lines, v \in Workers :
         l \in Elements(store'[v][Key[l]]) <=>
            l \in Elements(store[v][Key[l]]) /\ l \notin Replaced(w, K)
  <2>1. TAKE l \in Lines, v \in Workers
  <2>2. Key[l] \in Keys
    BY KeyTypes
  <2>3. CASE v # w
    BY <1>2, <2>3 DEF Single
  <2>4. CASE v = w /\ Key[l] \in K
    BY <1>1, <1>2, <2>4
  <2>5. CASE v = w /\ Key[l] \notin K
    BY <1>2, <2>2, <2>5
  <2> QED
    BY <2>3, <2>4, <2>5
<1>4. \A l \in Lines, g \in Fates :
         fate'[l][g] = IF l \in Replaced(w, K) /\ g = f THEN fate[l][g] + 1
                       ELSE fate[l][g]
  BY MeetTypes
<1>5. \A l \in Lines : l \in Replaced(w, K) => AtStore(l)
  BY <1>2 DEF AtStore
<1>6. \A l \in Lines, g \in Fates : /\ fate[l][g] \in Nat
                                    /\ l \in Replaced(w, K) => fate[l][g] = 0
  BY <1>5 DEF Located, Settled, TypeOK
<1>7. \A l \in Lines : /\ AtReader(l)' <=> AtReader(l)
                       /\ AtParse(l)' <=> AtParse(l)
                       /\ AtRelay(l)' <=> AtRelay(l)
                       /\ AtStore(l)' <=> AtStore(l) /\ l \notin Replaced(w, K)
                       /\ Settled(l)' <=> Settled(l) \/ l \in Replaced(w, K)
  <2>1. TAKE l \in Lines
  <2>2. Settled(l)' <=> Settled(l) \/ l \in Replaced(w, K)
    BY <1>4, <1>6 DEF Settled
  <2>3. AtStore(l)' <=> AtStore(l) /\ l \notin Replaced(w, K)
    BY <1>3 DEF AtStore
  <2> QED
    BY <2>2, <2>3 DEF AtReader, AtParse, AtRelay
<1>8. Located'
  BY <1>5, <1>7 DEF Located
<1>9. Owned'
  BY DEF Owned
<1>10. Single'
  <2>1. \A v \in Workers, k \in Keys : Once(store'[v][k])
    BY DEF Single
  <2>2. \A u, v \in Workers, l \in Lines :
          /\ l \in Elements(store'[u][Key[l]])
          /\ l \in Elements(store'[v][Key[l]])
          => u = v
    BY <1>3 DEF Single
  <2>3. \A l \in Lines : \A g, h \in Fates :
          /\ fate'[l][g] <= 1
          /\ fate'[l][g] > 0 /\ fate'[l][h] > 0 => g = h
    BY <1>4, <1>6 DEF Single
  <2> QED
    BY <2>1, <2>2, <2>3 DEF Single
<1> QED
  BY <1>2, <1>7, <1>8, <1>9, <1>10

\* WorkerTick and FlushInternal, and each round of RelayAllMetrics.
LEMMA FlushEmpties ==
    ASSUME IInv, NEW w \in Workers,
           WorkerTick(w) \/ FlushInternal(w) \/ RelayOne(w)
    PROVE  \E K \in SUBSET Keys, f \in Fates : Empties(w, K, f)
<1>0. Elements(<<Internal>>) = {Internal} /\ Once(<<Internal>>)
  BY OneElement
<1> USE DEF IInv
<1>1. store[w] \in [Keys -> Seq(Lines \cup {Internal})]
  BY DEF TypeOK
<1>2. CASE WorkerTick(w)
  <2>1. /\ UNCHANGED <<todo, parseChannel, parsing, relayChannel>>
        /\ store' = [store EXCEPT ![w] = Prepare(store[w], RuntimeKeys)]
        /\ Meet(Replaced(w, RuntimeKeys), "overwritten")
    BY <1>2 DEF WorkerTick, parserVars
  <2>2. \A v \in Workers : store'[v] = IF v = w THEN Prepare(store[w], RuntimeKeys)
                                       ELSE store[v]
    BY <2>1 DEF TypeOK
  <2>3. /\ RuntimeKeys \in SUBSET Keys /\ "overwritten" \in Fates
        /\ \A k \in Keys \ RuntimeKeys : store'[w][k] = store[w][k]
        /\ \A k \in RuntimeKeys : store'[w][k] = <<Internal>>
    BY <1>1, <2>2, KeyTypes, Prepared DEF Fates
  <2> QED
    BY <1>0, <2>1, <2>2, <2>3 DEF Empties
<1>3. CASE FlushInternal(w)
  <2>1. /\ UNCHANGED <<todo, parseChannel, parsing, relayChannel>>
        /\ store' = [store EXCEPT ![w] = Prepare(store[w], FlushKeys)]
        /\ Meet(Replaced(w, FlushKeys), "overwritten")
    BY <1>3 DEF FlushInternal, parserVars
  <2>2. \A v \in Workers : store'[v] = IF v = w THEN Prepare(store[w], FlushKeys)
                                       ELSE store[v]
    BY <2>1 DEF TypeOK
  <2>3. /\ FlushKeys \in SUBSET Keys /\ "overwritten" \in Fates
        /\ \A k \in Keys \ FlushKeys : store'[w][k] = store[w][k]
        /\ \A k \in FlushKeys : store'[w][k] = <<Internal>>
    BY <1>1, <2>2, KeyTypes, Prepared DEF Fates
  <2> QED
    BY <1>0, <2>1, <2>2, <2>3 DEF Empties
<1>4. CASE RelayOne(w)
  <2>1. PICK k \in Stored(w), f \in {"reported", "dropped"} :
           /\ Meet(Elements(store[w][k]) \ {Internal}, f)
           /\ store' = [store EXCEPT ![w][k] = <<>>]
    BY <1>4 DEF RelayOne
  <2>2. /\ {k} \in SUBSET Keys /\ f \in Fates
        /\ UNCHANGED <<todo, parseChannel, parsing, relayChannel>>
    BY <1>4 DEF Stored, Fates, RelayOne, parserVars
  <2>3. Meet(Replaced(w, {k}), f)
    BY <2>1 DEF Replaced
  <2>4. /\ \A v \in Workers : v # w => store'[v] = store[v]
        /\ \A j \in Keys \ {k} : store'[w][j] = store[w][j]
        /\ store'[w][k] = <<>>
    BY <1>1, <2>1, <2>2 DEF TypeOK
  <2> QED
    BY <2>2, <2>3, <2>4, EmptyElements DEF Empties
<1> QED
  BY <1>2, <1>3, <1>4

\* The steps that move no line.
LEMMA StaysPlaced ==
    ASSUME IInv, UNCHANGED <<todo, parseChannel, parsing, relayChannel, store, fate>>
    PROVE  Placed'
BY DEF IInv, Placed, Owned, Single, Located, AtReader, AtParse, AtRelay, AtStore,
       Settled

\* PrepareFlushMetrics writes into an empty store.
LEMMA FlushReplacesNothing ==
    ASSUME TypeOK, NEW w \in Workers, FlushInternal(w)
    PROVE  Replaced(w, FlushKeys) = {}
<1>1. \A k \in FlushKeys : store[w][k] = <<>>
  BY KeyTypes DEF FlushInternal, Stored
<1> QED
  BY <1>1, EmptyElements DEF Replaced

\* Only PrepareRuntimeMetrics replaces what clients sent, under its own keys.
LEMMA OverwriteStep ==
    ASSUME IInv, [Next]_vars
    PROVE  OverwrittenOnlyRuntime'
<1> USE DEF IInv, OverwrittenOnlyRuntime
<1>1. ASSUME \A l \in Lines : fate'[l].overwritten = fate[l].overwritten
      PROVE  OverwrittenOnlyRuntime'
  BY <1>1
<1>2. ASSUME NEW ls, NEW f \in {"rejected", "reported", "dropped"}, Meet(ls, f)
      PROVE  OverwrittenOnlyRuntime'
  BY <1>1, <1>2, MeetTypes DEF Fates
<1>3. CASE ParseReceive
  BY <1>1, <1>2, <1>3 DEF ParseReceive
<1>4. ASSUME NEW w \in Workers, WorkerTick(w)
      PROVE  OverwrittenOnlyRuntime'
  <2>1. Meet(Replaced(w, RuntimeKeys), "overwritten") /\ "overwritten" \in Fates
    BY <1>4 DEF WorkerTick, Fates
  <2>2. \A l \in Lines : l \in Replaced(w, RuntimeKeys) => Key[l] \in RuntimeKeys
    BY KeyTypes, PipelineAssumption DEF Replaced, Placed, Owned
  <2>3. \A l \in Lines : fate'[l].overwritten =
           IF l \in Replaced(w, RuntimeKeys) THEN fate[l].overwritten + 1
           ELSE fate[l].overwritten
    BY <2>1, MeetTypes
  <2> QED
    BY <2>2, <2>3
<1>5. ASSUME NEW w \in Workers, FlushInternal(w)
      PROVE  OverwrittenOnlyRuntime'
  <2>1. Meet({}, "overwritten") /\ "overwritten" \in Fates
    BY <1>5, FlushReplacesNothing DEF FlushInternal, Fates
  <2>2. \A l \in Lines : fate'[l].overwritten = fate[l].overwritten
    BY <2>1, MeetTypes
  <2> QED
    BY <1>1, <2>2
<1>6. ASSUME NEW w \in Workers, RelayOne(w)
      PROVE  OverwrittenOnlyRuntime'
  BY <1>2, <1>6 DEF RelayOne
<1>7. CASE UNCHANGED fate
  BY <1>1, <1>7
<1> QED
  BY <1>3, <1>4, <1>5, <1>6, <1>7 DEF Next, ParseStep, WorkerStep, ReaderSend,
     ParseTimeout, ParsePush, ParseCheck, WorkerTop, WorkerReceive, WorkerTimeout,
     WorkerNoTick, RelayPanic, FlushDone, Tick, Finish, MainReturns, Ended, vars

\* Every step leaves each line in one place, or moves it to one.
LEMMA PlacedStep ==
    ASSUME IInv, [Next]_vars
    PROVE  Placed'
<1>1. CASE UNCHANGED <<todo, parseChannel, parsing, relayChannel, store, fate>>
  BY <1>1, StaysPlaced
<1>2. CASE ParseStep
  BY <1>1, <1>2, ReceivePlaced, PushPlaced
     DEF ParseStep, ParseTimeout, ParseCheck, workerVars
<1>3. ASSUME NEW w \in Workers, WorkerStep(w)
      PROVE  Placed'
  BY <1>1, <1>3, AggregatePlaced, FlushEmpties, SettlePlaced
     DEF WorkerStep, WorkerTop, WorkerTimeout, WorkerNoTick, RelayPanic, FlushDone,
         parserVars, workerVars
<1> QED
  BY <1>1, <1>2, <1>3, SendPlaced
     DEF Next, Tick, Finish, MainReturns, Ended, vars, parserVars, workerVars

\* At first the readers have all lines (Script).
LEMMA InitIInv == Init => IInv
<1> SUFFICES ASSUME Init PROVE IInv
  OBVIOUS
<1>1. TypeOK /\ Control
  BY TypeInit
<1>2. /\ \A w \in Workers, k \in Keys : store[w][k] = <<>>
      /\ parseChannel = <<>> /\ relayChannel = <<>> /\ todo = Script
      /\ parsing = None
      /\ \A l \in Lines, f \in Fates : fate[l][f] = 0
  BY DEF Init
<1>3. Owned
  BY <1>2, EmptyElements DEF Owned
<1>4. Single
  <2>1. \A r \in Readers : Once(todo[r])
    BY <1>2, PipelineAssumption DEF Once
  <2>2. \A q, r \in Readers : q # r => Elements(todo[q]) \cap Elements(todo[r]) = {}
    BY <1>2, PipelineAssumption
  <2> QED
    BY <1>2, <2>1, <2>2, KeyTypes, EmptyElements DEF Single
<1>5. Located
  <2>1. \A l \in Lines : AtReader(l)
    BY <1>2, PipelineAssumption DEF AtReader
  <2>2. \A l \in Lines : ~AtParse(l) /\ ~AtRelay(l) /\ ~AtStore(l) /\ ~Settled(l)
    BY <1>2, KeyTypes, EmptyElements DEF AtParse, AtRelay, AtStore, Settled
  <2>3. None \notin Lines
    BY PipelineAssumption
  <2> QED
    BY <1>2, <2>1, <2>2, <2>3 DEF Located
<1>6. OverwrittenOnlyRuntime
  BY <1>2 DEF OverwrittenOnlyRuntime, Fates
<1> QED
  BY <1>1, <1>3, <1>4, <1>5, <1>6 DEF IInv, Placed

\* The inductive invariant.
LEMMA Invariance == Spec => []IInv
<1>1. IInv /\ [Next]_vars => IInv'
  BY TypeStep, PlacedStep, OverwriteStep DEF IInv
<1> QED
  BY InitIInv, <1>1, PTL DEF Spec

-----------------------------------------------------------------------------
(***************************************************************************)
(* Each line in one place.                                                 *)
(***************************************************************************)

\* How often a sequence in which nothing occurs twice has l.
LEMMA HitsOnce ==
    ASSUME NEW s, NEW l, Once(s)
    PROVE  /\ l \in Elements(s) => \E i : Hits(s, l) = {i}
           /\ l \notin Elements(s) => Hits(s, l) = {}
BY DEF Once, Elements, Hits

\* Of the six parts of Where(l) one has an element, and one only.
LEMMA PlacedIsOnePlace ==
    ASSUME TypeOK, Placed
    PROVE  OnePlace
<1> SUFFICES ASSUME NEW l \in Lines
             PROVE  \E p \in Where(l) : Where(l) = {p}
  BY DEF OnePlace
<1> DEFINE Reader == UNION {{<<"reader", r, i>> : i \in Hits(todo[r], l)} : r \in Readers}
           Parse  == {<<"parseChannel", None, i>> : i \in Hits(parseChannel, l)}
           Parser == {<<"parsing", None, i>> : i \in Hits(<<parsing>>, l)}
           Relay  == {<<"relayChannel", None, i>> : i \in Hits(relayChannel, l)}
           Store  == UNION {UNION {{<<k, w, i>> : i \in Hits(store[w][k], l)} :
                                      k \in Keys} : w \in Workers}
           Fate   == UNION {{<<f, None, i>> : i \in 1 .. fate[l][f]} : f \in Fates}
<1>1. Where(l) = Reader \cup Parse \cup Parser \cup Relay \cup Store \cup Fate
  BY Zenon DEF Where
<1> USE DEF Placed, Single
<1>2. /\ AtReader(l) => \E p : Reader = {p}
      /\ ~AtReader(l) => Reader = {}
  <2>1. ASSUME NEW r \in Readers, l \in Elements(todo[r])
        PROVE  \E p : Reader = {p}
    <3>1. PICK i : Hits(todo[r], l) = {i}
      BY <2>1, HitsOnce
    <3>2. \A q \in Readers : q # r => Hits(todo[q], l) = {}
      BY <2>1, HitsOnce
    <3>3. Reader = {<<"reader", r, i>>}
      BY <3>1, <3>2
    <3> QED
      BY <3>3
  <2>2. ASSUME ~AtReader(l)
        PROVE  Reader = {}
    BY <2>2, HitsOnce DEF AtReader
  <2> QED
    BY <2>1, <2>2 DEF AtReader
<1>3. /\ AtParse(l) => \E p : Parse = {p}
      /\ ~AtParse(l) => Parse = {}
  <2>1. CASE AtParse(l)
    <3>1. PICK i : Hits(parseChannel, l) = {i}
      BY <2>1, HitsOnce DEF AtParse
    <3>2. Parse = {<<"parseChannel", None, i>>}
      BY <3>1
    <3> QED
      BY <2>1, <3>2
  <2>2. CASE ~AtParse(l)
    BY <2>2, HitsOnce DEF AtParse
  <2> QED
    BY <2>1, <2>2
<1>4. /\ l = parsing => \E p : Parser = {p}
      /\ l # parsing => Parser = {}
  <2>1. Once(<<parsing>>) /\ Elements(<<parsing>>) = {parsing}
    BY OneElement
  <2>2. CASE l = parsing
    <3>1. PICK i : Hits(<<parsing>>, l) = {i}
      BY <2>1, <2>2, HitsOnce
    <3>2. Parser = {<<"parsing", None, i>>}
      BY <3>1
    <3> QED
      BY <2>2, <3>2
  <2>3. CASE l # parsing
    BY <2>1, <2>3, HitsOnce
  <2> QED
    BY <2>2, <2>3
<1>5. /\ AtRelay(l) => \E p : Relay = {p}
      /\ ~AtRelay(l) => Relay = {}
  <2>1. CASE AtRelay(l)
    <3>1. PICK i : Hits(relayChannel, l) = {i}
      BY <2>1, HitsOnce DEF AtRelay
    <3>2. Relay = {<<"relayChannel", None, i>>}
      BY <3>1
    <3> QED
      BY <2>1, <3>2
  <2>2. CASE ~AtRelay(l)
    BY <2>2, HitsOnce DEF AtRelay
  <2> QED
    BY <2>1, <2>2
<1>6. /\ AtStore(l) => \E p : Store = {p}
      /\ ~AtStore(l) => Store = {}
  <2>1. \A w \in Workers, k \in Keys :
           k # Key[l] => Hits(store[w][k], l) = {}
    BY PipelineAssumption, HitsOnce DEF Owned
  <2>0. \A p : p \in Store <=> \E w \in Workers, k \in Keys :
                                 \E i \in Hits(store[w][k], l) : p = <<k, w, i>>
    OBVIOUS
  <2>2. ASSUME NEW w \in Workers, l \in Elements(store[w][Key[l]])
        PROVE  \E p : Store = {p}
    <3>1. PICK i : Hits(store[w][Key[l]], l) = {i}
      BY <2>2, KeyTypes, HitsOnce
    <3>2. \A v \in Workers : v # w => Hits(store[v][Key[l]], l) = {}
      BY <2>2, KeyTypes, HitsOnce
    <3> HIDE DEF Store
    <3>3. \A p : p \in Store <=> p = <<Key[l], w, i>>
      BY <2>0, <2>1, <3>1, <3>2, KeyTypes
    <3>4. Store = {<<Key[l], w, i>>}
      BY <3>3
    <3> QED
      BY <3>4
  <2>3. ASSUME ~AtStore(l)
        PROVE  Store = {}
    <3>1. \A w \in Workers : Hits(store[w][Key[l]], l) = {}
      BY <2>3, KeyTypes, HitsOnce DEF AtStore
    <3> HIDE DEF Store
    <3> QED
      BY <2>0, <2>1, <3>1
  <2> QED
    BY <2>2, <2>3 DEF AtStore
<1>7. /\ Settled(l) => \E p : Fate = {p}
      /\ ~Settled(l) => Fate = {}
  <2>1. \A f \in Fates : fate[l][f] \in Nat /\ fate[l][f] <= 1
    BY DEF TypeOK
  <2>2. ASSUME NEW f \in Fates, fate[l][f] > 0
        PROVE  \E p : Fate = {p}
    <3>1. 1 .. fate[l][f] = {1}
      BY <2>1, <2>2
    <3>2. \A g \in Fates : g # f => 1 .. fate[l][g] = {}
      <4>1. \A g \in Fates : g # f => fate[l][g] = 0
        BY <2>1, <2>2
      <4> QED
        BY <4>1
    <3>3. Fate = {<<f, None, 1>>}
      BY <3>1, <3>2
    <3> QED
      BY <3>3
  <2>3. ASSUME ~Settled(l)
        PROVE  Fate = {}
    <3>1. \A f \in Fates : 1 .. fate[l][f] = {}
      BY <2>1, <2>3 DEF Settled
    <3> QED
      BY <3>1
  <2> QED
    BY <2>2, <2>3 DEF Settled
<1>8. \E p : Where(l) = {p}
  <2> HIDE DEF Reader, Parse, Parser, Relay, Store, Fate
  <2>1. /\ AtReader(l) \/ AtParse(l) \/ l = parsing \/ AtRelay(l) \/ AtStore(l)
              \/ Settled(l)
        /\ AtReader(l) => /\ ~AtParse(l) /\ l # parsing /\ ~AtRelay(l)
                          /\ ~AtStore(l) /\ ~Settled(l)
        /\ AtParse(l) => l # parsing /\ ~AtRelay(l) /\ ~AtStore(l) /\ ~Settled(l)
        /\ l = parsing => ~AtRelay(l) /\ ~AtStore(l) /\ ~Settled(l)
        /\ AtRelay(l) => ~AtStore(l) /\ ~Settled(l)
        /\ AtStore(l) => ~Settled(l)
    BY DEF Located
  <2> QED
    BY <1>1, <1>2, <1>3, <1>4, <1>5, <1>6, <1>7, <2>1
<1> QED
  BY <1>8

-----------------------------------------------------------------------------
\* Every variable has its type; in particular no channel holds more than MaxReqs
\* lines (the make calls of main).
THEOREM TypeCorrect == Spec => []TypeOK
<1>1. IInv => TypeOK
  BY DEF IInv
<1> QED
  BY <1>1, Invariance, PTL

\* No line is lost on its way from a reader to a store, copied, aggregated twice
\* or reported twice (readInput, ParseMetrics, RelayMetrics, RelayAllMetrics).
THEOREM EachInOnePlace == Spec => []OnePlace
<1>1. IInv => OnePlace
  BY PlacedIsOnePlace DEF IInv
<1> QED
  BY <1>1, Invariance, PTL

\* PrepareFlushMetrics replaces nothing a client sent; what PrepareRuntimeMetrics
\* replaces has one of its own keys.
THEOREM OverwritesOwnKeys == Spec => []OverwrittenOnlyRuntime
<1>1. IInv => OverwrittenOnlyRuntime
  BY DEF IInv
<1> QED
  BY <1>1, Invariance, PTL

-----------------------------------------------------------------------------
(***************************************************************************)
(* With one relay worker, the shipped default, the values that one client  *)
(* sends for one key keep their order from its socket to the backend.  With *)
(* two workers they need not: see the run pipeline_gauge.                  *)
(***************************************************************************)
\* Wherever both are in s, l is first.
Ahead(s, l, m) == \A i, j \in DOMAIN s : s[i] = l /\ s[j] = m => i < j

\* A reader has only lines of its own script.
FromScript == \A r \in Readers : Elements(todo[r]) \subseteq Elements(Script[r])

\* Of two values that one client sends for one key, m is the later.
Follows(l, m) == /\ l \in Valid /\ m \in Valid
                 /\ SentBefore(l, m) /\ Key[l] = Key[m]

\* In a place where both are l is first, and m is in no place further on.
Ordered ==
    \A l, m \in Lines : Follows(l, m) =>
        /\ \A r \in Readers : Ahead(todo[r], l, m)
        /\ Ahead(parseChannel, l, m) /\ Ahead(relayChannel, l, m)
        /\ \A w \in Workers : Ahead(store[w][Key[l]], l, m)
        /\ AtReader(l) => AtReader(m)
        /\ AtParse(l) \/ l = parsing => AtReader(m) \/ AtParse(m)
        /\ AtRelay(l) => ~AtStore(m) /\ ~Settled(m)
        /\ AtStore(l) => ~Settled(m)

OrderInv == IInv /\ FromScript /\ Ordered

-----------------------------------------------------------------------------
\* A line is not sent twice, so it does not follow itself.
LEMMA FollowsIs ==
    ASSUME NEW l, NEW m, Follows(l, m)
    PROVE  /\ l \in Lines /\ m \in Lines /\ l # m /\ Key[l] = Key[m]
           /\ \E r \in Readers : l \in Elements(Script[r]) /\ m \in Elements(Script[r])
<1>1. PICK r \in Readers : \E i, j \in DOMAIN Script[r] :
         i < j /\ Script[r][i] = l /\ Script[r][j] = m
  BY DEF Follows, SentBefore
<1>2. l # m
  <2>1. DOMAIN Script[r] = 1 .. Len(Script[r]) /\ Len(Script[r]) \in Nat
    BY PipelineAssumption, LenProperties
  <2> QED
    BY <1>1, <2>1, PipelineAssumption
<1> QED
  BY <1>1, <1>2, PipelineAssumption DEF Follows, Elements

\* A receive keeps the order, and m is not taken while l waits.
LEMMA AheadTail ==
    ASSUME NEW S, NEW s \in Seq(S), s # <<>>, NEW l, NEW m, Ahead(s, l, m)
    PROVE  /\ Ahead(Tail(s), l, m)
           /\ l \in Elements(s) => Head(s) # m
<1>1. /\ Len(Tail(s)) = Len(s) - 1 /\ Tail(s) \in Seq(S)
      /\ \A i \in 1 .. Len(Tail(s)) : Tail(s)[i] = s[i + 1]
  BY HeadTailProperties
<1>2. /\ Len(s) \in Nat \ {0} /\ DOMAIN s = 1 .. Len(s)
      /\ DOMAIN Tail(s) = 1 .. Len(s) - 1
      /\ Head(s) = s[1]
  BY <1>1, LenProperties, EmptySeq
<1>3. Ahead(Tail(s), l, m)
  BY <1>1, <1>2 DEF Ahead
<1>4. l \in Elements(s) => Head(s) # m
  BY <1>2 DEF Ahead, Elements
<1> QED
  BY <1>3, <1>4

\* A send keeps the order unless l comes after m.
LEMMA AheadAppend ==
    ASSUME NEW S, NEW s \in Seq(S), NEW e \in S, NEW l, NEW m, l # m,
           Ahead(s, l, m), e = l => m \notin Elements(s)
    PROVE  Ahead(Append(s, e), l, m)
<1>1. /\ Append(s, e) \in Seq(S) /\ Len(Append(s, e)) = Len(s) + 1
      /\ \A i \in 1 .. Len(s) : Append(s, e)[i] = s[i]
      /\ Append(s, e)[Len(s) + 1] = e
  BY AppendProperties
<1>2. /\ Len(s) \in Nat /\ DOMAIN s = 1 .. Len(s)
      /\ DOMAIN Append(s, e) = 1 .. Len(s) + 1
  BY <1>1, LenProperties
<1> SUFFICES ASSUME NEW i \in DOMAIN Append(s, e), NEW j \in DOMAIN Append(s, e),
                    Append(s, e)[i] = l, Append(s, e)[j] = m
             PROVE  i < j
  BY DEF Ahead
<1>3. CASE i \in DOMAIN s /\ j \in DOMAIN s
  BY <1>1, <1>2, <1>3 DEF Ahead
<1>4. CASE i \in DOMAIN s /\ j = Len(s) + 1
  BY <1>2, <1>4
<1>5. CASE i = Len(s) + 1 /\ j \in DOMAIN s
  BY <1>1, <1>2, <1>5 DEF Elements
<1>6. CASE i = Len(s) + 1 /\ j = Len(s) + 1
  BY <1>1, <1>6
<1> QED
  BY <1>2, <1>3, <1>4, <1>5, <1>6

\* A place without l has nothing to order.
LEMMA AheadWithout ==
    ASSUME NEW s, NEW l, NEW m, l \notin Elements(s)
    PROVE  Ahead(s, l, m)
BY DEF Ahead, Elements

-----------------------------------------------------------------------------
\* The readers have their scripts, and no line is anywhere else.
LEMMA OrderInit == Init => FromScript /\ Ordered
<1> SUFFICES ASSUME Init PROVE FromScript /\ Ordered
  OBVIOUS
<1>1. FromScript
  BY DEF Init, FromScript
<1>2. /\ parseChannel = <<>> /\ relayChannel = <<>> /\ todo = Script
      /\ \A w \in Workers, k \in Keys : store[w][k] = <<>>
      /\ \A l \in Lines, f \in Fates : fate[l][f] = 0
      /\ parsing = None
  BY DEF Init
<1>3. ASSUME NEW l \in Lines, NEW m \in Lines, Follows(l, m), NEW r \in Readers
      PROVE  Ahead(todo[r], l, m)
  <2>1. PICK q \in Readers : \E i, j \in DOMAIN Script[q] :
           i < j /\ Script[q][i] = l /\ Script[q][j] = m
    BY <1>3 DEF Follows, SentBefore
  <2>2. CASE r = q
    BY <1>2, <2>1, <2>2, PipelineAssumption DEF Ahead
  <2>3. CASE r # q
    <3>1. l \in Elements(Script[q])
      BY <2>1 DEF Elements
    <3>2. l \notin Elements(Script[r])
      BY <2>3, <3>1, PipelineAssumption
    <3> QED
      BY <1>2, <3>2, AheadWithout
  <2> QED
    BY <2>2, <2>3
<1>4. \A l \in Lines : /\ ~AtParse(l) /\ l # parsing /\ ~AtRelay(l)
                       /\ ~AtStore(l) /\ ~Settled(l)
  BY <1>2, KeyTypes, EmptyElements, PipelineAssumption
     DEF AtParse, AtRelay, AtStore, Settled
<1>5. ASSUME NEW l \in Lines, NEW m \in Lines, Follows(l, m)
      PROVE  AtReader(l) => AtReader(m)
  BY <1>2, <1>5, FollowsIs DEF AtReader
<1> QED
  BY <1>1, <1>2, <1>3, <1>4, <1>5, KeyTypes, EmptyElements, AheadWithout DEF Ordered

\* readInput sends the lines of its connection in their order.
LEMMA SendOrdered ==
    ASSUME OrderInv, NEW r \in Readers, ReaderSend(r)
    PROVE  FromScript' /\ Ordered'
<1> USE DEF OrderInv
<1>0. PICK e : e = Head(todo[r])
  OBVIOUS
<1>1. /\ e \in Lines /\ todo[r] # <<>> /\ todo[r] \in Seq(Lines)
      /\ todo'[r] = Tail(todo[r]) /\ parseChannel' = Append(parseChannel, e)
      /\ parseChannel \in Seq(Lines)
      /\ \A q \in Readers : q # r => todo'[q] = todo[q]
      /\ UNCHANGED <<relayChannel, parsing, store>>
  BY <1>0, SendPlaced DEF ReaderSend, IInv, TypeOK, parserVars, workerVars
<1>2. \A l \in Lines : /\ AtReader(l)' <=> AtReader(l) /\ l # e
                       /\ AtParse(l)' <=> AtParse(l) \/ l = e
                       /\ AtRelay(l)' <=> AtRelay(l)
                       /\ AtStore(l)' <=> AtStore(l)
                       /\ Settled(l)' <=> Settled(l)
  BY <1>0, SendPlaced
<1>3. FromScript'
  <2>1. Elements(todo'[r]) \subseteq Elements(todo[r])
    BY <1>1, TailElements
  <2> QED
    BY <1>1, <2>1 DEF FromScript
<1>4. ASSUME NEW l \in Lines, NEW m \in Lines, Follows(l, m)
      PROVE  /\ \A q \in Readers : Ahead(todo'[q], l, m)
             /\ Ahead(parseChannel', l, m)
             /\ AtReader(l)' => AtReader(m)'
             /\ AtParse(l)' \/ l = parsing' => AtReader(m)' \/ AtParse(m)'
  <2>1. l # m /\ (AtReader(l) => AtReader(m)) /\ Ahead(todo[r], l, m)
    BY <1>4, FollowsIs DEF Ordered
  <2>2. \A q \in Readers : Ahead(todo'[q], l, m)
    BY <1>1, <1>4, AheadTail DEF Ordered
  <2>3. Ahead(parseChannel', l, m)
    <3>1. e = l => m \notin Elements(parseChannel)
      <4>1. AtReader(e)
        BY <1>0, <1>1, TailElements DEF AtReader
      <4> QED
        BY <2>1, <4>1 DEF IInv, Placed, Located, AtParse
    <3>2. Ahead(parseChannel, l, m)
      BY <1>4 DEF Ordered
    <3> QED
      BY <1>1, <2>1, <3>1, <3>2, AheadAppend
  <2>4. ASSUME AtReader(l)', m = e
        PROVE  FALSE
    <3>1. PICK q \in Readers : l \in Elements(todo[q])
      BY <1>2, <2>4 DEF AtReader
    <3>2. m \in Elements(todo[r])
      BY <1>0, <1>1, <2>4, TailElements
    <3>3. PICK p \in Readers : l \in Elements(Script[p]) /\ m \in Elements(Script[p])
      BY <1>4, FollowsIs
    <3>4. q = p /\ r = p
      BY <3>1, <3>2, <3>3, PipelineAssumption DEF FromScript
    <3> QED
      BY <1>0, <1>1, <2>1, <2>4, <3>1, <3>4, AheadTail
  <2>5. AtReader(l)' => AtReader(m)'
    BY <1>2, <2>1, <2>4
  <2>6. AtParse(l)' \/ l = parsing' => AtReader(m)' \/ AtParse(m)'
    <3>1. AtParse(l) \/ l = parsing => AtReader(m) \/ AtParse(m)
      BY <1>4 DEF Ordered
    <3>2. l = e => AtReader(m)
      BY <1>0, <1>1, <2>1, TailElements DEF AtReader
    <3> QED
      BY <1>1, <1>2, <3>1, <3>2
  <2> QED
    BY <2>2, <2>3, <2>5, <2>6
<1>5. ASSUME NEW l \in Lines, NEW m \in Lines, Follows(l, m)
      PROVE  /\ Ahead(relayChannel', l, m)
             /\ \A w \in Workers : Ahead(store'[w][Key[l]], l, m)
             /\ AtRelay(l)' => ~AtStore(m)' /\ ~Settled(m)'
             /\ AtStore(l)' => ~Settled(m)'
  BY <1>1, <1>2, <1>5 DEF Ordered
<1> QED
  BY <1>3, <1>4, <1>5 DEF Ordered, Follows, SentBefore

\* ParseMetrics takes the lines in their order.
LEMMA ReceiveOrdered ==
    ASSUME OrderInv, ParseReceive
    PROVE  FromScript' /\ Ordered'
<1> USE DEF OrderInv
<1>0. PICK e : e = Head(parseChannel)
  OBVIOUS
<1>1. /\ e \in Lines /\ parseChannel # <<>> /\ parseChannel \in Seq(Lines)
      /\ parseChannel' = Tail(parseChannel)
      /\ parsing = None /\ parsing' \in {e, None} /\ None \notin Lines
      /\ e \in Valid \/ parsing' = None
      /\ UNCHANGED <<todo, relayChannel, store>>
  BY <1>0, ReceivePlaced, PipelineAssumption
     DEF ParseReceive, IInv, TypeOK, Control, workerVars
<1>2. \A l \in Lines : /\ AtReader(l)' <=> AtReader(l)
                       /\ AtParse(l)' <=> AtParse(l) /\ l # e
                       /\ AtRelay(l)' <=> AtRelay(l)
                       /\ AtStore(l)' <=> AtStore(l)
                       /\ l = parsing' \/ Settled(l)' <=> l = e \/ Settled(l)
  BY <1>0, ReceivePlaced
<1>3. FromScript'
  BY <1>1 DEF FromScript
<1>4. ASSUME NEW m \in Valid
      PROVE  Settled(m)' => Settled(m)
  <2>1. m \in Lines
    BY PipelineAssumption
  <2>2. CASE m # e
    BY <1>2, <2>1, <2>2
  <2>3. CASE m = e
    <3>1. fate' = fate
      BY <1>0, <1>4, <2>3 DEF ParseReceive
    <3> QED
      BY <3>1 DEF Settled
  <2> QED
    BY <2>2, <2>3
<1>5. ASSUME NEW l \in Lines, NEW m \in Lines, Follows(l, m)
      PROVE  /\ \A q \in Readers : Ahead(todo'[q], l, m)
             /\ Ahead(parseChannel', l, m) /\ Ahead(relayChannel', l, m)
             /\ \A w \in Workers : Ahead(store'[w][Key[l]], l, m)
             /\ AtReader(l)' => AtReader(m)'
             /\ AtParse(l)' \/ l = parsing' => AtReader(m)' \/ AtParse(m)'
             /\ AtRelay(l)' => ~AtStore(m)' /\ ~Settled(m)'
             /\ AtStore(l)' => ~Settled(m)'
  <2>1. l # m /\ m \in Valid
    BY <1>5, FollowsIs DEF Follows
  <2>2. /\ Ahead(parseChannel', l, m)
        /\ AtParse(l) => m # e
    BY <1>0, <1>1, <1>5, AheadTail DEF Ordered, AtParse
  <2>3. AtParse(e)
    BY <1>0, <1>1, TailElements DEF AtParse
  <2>4. AtParse(l)' \/ l = parsing' => AtParse(l) /\ m # e
    BY <1>1, <1>2, <2>1, <2>2, <2>3
  <2>5. AtParse(l) => AtReader(m) \/ AtParse(m)
    BY <1>5 DEF Ordered
  <2>6. /\ AtReader(l) => AtReader(m)
        /\ AtRelay(l) => ~AtStore(m) /\ ~Settled(m)
        /\ AtStore(l) => ~Settled(m)
    BY <1>5 DEF Ordered
  <2>7. /\ \A q \in Readers : Ahead(todo'[q], l, m)
        /\ Ahead(relayChannel', l, m)
        /\ \A w \in Workers : Ahead(store'[w][Key[l]], l, m)
    BY <1>1, <1>5 DEF Ordered
  <2> QED
    BY <1>2, <1>4, <2>1, <2>2, <2>4, <2>5, <2>6, <2>7
<1> QED
  BY <1>3, <1>5 DEF Ordered, Follows, SentBefore

\* ParseMetrics pushes the line it holds before it takes another.
LEMMA PushOrdered ==
    ASSUME OrderInv, ParsePush
    PROVE  FromScript' /\ Ordered'
<1> USE DEF OrderInv
<1>1. /\ parsing \in Lines /\ parsing' = None /\ None \notin Lines
      /\ relayChannel \in Seq(Lines)
      /\ relayChannel' = Append(relayChannel, parsing)
      /\ UNCHANGED <<todo, parseChannel, store>>
  BY PushPlaced, PipelineAssumption DEF ParsePush, IInv, TypeOK, workerVars
<1>2. \A l \in Lines : /\ AtReader(l)' <=> AtReader(l)
                       /\ AtParse(l)' <=> AtParse(l)
                       /\ AtRelay(l)' <=> AtRelay(l) \/ l = parsing
                       /\ AtStore(l)' <=> AtStore(l)
                       /\ Settled(l)' <=> Settled(l)
  BY PushPlaced
<1>3. FromScript'
  BY <1>1 DEF FromScript
<1>4. ASSUME NEW l \in Lines, NEW m \in Lines, Follows(l, m)
      PROVE  /\ \A q \in Readers : Ahead(todo'[q], l, m)
             /\ Ahead(parseChannel', l, m) /\ Ahead(relayChannel', l, m)
             /\ \A w \in Workers : Ahead(store'[w][Key[l]], l, m)
             /\ AtReader(l)' => AtReader(m)'
             /\ AtParse(l)' \/ l = parsing' => AtReader(m)' \/ AtParse(m)'
             /\ AtRelay(l)' => ~AtStore(m)' /\ ~Settled(m)'
             /\ AtStore(l)' => ~Settled(m)'
  <2>1. l # m
    BY <1>4, FollowsIs
  <2>2. /\ AtReader(l) => AtReader(m)
        /\ AtParse(l) \/ l = parsing => AtReader(m) \/ AtParse(m)
        /\ AtRelay(l) => ~AtStore(m) /\ ~Settled(m)
        /\ AtStore(l) => ~Settled(m)
        /\ Ahead(relayChannel, l, m)
    BY <1>4 DEF Ordered
  <2>3. l = parsing => ~AtRelay(m) /\ ~AtStore(m) /\ ~Settled(m)
    BY <2>2 DEF IInv, Placed, Located
  <2>4. Ahead(relayChannel', l, m)
    BY <1>1, <2>1, <2>2, <2>3, AheadAppend DEF AtRelay
  <2>5. /\ \A q \in Readers : Ahead(todo'[q], l, m)
        /\ Ahead(parseChannel', l, m)
        /\ \A w \in Workers : Ahead(store'[w][Key[l]], l, m)
    BY <1>1, <1>4 DEF Ordered
  <2> QED
    BY <1>1, <1>2, <2>2, <2>3, <2>4, <2>5
<1> QED
  BY <1>3, <1>4 DEF Ordered, Follows, SentBefore

\* AggregateMetric appends a value to those before it.
LEMMA AggregateOrdered ==
    ASSUME OrderInv, NEW w \in Workers, WorkerReceive(w)
    PROVE  FromScript' /\ Ordered'
<1> USE DEF OrderInv
<1>0. PICK e : e = Head(relayChannel)
  OBVIOUS
<1>1. /\ e \in Lines /\ relayChannel # <<>> /\ relayChannel \in Seq(Lines)
      /\ relayChannel' = Tail(relayChannel)
      /\ UNCHANGED <<todo, parseChannel, parsing>>
      /\ store' = [store EXCEPT ![w] = Aggregate(store[w], e)]
  BY <1>0, AggregatePlaced DEF WorkerReceive, IInv, TypeOK, parserVars
<1>2. \A l \in Lines : /\ AtReader(l)' <=> AtReader(l)
                       /\ AtParse(l)' <=> AtParse(l)
                       /\ AtRelay(l)' <=> AtRelay(l) /\ l # e
                       /\ AtStore(l)' <=> AtStore(l) \/ l = e
                       /\ Settled(l)' <=> Settled(l)
  BY <1>0, AggregatePlaced
<1>3. AtRelay(e)
  BY <1>0, <1>1, TailElements DEF AtRelay
<1>4. FromScript'
  BY <1>1 DEF FromScript
<1>5. \A v \in Workers, k \in Keys :
         /\ store[v][k] \in Seq(Lines \cup {Internal})
         /\ store'[v][k] = IF v = w /\ k = Key[e] THEN Append(store[v][k], e)
                           ELSE store[v][k]
  <2>1. store \in [Workers -> [Keys -> Seq(Lines \cup {Internal})]]
    BY DEF IInv, TypeOK
  <2>2. TAKE v \in Workers, k \in Keys
  <2>3. store'[v] = IF v = w THEN Aggregate(store[w], e) ELSE store[v]
    BY <1>1, <2>1
  <2>4. store[w] \in [Keys -> Seq(Lines \cup {Internal})]
    BY <2>1
  <2>5. /\ Aggregate(store[w], e)[Key[e]] = Append(store[w][Key[e]], e)
        /\ \A j \in Keys \ {Key[e]} : Aggregate(store[w], e)[j] = store[w][j]
    BY <1>1, <2>4, Aggregated
  <2>6. CASE v = w /\ k = Key[e]
    BY <2>1, <2>3, <2>5, <2>6
  <2>7. CASE ~(v = w /\ k = Key[e])
    BY <2>1, <2>3, <2>5, <2>7
  <2> QED
    BY <2>6, <2>7
<1>6. ASSUME NEW l \in Lines, NEW m \in Lines, Follows(l, m)
      PROVE  /\ \A q \in Readers : Ahead(todo'[q], l, m)
             /\ Ahead(parseChannel', l, m) /\ Ahead(relayChannel', l, m)
             /\ \A v \in Workers : Ahead(store'[v][Key[l]], l, m)
             /\ AtReader(l)' => AtReader(m)'
             /\ AtParse(l)' \/ l = parsing' => AtReader(m)' \/ AtParse(m)'
             /\ AtRelay(l)' => ~AtStore(m)' /\ ~Settled(m)'
             /\ AtStore(l)' => ~Settled(m)'
  <2>1. l # m /\ Key[l] = Key[m] /\ Key[l] \in Keys
    BY <1>6, FollowsIs, KeyTypes
  <2>2. /\ AtReader(l) => AtReader(m)
        /\ AtParse(l) \/ l = parsing => AtReader(m) \/ AtParse(m)
        /\ AtRelay(l) => ~AtStore(m) /\ ~Settled(m)
        /\ AtStore(l) => ~Settled(m)
    BY <1>6 DEF Ordered
  <2>3. /\ Ahead(relayChannel', l, m)
        /\ AtRelay(l) => m # e
    BY <1>0, <1>1, <1>6, AheadTail DEF Ordered, AtRelay
  <2>4. \A v \in Workers : Ahead(store'[v][Key[l]], l, m)
    <3>1. TAKE v \in Workers
    <3>2. Ahead(store[v][Key[l]], l, m)
      BY <1>6 DEF Ordered
    <3>3. e = l => m \notin Elements(store[v][Key[l]])
      BY <1>3, <2>1, <2>2 DEF AtStore
    <3>4. e \in Lines \cup {Internal}
      BY <1>1
    <3>5. Ahead(Append(store[v][Key[l]], e), l, m)
      BY <1>5, <2>1, <3>2, <3>3, <3>4, AheadAppend
    <3> QED
      BY <1>5, <2>1, <3>2, <3>5
  <2>5. /\ \A q \in Readers : Ahead(todo'[q], l, m)
        /\ Ahead(parseChannel', l, m)
    BY <1>1, <1>6 DEF Ordered
  <2> QED
    BY <1>1, <1>2, <1>3, <2>2, <2>3, <2>4, <2>5
<1> QED
  BY <1>4, <1>6 DEF Ordered, Follows, SentBefore

\* With one worker, a value is settled together with those before it.
LEMMA FlushOrdered ==
    ASSUME OrderInv, \A u, v \in Workers : u = v, NEW w \in Workers,
           NEW K \in SUBSET Keys, NEW f \in Fates, Empties(w, K, f)
    PROVE  FromScript' /\ Ordered'
<1> USE DEF OrderInv
<1>1. UNCHANGED <<todo, parseChannel, parsing, relayChannel>>
  BY DEF Empties
<1>2. \A l \in Lines : /\ AtReader(l)' <=> AtReader(l)
                       /\ AtParse(l)' <=> AtParse(l)
                       /\ AtRelay(l)' <=> AtRelay(l)
                       /\ AtStore(l)' <=> AtStore(l) /\ l \notin Replaced(w, K)
                       /\ Settled(l)' <=> Settled(l) \/ l \in Replaced(w, K)
                       /\ l \in Replaced(w, K) <=>
                             l \in Elements(store[w][Key[l]]) /\ Key[l] \in K
  BY SettlePlaced
<1>3. FromScript'
  BY <1>1 DEF FromScript
<1>4. ASSUME NEW l \in Lines, NEW m \in Lines, Follows(l, m)
      PROVE  /\ \A q \in Readers : Ahead(todo'[q], l, m)
             /\ Ahead(parseChannel', l, m) /\ Ahead(relayChannel', l, m)
             /\ \A v \in Workers : Ahead(store'[v][Key[l]], l, m)
             /\ AtReader(l)' => AtReader(m)'
             /\ AtParse(l)' \/ l = parsing' => AtReader(m)' \/ AtParse(m)'
             /\ AtRelay(l)' => ~AtStore(m)' /\ ~Settled(m)'
             /\ AtStore(l)' => ~Settled(m)'
  <2>1. l # m /\ Key[l] = Key[m] /\ Key[l] \in Keys
    BY <1>4, FollowsIs, KeyTypes
  <2>2. /\ AtReader(l) => AtReader(m)
        /\ AtParse(l) \/ l = parsing => AtReader(m) \/ AtParse(m)
        /\ AtRelay(l) => ~AtStore(m) /\ ~Settled(m)
        /\ AtStore(l) => ~Settled(m)
    BY <1>4 DEF Ordered
  <2>3. /\ m \in Replaced(w, K) => AtStore(m)
        /\ AtStore(l) /\ m \in Replaced(w, K) => l \in Replaced(w, K)
    BY <1>2, <2>1 DEF AtStore
  <2>4. \A v \in Workers : Ahead(store'[v][Key[l]], l, m)
    <3>1. TAKE v \in Workers
    <3>2. v = w /\ Ahead(store[w][Key[l]], l, m)
      BY <1>4 DEF Ordered
    <3>3. CASE Key[l] \in K
      <4>1. l \notin Elements(store'[w][Key[l]])
        BY <3>3, PipelineAssumption DEF Empties
      <4> QED
        BY <3>2, <4>1, AheadWithout
    <3>4. CASE Key[l] \notin K
      BY <2>1, <3>2, <3>4 DEF Empties
    <3> QED
      BY <3>3, <3>4
  <2>5. /\ \A q \in Readers : Ahead(todo'[q], l, m)
        /\ Ahead(parseChannel', l, m) /\ Ahead(relayChannel', l, m)
    BY <1>1, <1>4 DEF Ordered
  <2> QED
    BY <1>1, <1>2, <2>2, <2>3, <2>4, <2>5
<1> QED
  BY <1>3, <1>4 DEF Ordered, Follows, SentBefore

\* The steps that move no line.
LEMMA StaysOrdered ==
    ASSUME OrderInv, UNCHANGED <<todo, parseChannel, parsing, relayChannel, store, fate>>
    PROVE  FromScript' /\ Ordered'
<1>1. FromScript'
  BY DEF OrderInv, FromScript
<1>2. \A l \in Lines : /\ AtReader(l)' <=> AtReader(l)
                       /\ AtParse(l)' <=> AtParse(l)
                       /\ AtRelay(l)' <=> AtRelay(l)
                       /\ AtStore(l)' <=> AtStore(l)
                       /\ Settled(l)' <=> Settled(l)
  BY DEF AtReader, AtParse, AtRelay, AtStore, Settled
<1> QED
  BY <1>1, <1>2 DEF OrderInv, Ordered, Follows, SentBefore

\* Every step keeps the order, if there is one worker.
LEMMA OrderStep ==
    ASSUME OrderInv, \A u, v \in Workers : u = v, [Next]_vars
    PROVE  FromScript' /\ Ordered'
<1>1. CASE UNCHANGED <<todo, parseChannel, parsing, relayChannel, store, fate>>
  BY <1>1, StaysOrdered
<1>2. CASE ParseStep
  BY <1>1, <1>2, ReceiveOrdered, PushOrdered
     DEF ParseStep, ParseTimeout, ParseCheck, workerVars
<1>3. ASSUME NEW w \in Workers, WorkerStep(w)
      PROVE  FromScript' /\ Ordered'
  <2>1. CASE WorkerTick(w) \/ FlushInternal(w) \/ RelayOne(w)
    BY <2>1, FlushEmpties, FlushOrdered DEF OrderInv
  <2> QED
    BY <1>1, <1>3, <2>1, AggregateOrdered
       DEF WorkerStep, WorkerTop, WorkerTimeout, WorkerNoTick, RelayPanic, FlushDone,
           parserVars, workerVars
<1> QED
  BY <1>1, <1>2, <1>3, SendOrdered
     DEF Next, Tick, Finish, MainReturns, Ended, vars, parserVars, workerVars

\* Progress numbers the places in their order.
LEMMA OrderIsLastIn == OrderInv => LastInWins
<1> SUFFICES ASSUME OrderInv, NEW l \in Valid, NEW m \in Valid,
                    SentBefore(l, m), Key[l] = Key[m]
             PROVE  /\ Progress(l) >= Progress(m)
                    /\ \A w \in Workers :
                          LET s == store[w][Key[l]] IN
                          \A i, j \in DOMAIN s : s[i] = l /\ s[j] = m => i < j
  BY DEF LastInWins
<1>1. l \in Lines /\ m \in Lines /\ Follows(l, m)
  BY PipelineAssumption DEF Follows
<1>2. \A w \in Workers : Ahead(store[w][Key[l]], l, m)
  BY <1>1 DEF OrderInv, Ordered
<1>3. \A n \in Lines :
        /\ Progress(n) \in 0 .. 5
        /\ Settled(n) <=> Progress(n) = 5
        /\ AtStore(n) <=> Progress(n) = 4
        /\ AtRelay(n) <=> Progress(n) = 3
        /\ n = parsing <=> Progress(n) = 2
        /\ AtParse(n) <=> Progress(n) = 1
        /\ AtReader(n) <=> Progress(n) = 0
  BY DEF OrderInv, IInv, Placed, Located, Progress, AtStore, AtRelay, AtParse
<1>4. l # m
  BY <1>1, FollowsIs
<1>5. /\ AtReader(l) => AtReader(m)
      /\ AtParse(l) \/ l = parsing => AtReader(m) \/ AtParse(m)
      /\ AtRelay(l) => ~AtStore(m) /\ ~Settled(m)
      /\ AtStore(l) => ~Settled(m)
  BY <1>1 DEF OrderInv, Ordered
<1>6. Progress(l) >= Progress(m)
  BY <1>1, <1>3, <1>4, <1>5
<1> QED
  BY <1>2, <1>6 DEF Ahead

-----------------------------------------------------------------------------
\* With one relay worker (relay.concurrency is 1 unless it is configured), of two
\* values that one client sends for one key the later never overtakes the earlier:
\* the value that a gauge keeps is the last one sent.
THEOREM OneWorkerLastInWins ==
    ASSUME \A v, w \in Workers : v = w
    PROVE  Spec => []LastInWins
<1>1. Init => OrderInv
  BY InitIInv, OrderInit DEF OrderInv
<1>2. OrderInv /\ [Next]_vars => OrderInv'
  BY TypeStep, PlacedStep, OverwriteStep, OrderStep DEF OrderInv, IInv
<1>3. OrderInv => LastInWins
  BY OrderIsLastIn
<1> QED
  BY <1>1, <1>2, <1>3, PTL DEF Spec

-----------------------------------------------------------------------------
(***************************************************************************)
(* Pipeline implements MetricFlow.                                         *)
(***************************************************************************)
stage == [l \in Lines |-> Stage(l)]

\* Where a line is seen from outside: its reader and its fates tell.
Staged ==
    \A l \in Lines :
        /\ Stage(l) \in {"client", "inside", "rejected", "reported", "lost"}
        /\ Stage(l) = "client" <=> AtReader(l)
        /\ Stage(l) = "inside" <=> ~AtReader(l) /\ ~Settled(l)
        /\ Stage(l) = "rejected" <=> fate[l].rejected > 0
        /\ Stage(l) = "reported" <=> fate[l].reported > 0
        /\ Stage(l) = "lost" <=> fate[l].dropped > 0 \/ fate[l].overwritten > 0

\* A line has one fate at most, and none as long as its reader has it.
LEMMA StageIs == IInv => Staged
<1> SUFFICES ASSUME IInv, NEW l \in Lines
             PROVE  /\ Stage(l) \in {"client", "inside", "rejected", "reported", "lost"}
                    /\ Stage(l) = "client" <=> AtReader(l)
                    /\ Stage(l) = "inside" <=> ~AtReader(l) /\ ~Settled(l)
                    /\ Stage(l) = "rejected" <=> fate[l].rejected > 0
                    /\ Stage(l) = "reported" <=> fate[l].reported > 0
                    /\ Stage(l) = "lost" <=> fate[l].dropped > 0 \/ fate[l].overwritten > 0
  BY DEF Staged
<1>1. /\ fate[l].rejected \in Nat /\ fate[l].reported \in Nat
      /\ fate[l].dropped \in Nat /\ fate[l].overwritten \in Nat
  BY DEF IInv, TypeOK, Fates
<1>2. Settled(l) <=> \/ fate[l].rejected > 0 \/ fate[l].reported > 0
                     \/ fate[l].dropped > 0 \/ fate[l].overwritten > 0
  BY DEF Settled, Fates
<1>3. /\ fate[l].rejected > 0 =>
           fate[l].reported = 0 /\ fate[l].dropped = 0 /\ fate[l].overwritten = 0
      /\ fate[l].reported > 0 => fate[l].dropped = 0 /\ fate[l].overwritten = 0
  <2>1. \A f, g \in Fates : fate[l][f] > 0 /\ fate[l][g] > 0 => f = g
    BY DEF IInv, Placed, Single
  <2> QED
    BY <1>1, <2>1 DEF Fates
<1>4. Progress(l) = 0 \/ Settled(l) <=> AtReader(l) \/ Settled(l)
  BY DEF Progress, IInv, Placed, Located, AtParse, AtRelay, AtStore
<1>5. AtReader(l) => ~Settled(l)
  BY DEF IInv, Placed, Located
<1>6. fate[l].dropped + fate[l].overwritten > 0 <=>
         fate[l].dropped > 0 \/ fate[l].overwritten > 0
  BY <1>1
<1> QED
  BY <1>1, <1>2, <1>3, <1>4, <1>5, <1>6 DEF Stage

\* A report, or a replacement, settles the lines of one entry or of several.
LEMMA SettleStages ==
    ASSUME IInv, Staged, Staged', NEW S \in SUBSET Valid,
           NEW f \in {"reported", "dropped", "overwritten"},
           \A l \in S : AtStore(l), Meet(S, f), todo' = todo
    PROVE  /\ \A l \in S : stage[l] = "inside"
           /\ stage' = [l \in Lines |->
                          IF l \in S
                            THEN IF f = "reported" THEN "reported" ELSE "lost"
                            ELSE stage[l]]
<1> USE DEF stage
<1>1. S \subseteq Lines
  BY PipelineAssumption
<1>2. \A l \in Lines, g \in Fates : fate[l][g] \in Nat
  BY DEF IInv, TypeOK
<1>3. \A l \in Lines, g \in Fates :
         fate'[l][g] = IF l \in S /\ g = f THEN fate[l][g] + 1 ELSE fate[l][g]
  BY MeetTypes DEF IInv, Fates
<1>4. \A l \in S : stage[l] = "inside"
  BY <1>1 DEF IInv, Placed, Located, Staged
<1>5. \A l \in Lines : AtReader(l)' <=> AtReader(l)
  BY DEF AtReader
<1>6. ASSUME NEW l \in S
      PROVE  Stage(l)' = IF f = "reported" THEN "reported" ELSE "lost"
  BY <1>1, <1>2, <1>3, <1>6 DEF Staged, Fates
<1>7. ASSUME NEW l \in Lines \ S
      PROVE  Stage(l)' = Stage(l)
  <2>1. \A g \in Fates : fate'[l][g] = fate[l][g]
    BY <1>3, <1>7
  <2>2. Settled(l)' <=> Settled(l)
    BY <2>1 DEF Settled
  <2> QED
    BY <1>5, <2>1, <2>2 DEF Staged, Fates
<1> QED
  BY <1>4, <1>6, <1>7

\* Nothing is seen of a step that moves lines inside only.
LEMMA Hidden ==
    ASSUME Staged, Staged', UNCHANGED <<todo, fate, up>>
    PROVE  UNCHANGED Flow!vars
<1>1. \A l \in Lines : /\ AtReader(l)' <=> AtReader(l)
                       /\ Settled(l)' <=> Settled(l)
                       /\ fate'[l] = fate[l]
  BY DEF AtReader, Settled
<1>2. \A l \in Lines : Stage(l)' = Stage(l)
  BY <1>1 DEF Staged
<1> QED
  BY <1>2 DEF Flow!vars

\* A reader hands a line on.
LEMMA TakeStep ==
    ASSUME IInv, Staged, Staged', NEW r \in Readers, ReaderSend(r)
    PROVE  Flow!Take(Head(todo[r])) /\ Head(todo[r]) \in Lines
<1>0. PICK e : e = Head(todo[r])
  OBVIOUS
<1>1. /\ e \in Lines
      /\ Elements(todo[r]) = Elements(todo'[r]) \cup {e}
      /\ e \notin Elements(todo'[r])
      /\ \A q \in Readers : q # r => todo'[q] = todo[q]
  BY <1>0, TailElements DEF ReaderSend, TypeOK, Single, IInv, Placed
<1>2. up /\ up' = up /\ fate' = fate
  BY DEF ReaderSend
<1>3. \A l \in Lines : AtReader(l)' <=> AtReader(l) /\ l # e
  BY <1>1 DEF AtReader, Single, IInv, Placed
<1>4. AtReader(e)
  BY <1>1 DEF AtReader
<1>5. ~Settled(e)
  BY <1>1, <1>4 DEF IInv, Placed, Located
<1>6. \A l \in Lines : Settled(l)' <=> Settled(l)
  BY <1>2 DEF Settled
<1>7. Stage(e) = "client" /\ Stage(e)' = "inside"
  BY <1>1, <1>3, <1>4, <1>5, <1>6 DEF Staged
<1>8. \A l \in Lines : l # e => Stage(l)' = Stage(l)
  BY <1>2, <1>3, <1>6 DEF Staged
<1>9. [l \in Lines |-> Stage(l)]' = [[l \in Lines |-> Stage(l)] EXCEPT ![e] = "inside"]
  BY <1>1, <1>7, <1>8
<1> QED
  BY <1>0, <1>1, <1>2, <1>7, <1>9 DEF Flow!Take

\* ParseMetrics rejects a line, or nothing is seen.
LEMMA RejectStep ==
    ASSUME IInv, Staged, Staged', ParseReceive
    PROVE  [Flow!Next]_(Flow!vars)
<1>0. PICK e : e = Head(parseChannel)
  OBVIOUS
<1>1. CASE e \in Valid
  BY <1>0, <1>1, Hidden DEF ParseReceive
<1>2. CASE e \notin Valid
  <2>1. e \in Lines /\ AtParse(e)
    BY <1>0, TailElements DEF IInv, TypeOK, ParseReceive, AtParse
  <2>2. /\ up /\ up' = up /\ todo' = todo
        /\ Meet({e}, "rejected") /\ "rejected" \in Fates
    BY <1>0, <1>2 DEF ParseReceive, Fates
  <2>3. \A l \in Lines, g \in Fates :
           fate'[l][g] = IF l \in {e} /\ g = "rejected" THEN fate[l][g] + 1
                         ELSE fate[l][g]
    BY <2>2, MeetTypes DEF IInv
  <2>4. \A l \in Lines : AtReader(l)' <=> AtReader(l)
    BY <2>2 DEF AtReader
  <2>5. Stage(e) = "inside"
    BY <2>1 DEF Staged, IInv, Placed, Located
  <2>6. Stage(e)' = "rejected"
    <3>1. fate[e].rejected \in Nat
      BY <2>1 DEF IInv, TypeOK, Fates
    <3>2. fate'[e].rejected > 0
      BY <2>1, <2>2, <2>3, <3>1
    <3> QED
      BY <2>1, <3>2 DEF Staged
  <2>7. \A l \in Lines : l # e => Stage(l)' = Stage(l)
    <3>1. TAKE l \in Lines
    <3>2. HAVE l # e
    <3>3. \A g \in Fates : fate'[l][g] = fate[l][g]
      BY <2>3, <3>2
    <3>4. Settled(l)' <=> Settled(l)
      BY <3>3 DEF Settled
    <3> QED
      BY <2>4, <3>3, <3>4 DEF Staged, Fates
  <2>8. [l \in Lines |-> Stage(l)]' = [[l \in Lines |-> Stage(l)] EXCEPT ![e] = "rejected"]
    BY <2>1, <2>6, <2>7
  <2>9. Flow!Reject(e)
    BY <1>2, <2>1, <2>2, <2>5, <2>8 DEF Flow!Reject
  <2> QED
    BY <2>1, <2>9 DEF Flow!Next
<1> QED
  BY <1>1, <1>2

\* RelayAllMetrics settles the lines of one entry.
LEMMA ReportStep ==
    ASSUME IInv, Staged, Staged', NEW w \in Workers, RelayOne(w)
    PROVE  [Flow!Next]_(Flow!vars)
<1>1. PICK k \in Stored(w), f \in {"reported", "dropped"} :
         Meet(Elements(store[w][k]) \ {Internal}, f)
  BY DEF RelayOne
<1> DEFINE S == Elements(store[w][k]) \ {Internal}
           outcome == IF f = "reported" THEN "reported" ELSE "lost"
<1>2. up /\ UNCHANGED <<todo, up>>
  BY DEF RelayOne, Flushing, WAt
<1>3. /\ S \subseteq Valid
      /\ \A l \in S : Key[l] = k /\ AtStore(l)
  BY DEF Stored, IInv, Placed, Owned, AtStore
<1>4. /\ \A l \in S : stage[l] = "inside"
      /\ stage' = [l \in Lines |-> IF l \in S THEN outcome ELSE stage[l]]
  <2>1. S \in SUBSET Valid /\ f \in {"reported", "dropped", "overwritten"}
    BY <1>3
  <2> QED
    BY <1>1, <1>2, <1>3, <2>1, SettleStages
<1>5. CASE S = {}
  <2>1. \A l \in Lines : Stage(l)' = Stage(l)
    BY <1>4, <1>5 DEF stage
  <2> QED
    BY <1>2, <2>1 DEF Flow!vars
<1>6. CASE S # {}
  <2>1. S \in SUBSET Flow!Inside
    BY <1>3, <1>4, PipelineAssumption DEF Flow!Inside, stage
  <2>2. Flow!Settle(S, outcome)
    BY <1>2, <1>3, <1>4, <1>6, PipelineAssumption DEF Flow!Settle, stage, KeyOf
  <2>3. outcome \in {"reported", "lost"}
    OBVIOUS
  <2> QED
    BY <2>1, <2>2, <2>3 DEF Flow!Next
<1> QED
  BY <1>5, <1>6

\* PrepareRuntimeMetrics settles what it replaces.
LEMMA ReplaceStep ==
    ASSUME IInv, Staged, Staged', NEW w \in Workers, WorkerTick(w)
    PROVE  [Flow!Next]_(Flow!vars)
<1> DEFINE S == Replaced(w, RuntimeKeys)
<1>1. /\ up /\ UNCHANGED <<todo, up>>
      /\ Meet(S, "overwritten")
  BY DEF WorkerTick, WAt
<1>2. /\ S \subseteq Valid
      /\ \A l \in S : Key[l] \in RuntimeKeys /\ AtStore(l)
  BY KeyTypes DEF Replaced, IInv, Placed, Owned, AtStore
<1>3. /\ \A l \in S : stage[l] = "inside"
      /\ stage' = [l \in Lines |-> IF l \in S THEN "lost" ELSE stage[l]]
  BY <1>1, <1>2, SettleStages
<1>4. CASE S = {}
  <2>1. \A l \in Lines : Stage(l)' = Stage(l)
    BY <1>3, <1>4 DEF stage
  <2> QED
    BY <1>1, <2>1 DEF Flow!vars
<1>5. CASE S # {}
  <2>1. S \in SUBSET Flow!Inside
    BY <1>2, <1>3, PipelineAssumption DEF Flow!Inside, stage
  <2>2. Flow!Overwrite(S)
    BY <1>1, <1>2, <1>3, <1>5, PipelineAssumption DEF Flow!Overwrite, stage, KeyOf
  <2> QED
    BY <2>1, <2>2 DEF Flow!Next
<1> QED
  BY <1>4, <1>5

\* Every step of the goroutines is a step of MetricFlow or is not seen.
LEMMA FlowStep ==
    ASSUME IInv, Staged, Staged', [Next]_vars
    PROVE  [Flow!Next]_(Flow!vars)
<1>1. ASSUME NEW r \in Readers, ReaderSend(r)
      PROVE  Flow!Next
  BY <1>1, TakeStep DEF Flow!Next
<1>2. ASSUME NEW w \in Workers, FlushInternal(w)
      PROVE  [Flow!Next]_(Flow!vars)
  <2>1. Meet({}, "overwritten") /\ todo' = todo /\ up' = up
    BY <1>2, FlushReplacesNothing DEF IInv, FlushInternal
  <2>2. fate' = fate
    BY <2>1 DEF Meet, IInv, TypeOK
  <2> QED
    BY <2>1, <2>2, Hidden
<1>3. CASE (\E w \in Workers : RelayPanic(w)) \/ MainReturns
  <2>1. up /\ up' = FALSE /\ UNCHANGED <<todo, fate>>
    BY <1>3 DEF RelayPanic, Flushing, WAt, MainReturns
  <2>2. \A l \in Lines : Stage(l)' = Stage(l)
    <3>1. \A l \in Lines : /\ AtReader(l)' <=> AtReader(l)
                           /\ Settled(l)' <=> Settled(l)
                           /\ fate'[l] = fate[l]
      BY <2>1 DEF AtReader, Settled
    <3> QED
      BY <3>1 DEF Staged
  <2>3. Flow!Stop
    BY <2>1, <2>2 DEF Flow!Stop
  <2> QED
    BY <2>3 DEF Flow!Next
<1>4. CASE UNCHANGED <<todo, fate, up>>
  BY <1>4, Hidden
<1>5. ASSUME NEW w \in Workers, WorkerStep(w)
      PROVE  [Flow!Next]_(Flow!vars)
  BY <1>2, <1>3, <1>4, <1>5, ReportStep, ReplaceStep
     DEF WorkerStep, WorkerTop, WorkerReceive, WorkerTimeout, WorkerNoTick, FlushDone
<1>6. CASE ParseStep
  BY <1>4, <1>6, RejectStep DEF ParseStep, ParseTimeout, ParsePush, ParseCheck
<1> QED
  BY <1>1, <1>3, <1>4, <1>5, <1>6 DEF Next, Tick, Finish, Ended, vars

\* The goroutines and the channels keep MetricFlow's promise to the clients: a
\* line is taken in once and is rejected, reported with lines of its key only,
\* or lost, once.
THEOREM PipelineImplementsFlow == Spec => ImplementsFlow
<1>1. Init => Flow!Init
  <2> SUFFICES ASSUME Init PROVE Flow!Init
    OBVIOUS
  <2>1. Staged
    BY InitIInv, StageIs
  <2>2. \A l \in Lines : AtReader(l)
    BY PipelineAssumption DEF Init, AtReader
  <2>3. \A l \in Lines : Stage(l) = "client"
    BY <2>1, <2>2 DEF Staged
  <2> QED
    BY <2>3 DEF Init, Flow!Init
<1>2. IInv => Staged
  BY StageIs
<1>3. IInv /\ Staged /\ Staged' /\ [Next]_vars => [Flow!Next]_(Flow!vars)
  BY FlowStep
<1> QED
  BY Invariance, <1>1, <1>2, <1>3, PTL DEF Spec, ImplementsFlow, Flow!Spec
=============================================================================
