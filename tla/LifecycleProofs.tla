-------------------------- MODULE LifecycleProofs ---------------------------
(***************************************************************************)
(* The safety invariants of Lifecycle, for every set of files, host names  *)
(* and tokens.                                                             *)
(***************************************************************************)
EXTENDS Lifecycle, TLAPS

\* A socket's goroutine and its listener: who has one, and when; the handler starts
\* after main has created the sockets, and has something to decode only in a load.
Control ==
    /\ \A s \in Sockets :
          /\ goroutine[s] # "none" => s \in started
          /\ listener[s] # "nil" => goroutine[s] \in {"serve", "none"}
    /\ main = "start" => handler = "none"
    /\ main = "down" => \A s \in Sockets : goroutine[s] = "none"
    /\ todo # {} => handler = "decode"

\* How far a load has come: what is decoded is the file's, and a file that
\* could not be read has nothing left to decode.
LoadProgress ==
    Alive =>
      /\ handler = "read" =>
            on = DefaultOn /\ relay = DefaultRelay /\ host = ""
      /\ handler = "decode" =>
            /\ todo # {} => source.valid
            /\ on = IF "connection" \in todo THEN DefaultOn ELSE OnIn(source)
            /\ "debug" \notin todo => relay = RelayIn(source)
            /\ "service" \notin todo => host = HostIn(source)

\* What the file read last makes valid has been seen.
TokenProgress ==
    Alive => ValidIn(source) \subseteq seen

\* As long as no load has read of other sockets, the file read last names the
\* sockets that main created.
SocketsOn ==
    Alive /\ ~switched => OnIn(source) = started

\* The sockets that main has dealt with when it is at the stage m.
Behind(m) == CASE m = "udp"  -> {"tcp"}
               [] m = "unix" -> {"tcp", "udp"}
               [] m = "exit" -> Sockets
               [] OTHER      -> {}

SocketsClosed ==
    /\ ~switched => \A s \in started \cap Behind(main) : listener[s] = "closed"
    /\ listener["unix"] = "closed" => ~sockFile

\* Without a mishap before, the sock file belongs to a Listen that runs.
SockFileOwned ==
    sockFile /\ ~tainted => goroutine["unix"] \in {"bound", "serve"}

IInv ==
    /\ TypeOK /\ Control
    /\ LoadProgress /\ WholeOutsideLoad
    /\ TokenProgress /\ TokensFromFiles
    /\ SocketsOn /\ SocketsClosed /\ SockFileOwned

-----------------------------------------------------------------------------
(***************************************************************************)
(* The operators of LoadFile.                                              *)
(***************************************************************************)

\* What a file may hold, field by field (ConfigValues).
LEMMA FileFields ==
    ASSUME NEW f \in Files
    PROVE  /\ f.valid \in BOOLEAN /\ f.auth \in BOOLEAN /\ f.relay \in BOOLEAN
           /\ f.off \subseteq Sockets
           /\ f.host \in Hosts \cup {""}
           /\ DOMAIN f.tokens \subseteq Tokens
           /\ f.tokens \in [DOMAIN f.tokens -> BOOLEAN]
<1>1. f \in FileType
  BY LifecycleAssumption
<1>2. PICK T \in SUBSET Tokens : f.tokens \in [T -> BOOLEAN]
  BY <1>1 DEF FileType
<1> QED
  BY <1>1, <1>2 DEF FileType

\* The values a load ends with have their types (LoadFile).
LEMMA LoadedTypes ==
    ASSUME NEW f \in Files
    PROVE  /\ OnIn(f) \subseteq Sockets
           /\ RelayIn(f) \in BOOLEAN
           /\ HostIn(f) \in Hosts \cup {""} /\ GetHostname(HostIn(f)) \in Hosts
           /\ DOMAIN TokensIn(f) \subseteq Tokens
           /\ TokensIn(f) \in [DOMAIN TokensIn(f) -> BOOLEAN]
           /\ ValidIn(f) \subseteq Tokens
<1>1. OnIn(f) \subseteq Sockets /\ RelayIn(f) \in BOOLEAN
  BY FileFields DEF OnIn, DefaultOn, RelayIn, DefaultRelay
<1>2. HostIn(f) \in Hosts \cup {""} /\ GetHostname(HostIn(f)) \in Hosts
  BY FileFields, LifecycleAssumption DEF HostIn, GetHostname
<1>3. /\ DOMAIN TokensIn(f) \subseteq Tokens
      /\ TokensIn(f) \in [DOMAIN TokensIn(f) -> BOOLEAN]
  BY FileFields DEF TokensIn, NoTokens
<1> QED
  BY <1>1, <1>2, <1>3 DEF ValidIn

\* yaml sets the keys it reads and leaves the others.
LEMMA Merged ==
    ASSUME NEW old, NEW new, old \in [DOMAIN old -> BOOLEAN],
           new \in [DOMAIN new -> BOOLEAN]
    PROVE  /\ DOMAIN Merge(old, new) = DOMAIN old \cup DOMAIN new
           /\ Merge(old, new) \in [DOMAIN Merge(old, new) -> BOOLEAN]
           /\ \A t \in DOMAIN new : Merge(old, new)[t] = new[t]
           /\ \A t \in DOMAIN old \ DOMAIN new : Merge(old, new)[t] = old[t]
BY DEF Merge

\* The default token does not authenticate, and changes no other.
LEMMA Defaulted ==
    ASSUME NEW map, map \in [DOMAIN map -> BOOLEAN], DOMAIN map \subseteq Tokens
    PROVE  /\ DOMAIN DefaultTokens(map) \subseteq Tokens
           /\ DefaultTokens(map) \in [DOMAIN DefaultTokens(map) -> BOOLEAN]
           /\ DOMAIN map \subseteq DOMAIN DefaultTokens(map)
           /\ \A t \in DOMAIN map : DefaultTokens(map)[t] = map[t]
           /\ \A t \in DOMAIN DefaultTokens(map) \ DOMAIN map : ~DefaultTokens(map)[t]
BY LifecycleAssumption DEF DefaultTokens

-----------------------------------------------------------------------------
(***************************************************************************)
(* The types, and the sockets' goroutines and listeners.                   *)
(***************************************************************************)

\* The end of a process leaves nothing in memory.
LEMMA DieTypes ==
    ASSUME TypeOK, NEW clean \in BOOLEAN, Die(clean), file' = file,
           sockFile' \in BOOLEAN
    PROVE  TypeOK' /\ Control'
BY DEF TypeOK, Control, Die, Stages, NoTokens

\* Closing a socket leaves main in a stage of a process that runs (shutdown in main).
LEMMA AfterStage ==
    ASSUME NEW s \in Sockets
    PROVE  After(s) \in Stages \ {"start", "down"}
BY DEF After, Stages, Sockets

\* Every step of the process, and its end, keeps the types and Control.
LEMMA TypeStep ==
    ASSUME TypeOK, Control, [Next]_vars
    PROVE  TypeOK' /\ Control'
<1> USE DEF TypeOK, Control, disk, sockets, config, loader, history
<1>1. CASE Start
  <2>1. /\ OnIn(file) \subseteq Sockets /\ RelayIn(file) \in BOOLEAN
        /\ GetHostname(HostIn(file)) \in Hosts
        /\ ValidIn(file) \subseteq Tokens
    BY LoadedTypes
  <2>2. /\ DOMAIN tokens' \subseteq Tokens
        /\ tokens' \in [DOMAIN tokens' -> BOOLEAN]
    BY <1>1, LoadedTypes, Defaulted DEF Start
  <2>3. auth' \in BOOLEAN
    BY <1>1, FileFields DEF Start
  <2>4. main' \in Stages
    BY <1>1 DEF Start, Stages
  <2> QED
    BY <1>1, <2>1, <2>2, <2>3, <2>4 DEF Start, Created
<1>2. CASE Kill
  BY <1>2, DieTypes DEF Kill
<1>3. CASE MainStep
  <2>1. CASE ListenForSignals
    <3>1. main' \in Stages
      BY <2>1 DEF ListenForSignals, Stages
    <3> QED
      BY <2>1, <3>1 DEF ListenForSignals
  <2>2. ASSUME NEW s \in Sockets, Skip(s)
        PROVE  TypeOK' /\ Control'
    BY <2>2, AfterStage DEF Skip
  <2>3. ASSUME NEW s \in Sockets, Close(s)
        PROVE  TypeOK' /\ Control'
    BY <2>3, AfterStage DEF Close
  <2>4. ASSUME NEW s \in Sockets, CloseNilSocket(s)
        PROVE  TypeOK' /\ Control'
    BY <2>4, DieTypes DEF CloseNilSocket
  <2>5. ASSUME NEW s \in Sockets, CloseNilListener(s)
        PROVE  TypeOK' /\ Control'
    BY <2>5, DieTypes DEF CloseNilListener
  <2>6. CASE MainReturns
    BY <2>6, DieTypes DEF MainReturns
  <2> QED
    BY <1>3, <2>1, <2>2, <2>3, <2>4, <2>5, <2>6 DEF MainStep
<1>4. ASSUME NEW s \in Sockets, ListenStep(s)
      PROVE  TypeOK' /\ Control'
  <2>1. CASE Bind(s)
    BY <1>4, <2>1 DEF Bind, Serving
  <2>2. CASE BindFails
    BY <2>2, DieTypes DEF BindFails
  <2>3. CASE Publish(s)
    BY <1>4, <2>3 DEF Publish, Serving
  <2>4. CASE AcceptFails(s)
    BY <1>4, <2>4 DEF AcceptFails, Serving
  <2> QED
    BY <1>4, <2>1, <2>2, <2>3, <2>4 DEF ListenStep
<1>5. CASE HandlerStep
  <2> USE DEF Handler, Decodes, Sections
  <2>1. CASE Receive
    BY <2>1 DEF Receive
  <2>2. CASE Finish
    <3>1. main' \in Stages
      BY <2>2 DEF Finish, Stages, Sockets
    <3> QED
      BY <2>2, <3>1 DEF Finish
  <2>3. CASE LoadDefaults
    BY <2>3 DEF LoadDefaults, DefaultOn, DefaultRelay
  <2>4. CASE LoadRead
    <3>1. seen' \subseteq Tokens /\ switched' \in BOOLEAN
      BY <2>4, LoadedTypes DEF LoadRead
    <3> QED
      BY <2>4, <3>1 DEF LoadRead
  <2>5. CASE DecodeConnection
    BY <2>5 DEF DecodeConnection
  <2>6. CASE DecodeDebug
    BY <2>6, FileFields DEF DecodeDebug
  <2>7. CASE DecodeService
    <3>1. /\ DOMAIN tokens' \subseteq Tokens
          /\ tokens' \in [DOMAIN tokens' -> BOOLEAN]
      <4>1. /\ DOMAIN source.tokens \subseteq Tokens
            /\ source.tokens \in [DOMAIN source.tokens -> BOOLEAN]
        BY FileFields
      <4>2. tokens' = Merge(tokens, source.tokens)
        BY <2>7 DEF DecodeService
      <4>3. /\ DOMAIN Merge(tokens, source.tokens)
                 = DOMAIN tokens \cup DOMAIN source.tokens
            /\ Merge(tokens, source.tokens)
                 \in [DOMAIN Merge(tokens, source.tokens) -> BOOLEAN]
        <5>1. tokens \in [DOMAIN tokens -> BOOLEAN]
          OBVIOUS
        <5> QED
          BY ONLY <4>1, <5>1, Merged
      <4> QED
        BY <4>1, <4>2, <4>3
    <3> QED
      BY <2>7, <3>1, FileFields DEF DecodeService
  <2>8. CASE MapRace
    BY <2>8, DieTypes DEF MapRace
  <2>9. CASE LoadEnds
    <3>1. /\ DOMAIN tokens' \subseteq Tokens
          /\ tokens' \in [DOMAIN tokens' -> BOOLEAN]
      BY <2>9, Defaulted DEF LoadEnds
    <3>2. host' \in Hosts
      BY <2>9, LifecycleAssumption DEF LoadEnds, GetHostname
    <3> QED
      BY <2>9, <3>1, <3>2 DEF LoadEnds
  <2> QED
    BY <1>5, <2>1, <2>2, <2>3, <2>4, <2>5, <2>6, <2>7, <2>8, <2>9 DEF HandlerStep
<1>6. ASSUME NEW kind \in {"hup", "term"}, Signal(kind)
      PROVE  TypeOK' /\ Control'
  BY <1>6 DEF Signal
<1>7. ASSUME NEW f \in Files, EditFile(f)
      PROVE  TypeOK' /\ Control'
  BY <1>7 DEF EditFile
<1>8. CASE UNCHANGED vars
  <2>1. TypeOK'
    BY <1>8 DEF vars
  <2>2. Control'
    BY <1>8 DEF vars
  <2> QED
    BY <2>1, <2>2
<1> QED
  BY <1>1, <1>2, <1>3, <1>4, <1>5, <1>6, <1>7, <1>8 DEF Next, Environment

-----------------------------------------------------------------------------
(***************************************************************************)
(* The reload.                                                             *)
(***************************************************************************)

\* What the handler's load does not see: steps that leave the configuration, the
\* file read and the handler alone.
LEMMA Unread ==
    ASSUME TypeOK, LoadProgress, WholeOutsideLoad, TokenProgress, TokensFromFiles,
           SocketsOn,
           Alive, UNCHANGED <<config, source, todo, history, started>>,
           \/ handler' = handler
           \/ ~Loading /\ handler' \in {"none", "receive", "defaults", "finish"}
    PROVE  /\ LoadProgress' /\ WholeOutsideLoad'
           /\ TokenProgress' /\ TokensFromFiles'
           /\ SocketsOn'
<1> USE DEF config, history, Loading
<1>1. LoadProgress' /\ WholeOutsideLoad'
  BY DEF LoadProgress, WholeOutsideLoad
<1>2. TokenProgress' /\ TokensFromFiles'
  BY DEF TokenProgress, TokensFromFiles, Accepts, Alive
<1>3. SocketsOn'
  BY DEF SocketsOn, Alive
<1> QED
  BY <1>1, <1>2, <1>3

\* Nor is there anything to see once the process has ended.
LEMMA Ended ==
    ASSUME ~Alive'
    PROVE  /\ LoadProgress' /\ WholeOutsideLoad'
           /\ TokenProgress' /\ TokensFromFiles'
           /\ SocketsOn'
BY DEF LoadProgress, WholeOutsideLoad, TokenProgress, TokensFromFiles, SocketsOn

\* The default token authenticates nothing, whatever the map is.
LEMMA DefaultedAccepts ==
    ASSUME TypeOK, tokens' = DefaultTokens(tokens), NEW t
    PROVE  Accepts(t)' <=> Accepts(t)
<1>1. DOMAIN tokens \subseteq Tokens /\ tokens \in [DOMAIN tokens -> BOOLEAN]
  BY DEF TypeOK
<1>2. CASE t \in DOMAIN tokens
  BY <1>1, <1>2, Defaulted DEF Accepts
<1>3. CASE t \notin DOMAIN tokens
  BY <1>1, <1>3, Defaulted DEF Accepts
<1> QED
  BY <1>2, <1>3

\* A step of LoadFile, or of anything else, keeps what is known of the load in
\* progress and of the tokens.
LEMMA LoadStep ==
    ASSUME IInv, [Next]_vars
    PROVE  /\ LoadProgress' /\ WholeOutsideLoad'
           /\ TokenProgress' /\ TokensFromFiles'
           /\ SocketsOn'
<1> DEFINE Goal == /\ LoadProgress' /\ WholeOutsideLoad'
                   /\ TokenProgress' /\ TokensFromFiles'
                   /\ SocketsOn'
<1> USE DEF IInv, disk, sockets, config, loader, history
<1>0. CASE main' = "down"
  BY <1>0, Ended DEF Alive
<1>1. CASE Start
  <2>1. source' = file /\ handler' = "none" /\ seen' = ValidIn(file)
    BY <1>1 DEF Start
  <2>2. LoadProgress' /\ WholeOutsideLoad' /\ SocketsOn'
    BY <1>1 DEF Start, LoadProgress, WholeOutsideLoad, SocketsOn, Loading, Created
  <2>3. tokens' = DefaultTokens(TokensIn(file))
    BY <1>1 DEF Start
  <2>4. /\ DOMAIN TokensIn(file) \subseteq Tokens
        /\ TokensIn(file) \in [DOMAIN TokensIn(file) -> BOOLEAN]
    BY LoadedTypes DEF TypeOK
  <2>5. \A t \in Tokens : Accepts(t)' => t \in ValidIn(file)
    BY <2>3, <2>4, Defaulted DEF Accepts, ValidIn
  <2> QED
    BY <2>1, <2>2, <2>5 DEF TokenProgress, TokensFromFiles
<1>2. ASSUME main' # "down", MainStep
      PROVE  Goal
  <2>1. CASE ListenForSignals
    <3>1. handler = "none"
      BY <2>1 DEF Control, ListenForSignals
    <3> QED
      BY <2>1, <3>1, Unread DEF ListenForSignals, Loading, Alive
  <2>2. CASE \E s \in Sockets : Skip(s) \/ Close(s)
    <3>1. Alive /\ UNCHANGED <<config, source, todo, history, started, handler>>
      BY <2>2 DEF Skip, Close, Alive, Sockets
    <3> QED
      BY <3>1, Unread
  <2> QED
    BY <1>2, <2>1, <2>2 DEF MainStep, CloseNilSocket, CloseNilListener, MainReturns,
       Die
<1>3. ASSUME main' # "down", NEW s \in Sockets, ListenStep(s)
      PROVE  Goal
  BY <1>3, Unread DEF ListenStep, Bind, BindFails, Publish, AcceptFails, Serving,
     Die, Alive
<1>4. CASE Receive
  BY <1>4, Unread DEF Receive, Handler, Loading
<1>5. CASE Finish
  BY <1>5, Unread DEF Finish, Handler, Loading
<1>6. CASE LoadDefaults
  BY <1>6 DEF LoadDefaults, Handler, LoadProgress, WholeOutsideLoad, SocketsOn,
     Loading, DefaultOn, DefaultRelay, TokenProgress, TokensFromFiles, Accepts, Alive
<1>7. CASE LoadRead
  <2>1. LoadProgress' /\ WholeOutsideLoad'
    BY <1>7 DEF LoadRead, Handler, LoadProgress, OnIn, RelayIn, HostIn, Sections,
       WholeOutsideLoad, Loading
  <2>2. SocketsOn'
    BY <1>7 DEF LoadRead, Handler, SocketsOn, TypeOK
  <2>3. TokenProgress' /\ TokensFromFiles'
    BY <1>7 DEF LoadRead, Handler, TokenProgress, TokensFromFiles, Accepts, Alive
  <2> QED
    BY <2>1, <2>2, <2>3
<1>8. CASE DecodeConnection
  BY <1>8 DEF DecodeConnection, Decodes, Handler, LoadProgress, OnIn, SocketsOn,
     WholeOutsideLoad, Loading, TokenProgress, TokensFromFiles, Accepts, Alive
<1>9. CASE DecodeDebug
  BY <1>9 DEF DecodeDebug, Decodes, Handler, LoadProgress, RelayIn, SocketsOn,
     WholeOutsideLoad, Loading, TokenProgress, TokensFromFiles, Accepts, Alive
<1>10. CASE DecodeService
  <2>1. LoadProgress' /\ WholeOutsideLoad' /\ SocketsOn' /\ TokenProgress'
    BY <1>10 DEF DecodeService, Decodes, Handler, LoadProgress, HostIn, SocketsOn,
       WholeOutsideLoad, Loading, TokenProgress, Alive
  <2>2. TokensFromFiles'
    <3>1. /\ Alive /\ source' = source /\ seen' = seen
          /\ tokens' = Merge(tokens, source.tokens)
          /\ TokensIn(source) = source.tokens
      BY <1>10 DEF DecodeService, Decodes, Handler, LoadProgress, TokensIn
    <3>2. /\ source.tokens \in [DOMAIN source.tokens -> BOOLEAN]
          /\ tokens \in [DOMAIN tokens -> BOOLEAN]
      <4>1. source \in Files /\ tokens \in [DOMAIN tokens -> BOOLEAN]
        BY DEF TypeOK
      <4> QED
        BY <4>1, FileFields
    <3>3. /\ DOMAIN tokens' = DOMAIN tokens \cup DOMAIN source.tokens
          /\ \A t \in DOMAIN source.tokens : tokens'[t] = source.tokens[t]
          /\ \A t \in DOMAIN tokens \ DOMAIN source.tokens : tokens'[t] = tokens[t]
      BY <3>1, <3>2 DEF Merge
    <3>4. ASSUME NEW t \in Tokens, Accepts(t)'
          PROVE  t \in seen
      <4>1. CASE t \in DOMAIN source.tokens
        <5>1. t \in ValidIn(source)
          BY <3>1, <3>3, <3>4, <4>1 DEF Accepts, ValidIn
        <5> QED
          BY <3>1, <5>1 DEF TokenProgress
      <4>2. CASE t \notin DOMAIN source.tokens
        <5>1. Accepts(t)
          BY <3>3, <3>4, <4>2 DEF Accepts
        <5> QED
          BY <3>1, <5>1 DEF TokensFromFiles
      <4> QED
        BY <4>1, <4>2
    <3> QED
      BY <3>1, <3>4 DEF TokensFromFiles
  <2> QED
    BY <2>1, <2>2
<1>11. CASE LoadEnds
  <2>1. /\ handler = "decode" /\ handler' = "receive" /\ todo = {} /\ Alive
        /\ UNCHANGED <<source, main, on, relay, switched, started, seen>>
        /\ host' = GetHostname(host) /\ tokens' = DefaultTokens(tokens)
    BY <1>11 DEF LoadEnds, Handler
  <2>2. LoadProgress' /\ WholeOutsideLoad' /\ SocketsOn' /\ TokenProgress'
    BY <2>1 DEF LoadProgress, WholeOutsideLoad, Loading, SocketsOn, TokenProgress,
       Alive
  <2>3. \A t : Accepts(t)' <=> Accepts(t)
    BY <2>1, DefaultedAccepts
  <2>4. TokensFromFiles'
    BY <2>1, <2>3 DEF TokensFromFiles
  <2> QED
    BY <2>2, <2>4
<1>12. ASSUME NEW kind \in {"hup", "term"}, Signal(kind)
       PROVE  Goal
  BY <1>12, Unread DEF Signal
<1>13. ASSUME main' # "down", NEW f \in Files, EditFile(f)
       PROVE  Goal
  BY <1>13, Unread DEF EditFile, Alive
<1>14. ASSUME main' # "down", UNCHANGED vars
       PROVE  Goal
  BY <1>14, Unread DEF vars, Alive
<1>15. Kill \/ MapRace => main' = "down"
  BY DEF Kill, MapRace, Die
<1> QED
  BY <1>0, <1>1, <1>2, <1>3, <1>4, <1>5, <1>6, <1>7, <1>8, <1>9, <1>10, <1>11,
     <1>12, <1>13, <1>14, <1>15 DEF Next, HandlerStep, Environment

-----------------------------------------------------------------------------
(***************************************************************************)
(* The end of main, and the sock file.                                     *)
(***************************************************************************)

\* The stages of main in their order.
LEMMA Stepwise ==
    /\ \A s \in Sockets : Behind(After(s)) = Behind(s) \cup {s}
    /\ Behind("down") = {} /\ Behind("start") = {} /\ Behind("wait") = {}
    /\ Behind("tcp") = {} /\ Behind("exit") = Sockets
BY DEF Behind, After, Sockets

\* Unless a load has read of other sockets, main passes over none that it created:
\* while a load shows the defaults all are on, and then those of the file.
LEMMA SkipsNone ==
    ASSUME IInv, NEW s \in Sockets, Skip(s), ~switched
    PROVE  s \notin started
<1>1. Alive /\ s \notin on /\ on # Sockets
  BY DEF Skip, Alive, Sockets
<1>2. OnIn(source) = started
  BY <1>1 DEF IInv, SocketsOn
<1>3. CASE handler = "read"
  BY <1>1, <1>3 DEF IInv, LoadProgress, DefaultOn
<1>4. CASE handler = "decode"
  BY <1>1, <1>2, <1>4 DEF IInv, LoadProgress, DefaultOn
<1>5. CASE ~Loading
  BY <1>1, <1>2, <1>5 DEF IInv, WholeOutsideLoad
<1> QED
  BY <1>3, <1>4, <1>5 DEF Loading

\* A process that dies taints what it leaves.
LEMMA DieOwned ==
    ASSUME Die(FALSE)
    PROVE  SocketsClosed' /\ SockFileOwned'
BY Stepwise DEF Die, SocketsClosed, SockFileOwned, Sockets

\* Each Close in main finds the socket of its flag, and what Listen and Close do
\* to the sock file keeps its owner known.
LEMMA CloseStep ==
    ASSUME IInv, [Next]_vars
    PROVE  SocketsClosed' /\ SockFileOwned'
<1> USE DEF IInv, disk, sockets, config, loader, history
<1>0. /\ goroutine \in [Sockets -> {"none", "listen", "bound", "serve"}]
      /\ listener \in [Sockets -> {"nil", "open", "closed"}]
      /\ started \subseteq Sockets /\ switched \in BOOLEAN /\ "unix" \in Sockets
  BY DEF TypeOK, Sockets
<1>1. CASE Start
  <2>1. ~(sockFile /\ ~tainted)
    BY <1>0, <1>1 DEF Start, Control, SockFileOwned
  <2> QED
    BY <1>0, <1>1, <2>1, Stepwise DEF Start, SocketsClosed, SockFileOwned
<1>2. CASE Kill \/ MapRace \/ BindFails
  BY <1>2, DieOwned DEF Kill, MapRace, BindFails
<1>3. CASE ListenForSignals
  BY <1>3, Stepwise DEF ListenForSignals, SocketsClosed, SockFileOwned
<1>4. ASSUME NEW s \in Sockets, Skip(s)
      PROVE  SocketsClosed' /\ SockFileOwned'
  <2>1. SockFileOwned'
    BY <1>4 DEF Skip, SockFileOwned
  <2>2. Behind(main') = Behind(main) \cup {s}
    BY <1>4, Stepwise DEF Skip
  <2>3. ~switched => s \notin started
    BY <1>4, SkipsNone
  <2> QED
    BY <1>4, <2>1, <2>2, <2>3 DEF Skip, SocketsClosed
<1>5. ASSUME NEW s \in Sockets, Close(s)
      PROVE  SocketsClosed' /\ SockFileOwned'
  <2>1. Behind(main') = Behind(main) \cup {s}
    BY <1>5, Stepwise DEF Close
  <2>2. listener' = [listener EXCEPT ![s] = "closed"]
    BY <1>5 DEF Close
  <2>3. SocketsClosed'
    BY <1>0, <1>5, <2>1, <2>2 DEF Close, SocketsClosed
  <2>4. SockFileOwned'
    BY <1>5 DEF Close, SockFileOwned
  <2> QED
    BY <2>3, <2>4
<1>6. ASSUME NEW s \in Sockets, CloseNilSocket(s) \/ CloseNilListener(s)
      PROVE  SocketsClosed' /\ SockFileOwned'
  BY <1>6, DieOwned DEF CloseNilSocket, CloseNilListener
<1>7. CASE MainReturns
  <2>1. ~switched => ~(sockFile /\ ~tainted)
    BY <1>0, <1>7, Stepwise DEF MainReturns, SocketsClosed, SockFileOwned, Control
  <2>2. /\ main' = "down" /\ sockFile' = sockFile /\ switched' = FALSE
        /\ listener' = [s \in Sockets |-> "nil"]
        /\ tainted' = (tainted \/ switched)
    BY <1>0, <1>7 DEF MainReturns, Die
  <2> QED
    BY <1>0, <2>1, <2>2, Stepwise DEF SocketsClosed, SockFileOwned
<1>8. ASSUME NEW s \in Sockets, Bind(s)
      PROVE  SocketsClosed' /\ SockFileOwned'
  <2>1. listener["unix"] = "closed" => s # "unix"
    BY <1>0, <1>8 DEF Bind, Serving, Control
  <2> QED
    BY <1>0, <1>8, <2>1 DEF Bind, Serving, SocketsClosed, SockFileOwned
<1>9. ASSUME NEW s \in Sockets, Publish(s)
      PROVE  SocketsClosed' /\ SockFileOwned'
  <2>1. listener[s] # "closed"
    BY <1>0, <1>9 DEF Publish, Serving, Control
  <2> QED
    BY <1>0, <1>9, <2>1 DEF Publish, Serving, SocketsClosed, SockFileOwned
<1>10. ASSUME NEW s \in Sockets, AcceptFails(s)
       PROVE  SocketsClosed' /\ SockFileOwned'
  BY <1>0, <1>10 DEF AcceptFails, Serving, SocketsClosed, SockFileOwned
<1>11. CASE Finish
  BY <1>11, Stepwise DEF Finish, Handler, SocketsClosed, SockFileOwned
<1>12. CASE \/ Receive \/ LoadDefaults \/ LoadRead \/ DecodeConnection
            \/ DecodeDebug \/ DecodeService \/ LoadEnds
  <2>1. UNCHANGED <<main, disk, sockets, tainted>>
    BY <1>12 DEF Receive, LoadDefaults, LoadRead, DecodeConnection, DecodeDebug,
       DecodeService, LoadEnds, Decodes, Handler
  <2>2. CASE LoadRead
    <3>1. ~switched' => ~switched
      BY <1>0, <2>2 DEF LoadRead
    <3> QED
      BY <2>1, <3>1 DEF SocketsClosed, SockFileOwned
  <2>3. CASE switched' = switched
    BY <2>1, <2>3 DEF SocketsClosed, SockFileOwned
  <2> QED
    BY <1>12, <2>2, <2>3 DEF Receive, LoadDefaults, DecodeConnection, DecodeDebug,
       DecodeService, Decodes, LoadEnds
<1>13. ASSUME NEW kind \in {"hup", "term"}, Signal(kind)
       PROVE  SocketsClosed' /\ SockFileOwned'
  BY <1>13 DEF Signal, SocketsClosed, SockFileOwned
<1>14. ASSUME NEW f \in Files, EditFile(f)
       PROVE  SocketsClosed' /\ SockFileOwned'
  BY <1>14 DEF EditFile, SocketsClosed, SockFileOwned
<1>15. CASE UNCHANGED vars
  BY <1>15 DEF vars, SocketsClosed, SockFileOwned
<1> QED
  BY <1>1, <1>2, <1>3, <1>4, <1>5, <1>6, <1>7, <1>8, <1>9, <1>10, <1>11, <1>12,
     <1>13, <1>14, <1>15 DEF Next, MainStep, ListenStep, HandlerStep, Environment

-----------------------------------------------------------------------------
\* Before the process starts there is nothing to close and no load.
LEMMA InitIInv == Init => IInv
<1> SUFFICES ASSUME Init PROVE IInv
  OBVIOUS
<1>1. TypeOK /\ Control
  BY DEF Init, TypeOK, Control, Stages, NoTokens
<1>2. ~Alive
  BY DEF Init, Alive
<1>3. SocketsClosed /\ SockFileOwned
  BY Stepwise DEF Init, SocketsClosed, SockFileOwned, Sockets
<1> QED
  BY <1>1, <1>2, <1>3 DEF IInv, LoadProgress, WholeOutsideLoad, TokenProgress,
     TokensFromFiles, SocketsOn

\* The inductive invariant.
LEMMA Invariance == Spec => []IInv
<1>1. IInv /\ [Next]_vars => IInv'
  BY TypeStep, LoadStep, CloseStep DEF IInv
<1> QED
  BY InitIInv, <1>1, PTL DEF Spec

-----------------------------------------------------------------------------
(***************************************************************************)
(* The theorems.                                                           *)
(***************************************************************************)

\* Every variable has its type, and only a bound socket has a listener.
THEOREM TypeCorrect == Spec => []TypeOK
BY Invariance, PTL DEF IInv

\* A finished reload leaves the configuration of a process started anew with the
\* same file (LoadFile, step by step in the live structure).
THEOREM LoadsWhole == Spec => []WholeOutsideLoad
BY Invariance, PTL DEF IInv

\* In every state of a process, the steps of a load included, it accepts no token
\* that no file it has read makes valid (the map CreateAuth and LoadFile share).
THEOREM TokensComeFromFiles == Spec => []TokensFromFiles
BY Invariance, PTL DEF IInv

\* main meets a socket that it never created only after a load has read a file with
\* other sockets, or before one of the same sockets has decoded them.
THEOREM ClosesOwnSockets == Spec => []CloseFindsSocket
<1>1. ASSUME IInv, NEW s \in Sockets, main = s, s \in on, s \notin started,
             ~switched, ~ShowsDefaults
      PROVE  FALSE
  <2>1. Alive /\ handler # "read" /\ "connection" \notin todo
    BY <1>1 DEF Alive, Sockets, ShowsDefaults
  <2>2. OnIn(source) = started
    BY <1>1, <2>1 DEF IInv, SocketsOn
  <2>3. on = OnIn(source)
    BY <1>1, <2>1 DEF IInv, LoadProgress, WholeOutsideLoad, Loading
  <2> QED
    BY <1>1, <2>2, <2>3
<1>2. IInv => CloseFindsSocket
  BY <1>1 DEF CloseFindsSocket
<1> QED
  BY Invariance, <1>2, PTL

\* Without such a reload main leaves no listener and no sock file behind.
THEOREM ExitsClean == Spec => []CleanExit
<1>1. IInv => CleanExit
  BY Stepwise DEF IInv, CleanExit, SocketsClosed, TypeOK
<1> QED
  BY Invariance, <1>1, PTL

\* A sock file in the way of a new process is the work of a killed or panicked
\* one, or of such a reload.
THEOREM RestartsWork == Spec => []RestartWorks
<1>1. IInv => RestartWorks
  BY DEF IInv, RestartWorks, SockFileOwned
<1> QED
  BY Invariance, <1>1, PTL
=============================================================================
