----------------------------- MODULE Lifecycle ------------------------------
(***************************************************************************)
(* The life of the process: main (statsgod.go), the sockets' Listen and    *)
(* Close (statsgod/socket.go), the signal handler (statsgod/signals.go),   *)
(* the configuration that it reloads in place (statsgod/config.go), and    *)
(* the token map that authentication shares with it (statsgod/auth.go).    *)
(*                                                                         *)
(* main, one goroutine per socket, the handler and the parse loop read and *)
(* write one ConfigValues without a lock.  The file on disk and the sock   *)
(* file outlive the process, which may be killed at any time and started   *)
(* again.                                                                  *)
(***************************************************************************)

CONSTANTS
    Files,      \* what the configuration file may hold, see FileType
    Hosts,      \* host names in the files and of the machine; "" is not given
    Tokens,     \* authentication tokens
    LocalHost   \* os.Hostname()

Sockets == {"tcp", "udp", "unix"}
Sections == {"service", "connection", "debug"}

\* "valid" is FALSE for a file that cannot be read or is no YAML.
FileType ==
    [valid : BOOLEAN, auth : BOOLEAN, off : SUBSET Sockets,
     host : Hosts \cup {""}, relay : BOOLEAN,
     tokens : UNION {[T -> BOOLEAN] : T \in SUBSET Tokens}]

\* An empty map, and LoadFile's default when no token was read.
NoTokens == [t \in {} |-> FALSE]
DefaultToken == "token-name"

ASSUME LifecycleAssumption ==
    /\ Files \subseteq FileType
    /\ LocalHost \in Hosts /\ "" \notin Hosts
    /\ DefaultToken \in Tokens

VARIABLES
    file,       \* the configuration file
    sockFile,   \* whether the Unix socket's file exists
    main,       \* where main is: "down", "start", "wait", a socket to close, "exit"
    started,    \* the sockets main has created
    goroutine,  \* per socket: where its Listen is
    listener,   \* per socket: its field Listener
    on, host, relay, tokens,   \* fields of the live configuration
    auth,       \* whether CreateAuth chose the token authentication
    pending,    \* signalChannel, a buffer of one
    handler,    \* where the signal handler is
    source,     \* the contents ReadFile has returned last
    todo,       \* the sections yaml has still to decode
    seen,       \* history: the tokens valid in some file this process has read
    switched,   \* history: some load has read a file with other sockets than created
    tainted     \* history: some process was cut short, or closed too little

disk    == <<file, sockFile>>
sockets == <<started, goroutine, listener>>
config  == <<on, host, relay, tokens>>
loader  == <<pending, handler, source, todo>>
history == <<seen, switched>>
vars == <<disk, main, sockets, config, auth, loader, history, tainted>>

Alive == main # "down"

-----------------------------------------------------------------------------
(***************************************************************************)
(* LoadFile.                                                               *)
(***************************************************************************)
DefaultOn == Sockets
DefaultRelay == FALSE

OnIn(f)    == IF f.valid THEN Sockets \ f.off ELSE DefaultOn
RelayIn(f) == IF f.valid THEN f.relay ELSE DefaultRelay
HostIn(f)  == IF f.valid THEN f.host ELSE ""
TokensIn(f) == IF f.valid THEN f.tokens ELSE NoTokens
ValidIn(f) == {t \in DOMAIN TokensIn(f) : TokensIn(f)[t]}

\* GetHostname: the machine's name for an empty one.
GetHostname(h) == IF h = "" THEN LocalHost ELSE h

\* yaml decodes into the existing map: it sets the keys it reads.
Merge(old, new) ==
    [t \in DOMAIN old \cup DOMAIN new |-> IF t \in DOMAIN new THEN new[t] ELSE old[t]]

\* AuthConfigToken.Authenticate, for a line that carries the token t.
Accepts(t) == t \in DOMAIN tokens /\ tokens[t]

\* Mutated form: the default token is valid.
DefaultTokenValid(map) ==
    IF DOMAIN map = {} THEN [t \in {DefaultToken} |-> TRUE] ELSE map

\* A token is added only to an empty map.
DefaultTokens(map) ==
    IF DOMAIN map = {} THEN [t \in {DefaultToken} |-> FALSE] ELSE map

-----------------------------------------------------------------------------
(***************************************************************************)
(* main.                                                                   *)
(***************************************************************************)
Init ==
    /\ file \in Files /\ sockFile = FALSE
    /\ main = "down"
    /\ started = {}
    /\ goroutine = [s \in Sockets |-> "none"]
    /\ listener = [s \in Sockets |-> "nil"]
    /\ on = {} /\ host = "" /\ relay = FALSE /\ tokens = NoTokens
    /\ auth = FALSE
    /\ pending = "none" /\ handler = "none" /\ source = file /\ todo = {}
    /\ seen = {} /\ switched = FALSE
    /\ tainted = FALSE

\* "if config.Connection.<s>.Enabled", at the start.
Created(f) == OnIn(f)

\* CreateConfig and CreateAuth, the sockets of the configuration and their
\* goroutines.  An error of the load is ignored.
Start ==
    /\ main = "down"
    /\ main' = "start"
    /\ on' = OnIn(file) /\ relay' = RelayIn(file)
    /\ host' = GetHostname(HostIn(file))
    /\ tokens' = DefaultTokens(TokensIn(file))
    /\ auth' = (file.valid /\ file.auth)
    /\ started' = Created(file)
    /\ goroutine' = [s \in Sockets |-> IF s \in Created(file) THEN "listen" ELSE "none"]
    /\ listener' = [s \in Sockets |-> "nil"]
    /\ pending' = "none" /\ handler' = "none" /\ source' = file /\ todo' = {}
    /\ seen' = ValidIn(file) /\ switched' = FALSE
    /\ UNCHANGED <<disk, tainted>>

\* The process ends, and its memory is gone.
Die(clean) ==
    /\ main' = "down"
    /\ started' = {}
    /\ goroutine' = [s \in Sockets |-> "none"] /\ listener' = [s \in Sockets |-> "nil"]
    /\ on' = {} /\ host' = "" /\ relay' = FALSE /\ tokens' = NoTokens
    /\ auth' = FALSE
    /\ pending' = "none" /\ handler' = "none" /\ source' = file /\ todo' = {}
    /\ seen' = {} /\ switched' = FALSE
    /\ tainted' = (tainted \/ ~clean)

\* Killed, by any signal before signal.Notify, or by a panic elsewhere.
Kill == Alive /\ Die(FALSE) /\ UNCHANGED disk

ListenForSignals ==
    /\ main = "start"
    /\ main' = "wait" /\ handler' = "receive"
    /\ UNCHANGED <<disk, sockets, config, auth, pending, source, todo,
                   history, tainted>>

\* Mutated form: one socket is forgotten.
AfterSkipsUnix(s) == CASE s = "tcp" -> "udp" [] OTHER -> "exit"

After(s) == CASE s = "tcp" -> "udp" [] s = "udp" -> "unix" [] s = "unix" -> "exit"

\* "if config.Connection.<s>.Enabled": the live configuration.
Skip(s) ==
    /\ main = s /\ s \notin on
    /\ main' = After(s)
    /\ UNCHANGED <<disk, sockets, config, auth, loader, history, tainted>>

\* Mutated form: the sock file is left to the next process.
CloseLeavesFile(s) ==
    /\ main = s /\ s \in on /\ s \in started /\ listener[s] # "nil"
    /\ listener' = [listener EXCEPT ![s] = "closed"]
    /\ main' = After(s)
    /\ UNCHANGED <<disk, started, goroutine, config, auth, loader,
                   history, tainted>>

Close(s) ==
    /\ main = s /\ s \in on /\ s \in started /\ listener[s] # "nil"
    /\ listener' = [listener EXCEPT ![s] = "closed"]
    /\ sockFile' = (sockFile /\ s # "unix")
    /\ main' = After(s)
    /\ UNCHANGED <<file, started, goroutine, config, auth, loader,
                   history, tainted>>

\* Close of a variable that was never assigned.
CloseNilSocket(s) ==
    /\ main = s /\ s \in on /\ s \notin started
    /\ Die(FALSE)
    /\ UNCHANGED disk

\* Close before Listen has stored its listener.  SocketUnix defers the removal
\* of the file, which a panic does not prevent.
CloseNilListener(s) ==
    /\ main = s /\ s \in on /\ s \in started /\ listener[s] = "nil"
    /\ Die(FALSE)
    /\ sockFile' = (sockFile /\ s # "unix")
    /\ UNCHANGED file

MainReturns == main = "exit" /\ Die(~switched) /\ UNCHANGED disk

MainStep ==
    \/ ListenForSignals
    \/ \E s \in Sockets : Skip(s) \/ Close(s) \/ CloseNilSocket(s) \/ CloseNilListener(s)
    \/ MainReturns

-----------------------------------------------------------------------------
(***************************************************************************)
(* Listen.                                                                 *)
(***************************************************************************)
Serving(s, from, to) ==
    /\ Alive /\ goroutine[s] = from
    /\ goroutine' = [goroutine EXCEPT ![s] = to]
    /\ UNCHANGED <<file, main, started, config, auth, loader, history,
                   tainted>>

\* Mutated form: the listener is stored before the goroutine serves.
BindPublishes(s) ==
    /\ s = "unix" => ~sockFile
    /\ Serving(s, "listen", "bound")
    /\ listener' = [listener EXCEPT ![s] = "open"]
    /\ sockFile' = (sockFile \/ s = "unix")

\* net.Listen; for the Unix socket it creates the file.
Bind(s) ==
    /\ s = "unix" => ~sockFile
    /\ Serving(s, "listen", "bound")
    /\ sockFile' = (sockFile \/ s = "unix")
    /\ UNCHANGED listener

\* A file is in the way: net.Listen fails and Listen panics.
BindFails ==
    /\ Alive /\ goroutine["unix"] = "listen" /\ sockFile
    /\ Die(FALSE)
    /\ UNCHANGED disk

\* "l.Listener = listener".
Publish(s) ==
    /\ Serving(s, "bound", "serve")
    /\ listener' = [listener EXCEPT ![s] = "open"]
    /\ UNCHANGED sockFile

\* Accept fails after Close, and Listen returns.  The UDP loop does not look at
\* errors: it goes on until the process ends.
AcceptFails(s) ==
    /\ s # "udp" /\ listener[s] = "closed"
    /\ Serving(s, "serve", "none")
    /\ UNCHANGED <<listener, sockFile>>

ListenStep(s) ==
    Bind(s) \/ (s = "unix" /\ BindFails) \/ Publish(s) \/ AcceptFails(s)

-----------------------------------------------------------------------------
(***************************************************************************)
(* Signals and the reload.                                                 *)
(***************************************************************************)

\* signal.Notify does not wait: a signal that finds the buffer full is dropped.
Signal(kind) ==
    /\ Alive /\ handler # "none"
    /\ pending = "none"
    /\ pending' = kind
    /\ UNCHANGED <<disk, main, sockets, config, auth, handler, source,
                   todo, history, tainted>>

Handler(from, to) ==
    /\ Alive /\ handler = from
    /\ handler' = to
    /\ UNCHANGED <<disk, sockets, auth, tainted>>

\* Mutated form: a break out of the switch is taken for one out of the loop.
ReceiveOnce ==
    /\ pending # "none" /\ pending' = "none"
    /\ Handler("receive", IF pending = "hup" THEN "defaults" ELSE "none")
    /\ UNCHANGED <<main, config, source, todo, history>>

Receive ==
    /\ pending # "none" /\ pending' = "none"
    /\ Handler("receive", IF pending = "hup" THEN "defaults" ELSE "finish")
    /\ UNCHANGED <<main, config, source, todo, history>>

\* finishChannel has no buffer: the send meets main's receive.
Finish ==
    /\ main = "wait" /\ main' = "tcp"
    /\ Handler("finish", "receive")
    /\ UNCHANGED <<config, pending, source, todo, history>>

\* LoadFile's defaults, in the live configuration.  The tokens are no part.
LoadDefaults ==
    /\ Handler("defaults", "read")
    /\ on' = DefaultOn /\ relay' = DefaultRelay /\ host' = ""
    /\ UNCHANGED <<main, tokens, pending, source, todo, history>>

\* ReadFile and the parsing of the text: after an error nothing is decoded, and
\* the handler ignores what LoadFile returns.
LoadRead ==
    /\ Handler("read", "decode")
    /\ source' = file
    /\ todo' = IF file.valid THEN Sections ELSE {}
    /\ seen' = seen \cup ValidIn(file)
    /\ switched' = (switched \/ OnIn(file) # started)
    /\ UNCHANGED <<main, config, pending>>

\* yaml decodes the sections in the order of the file.
Decodes(section) ==
    /\ section \in todo
    /\ todo' = todo \ {section}
    /\ Handler("decode", "decode")
    /\ UNCHANGED <<main, pending, source, history>>

\* Mutated form: what the defaults have turned on stays on.
DecodeConnectionAdds ==
    /\ Decodes("connection")
    /\ on' = on \cup (Sockets \ source.off)
    /\ UNCHANGED <<host, relay, tokens>>

DecodeConnection ==
    /\ Decodes("connection")
    /\ on' = Sockets \ source.off
    /\ UNCHANGED <<host, relay, tokens>>

DecodeDebug ==
    /\ Decodes("debug")
    /\ relay' = source.relay
    /\ UNCHANGED <<on, host, tokens>>

DecodeService ==
    /\ Decodes("service")
    /\ host' = source.host
    /\ tokens' = Merge(tokens, source.tokens)
    /\ UNCHANGED <<on, relay>>

\* The parse loop looks tokens up at any time, in the same map: where that meets
\* the write, some builds detect it and end the process, others go on.
MapRace ==
    /\ Alive /\ handler = "decode" /\ "service" \in todo
    /\ auth /\ DOMAIN source.tokens # {}
    /\ Die(FALSE)
    /\ UNCHANGED disk

\* Mutated form: the file's host name is final.
LoadWithoutHostname ==
    /\ todo = {}
    /\ Handler("decode", "receive")
    /\ tokens' = DefaultTokens(tokens)
    /\ UNCHANGED <<main, on, host, relay, pending, source, todo, history>>

\* The end of LoadFile.
LoadEnds ==
    /\ todo = {}
    /\ Handler("decode", "receive")
    /\ tokens' = DefaultTokens(tokens)
    /\ host' = GetHostname(host)
    /\ UNCHANGED <<main, on, relay, pending, source, todo, history>>

HandlerStep ==
    \/ Receive \/ Finish
    \/ LoadDefaults \/ LoadRead
    \/ DecodeConnection \/ DecodeDebug \/ DecodeService \/ MapRace
    \/ LoadEnds

-----------------------------------------------------------------------------
(***************************************************************************)
(* What happens from outside.                                              *)
(***************************************************************************)
EditFile(f) ==
    /\ file' = f
    /\ UNCHANGED <<sockFile, main, sockets, config, auth, loader,
                   history, tainted>>

Environment ==
    \/ Start \/ Kill
    \/ Signal("hup") \/ Signal("term")
    \/ \E f \in Files : EditFile(f)

Next ==
    \/ MainStep
    \/ \E s \in Sockets : ListenStep(s)
    \/ HandlerStep
    \/ Environment

Spec == Init /\ [][Next]_vars

\* Goroutines that can run are run.  Nothing is asked of the environment.
FairSpec ==
    /\ Spec
    /\ WF_vars(MainStep) /\ WF_vars(HandlerStep)
    /\ \A s \in Sockets : WF_vars(ListenStep(s))

-----------------------------------------------------------------------------
(***************************************************************************)
(* Properties.                                                             *)
(***************************************************************************)
Stages == {"down", "start", "wait", "exit"} \cup Sockets

\* Every variable keeps its type; a listener is there only for a created socket
\* whose goroutine has bound it.
TypeOK ==
    /\ file \in Files /\ sockFile \in BOOLEAN
    /\ main \in Stages
    /\ started \subseteq Sockets
    /\ goroutine \in [Sockets -> {"none", "listen", "bound", "serve"}]
    /\ listener \in [Sockets -> {"nil", "open", "closed"}]
    /\ \A s \in Sockets : listener[s] = "open" => goroutine[s] = "serve" /\ s \in started
    /\ on \subseteq Sockets /\ host \in Hosts \cup {""} /\ relay \in BOOLEAN
    /\ DOMAIN tokens \subseteq Tokens /\ tokens \in [DOMAIN tokens -> BOOLEAN]
    /\ auth \in BOOLEAN
    /\ pending \in {"none", "hup", "term"}
    /\ handler \in {"none", "receive", "defaults", "read", "decode", "finish"}
    /\ source \in Files /\ todo \subseteq Sections
    /\ seen \subseteq Tokens
    /\ switched \in BOOLEAN /\ tainted \in BOOLEAN

\* From the defaults to the end of LoadFile the configuration is in pieces.
Loading == handler \in {"read", "decode"}

\* Outside a load the configuration is that of a process started with the file
\* read last: no value of an older file survives a reload, a file that cannot be
\* read leaves the defaults, and the host name in the keys of the internal
\* metrics is never empty (LoadFile in the handler's goroutine).
WholeOutsideLoad ==
    Alive /\ ~Loading =>
        on = OnIn(source) /\ relay = RelayIn(source) /\ host = GetHostname(HostIn(source))

\* At any time, also in the middle of a load, a token is accepted only if some
\* file that this process has read says that it is valid: neither the merging of
\* maps nor the default token lets one in (the map that CreateAuth and LoadFile
\* share).
TokensFromFiles ==
    Alive => \A t \in Tokens : Accepts(t) => t \in seen

\* README: the tokens "are read into memory when the proces is started, so changes
\* to the token map require a restart": while a process with token authentication
\* runs, it accepts the same tokens.
TokensNeedRestart ==
    [][auth /\ Alive /\ Alive' =>
          \A t \in Tokens : Accepts(t)' <=> Accepts(t)]_vars

\* A load shows the defaults until it has decoded the connection section.
ShowsDefaults == handler = "read" \/ "connection" \in todo

\* main closes a socket that it never created, and panics, only when a file that
\* names other sockets than those created was loaded, or while a load shows the
\* defaults.  After a reload of the same sockets, and also as soon as the load has
\* decoded them, each flag that main finds set belongs to a socket it has made.
CloseFindsSocket ==
    \A s \in Sockets :
        main = s /\ s \in on /\ s \notin started => switched \/ ShowsDefaults

\* When main returns, and no load has read of other sockets, each socket it
\* created is closed and the sock file is gone ("Shut down the sockets and clean
\* up before exiting"), whatever loads ran while it closed them.
CleanExit ==
    main = "exit" /\ ~switched =>
        /\ \A s \in started : listener[s] = "closed"
        /\ "unix" \in started => ~sockFile

\* A process finds the sock file in its way only if one before it was killed,
\* panicked, or returned after a load that had read of other sockets.
RestartWorks ==
    Alive /\ sockFile /\ goroutine["unix"] = "listen" => tainted

\* A terminating signal that was taken in ends the process, whatever reloads
\* and listeners are under way.
TermEnds == pending = "term" ~> ~Alive
=============================================================================
