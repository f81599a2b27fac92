----------------------------- MODULE ReadInput ------------------------------
(***************************************************************************)
(* How the bytes a client sends become the strings that go to              *)
(* parseChannel: readInput (TCP and Unix sockets) and readInputUdp of      *)
(* statsgod/socket.go.                                                     *)
(*                                                                         *)
(* text is all that the client sends over one connection, or in one        *)
(* datagram.  A byte is NL or one of the kinds that ParseMetricString      *)
(* tells apart.  What overflow holds is always the end of what has been    *)
(* read, so a string of the program is an interval of text: a piece        *)
(* <<i, j>> is text[i .. j], empty when j = i - 1.                         *)
(***************************************************************************)
EXTENDS Integers, Sequences, FiniteSets

CONSTANTS
    Texts,          \* what clients may send
    ReadLength,     \* the length of the buffer: 512, or udp.maxpacket
    MinimumLengthMessage

NL == "newline"
Kinds == {NL, "name", "colon", "digit", "pipe", "type", "at"}

ASSUME ReadInputAssumption ==
    /\ Texts \subseteq Seq(Kinds)
    /\ ReadLength \in Nat \ {0}
    /\ MinimumLengthMessage \in Nat

VARIABLES
    transport,      \* "stream" or "datagram"
    text,
    pos,            \* how many bytes have been read
    start,          \* overflow is the piece <<start, pos>>
    sent,           \* the pieces sent to parseChannel, in order
    cuts,           \* history: ends of the reads that did not fill the buffer
    closed          \* the reader has met the end of the connection

vars == <<transport, text, pos, start, sent, cuts, closed>>

Intervals == (1 .. Len(text) + 1) \X (0 .. Len(text))

TypeOK ==
    /\ transport \in {"stream", "datagram"}
    /\ text \in Texts
    /\ pos \in 0 .. Len(text)
    /\ start \in 1 .. pos + 1
    /\ sent \in Seq(Intervals)
    /\ cuts \subseteq 1 .. Len(text)
    /\ closed \in BOOLEAN

Init ==
    /\ transport \in {"stream", "datagram"}
    /\ text \in Texts
    /\ pos = 0 /\ start = 1
    /\ sent = <<>>
    /\ cuts = {}
    /\ closed = FALSE

-----------------------------------------------------------------------------
\* ParseMetricString returns no error for text[i .. j]: a first colon, a first
\* pipe after it, and between the start, these two and the next pipe or the end
\* a name, a number and a type.  What follows only sets a sample rate.
Parses(i, j) ==
    LET First(kind, k) ==
            {n \in k .. j : text[n] = kind /\ \A m \in k .. n - 1 : text[m] # kind}
    IN  \E c \in First("colon", i) : \E p \in First("pipe", c + 1) :
            /\ i < c /\ c + 1 < p
            /\ \A n \in c + 1 .. p - 1 : text[n] = "digit"
            /\ p < j /\ text[p + 1] = "type"
            /\ p + 2 <= j => text[p + 2] = "pipe"

\* The pieces strings.Split makes of text[i .. j], by where they begin.
Begins(i, j) == {i} \cup {n + 1 : n \in {m \in i .. j : text[m] = NL}}

EndOf(b, j) ==
    CHOOSE e \in b - 1 .. j :
        /\ \A n \in b .. e : text[n] # NL
        /\ e = j \/ text[e + 1] = NL

\* Where the last piece begins.
LastBegin(i, j) == CHOOSE b \in Begins(i, j) : \A n \in Begins(i, j) : n <= b

\* The order of the pieces, leaving out those too short to be a message.
Sequence(S) ==
    [n \in 1 .. Cardinality(S) |->
        CHOOSE s \in S : Cardinality({t \in S : t[1] <= s[1]}) = n]

\* Mutated form: one byte more is asked for.
LongerStill(S) == {s \in S : s[2] - s[1] > MinimumLengthMessage}

LongEnough(S) == {s \in S : s[2] - s[1] + 1 > MinimumLengthMessage}

\* Mutated form: the last piece is never kept.
KeepsNever(n, i, j) == FALSE

\* The last piece of a read that filled the buffer is kept for the next read
\* when it does not parse.
KeepsLast(n, i, j) == n = ReadLength /\ ~Parses(LastBegin(i, j), j)

\* Mutated form: the next read loses its first byte.
FirstByteLost(n, i, j) == IF KeepsLast(n, i, j) THEN LastBegin(i, j) ELSE j + 2

\* Where overflow begins after a read of n bytes up to j.
NextStart(n, i, j) == IF KeepsLast(n, i, j) THEN LastBegin(i, j) ELSE j + 1

\* Mutated form: metricCount is not reduced.
CountsAll(pieces, kept) == pieces

\* The pieces metricCount counts: the one that is kept is left out.
Counted(pieces, kept) == {p \in pieces : p[1] < kept}

\* One turn of readInput's loop: conn.Read returns n bytes.
Read(n) ==
    LET end == pos + n
        kept == NextStart(n, start, end)
        pieces == {<<b, EndOf(b, end)>> : b \in Begins(start, end)}
    IN  /\ transport = "stream" /\ ~closed
        /\ n \in 1 .. ReadLength /\ end <= Len(text)
        /\ sent' = sent \o
              Sequence(LongEnough(Counted(pieces, kept)))
        /\ start' = kept
        /\ pos' = end
        /\ cuts' = IF n < ReadLength THEN cuts \cup {end} ELSE cuts
        /\ UNCHANGED <<transport, text, closed>>

\* conn.Read returns an error: overflow goes with the function's variables.
ReadError ==
    /\ transport = "stream" /\ ~closed
    /\ closed' = TRUE
    /\ UNCHANGED <<transport, text, pos, start, sent, cuts>>

\* readInputUdp: what exceeds the buffer is discarded by the kernel, and
\* nothing is kept for the next datagram.
ReadDatagram ==
    LET end == IF Len(text) < ReadLength THEN Len(text) ELSE ReadLength
        pieces == {<<b, EndOf(b, end)>> : b \in Begins(1, end)}
    IN  /\ transport = "datagram" /\ ~closed
        /\ sent' = IF end > MinimumLengthMessage
                     THEN Sequence(LongEnough(pieces)) ELSE <<>>
        /\ pos' = end
        /\ start' = end + 1
        /\ cuts' = IF end < Len(text) THEN cuts \cup {end} ELSE cuts
        /\ closed' = TRUE
        /\ UNCHANGED <<transport, text>>

Done == closed /\ UNCHANGED vars

Next == (\E n \in 1 .. ReadLength : Read(n)) \/ ReadError \/ ReadDatagram \/ Done

Spec == Init /\ [][Next]_vars

-----------------------------------------------------------------------------
(***************************************************************************)
(* Properties.                                                             *)
(***************************************************************************)

\* The pieces are sent in the order of the text; they do not overlap, so no
\* byte is sent twice although overflow is prepended to the next read.
PiecesInOrder ==
    /\ \A n \in DOMAIN sent : sent[n][1] < start
    /\ \A m, n \in DOMAIN sent : m < n => sent[m][2] < sent[n][1]

InPiece(i) == \E n \in DOMAIN sent : i \in sent[n][1] .. sent[n][2]

\* A byte that stands alone between newlines and ends of reads.
Alone(i) ==
    /\ i = 1 \/ text[i - 1] = NL \/ i - 1 \in cuts
          \/ InPiece(i - 1)
    /\ i = Len(text) \/ text[i + 1] = NL \/ i \in cuts

\* Whatever has been read was sent, is in overflow, or was a newline or a
\* single byte between two of them: the buffer's boundary loses nothing.
NothingSkipped ==
    \A i \in 1 .. pos :
        text[i] = NL \/ InPiece(i) \/ i >= start \/ Alone(i)

\* The metrics of the text: what stands between two newlines.
Metrics ==
    {m \in Intervals :
        /\ Parses(m[1], m[2])
        /\ \A n \in m[1] .. m[2] : text[n] # NL
        /\ m[1] = 1 \/ text[m[1] - 1] = NL
        /\ m[2] < Len(text) /\ text[m[2] + 1] = NL}

Delivered(m) == \E n \in DOMAIN sent : sent[n] = m

\* No read that left the buffer partly empty ended inside metric m, and no
\* beginning of m is itself a metric.
Uncut(m) ==
    /\ cuts \cap (m[1] .. m[2] - 1) = {}
    /\ \A j \in m[1] .. m[2] - 1 : ~Parses(m[1], j)

\* A metric that only full buffers cut is put together again and sent whole,
\* wherever the boundary falls, as soon as the newline after it has been read.
WholeUnlessCut ==
    \A m \in Metrics : m[2] < pos /\ Uncut(m) => Delivered(m)

\* README on TCP: "Allows multiple metrics to be sent over a connection,
\* separated by a newline character."  Once the newline after a metric has
\* been read, that metric has been sent to parseChannel.
EveryMetricDelivered ==
    \A m \in Metrics : transport = "stream" /\ m[2] < pos => Delivered(m)
=============================================================================
