----------------------------- MODULE TcpEndsProofs -----------------------------
(***************************************************************************)
(* The two ends of a connection agree, whatever the network does: an end   *)
(* believes acknowledged only what its peer has received, takes only what  *)
(* its peer has sent, and finishes only when it was heard to the end.      *)
(***************************************************************************)
EXTENDS TcpPairProofs

\* The sequence numbers a FIN takes.
FinLength(flags) == IF "FIN" \in flags THEN 1 ELSE 0

\* The end knows where the stream of its peer starts.
Heard(s) == s.irs < s.rcvNxt

\* What an end sends: numbers up to the next, acknowledgments up to what was
\* received; a SYN is alone, under the initial number; a probe is one before.
SegmentOK(s, g) ==
    /\ s.iss - 1 <= g.seq
    /\ g.seq + Len(g.data) + FinLength(g.flags) <= s.sndNxt
    /\ "SYN" \in g.flags => /\ g.seq = s.iss /\ g.data = << >>
                            /\ "FIN" \notin g.flags
    /\ "ACK" \in g.flags => Heard(s) /\ s.irs < g.ack /\ g.ack <= s.rcvNxt

ItemOK(s, i) ==
    /\ s.iss <= i.seq /\ i.seq + i.len + FinLength(i.flags) <= s.sndNxt
    /\ "RST" \notin i.flags
    /\ "SYN" \in i.flags => i.seq = s.iss /\ i.len = 0 /\ "FIN" \notin i.flags
    /\ "ACK" \in i.flags => Heard(s)

\* What an end knows of its peer: nothing, the truth, or an old SYN, which its
\* peer never confirms.
Deaf(s) == s.rcvNxt = 0 /\ s.sndUna = s.iss
Right(s, p) == /\ s.irs = p.iss /\ Heard(s) /\ s.rcvNxt <= p.sndNxt
               /\ \A n \in s.ooo : n < p.sndNxt
Mistaken(e, s) ==
    Foreign(e, s.irs) /\ s.rcvNxt = s.irs + 1 /\ s.sndUna = s.iss

Agrees(e, s, p) ==
    /\ Deaf(s) \/ Right(s, p) \/ Mistaken(e, s)
    /\ s.sndUna > s.iss => p.irs = s.iss /\ s.sndUna <= p.rcvNxt

Numbers(e, s, w) ==
    /\ s.iss = Iss[e] /\ s.iss <= s.sndUna /\ s.sndUna <= s.sndNxt
    /\ s.iss < s.sndNxt /\ s.sndNxt + s.sndUser <= s.iss + 1 + w + FinNumber(e)
    /\ w <= WriteLimit[e]

\* A socket s of end e that has written w bytes, with p for its peer.
Core(e, s, p, w) ==
    /\ e \in Ends /\ s \in Socket /\ p \in Socket /\ w \in Nat
    /\ Numbers(e, s, w)
    /\ \A i \in s.rtxQ : ItemOK(s, i)
    /\ \A g \in s.sent : Live(g) => SegmentOK(s, g)
    /\ Agrees(e, s, p)

\* What the state says of the numbers.
Finishing == {"FIN_WAIT_1", "FIN_WAIT_2", "CLOSING", "LAST_ACK", "TIME_WAIT"}

Phase(s, w) ==
    /\ s.state = "SYN_SENT" => s.rcvNxt = 0 /\ ~s.probing
    /\ s.state \notin {"CLOSED", "SYN_SENT"} => s.rcvNxt > 0
    /\ s.closedFlag /\ s.type = "STREAM" => s.rcvNxt > 0
    /\ s.state \in {"SYN_SENT", "SYN_RECEIVED"} =>
          s.sndNxt = s.iss + 1 /\ s.sndUser = 0 /\ w = 0
    /\ s.state \in {"ESTABLISHED", "CLOSE_WAIT"} =>
          s.sndNxt + s.sndUser = s.iss + 1 + w
    /\ s.state \in Finishing => s.sndUser = 0 /\ s.sndNxt = s.iss + w + 2
    /\ s.state \in {"FIN_WAIT_2", "TIME_WAIT"} => s.sndUna = s.sndNxt

\* An end before its connection.
Blank(e, s, w) ==
    /\ s \in Socket /\ s.iss = Iss[e] /\ w = 0 /\ s.rtxQ = {} /\ ~s.probing
    /\ s.sndUna = 0 /\ s.sndNxt = 0 /\ s.sndUser = 0 /\ s.rcvNxt = 0
    /\ \A g \in s.sent : ~Live(g)

EndOK(e, s, p, w) ==
    IF Unopened(s) THEN Blank(e, s, w) ELSE Core(e, s, p, w) /\ Phase(s, w)

SynOK(e, n, p) == Foreign(e, n) \/ (n = Iss[Peer(e)] /\ ~Unopened(p))

AInv == \A e \in Ends :
            /\ EndOK(e, sock[e], sock[Peer(e)], written[e])
            /\ \A n \in synQueue[e] : SynOK(e, n, sock[Peer(e)])

-----------------------------------------------------------------------------
(* How a socket may change.                                                *)

\* What the peer counts on.
Advances(s, t) ==
    /\ t \in Socket /\ t.iss = s.iss /\ t.sndNxt >= s.sndNxt
    /\ Heard(s) => t.irs = s.irs /\ t.rcvNxt >= s.rcvNxt
    /\ ~Unopened(s) => ~Unopened(t)

SameNumbers(s, t) ==
    /\ t.iss = s.iss /\ t.irs = s.irs /\ t.sndUna = s.sndUna
    /\ t.sndNxt = s.sndNxt /\ t.sndUser = s.sndUser
    /\ t.rcvNxt = s.rcvNxt /\ t.ooo = s.ooo

Alike(s, t) ==
    t \in Socket /\ SameNumbers(s, t) /\ SameControl(s, t) /\ t.probing = s.probing

LEMMA AdvancesTransitive ==
    ASSUME NEW s \in Socket, NEW t, NEW u, Advances(s, t), Advances(t, u)
    PROVE  Advances(s, u)
<1>1. t \in Socket /\ u \in Socket BY DEF Advances
<1>2. Heard(s) => Heard(t) BY <1>1, SocketNumbers DEF Advances, Heard
<1> QED BY <1>1, <1>2, SocketNumbers DEF Advances

LEMMA AlikeAdvances ==
    ASSUME NEW s \in Socket, NEW t, Alike(s, t)
    PROVE  Advances(s, t)
BY SocketNumbers DEF Alike, SameNumbers, SameControl, Advances, Unopened

LEMMA AlikePhase ==
    ASSUME NEW s, NEW t, Alike(s, t), NEW w, Phase(s, w)
    PROVE  Phase(t, w)
BY DEF Alike, SameNumbers, SameControl, Phase

\* What was sent stays right when the end advances.
LEMMA SegmentKept ==
    ASSUME NEW s \in Socket, NEW t, Advances(s, t), NEW g \in Segment, SegmentOK(s, g)
    PROVE  SegmentOK(t, g)
<1>1. /\ t \in Socket /\ t.iss = s.iss /\ t.sndNxt >= s.sndNxt
      /\ Heard(s) => t.irs = s.irs /\ t.rcvNxt >= s.rcvNxt
    BY DEF Advances
<1>2. g.seq \in Nat /\ g.ack \in Nat /\ Len(g.data) \in Nat BY DEF Segment
<1>3. FinLength(g.flags) \in Nat BY DEF FinLength
<1> HIDE DEF Advances
<1>4. g.seq + Len(g.data) + FinLength(g.flags) <= t.sndNxt
    BY <1>1, <1>2, <1>3, SocketNumbers DEF SegmentOK
<1>5. "ACK" \in g.flags => Heard(t) /\ t.irs < g.ack /\ g.ack <= t.rcvNxt
    BY <1>1, <1>2, SocketNumbers DEF SegmentOK, Heard
<1> QED BY <1>1, <1>4, <1>5 DEF SegmentOK

LEMMA ItemKept ==
    ASSUME NEW s \in Socket, NEW t, Advances(s, t), NEW i \in Item, ItemOK(s, i)
    PROVE  ItemOK(t, i)
<1>1. /\ t \in Socket /\ t.iss = s.iss /\ t.sndNxt >= s.sndNxt
      /\ Heard(s) => t.irs = s.irs /\ t.rcvNxt >= s.rcvNxt
    BY DEF Advances
<1>2. i.seq \in Nat /\ i.len \in Nat BY DEF Item
<1>3. FinLength(i.flags) \in Nat BY DEF FinLength
<1>4. i.seq + i.len + FinLength(i.flags) <= t.sndNxt
    BY <1>1, <1>2, <1>3, SocketNumbers DEF ItemOK
<1>5. "ACK" \in i.flags => Heard(t) BY <1>1, SocketNumbers DEF ItemOK, Heard
<1> QED BY <1>1, <1>4, <1>5 DEF ItemOK

\* The general step of a socket.
LEMMA CoreStep ==
    ASSUME NEW e, NEW s, NEW p, NEW w, Core(e, s, p, w),
           NEW t, Advances(s, t), NEW v \in Nat, Numbers(e, t, v), Agrees(e, t, p),
           \A i \in t.rtxQ : i \in s.rtxQ \/ ItemOK(t, i),
           \A g \in t.sent : g \in s.sent \/ (Live(g) => SegmentOK(t, g))
    PROVE  Core(e, t, p, v)
<1>1. s \in Socket /\ t \in Socket BY DEF Core, Advances
<1>2. \A i \in t.rtxQ : ItemOK(t, i)
    <2> TAKE i \in t.rtxQ
    <2>1. i \in Item BY <1>1 DEF Socket
    <2> QED BY <1>1, <2>1, ItemKept DEF Core
<1>3. \A g \in t.sent : Live(g) => SegmentOK(t, g)
    <2> TAKE g \in t.sent
    <2>1. g \in Segment BY <1>1 DEF Socket
    <2> QED BY <1>1, <2>1, SegmentKept DEF Core
<1> QED BY <1>1, <1>2, <1>3 DEF Core

\* A step that changes no number.
LEMMA AlikeCore ==
    ASSUME NEW e, NEW s, NEW p, NEW w, Core(e, s, p, w), NEW t \in Socket,
           SameNumbers(s, t), Unopened(t) => Unopened(s),
           \A i \in t.rtxQ : i \in s.rtxQ \/ ItemOK(t, i),
           \A g \in t.sent : g \in s.sent \/ (Live(g) => SegmentOK(t, g))
    PROVE  Core(e, t, p, w) /\ Advances(s, t)
<1>1. s \in Socket /\ w \in Nat BY DEF Core
<1>2. Advances(s, t) BY <1>1, SocketNumbers DEF Advances, SameNumbers
<1>3. Numbers(e, t, w) BY DEF Core, Numbers, SameNumbers
<1>4. Agrees(e, t, p)
    BY DEF Core, Agrees, SameNumbers, Deaf, Right, Heard, Mistaken
<1> QED BY <1>1, <1>2, <1>3, <1>4, CoreStep

-----------------------------------------------------------------------------
(* The functions of the socket.                                            *)

\* A function that only adds to what was sent.
LEMMA MoreSentCore ==
    ASSUME NEW e, NEW s, NEW p, NEW w, Core(e, s, p, w), NEW G \in SUBSET Segment,
           \A g \in G : Live(g) => SegmentOK(s, g)
    PROVE  LET t == [s EXCEPT !.sent = @ \cup G] IN
           Core(e, t, p, w) /\ Alike(s, t) /\ t.rtxQ = s.rtxQ
<1> DEFINE t == [s EXCEPT !.sent = @ \cup G]
<1>1. s \in Socket BY DEF Core
<1>2. t \in Socket /\ SameControl(s, t) BY <1>1, MoreSent DEF Transmits
<1>3. /\ SameNumbers(s, t) /\ t.probing = s.probing /\ t.rtxQ = s.rtxQ
      /\ t.sent = s.sent \cup G
    BY <1>1 DEF SameNumbers, Socket
<1> HIDE DEF t
<1>4. Unopened(t) => Unopened(s) BY <1>2 DEF SameControl, Unopened
<1>6. \A g \in t.sent : g \in s.sent \/ (Live(g) => SegmentOK(t, g))
    BY <1>3 DEF SegmentOK, SameNumbers, Heard
<1>7. Core(e, t, p, w) BY <1>2, <1>3, <1>4, <1>6, AlikeCore
<1> QED BY <1>2, <1>3, <1>7 DEF Alike, t

\* tcpSendSegment of a control segment that is right.
LEMMA SendSegmentCore ==
    ASSUME NEW e, NEW s, NEW p, NEW w, Core(e, s, p, w),
           NEW flags \in SUBSET Flags, NEW seq \in Nat, NEW ack \in Nat,
           "RST" \notin flags =>
               /\ s.iss - 1 <= seq /\ seq + FinLength(flags) <= s.sndNxt
               /\ "SYN" \in flags => seq = s.iss /\ "FIN" \notin flags
               /\ "ACK" \in flags => s.irs < ack /\ ack <= s.rcvNxt
    PROVE  LET t == SendSegment(s, flags, seq, ack) IN
           Core(e, t, p, w) /\ Alike(s, t) /\ t.rtxQ = s.rtxQ
<1> DEFINE g == [flags |-> flags, seq |-> seq,
                 ack |-> IF "ACK" \in flags THEN ack ELSE 0,
                 wnd |-> s.rcvWnd, data |-> << >>]
<1>1. s \in Socket BY DEF Core
<1>2. << >> \in Seq(Byte) /\ Len(<< >>) = 0 BY DEF Byte
<1>3. g \in Segment BY <1>1, <1>2, SocketNumbers DEF Segment
<1>4. Live(g) => SegmentOK(s, g)
    <2> SUFFICES ASSUME "RST" \notin flags PROVE SegmentOK(s, g) BY DEF Live
    <2>1. FinLength(flags) \in Nat BY DEF FinLength
    <2>2. seq + 0 + FinLength(flags) = seq + FinLength(flags) BY <2>1
    <2>3. "ACK" \in flags => Heard(s) BY <1>1, SocketNumbers DEF Heard
    <2> QED BY <1>2, <2>2, <2>3 DEF SegmentOK
<1> HIDE DEF g
<1>5. {g} \in SUBSET Segment BY <1>3
<1>6. LET t == [s EXCEPT !.sent = @ \cup {g}] IN
      Core(e, t, p, w) /\ Alike(s, t) /\ t.rtxQ = s.rtxQ
    BY <1>4, <1>5, MoreSentCore
<1> QED BY <1>6 DEF SendSegment, g

LEMMA SendAckCore ==
    ASSUME NEW e, NEW s, NEW p, NEW w, Core(e, s, p, w), Heard(s)
    PROVE  LET t == SendAck(s) IN
           Core(e, t, p, w) /\ Alike(s, t) /\ t.rtxQ = s.rtxQ
<1>1. s \in Socket /\ s.iss < s.sndNxt BY DEF Core, Numbers
<1>2. s.iss - 1 <= s.sndNxt /\ s.sndNxt + 0 <= s.sndNxt BY <1>1, SocketNumbers
<1>3. FinLength({"ACK"}) = 0 BY DEF FinLength
<1>4. s.irs < s.rcvNxt /\ s.rcvNxt <= s.rcvNxt BY <1>1, SocketNumbers DEF Heard
<1>5. s.sndNxt \in Nat /\ s.rcvNxt \in Nat BY <1>1, SocketNumbers
<1>6. {"ACK"} \in SUBSET Flags /\ "SYN" \notin {"ACK"} BY DEF Flags
<1> QED BY <1>2, <1>3, <1>4, <1>5, <1>6, SendSegmentCore DEF SendAck

LEMMA SendResetSegmentCore ==
    ASSUME NEW e, NEW s, NEW p, NEW w, Core(e, s, p, w), NEW seq \in Nat
    PROVE  LET t == SendResetSegment(s, seq) IN
           Core(e, t, p, w) /\ Alike(s, t) /\ t.rtxQ = s.rtxQ
<1> DEFINE flags == {"RST"}
           t == SendSegment(s, flags, seq, 0)
<1>1. flags \in SUBSET Flags /\ "RST" \in flags /\ 0 \in Nat BY DEF Flags
<1>2. Alike(s, s) BY DEF Core, Alike, SameNumbers, SameControl
<1>3. SendResetSegment(s, seq) \in {s, t} BY DEF SendResetSegment
<1> HIDE DEF flags
<1>4. Core(e, t, p, w) /\ Alike(s, t) /\ t.rtxQ = s.rtxQ
    BY <1>1, SendSegmentCore
<1> HIDE DEF t
<1> QED BY <1>2, <1>3, <1>4

\* What goes on the wire for an item of t, the text being read from s.
LEMMA SegmentOfOK ==
    ASSUME NEW s \in Socket, NEW t \in Socket, t.rcvNxt = s.rcvNxt,
           NEW i \in Item, ItemOK(t, i)
    PROVE  SegmentOK(t, SegmentOf(s, i))
<1> DEFINE g == SegmentOf(s, i)
           d == ReadTxBuffer(s, i.seq, i.len)
<1>1. i.seq \in Nat /\ i.len \in Nat BY DEF Item
<1>2. Len(d) = i.len
    <2>1. DOMAIN d = 1 .. i.len BY DEF ReadTxBuffer
    <2>2. d \in Seq(Byte) BY <1>1, ReadTxBufferType
    <2> HIDE DEF d
    <2>3. DOMAIN d = 1 .. Len(d) /\ Len(d) \in Nat BY <2>2
    <2> QED BY <1>1, <2>1, <2>3
<1>3. i.len = 0 => d = << >>
    <2>1. d \in Seq(Byte) BY <1>1, ReadTxBufferType
    <2> HIDE DEF d
    <2> QED BY <1>2, <2>1
<1> HIDE DEF d
<1>4. /\ g.seq = i.seq /\ g.flags = i.flags /\ g.data = d
      /\ "ACK" \in i.flags => g.ack = t.rcvNxt
    BY DEF SegmentOf, d
<1> HIDE DEF g
<1>5. t.iss - 1 <= i.seq BY <1>1, SocketNumbers DEF ItemOK
<1>6. "ACK" \in i.flags => Heard(t) /\ t.irs < g.ack /\ g.ack <= t.rcvNxt
    BY <1>4, SocketNumbers DEF ItemOK, Heard
<1> QED BY <1>2, <1>3, <1>4, <1>5, <1>6 DEF ItemOK, SegmentOK, g

LEMMA RetransmitSegmentCore ==
    ASSUME NEW e, NEW s, NEW p, NEW w, Core(e, s, p, w)
    PROVE  LET t == RetransmitSegment(s) IN
           Core(e, t, p, w) /\ Alike(s, t) /\ t.rtxQ = s.rtxQ
<1> DEFINE burst == {i \in s.rtxQ :
                       \A h \in s.rtxQ : i.seq + i.len - h.seq <= Mss}
           G == {SegmentOf(s, i) : i \in burst}
<1>1. s \in Socket BY DEF Core
<1>2. burst \subseteq s.rtxQ /\ burst \in SUBSET Item BY <1>1 DEF Socket
<1> HIDE DEF burst
<1>3. \A i \in burst : SegmentOf(s, i) \in Segment BY <1>1, <1>2, SegmentOfType
<1>4. \A i \in burst : SegmentOK(s, SegmentOf(s, i))
    BY <1>1, <1>2, SegmentOfOK DEF Core
<1>5. G \in SUBSET Segment /\ \A g \in G : SegmentOK(s, g) BY <1>3, <1>4
<1>6. RetransmitSegment(s) = [s EXCEPT !.sent = @ \cup G]
    BY DEF RetransmitSegment, burst
<1> HIDE DEF G
<1> QED BY <1>5, <1>6, MoreSentCore

\* Items are queued and sent, and may take sequence numbers.
LEMMA QueuesCore ==
    ASSUME NEW e, NEW s, NEW p, NEW w, Core(e, s, p, w),
           NEW t \in Socket, SameControl(s, t),
           t.iss = s.iss, t.irs = s.irs, t.sndUna = s.sndUna,
           t.rcvNxt = s.rcvNxt, t.ooo = s.ooo,
           t.sndNxt >= s.sndNxt, NEW v \in Nat, Numbers(e, t, v),
           NEW items \in SUBSET Item, t.rtxQ = s.rtxQ \cup items,
           t.sent = s.sent \cup {SegmentOf(s, i) : i \in items},
           \A i \in items : ItemOK(t, i)
    PROVE  Core(e, t, p, v) /\ Advances(s, t)
<1>1. s \in Socket BY DEF Core
<1>2. Advances(s, t) BY <1>1, SocketNumbers DEF Advances, SameControl, Unopened
<1>3. Agrees(e, t, p) BY DEF Core, Agrees, Deaf, Right, Heard, Mistaken
<1>4. \A g \in t.sent : g \in s.sent \/ SegmentOK(t, g)
    BY <1>1, SegmentOfOK
<1> QED BY <1>2, <1>3, <1>4, CoreStep

\* Bytes move from the buffer to the network.
Sends(s, t) ==
    /\ SameControl(s, t) /\ t.probing = s.probing
    /\ t.iss = s.iss /\ t.irs = s.irs /\ t.sndUna = s.sndUna
    /\ t.rcvNxt = s.rcvNxt /\ t.ooo = s.ooo
    /\ t.sndNxt + t.sndUser = s.sndNxt + s.sndUser
    /\ t.sndNxt >= s.sndNxt

LEMMA SendsPhase ==
    ASSUME NEW s \in Socket, NEW t \in Socket, Sends(s, t), NEW w, Phase(s, w)
    PROVE  Phase(t, w)
<1>1. s.sndUser = 0 => t.sndUser = 0 /\ t.sndNxt = s.sndNxt
    BY SocketNumbers DEF Sends
<1> QED BY <1>1 DEF Sends, SameControl, Phase, Finishing

LEMMA QueueSegmentsFields ==
    ASSUME NEW s \in Socket, NEW items
    PROVE  LET t == QueueSegments(s, items) IN
           /\ SameNumbers(s, t) /\ t.probing = s.probing
           /\ t.rtxQ = s.rtxQ \cup items
           /\ t.sent = s.sent \cup {SegmentOf(s, i) : i \in items}
<1> DEFINE S == s.sent \cup {SegmentOf(s, i) : i \in items}
           Q == s.rtxQ \cup items
           C == IF s.rtxTimer THEN s.rtxCount ELSE 0
           q == [s EXCEPT !.sent = S, !.rtxQ = Q, !.rtxTimer = TRUE, !.rtxCount = C]
<1>1. QueueSegments(s, items) = q BY DEF QueueSegments, Socket
<1> HIDE DEF S, Q, C
<1>2. SameNumbers(s, q) /\ q.probing = s.probing /\ q.rtxQ = Q /\ q.sent = S
    BY DEF SameNumbers, Socket
<1> HIDE DEF q
<1> QED BY <1>1, <1>2 DEF S, Q

LEMMA SendDataFields ==
    ASSUME NEW s \in Socket, NEW n \in Int, n > 0, n <= s.sndUser
    PROVE  LET chunk(k) == [seq |-> s.sndNxt + k * Mss,
                            len |-> Min(Mss, n - k * Mss), flags |-> {"ACK"}]
               items == {chunk(k) : k \in 0 .. (n - 1) \div Mss}
               t == SendData(s, n) IN
           /\ t.iss = s.iss /\ t.irs = s.irs /\ t.sndUna = s.sndUna
           /\ t.rcvNxt = s.rcvNxt /\ t.ooo = s.ooo /\ t.probing = s.probing
           /\ t.sndNxt = s.sndNxt + n /\ t.sndUser = s.sndUser - n
           /\ t.rtxQ = s.rtxQ \cup items
           /\ t.sent = s.sent \cup {SegmentOf(s, i) : i \in items}
<1> DEFINE chunk(k) == [seq |-> s.sndNxt + k * Mss,
                        len |-> Min(Mss, n - k * Mss), flags |-> {"ACK"}]
           items == {chunk(k) : k \in 0 .. (n - 1) \div Mss}
           q == QueueSegments(s, items)
           t == [q EXCEPT !.sndNxt = @ + n, !.sndUser = @ - n]
<1>1. SendData(s, n) = t BY DEF SendData
<1> HIDE DEF items
<1>2. /\ SameNumbers(s, q) /\ q.probing = s.probing
      /\ q.rtxQ = s.rtxQ \cup items
      /\ q.sent = s.sent \cup {SegmentOf(s, i) : i \in items}
    BY QueueSegmentsFields
<1>3. DOMAIN q = DOMAIN s BY DEF QueueSegments
<1>4. {"sndNxt", "sndUser"} \subseteq DOMAIN q BY <1>3 DEF Socket
<1> HIDE DEF q
<1>5. /\ t.iss = q.iss /\ t.irs = q.irs /\ t.sndUna = q.sndUna
      /\ t.rcvNxt = q.rcvNxt /\ t.ooo = q.ooo /\ t.probing = q.probing
      /\ t.rtxQ = q.rtxQ /\ t.sent = q.sent
    BY <1>3 DEF Socket
<1>6. t.sndNxt = q.sndNxt + n /\ t.sndUser = q.sndUser - n BY <1>4
<1> HIDE DEF t
<1>7. /\ t.iss = s.iss /\ t.irs = s.irs /\ t.sndUna = s.sndUna
      /\ t.rcvNxt = s.rcvNxt /\ t.ooo = s.ooo /\ t.probing = s.probing
      /\ t.sndNxt = s.sndNxt + n /\ t.sndUser = s.sndUser - n
      /\ t.rtxQ = s.rtxQ \cup items
      /\ t.sent = s.sent \cup {SegmentOf(s, i) : i \in items}
    BY <1>2, <1>5, <1>6 DEF SameNumbers
<1> QED BY <1>1, <1>7 DEF items, t

LEMMA SendDataCore ==
    ASSUME NEW e, NEW s, NEW p, NEW w, Core(e, s, p, w), Heard(s),
           NEW n \in Int, n <= s.sndUser
    PROVE  LET t == SendData(s, n) IN
           Core(e, t, p, w) /\ Advances(s, t) /\ Sends(s, t)
<1>1. s \in Socket /\ w \in Nat BY DEF Core
<1>2. CASE n <= 0
    <2>1. SendData(s, n) = s BY <1>2 DEF SendData
    <2>2. Sends(s, s) /\ Advances(s, s)
        BY <1>1, SocketNumbers DEF Sends, SameControl, Advances
    <2> QED BY <2>1, <2>2
<1>3. CASE n > 0
    <2> DEFINE chunk(k) == [seq |-> s.sndNxt + k * Mss,
                            len |-> Min(Mss, n - k * Mss), flags |-> {"ACK"}]
               items == {chunk(k) : k \in 0 .. (n - 1) \div Mss}
               t == SendData(s, n)
    <2>1. n \in Nat \ {0} /\ s.sndNxt \in Nat /\ s.sndUser \in Nat
        BY <1>1, <1>3, SocketNumbers
    <2>2. t \in Socket /\ SameControl(s, t)
        BY <1>1, SendDataType DEF Transmits
    <2>3. /\ t.iss = s.iss /\ t.irs = s.irs /\ t.sndUna = s.sndUna
          /\ t.rcvNxt = s.rcvNxt /\ t.ooo = s.ooo /\ t.probing = s.probing
          /\ t.sndNxt = s.sndNxt + n /\ t.sndUser = s.sndUser - n
          /\ t.rtxQ = s.rtxQ \cup items
          /\ t.sent = s.sent \cup {SegmentOf(s, i) : i \in items}
        BY <1>1, <1>3, SendDataFields
    <2> HIDE DEF t
    <2>4. ASSUME NEW k \in 0 .. (n - 1) \div Mss
          PROVE  chunk(k) \in Item /\ ItemOK(t, chunk(k))
        <3>1. k * Mss \in Nat /\ k * Mss <= n BY <2>1, ChunkStarts
        <3>2. s.sndNxt + k * Mss \in Nat BY <2>1, <3>1
        <3>3. Min(Mss, n - k * Mss) \in Nat BY <2>1, <3>1, MssAssumption DEF Min
        <3>4. chunk(k) \in Item BY <3>2, <3>3 DEF Item, Flags
        <3>5. FinLength({"ACK"}) = 0 BY DEF FinLength
        <3>6. s.iss < s.sndNxt /\ s.iss \in Nat BY <1>1, SocketNumbers DEF Core, Numbers
        <3>7. s.sndNxt + k * Mss + Min(Mss, n - k * Mss) + 0 <= s.sndNxt + n
            BY <2>1, <3>1, MssAssumption DEF Min
        <3>8. t.iss <= s.sndNxt + k * Mss BY <2>1, <2>3, <3>1, <3>6
        <3>9. Heard(t) BY <2>3 DEF Heard
        <3> QED BY <2>3, <3>4, <3>5, <3>7, <3>8, <3>9 DEF ItemOK
    <2>5. items \in SUBSET Item /\ \A i \in items : ItemOK(t, i) BY <2>4
    <2> HIDE DEF items
    <2>6. t.sndNxt >= s.sndNxt /\ t.sndNxt + t.sndUser = s.sndNxt + s.sndUser
        BY <2>1, <2>3
    <2>7. Numbers(e, t, w)
        BY <1>1, <2>1, <2>3, <2>6, SocketNumbers DEF Core, Numbers
    <2>8. Core(e, t, p, w) /\ Advances(s, t)
        BY <1>1, <2>2, <2>3, <2>5, <2>6, <2>7, QueuesCore
    <2>9. Sends(s, t) BY <2>2, <2>3, <2>6 DEF Sends
    <2> QED BY <2>8, <2>9 DEF t
<1> QED BY <1>2, <1>3

LEMMA NagleAlgoCore ==
    ASSUME NEW e, NEW s, NEW p, NEW w, Core(e, s, p, w), Heard(s), NEW flag
    PROVE  LET t == NagleAlgo(s, flag) IN
           Core(e, t, p, w) /\ Advances(s, t) /\ Sends(s, t)
<1>1. NagleAmount(s, flag) \in Int /\ NagleAmount(s, flag) <= s.sndUser
    BY NagleAmountBound DEF Core
<1> QED BY <1>1, SendDataCore DEF NagleAlgo

LEMMA OverrideSendCore ==
    ASSUME NEW e, NEW s, NEW p, NEW w, Core(e, s, p, w), Heard(s)
    PROVE  LET t == OverrideSend(s) IN
           Core(e, t, p, w) /\ Advances(s, t) /\ Sends(s, t)
<1> DEFINE n == Max(0, Min(s.sndUser, UsableWindow(s)))
<1>1. s \in Socket BY DEF Core
<1>2. UsableWindow(s) \in Int
    BY <1>1, SocketNumbers, TxBufferAssumption DEF UsableWindow, Min
<1>3. n \in Int /\ n <= s.sndUser BY <1>1, <1>2, SocketNumbers DEF Min, Max
<1> HIDE DEF n
<1> QED BY <1>3, SendDataCore DEF OverrideSend, n

-----------------------------------------------------------------------------
(* The functions that receive.                                             *)

\* What tcpUpdateSendWindow and tcpUpdateRetransmitQueue leave alone.
Quiet(s, t) ==
    /\ SameNumbers(s, t) /\ t.rtxQ \subseteq s.rtxQ /\ t.sent = s.sent

LEMMA UpdateSendWindowQuiet ==
    ASSUME NEW s \in Socket, NEW g \in Segment
    PROVE  Quiet(s, UpdateSendWindow(s, g))
<1> DEFINE most == Max(s.maxSndWnd, g.wnd)
           taken == [s EXCEPT !.sndWnd = g.wnd, !.sndWl1 = g.seq,
                              !.sndWl2 = g.ack, !.maxSndWnd = most]
           closes == g.wnd = 0 /\ s.sndWnd # 0
           b == taken.probing \/ closes
           n == IF closes THEN 0 ELSE taken.probeCount
           probed == [taken EXCEPT !.probing = b, !.probeCount = n]
<1>1. taken = [s EXCEPT !.sndWnd = g.wnd, !.sndWl1 = g.seq,
                        !.sndWl2 = g.ack, !.maxSndWnd = Max(@, g.wnd)]
    BY DEF Socket
<1>2. probed = [taken EXCEPT !.probing = @ \/ closes,
                             !.probeCount = IF closes THEN 0 ELSE @]
    BY DEF Socket
<1>3. UpdateSendWindow(s, g) \in {s, taken, probed}
    BY <1>1, <1>2, Zenon DEF UpdateSendWindow
<1> HIDE DEF most, b, n
<1>4. Quiet(s, taken) /\ DOMAIN taken = DOMAIN s BY DEF Quiet, SameNumbers, Socket
<1>5. DOMAIN s = DOMAIN probed BY <1>4
<1> HIDE DEF taken
<1>6. Quiet(taken, probed) BY <1>4 DEF Quiet, SameNumbers, Socket
<1> HIDE DEF probed
<1>7. Quiet(s, probed) BY <1>4, <1>6 DEF Quiet, SameNumbers
<1>8. Quiet(s, s) BY DEF Quiet, SameNumbers
<1> QED BY <1>3, <1>4, <1>7, <1>8

LEMMA UpdateRetransmitQueueQuiet ==
    ASSUME NEW s \in Socket
    PROVE  Quiet(s, UpdateRetransmitQueue(s))
<1> DEFINE left == {i \in s.rtxQ : ItemEnd(i) > s.sndUna}
           timer == left # {} /\ (left # s.rtxQ \/ s.rtxTimer)
           count == IF left # s.rtxQ THEN 0 ELSE s.rtxCount
           t == [s EXCEPT !.rtxQ = left, !.rtxTimer = timer, !.rtxCount = count]
<1>1. UpdateRetransmitQueue(s) = t BY DEF UpdateRetransmitQueue, Socket
<1>2. left \subseteq s.rtxQ OBVIOUS
<1> HIDE DEF left, timer, count
<1>3. Quiet(s, t) BY <1>2 DEF Quiet, SameNumbers, Socket
<1> QED BY <1>1, <1>3

\* A step that changes no number and adds nothing.
LEMMA QuietCore ==
    ASSUME NEW e, NEW s, NEW p, NEW w, Core(e, s, p, w), NEW t \in Socket,
           Quiet(s, t), Unopened(t) => Unopened(s)
    PROVE  Core(e, t, p, w) /\ Advances(s, t)
BY AlikeCore DEF Quiet

\* tcpCheckAck: what is acknowledged was received.
LEMMA CheckAckFields ==
    ASSUME NEW s \in Socket, NEW g \in Segment
    PROVE  LET t == CheckAck(s, g) IN
           /\ t.iss = s.iss /\ t.irs = s.irs
           /\ t.sndUna = IF g.ack > s.sndUna THEN g.ack ELSE s.sndUna
           /\ t.sndNxt = s.sndNxt /\ t.sndUser = s.sndUser
           /\ t.rcvNxt = s.rcvNxt /\ t.ooo = s.ooo
           /\ t.rtxQ \subseteq s.rtxQ /\ t.sent = s.sent
<1> DEFINE w == UpdateSendWindow(s, g)
           u == [w EXCEPT !.sndUna = g.ack]
           r == UpdateRetransmitQueue(u)
<1>1. Quiet(s, w) /\ w \in Socket
    BY UpdateSendWindowQuiet, UpdateSendWindowType DEF Transmits
<1>2. g.ack \in Nat /\ s.sndUna \in Nat BY SocketNumbers DEF Segment
<1>3. CheckAck(s, g) = IF g.ack < s.sndUna THEN s
                       ELSE IF g.ack > s.sndUna THEN r ELSE w
    BY DEF CheckAck
<1> HIDE DEF w
<1>4. u \in Socket BY <1>1, <1>2 DEF Socket
<1>5. /\ u.iss = w.iss /\ u.irs = w.irs /\ u.sndUna = g.ack
      /\ u.sndNxt = w.sndNxt /\ u.sndUser = w.sndUser
      /\ u.rcvNxt = w.rcvNxt /\ u.ooo = w.ooo
      /\ u.rtxQ = w.rtxQ /\ u.sent = w.sent
    BY <1>1 DEF Socket
<1> HIDE DEF u
<1>6. Quiet(u, r) BY <1>4, UpdateRetransmitQueueQuiet
<1> HIDE DEF r
<1>7. CASE g.ack < s.sndUna BY <1>2, <1>3, <1>7
<1>8. CASE g.ack > s.sndUna
    BY <1>1, <1>2, <1>3, <1>5, <1>6, <1>8 DEF Quiet, SameNumbers
<1>9. CASE g.ack = s.sndUna
    BY <1>1, <1>2, <1>3, <1>9 DEF Quiet, SameNumbers
<1> QED BY <1>2, <1>7, <1>8, <1>9

LEMMA CheckAckCore ==
    ASSUME NEW e, NEW s, NEW p, NEW w, Core(e, s, p, w),
           NEW g \in Segment, g.ack <= s.sndNxt,
           g.ack > s.sndUna => Right(s, p) /\ p.irs = s.iss /\ g.ack <= p.rcvNxt
    PROVE  LET t == CheckAck(s, g) IN
           /\ Core(e, t, p, w) /\ Advances(s, t) /\ SameControl(s, t)
           /\ t.iss = s.iss /\ t.sndNxt = s.sndNxt /\ t.sndUser = s.sndUser
           /\ t.irs = s.irs /\ t.rcvNxt = s.rcvNxt /\ t.ooo = s.ooo
           /\ g.ack >= s.sndUna => t.sndUna = g.ack
           /\ t.sndUna >= s.sndUna /\ (t.sndUna = s.sndUna \/ t.sndUna = g.ack)
<1> DEFINE t == CheckAck(s, g)
<1>1. s \in Socket /\ w \in Nat BY DEF Core
<1>2. t \in Socket /\ SameControl(s, t) BY <1>1, CheckAckType DEF Transmits
<1>3. /\ t.iss = s.iss /\ t.irs = s.irs
      /\ t.sndUna = IF g.ack > s.sndUna THEN g.ack ELSE s.sndUna
      /\ t.sndNxt = s.sndNxt /\ t.sndUser = s.sndUser
      /\ t.rcvNxt = s.rcvNxt /\ t.ooo = s.ooo
      /\ t.rtxQ \subseteq s.rtxQ /\ t.sent = s.sent
    BY <1>1, CheckAckFields
<1> HIDE DEF t
<1>4. g.ack \in Nat BY DEF Segment
<1>5. Advances(s, t)
    BY <1>1, <1>2, <1>3, SocketNumbers DEF Advances, SameControl, Unopened
<1>6. Numbers(e, t, w)
    BY <1>1, <1>3, <1>4, SocketNumbers DEF Core, Numbers
<1>7. Right(s, p) => Right(t, p) BY <1>3 DEF Right, Heard
<1>8. Agrees(e, t, p)
    <2>1. CASE g.ack > s.sndUna BY <1>3, <1>7, <2>1 DEF Agrees
    <2>2. CASE ~(g.ack > s.sndUna)
        BY <1>3, <1>7, <2>2 DEF Core, Agrees, Deaf, Mistaken
    <2> QED BY <2>1, <2>2
<1>9. Core(e, t, p, w) BY <1>1, <1>3, <1>5, <1>6, <1>8, CoreStep
<1>10. /\ g.ack >= s.sndUna => t.sndUna = g.ack
       /\ t.sndUna >= s.sndUna /\ (t.sndUna = s.sndUna \/ t.sndUna = g.ack)
    BY <1>1, <1>3, <1>4, SocketNumbers
<1> QED BY <1>2, <1>3, <1>5, <1>9, <1>10 DEF t

\* The data that arrive move rcvNxt no further than their sender went.
LEMMA ProcessSegmentDataFields ==
    ASSUME NEW s \in Socket, NEW g \in Segment, WindowFits(s), GapsInside(s),
           g.data # << >>, NEW b \in Nat, s.rcvNxt <= b, \A n \in s.ooo : n < b,
           g.seq + Len(g.data) <= b
    PROVE  LET t == ProcessSegmentData(s, g) IN
           /\ t.iss = s.iss /\ t.irs = s.irs /\ t.sndUna = s.sndUna
           /\ t.sndNxt = s.sndNxt /\ t.sndUser = s.sndUser
           /\ s.rcvNxt <= t.rcvNxt /\ t.rcvNxt <= b
           /\ \A n \in t.ooo : n < b
           /\ t.rtxQ = s.rtxQ
           /\ \A x \in t.sent : \/ x \in s.sent
                                \/ /\ x.flags = {"ACK"} /\ x.seq = s.sndNxt
                                   /\ x.data = << >> /\ x.ack = t.rcvNxt
<1> DEFINE edge      == s.rcvNxt + s.rcvWnd
           leftEdge  == Max(g.seq, s.rcvNxt)
           rightEdge == Min(g.seq + Len(g.data), s.rcvNxt + s.rcvWnd)
           arrived   == leftEdge .. (rightEdge - 1)
           held      == s.ooo \cup arrived
           nxt       == CHOOSE n \in s.rcvNxt .. (s.rcvNxt + s.rcvWnd) :
                           /\ n \notin held
                           /\ \A m \in s.rcvNxt .. (s.rcvNxt + s.rcvWnd) :
                                 m \notin held => n <= m
           slot(n)   == (n - s.irs - 1) % RxBufferSize
           buf       == [p \in 0 .. RxBufferSize - 1 |->
                           IF \E n \in arrived : slot(n) = p
                           THEN g.data[(CHOOSE n \in arrived : slot(n) = p)
                                           - g.seq + 1]
                           ELSE s.rxBuf[p]]
           gaps      == {n \in held : n > nxt}
           user      == s.rcvUser + (nxt - s.rcvNxt)
           wnd       == s.rcvWnd - (nxt - s.rcvNxt)
           u         == [s EXCEPT !.rxBuf = buf, !.ooo = gaps, !.rcvNxt = nxt,
                                  !.rcvUser = user, !.rcvWnd = wnd]
           a         == [flags |-> {"ACK"}, seq |-> u.sndNxt, ack |-> u.rcvNxt,
                         wnd |-> u.rcvWnd, data |-> << >>]
           t         == [u EXCEPT !.sent = @ \cup {a}]
<1>1. /\ s.rcvNxt \in Nat /\ s.rcvWnd \in Nat /\ s.ooo \in SUBSET Nat
    BY SocketNumbers DEF WindowFits
<1>2. g.seq \in Nat /\ Len(g.data) \in Nat BY DEF Segment
<1>3. ProcessSegmentData(s, g) = SendAck(u) BY DEF ProcessSegmentData, Socket
<1>4. /\ leftEdge \in Nat /\ rightEdge \in Int
      /\ rightEdge <= g.seq + Len(g.data) /\ rightEdge <= edge
    BY <1>1, <1>2 DEF Min, Max
<1> HIDE DEF leftEdge, rightEdge
<1>5. \A n \in held : n \in Nat /\ n < b /\ n < edge
    <2> TAKE n \in held
    <2>1. CASE n \in s.ooo BY <1>1, <2>1 DEF GapsInside
    <2>2. CASE n \in arrived BY <1>1, <1>2, <1>4, <2>2
    <2> QED BY <2>1, <2>2
<1> HIDE DEF held
<1>6. /\ nxt \in s.rcvNxt .. (s.rcvNxt + s.rcvWnd)
      /\ \A m \in s.rcvNxt .. (s.rcvNxt + s.rcvWnd) : m \notin held => nxt <= m
    <2>1. s.rcvNxt + s.rcvWnd \notin held /\ s.rcvNxt \in Int BY <1>1, <1>5
    <2>2. \E n \in s.rcvNxt .. (s.rcvNxt + s.rcvWnd) :
             /\ n \notin held
             /\ \A m \in s.rcvNxt .. (s.rcvNxt + s.rcvWnd) : m \notin held => n <= m
        BY <1>1, <2>1, LeastOutside
    <2> QED BY <2>2
<1>7. \A n \in gaps : n < b BY <1>5
<1> HIDE DEF buf, gaps, nxt
<1>8. nxt \in Nat /\ s.rcvNxt <= nxt BY <1>1, <1>6
<1>9. nxt <= b
    <2>1. CASE nxt = s.rcvNxt BY <2>1
    <2>2. CASE nxt # s.rcvNxt
        <3>1. nxt - 1 \in s.rcvNxt .. (s.rcvNxt + s.rcvWnd) /\ ~(nxt <= nxt - 1)
            BY <1>1, <1>6, <2>2
        <3>2. nxt - 1 \in held BY <1>6, <3>1
        <3> QED BY <1>5, <1>8, <3>2
    <2> QED BY <2>1, <2>2
<1> HIDE DEF user, wnd
<1>10. /\ u.iss = s.iss /\ u.irs = s.irs /\ u.sndUna = s.sndUna
       /\ u.sndNxt = s.sndNxt /\ u.sndUser = s.sndUser
       /\ u.rcvNxt = nxt /\ u.ooo = gaps /\ u.rtxQ = s.rtxQ /\ u.sent = s.sent
    BY DEF Socket
<1>11. DOMAIN u = DOMAIN s OBVIOUS
<1> HIDE DEF u
<1>12. SendAck(u) = t BY DEF SendAck, SendSegment
<1>13. a.flags = {"ACK"} /\ a.seq = s.sndNxt /\ a.data = << >> /\ a.ack = nxt
    BY <1>10
<1> HIDE DEF a
<1>14. /\ t.iss = s.iss /\ t.irs = s.irs /\ t.sndUna = s.sndUna
       /\ t.sndNxt = s.sndNxt /\ t.sndUser = s.sndUser
       /\ t.rcvNxt = nxt /\ t.ooo = gaps /\ t.rtxQ = s.rtxQ
       /\ t.sent = s.sent \cup {a}
    BY <1>10, <1>11 DEF Socket
<1> HIDE DEF t
<1> QED BY <1>3, <1>7, <1>8, <1>9, <1>12, <1>13, <1>14

LEMMA ProcessSegmentDataCore ==
    ASSUME NEW e, NEW s, NEW p, NEW w, Core(e, s, p, w),
           WindowFits(s), GapsInside(s), Heard(s), NEW g \in Segment,
           g.data # << >> => Right(s, p) /\ g.seq + Len(g.data) <= p.sndNxt
    PROVE  LET t == ProcessSegmentData(s, g) IN
           /\ Core(e, t, p, w) /\ Advances(s, t) /\ SameControl(s, t)
           /\ t.iss = s.iss /\ t.sndUna = s.sndUna /\ t.sndNxt = s.sndNxt
           /\ t.sndUser = s.sndUser
           /\ Right(s, p) => Right(t, p)
<1> DEFINE t == ProcessSegmentData(s, g)
<1>1. s \in Socket /\ p \in Socket /\ w \in Nat BY DEF Core
<1>2. t \in Socket /\ SameControl(s, t)
    BY <1>1, ProcessSegmentDataType DEF Receives
<1>3. CASE g.data = << >>
    <2>1. t = s BY <1>3 DEF ProcessSegmentData
    <2>2. Advances(s, s) BY <1>1, SocketNumbers DEF Advances
    <2> QED BY <1>2, <2>1, <2>2
<1>4. CASE g.data # << >>
    <2>1. /\ p.sndNxt \in Nat /\ s.rcvNxt <= p.sndNxt
          /\ \A n \in s.ooo : n < p.sndNxt
          /\ g.seq + Len(g.data) <= p.sndNxt
        BY <1>1, <1>4, SocketNumbers DEF Right
    <2>2. /\ t.iss = s.iss /\ t.irs = s.irs /\ t.sndUna = s.sndUna
          /\ t.sndNxt = s.sndNxt /\ t.sndUser = s.sndUser
          /\ s.rcvNxt <= t.rcvNxt /\ t.rcvNxt <= p.sndNxt
          /\ \A n \in t.ooo : n < p.sndNxt
          /\ t.rtxQ = s.rtxQ
          /\ \A x \in t.sent : \/ x \in s.sent
                               \/ /\ x.flags = {"ACK"} /\ x.seq = s.sndNxt
                                  /\ x.data = << >> /\ x.ack = t.rcvNxt
        BY <1>1, <1>4, <2>1, ProcessSegmentDataFields
    <2> HIDE DEF t
    <2>3. Heard(t) BY <1>1, <1>2, <2>2, SocketNumbers DEF Heard
    <2>4. Advances(s, t)
        BY <1>1, <1>2, <2>2, SocketNumbers DEF Advances, SameControl, Unopened
    <2>5. Numbers(e, t, w) BY <2>2 DEF Core, Numbers
    <2>6. Right(t, p) BY <1>4, <2>2, <2>3 DEF Right
    <2>7. Agrees(e, t, p) BY <2>2, <2>6 DEF Core, Agrees
    <2>8. \A x \in t.sent : x \in s.sent \/ (Live(x) => SegmentOK(t, x))
        <3> TAKE x \in t.sent
        <3> SUFFICES ASSUME x \notin s.sent PROVE SegmentOK(t, x) OBVIOUS
        <3> DEFINE ack == {"ACK"}
        <3>1. x.flags = ack /\ x.seq = t.sndNxt /\ x.data = << >> /\ x.ack = t.rcvNxt
            BY <2>2
        <3>2. FinLength(ack) = 0 /\ "SYN" \notin ack BY DEF FinLength
        <3> HIDE DEF ack
        <3>3. t.iss - 1 <= t.sndNxt /\ t.sndNxt + 0 + 0 <= t.sndNxt
            BY <1>2, <2>5, SocketNumbers DEF Numbers
        <3>4. t.irs < t.rcvNxt /\ t.rcvNxt <= t.rcvNxt
            BY <1>2, <2>3, SocketNumbers DEF Heard
        <3>5. Len(<< >>) = 0 OBVIOUS
        <3> QED BY <2>3, <3>1, <3>2, <3>3, <3>4, <3>5 DEF SegmentOK
    <2>9. Core(e, t, p, w) BY <1>1, <2>2, <2>4, <2>5, <2>7, <2>8, CoreStep
    <2> QED BY <1>2, <2>2, <2>4, <2>6, <2>9 DEF t
<1> QED BY <1>3, <1>4

\* The FIN of the peer is taken: it was sent.
LEMMA TakeFinCore ==
    ASSUME NEW e, NEW s, NEW p, NEW w, Core(e, s, p, w), WindowFits(s),
           Right(s, p), s.rcvNxt + 1 <= p.sndNxt
    PROVE  LET t == TakeFin(s) IN
           /\ Core(e, t, p, w) /\ Advances(s, t) /\ SameControl(s, t)
           /\ t.iss = s.iss /\ t.sndUna = s.sndUna /\ t.sndNxt = s.sndNxt
           /\ t.sndUser = s.sndUser
<1> DEFINE n == s.rcvNxt + 1
           u == [s EXCEPT !.rcvNxt = n]
           t == SendAck(u)
<1>1. s \in Socket /\ w \in Nat /\ p \in Socket BY DEF Core
<1>2. TakeFin(s) = t BY <1>1 DEF TakeFin, Socket
<1>3. n \in Nat /\ n > s.rcvNxt BY <1>1, SocketNumbers
<1>4. n <= p.sndNxt OBVIOUS
<1> HIDE DEF n
<1>5. u \in Socket BY <1>1, <1>3 DEF Socket
<1>6. SameControl(s, u) BY <1>1 DEF SameControl, Socket
<1>7. /\ u.iss = s.iss /\ u.irs = s.irs /\ u.sndUna = s.sndUna
      /\ u.sndNxt = s.sndNxt /\ u.sndUser = s.sndUser
      /\ u.rcvNxt = n /\ u.ooo = s.ooo /\ u.rtxQ = s.rtxQ /\ u.sent = s.sent
    BY <1>1 DEF Socket
<1> HIDE DEF u
<1>8. Heard(u) BY <1>1, <1>3, <1>7, SocketNumbers DEF Right, Heard
<1>9. Advances(s, u)
    BY <1>1, <1>3, <1>5, <1>6, <1>7, SocketNumbers
       DEF Advances, SameControl, Unopened
<1>10. Numbers(e, u, w) BY <1>7 DEF Core, Numbers
<1>11. Agrees(e, u, p) BY <1>4, <1>7, <1>8 DEF Core, Agrees, Right
<1>12. Core(e, u, p, w) BY <1>1, <1>7, <1>9, <1>10, <1>11, CoreStep
<1>13. Core(e, t, p, w) /\ Alike(u, t) BY <1>8, <1>12, SendAckCore
<1> HIDE DEF t
<1>14. Advances(s, t) BY <1>1, <1>5, <1>9, <1>13, AlikeAdvances, AdvancesTransitive
<1>15. SameControl(s, t) BY <1>6, <1>13 DEF Alike, SameControl
<1> QED BY <1>2, <1>7, <1>13, <1>14, <1>15 DEF Alike, SameNumbers

-----------------------------------------------------------------------------
(* State changes and the user's bytes.                                     *)

\* tcpChangeState changes no number.
LEMMA ChangeStateCore ==
    ASSUME NEW e, NEW s, NEW p, NEW w, Core(e, s, p, w), NEW state \in States
    PROVE  LET t == ChangeState(s, state) IN
           /\ Core(e, t, p, w) /\ Advances(s, t) /\ SameNumbers(s, t)
           /\ t.state = state /\ t.type = s.type /\ t.probing = s.probing
           /\ state = "CLOSED" => t.closedFlag \/ t.resetFlag
           /\ t.closedFlag => \/ s.closedFlag
                              \/ s.state = "LAST_ACK" \/ s.state = "TIME_WAIT"
<1> DEFINE t == ChangeState(s, state)
           c == s.closedFlag \/ (state = "CLOSED"
                                   /\ s.state \in {"LAST_ACK", "TIME_WAIT"})
           r == s.resetFlag \/ (state = "CLOSED"
                                   /\ s.state \notin {"LAST_ACK", "TIME_WAIT"})
           u == [s EXCEPT !.state = state, !.closedFlag = c, !.resetFlag = r]
<1>1. s \in Socket BY DEF Core
<1>2. /\ t \in Socket /\ t.type = s.type /\ t.state = state
      /\ state = "CLOSED" => t.closedFlag \/ t.resetFlag
    BY <1>1, ChangeStateType
<1>3. t = u BY <1>1 DEF ChangeState, Socket
<1>4. /\ s.closedFlag => c
      /\ s.resetFlag => r
      /\ c => \/ s.closedFlag
              \/ s.state = "LAST_ACK" \/ s.state = "TIME_WAIT"
    OBVIOUS
<1> HIDE DEF t, c, r
<1>5. /\ SameNumbers(s, u) /\ u.probing = s.probing
      /\ u.rtxQ = s.rtxQ /\ u.sent = s.sent
    BY <1>1 DEF SameNumbers, Socket
<1>6. u.closedFlag = c /\ u.resetFlag = r BY <1>1 DEF Socket
<1> HIDE DEF u
<1>7. Unopened(t) => Unopened(s) BY <1>2, <1>3, <1>4, <1>6, Zenon DEF Unopened
<1>8. Core(e, t, p, w) /\ Advances(s, t) BY <1>2, <1>3, <1>5, <1>7, AlikeCore
<1>9. t.closedFlag => \/ s.closedFlag
                      \/ s.state = "LAST_ACK" \/ s.state = "TIME_WAIT"
    BY <1>3, <1>4, <1>6
<1> QED BY <1>2, <1>3, <1>5, <1>8, <1>9 DEF t

LEMMA DeleteControlBlockCore ==
    ASSUME NEW e, NEW s, NEW p, NEW w, Core(e, s, p, w)
    PROVE  LET t == DeleteControlBlock(s) IN
           /\ Core(e, t, p, w) /\ Advances(s, t) /\ SameNumbers(s, t)
           /\ SameControl(s, t) /\ t.probing = s.probing
<1> DEFINE t == DeleteControlBlock(s)
<1>1. s \in Socket BY DEF Core
<1>2. t \in Socket /\ SameControl(s, t)
    BY <1>1, DeleteControlBlockType DEF Transmits
<1>3. /\ SameNumbers(s, t) /\ t.probing = s.probing
      /\ t.rtxQ = {} /\ t.sent = s.sent
    BY <1>1 DEF DeleteControlBlock, SameNumbers, Socket
<1> HIDE DEF t
<1>4. Unopened(t) => Unopened(s) BY <1>2 DEF SameControl, Unopened
<1>5. Core(e, t, p, w) /\ Advances(s, t) BY <1>2, <1>3, <1>4, AlikeCore
<1> QED BY <1>2, <1>3, <1>5 DEF t

\* The connection ends and its table entry is free.
LEMMA FreedCore ==
    ASSUME NEW e, NEW s, NEW p, NEW w, Core(e, s, p, w)
    PROVE  LET t == [DeleteControlBlock(ChangeState(s, "CLOSED"))
                       EXCEPT !.type = "UNUSED"] IN
           /\ Core(e, t, p, w) /\ Advances(s, t)
           /\ t.state = "CLOSED" /\ ~Unopened(t)
<1> DEFINE c == ChangeState(s, "CLOSED")
           d == DeleteControlBlock(c)
           t == [d EXCEPT !.type = "UNUSED"]
<1>1. s \in Socket /\ "CLOSED" \in States BY DEF Core, States
<1>2. /\ Core(e, c, p, w) /\ Advances(s, c) /\ c.state = "CLOSED"
      /\ c.closedFlag \/ c.resetFlag
    BY <1>1, ChangeStateCore
<1> HIDE DEF c
<1>3. Core(e, d, p, w) /\ Advances(c, d) /\ SameControl(c, d)
    BY <1>2, DeleteControlBlockCore
<1> HIDE DEF d
<1>4. d \in Socket BY <1>3 DEF Core
<1>5. t \in Socket BY <1>4 DEF Socket
<1>6. /\ SameNumbers(d, t) /\ t.rtxQ = d.rtxQ /\ t.sent = d.sent
      /\ t.state = d.state
      /\ t.closedFlag = d.closedFlag /\ t.resetFlag = d.resetFlag
    BY <1>4 DEF SameNumbers, Socket
<1> HIDE DEF t
<1>7. t.state = "CLOSED" /\ ~Unopened(t)
    BY <1>2, <1>3, <1>6 DEF SameControl, Unopened
<1>8. Core(e, t, p, w) /\ Advances(d, t) BY <1>3, <1>5, <1>6, <1>7, AlikeCore
<1>9. Advances(s, d) BY <1>1, <1>2, <1>3, AdvancesTransitive
<1>10. Advances(s, t) BY <1>1, <1>8, <1>9, AdvancesTransitive
<1> QED BY <1>7, <1>8, <1>10 DEF t, d, c

\* tcpSend puts n bytes more in the buffer.
LEMMA WriteTxBufferCore ==
    ASSUME NEW e, NEW s, NEW p, NEW w, Core(e, s, p, w),
           NEW data \in Seq(Byte), w + Len(data) <= WriteLimit[e]
    PROVE  LET t == WriteTxBuffer(s, data) IN
           /\ Core(e, t, p, w + Len(data)) /\ Advances(s, t) /\ SameControl(s, t)
           /\ t.sndUser = s.sndUser + Len(data) /\ t.sndNxt = s.sndNxt
           /\ t.sndUna = s.sndUna /\ t.iss = s.iss /\ t.irs = s.irs
           /\ t.rcvNxt = s.rcvNxt /\ t.probing = s.probing
<1> DEFINE offset(i) == (s.sndNxt + s.sndUser - s.iss - 1 + i - 1) % TxBufferSize
           buf == [q \in 0 .. TxBufferSize - 1 |->
                     IF \E i \in 1 .. Len(data) : offset(i) = q
                     THEN data[CHOOSE i \in 1 .. Len(data) : offset(i) = q]
                     ELSE s.txBuf[q]]
           user == s.sndUser + Len(data)
           t == WriteTxBuffer(s, data)
           u == [s EXCEPT !.txBuf = buf, !.sndUser = user]
<1>1. s \in Socket /\ w \in Nat /\ Len(data) \in Nat BY DEF Core
<1>2. t \in Socket /\ SameControl(s, t) BY <1>1, WriteTxBufferType DEF Transmits
<1>3. t = u BY <1>1 DEF WriteTxBuffer, Socket
<1> HIDE DEF t, buf, user
<1>4. /\ u.iss = s.iss /\ u.irs = s.irs /\ u.sndUna = s.sndUna
      /\ u.sndNxt = s.sndNxt /\ u.sndUser = user
      /\ u.rcvNxt = s.rcvNxt /\ u.ooo = s.ooo
      /\ u.rtxQ = s.rtxQ /\ u.sent = s.sent /\ u.probing = s.probing
    BY <1>1 DEF Socket
<1> HIDE DEF u
<1>5. Advances(s, t)
    BY <1>1, <1>2, <1>3, <1>4, SocketNumbers DEF Advances, SameControl, Unopened
<1>6. FinNumber(e) \in Nat BY DEF FinNumber
<1>7. Numbers(e, t, w + Len(data))
    BY <1>1, <1>3, <1>4, <1>6, SocketNumbers, IssAssumption
       DEF Core, Numbers, user
<1>8. Agrees(e, t, p)
    BY <1>3, <1>4 DEF Core, Agrees, Deaf, Right, Heard, Mistaken
<1>9. w + Len(data) \in Nat BY <1>1
<1>10. Core(e, t, p, w + Len(data))
    BY <1>3, <1>4, <1>5, <1>7, <1>8, <1>9, CoreStep
<1> QED BY <1>2, <1>3, <1>4, <1>5, <1>10 DEF t, user

\* tcpReceive takes n bytes, and may send an ACK.
LEMMA TakeBytesCore ==
    ASSUME NEW e, NEW s, NEW p, NEW w, Core(e, s, p, w), WindowFits(s), Heard(s),
           NEW n \in 1 .. s.rcvUser
    PROVE  LET t == TakeBytes(s, n) IN
           Core(e, t, p, w) /\ Advances(s, t) /\ Alike(s, t)
<1> DEFINE m == s.rcvUser - n
           u == [s EXCEPT !.rcvUser = m]
           reduction == RxBufferSize - u.rcvUser - u.rcvWnd
           wnd == u.rcvWnd + reduction
           o == [u EXCEPT !.rcvWnd = wnd]
           t == TakeBytes(s, n)
<1>1. s \in Socket BY DEF Core
<1>2. m \in Nat BY <1>1, SocketNumbers
<1>3. t = UpdateReceiveWindow(u) BY <1>1 DEF TakeBytes, Socket
<1> HIDE DEF t, m
<1>4. u \in Socket BY <1>1, <1>2 DEF Socket
<1>5. /\ SameNumbers(s, u) /\ SameControl(s, u) /\ u.probing = s.probing
      /\ u.rtxQ = s.rtxQ /\ u.sent = s.sent
    BY <1>1 DEF SameNumbers, SameControl, Socket
<1> HIDE DEF u
<1>6. o = [u EXCEPT !.rcvWnd = @ + reduction] BY <1>4 DEF Socket
<1>7. t \in {u, o, SendAck(o)} BY <1>3, <1>6, Zenon DEF UpdateReceiveWindow
<1>8. wnd \in Int BY <1>4, SocketNumbers, RxBufferAssumption
<1> HIDE DEF reduction, wnd
<1>9. o \in Socket BY <1>4, <1>8 DEF Socket
<1>10. /\ SameNumbers(u, o) /\ SameControl(u, o) /\ o.probing = u.probing
       /\ o.rtxQ = u.rtxQ /\ o.sent = u.sent
    BY <1>4 DEF SameNumbers, SameControl, Socket
<1> HIDE DEF o
<1>11. Alike(s, u) /\ Alike(s, o)
    BY <1>4, <1>5, <1>9, <1>10 DEF Alike, SameNumbers, SameControl
<1>12. (Unopened(u) => Unopened(s)) /\ (Unopened(o) => Unopened(s))
    BY <1>11 DEF Alike, SameControl, Unopened
<1>13. Core(e, u, p, w) BY <1>4, <1>5, <1>12, AlikeCore
<1>14. Core(e, o, p, w)
    BY <1>5, <1>9, <1>10, <1>11, <1>12, AlikeCore DEF Alike
<1>15. Heard(o) BY <1>11 DEF Alike, SameNumbers, Heard
<1>16. Core(e, SendAck(o), p, w) /\ Alike(o, SendAck(o))
    BY <1>14, <1>15, SendAckCore
<1>17. Alike(s, SendAck(o))
    BY <1>11, <1>16 DEF Alike, SameNumbers, SameControl
<1>18. Core(e, t, p, w) /\ Alike(s, t)
    BY <1>7, <1>11, <1>13, <1>14, <1>16, <1>17
<1> QED BY <1>1, <1>18, AlikeAdvances DEF t

\* A SYN is queued.
LEMMA QueueControlCore ==
    ASSUME NEW e, NEW s, NEW p, NEW w, Core(e, s, p, w),
           NEW flags \in SUBSET Flags, NEW seq \in Nat,
           ItemOK(s, [seq |-> seq, len |-> 0, flags |-> flags])
    PROVE  LET t == QueueControl(s, flags, seq) IN
           Core(e, t, p, w) /\ Advances(s, t) /\ Alike(s, t)
<1> DEFINE i == [seq |-> seq, len |-> 0, flags |-> flags]
           items == {i}
           t == QueueSegments(s, items)
<1>1. s \in Socket /\ w \in Nat BY DEF Core
<1>2. i \in Item /\ ItemOK(s, i) BY DEF Item
<1>3. QueueControl(s, flags, seq) = t BY DEF QueueControl
<1> HIDE DEF i
<1>4. items \in SUBSET Item /\ \A j \in items : ItemOK(s, j) BY <1>2
<1> HIDE DEF items
<1>5. t \in Socket /\ SameControl(s, t)
    BY <1>1, <1>4, QueueSegmentsType DEF Transmits
<1>6. /\ SameNumbers(s, t) /\ t.probing = s.probing
      /\ t.rtxQ = s.rtxQ \cup items
      /\ t.sent = s.sent \cup {SegmentOf(s, j) : j \in items}
    BY <1>1, QueueSegmentsFields
<1> HIDE DEF t
<1>7. t.iss = s.iss /\ t.irs = s.irs /\ t.sndUna = s.sndUna
      /\ t.rcvNxt = s.rcvNxt /\ t.ooo = s.ooo /\ t.sndNxt = s.sndNxt
    BY <1>6 DEF SameNumbers
<1>8. \A j \in items : ItemOK(t, j) BY <1>4, <1>7 DEF ItemOK, Heard
<1>9. Numbers(e, t, w) BY <1>6 DEF Core, Numbers, SameNumbers
<1>10. t.sndNxt >= s.sndNxt BY <1>1, <1>7, SocketNumbers
<1>11. Core(e, t, p, w) /\ Advances(s, t)
    BY <1>1, <1>4, <1>5, <1>6, <1>7, <1>8, <1>9, <1>10, QueuesCore
<1> QED BY <1>3, <1>5, <1>6, <1>11 DEF Alike

\* The FIN of tcpShutdown takes the sequence number after the last byte.
LEMMA FinCore ==
    ASSUME NEW e, NEW s, NEW p, NEW w, Core(e, s, p, w), Heard(s), e \in Shutters,
           s.sndUser = 0, s.sndNxt = s.iss + 1 + w
    PROVE  LET t == [QueueControl(s, {"FIN", "ACK"}, s.sndNxt)
                       EXCEPT !.sndNxt = @ + 1] IN
           /\ Core(e, t, p, w) /\ Advances(s, t) /\ SameControl(s, t)
           /\ t.sndUser = 0 /\ t.sndNxt = t.iss + w + 2
           /\ t.rcvNxt = s.rcvNxt /\ t.probing = s.probing
<1> DEFINE flags == {"FIN", "ACK"}
           i == [seq |-> s.sndNxt, len |-> 0, flags |-> flags]
           items == {i}
           q == QueueSegments(s, items)
           n == q.sndNxt + 1
           t == [q EXCEPT !.sndNxt = n]
<1>1. s \in Socket /\ w \in Nat BY DEF Core
<1>2. flags \in SUBSET Flags /\ FinLength(flags) = 1
      /\ "RST" \notin flags /\ "SYN" \notin flags
    BY DEF Flags, FinLength
<1> HIDE DEF flags
<1>3. i \in Item BY <1>1, <1>2, SocketNumbers DEF Item
<1>4. i.seq = s.sndNxt /\ i.len = 0 /\ i.flags = flags OBVIOUS
<1>5. QueueControl(s, flags, s.sndNxt) = q BY DEF QueueControl
<1> HIDE DEF i
<1>6. items \in SUBSET Item /\ \A j \in items : j = i BY <1>3
<1> HIDE DEF items
<1>7. q \in Socket /\ SameControl(s, q)
    BY <1>1, <1>6, QueueSegmentsType DEF Transmits
<1>8. /\ SameNumbers(s, q) /\ q.probing = s.probing
      /\ q.rtxQ = s.rtxQ \cup items
      /\ q.sent = s.sent \cup {SegmentOf(s, j) : j \in items}
    BY <1>1, QueueSegmentsFields
<1>9. [q EXCEPT !.sndNxt = @ + 1] = t BY <1>7 DEF Socket
<1> HIDE DEF q
<1>10. n \in Nat /\ n = s.sndNxt + 1
    BY <1>1, <1>8, SocketNumbers DEF SameNumbers
<1> HIDE DEF n
<1>11. t \in Socket
    <2>1. q \in Socket /\ n \in Nat BY <1>7, <1>10
    <2> QED BY ZenonT(30), <2>1 DEF Socket
<1>12. /\ t.iss = q.iss /\ t.irs = q.irs /\ t.sndUna = q.sndUna /\ t.sndNxt = n
       /\ t.sndUser = q.sndUser /\ t.rcvNxt = q.rcvNxt /\ t.ooo = q.ooo
       /\ t.rtxQ = q.rtxQ /\ t.sent = q.sent /\ t.probing = q.probing
       /\ SameControl(q, t)
    BY <1>7 DEF SameControl, Socket
<1> HIDE DEF t
<1>13. t.iss = s.iss /\ t.irs = s.irs /\ t.sndUna = s.sndUna
       /\ t.rcvNxt = s.rcvNxt /\ t.ooo = s.ooo /\ t.sndUser = 0
    BY <1>8, <1>12 DEF SameNumbers
<1>14. SameControl(s, t) BY <1>7, <1>12 DEF SameControl
<1>15. Heard(t) BY <1>13 DEF Heard
<1>16. ItemOK(t, i)
    <2>1. t.iss <= s.sndNxt /\ s.sndNxt + 0 + 1 <= t.sndNxt
        BY <1>1, <1>10, <1>12, <1>13, SocketNumbers
    <2> QED BY <1>2, <1>4, <1>15, <2>1 DEF ItemOK
<1>17. \A j \in items : ItemOK(t, j) BY <1>6, <1>16
<1>18. FinNumber(e) = 1 BY DEF FinNumber
<1>19. Numbers(e, t, w)
    BY <1>1, <1>10, <1>12, <1>13, <1>18, SocketNumbers DEF Core, Numbers
<1>20. t.sndNxt >= s.sndNxt BY <1>1, <1>10, <1>12, SocketNumbers
<1>21. Core(e, t, p, w) /\ Advances(s, t)
    BY <1>1, <1>6, <1>8, <1>11, <1>12, <1>13, <1>14, <1>17, <1>19, <1>20, QueuesCore
<1>22. t.sndNxt = t.iss + w + 2
    BY <1>1, <1>10, <1>12, <1>13, SocketNumbers
<1> QED BY <1>5, <1>8, <1>9, <1>12, <1>13, <1>14, <1>21, <1>22 DEF flags

\* A connection starts, deaf or after a SYN of its peer, old or not.
LEMMA OpenedCore ==
    ASSUME NEW e \in Ends, NEW s, NEW p \in Socket, Good(s), Unopened(s),
           Blank(e, s, 0), NEW irs \in Nat, NEW nxt \in Nat,
           \/ nxt = 0
           \/ nxt = irs + 1 /\ (Foreign(e, irs) \/ (irs = p.iss /\ nxt <= p.sndNxt))
    PROVE  LET t == Opened(s, irs, nxt) IN
           /\ Core(e, t, p, 0) /\ Advances(s, t) /\ ~Unopened(t)
           /\ t.sndNxt = t.iss + 1 /\ t.sndUser = 0 /\ t.rcvNxt = nxt
           /\ ~t.probing /\ t.iss = s.iss /\ t.irs = irs
           /\ ~t.closedFlag /\ t.state = "CLOSED"
<1> DEFINE t == Opened(s, irs, nxt)
           n == s.iss + 1
           b == RxBufferSize
           c == 0
           u == [s EXCEPT !.type = "STREAM", !.owned = TRUE, !.irs = irs,
                          !.sndUna = s.iss, !.sndNxt = n,
                          !.rcvNxt = nxt, !.rcvUser = c, !.rcvWnd = b]
<1>1. s \in Socket BY DEF Good
<1>2. /\ t \in Socket /\ t.type = "STREAM" /\ t.ooo = {}
      /\ ~s.closedFlag /\ s.state = "CLOSED"
    BY OpenedGood DEF Good, Unopened
<1>3. t = u BY DEF Opened
<1>4. n = s.iss + 1 OBVIOUS
<1> HIDE DEF t, n, b, c
<1>5. /\ u.iss = s.iss /\ u.irs = irs /\ u.sndUna = s.iss /\ u.sndNxt = n
      /\ u.sndUser = s.sndUser /\ u.rcvNxt = nxt
      /\ u.rtxQ = s.rtxQ /\ u.sent = s.sent /\ u.probing = s.probing
      /\ u.closedFlag = s.closedFlag /\ u.state = s.state
    BY <1>1 DEF Socket
<1> HIDE DEF u
<1>6. /\ t.iss = Iss[e] /\ t.sndUna = t.iss /\ t.sndNxt = t.iss + 1
      /\ t.sndUser = 0 /\ t.rcvNxt = nxt /\ t.rtxQ = {} /\ ~t.probing
      /\ \A g \in t.sent : ~Live(g)
    BY <1>3, <1>4, <1>5 DEF Blank
<1>7. ~Unopened(t) BY <1>2 DEF Unopened
<1>8. Advances(s, t)
    BY <1>1, <1>2, <1>3, <1>5, <1>6, <1>7, SocketNumbers
       DEF Blank, Advances, Heard
<1>9. WriteLimit[e] \in Nat /\ FinNumber(e) \in Nat
    BY WriteAssumption DEF FinNumber
<1>10. Numbers(e, t, 0) BY <1>2, <1>6, <1>9, SocketNumbers DEF Numbers
<1>11. Deaf(t) \/ Right(t, p) \/ Mistaken(e, t)
    <2>1. CASE nxt = 0 BY <1>6, <2>1 DEF Deaf
    <2>2. CASE nxt = irs + 1 /\ Foreign(e, irs)
        BY <1>3, <1>5, <1>6, <2>2 DEF Mistaken
    <2>3. CASE nxt = irs + 1 /\ irs = p.iss /\ nxt <= p.sndNxt
        <3>1. Heard(t) BY <1>3, <1>5, <1>6, <2>3 DEF Heard
        <3> QED BY <1>2, <1>3, <1>5, <1>6, <2>3, <3>1 DEF Right
    <2> QED BY <2>1, <2>2, <2>3
<1>12. ~(t.sndUna > t.iss) BY <1>2, <1>6, SocketNumbers
<1>13. Agrees(e, t, p) BY <1>11, <1>12 DEF Agrees
<1>14. Core(e, t, p, 0) BY <1>2, <1>6, <1>10, <1>13 DEF Core
<1> QED BY <1>2, <1>3, <1>5, <1>6, <1>7, <1>8, <1>14 DEF t

-----------------------------------------------------------------------------
(* What arrives.                                                           *)

\* What an end does keeps right what its peer holds.
LEMMA PeerKept ==
    ASSUME NEW x, NEW p, NEW s, NEW v, Core(x, p, s, v), NEW t, Advances(s, t)
    PROVE  Core(x, p, t, v)
<1>1. s \in Socket /\ t \in Socket /\ p \in Socket BY DEF Core, Advances
<1>2. t.iss = s.iss /\ t.sndNxt >= s.sndNxt BY DEF Advances
<1>3. Right(p, s) => Right(p, t)
    <2> SUFFICES ASSUME Right(p, s) PROVE Right(p, t) OBVIOUS
    <2>1. p.rcvNxt <= t.sndNxt BY <1>1, <1>2, SocketNumbers DEF Right
    <2>2. \A n \in p.ooo : n < t.sndNxt
        <3> TAKE n \in p.ooo
        <3>1. n \in Nat BY <1>1, SocketNumbers
        <3> QED BY <1>1, <1>2, <3>1, SocketNumbers DEF Right
    <2> QED BY <1>2, <2>1, <2>2 DEF Right
<1>4. p.sndUna > p.iss => t.irs = p.iss /\ p.sndUna <= t.rcvNxt
    <2> SUFFICES ASSUME p.sndUna > p.iss PROVE t.irs = p.iss /\ p.sndUna <= t.rcvNxt
        OBVIOUS
    <2>1. s.irs = p.iss /\ p.sndUna <= s.rcvNxt BY DEF Core, Agrees
    <2>2. Heard(s) BY <1>1, <2>1, SocketNumbers DEF Heard
    <2> QED BY <1>1, <2>1, <2>2, SocketNumbers DEF Advances
<1> QED BY <1>1, <1>3, <1>4 DEF Core, Agrees

LEMMA PeerOfPeer ==
    ASSUME NEW e \in Ends
    PROVE  Peer(e) \in Ends /\ Peer(e) # e /\ Peer(Peer(e)) = e
           /\ Ends = {e, Peer(e)}
<1>1. PICK x \in Ends : Ends = {e, x} /\ e # x BY EndsAssumption
<1>2. Peer(e) = x BY <1>1 DEF Peer
<1>3. Peer(x) = e BY <1>1 DEF Peer
<1> QED BY <1>1, <1>2, <1>3

LEMMA LastNumberType ==
    ASSUME NEW e \in Ends
    PROVE  LastNumber(e) \in Nat /\ Iss[e] \in Nat /\ Iss[e] < LastNumber(e)
<1>1. Iss[e] \in Nat /\ WriteLimit[e] \in Nat BY IssAssumption, WriteAssumption
<1>2. FinNumber(e) \in Nat BY DEF FinNumber
<1> QED BY <1>1, <1>2 DEF LastNumber

\* No end sends its last number or one beyond.
LEMMA BelowLast ==
    ASSUME NEW e, NEW s, NEW p, NEW w, Core(e, s, p, w)
    PROVE  s.sndNxt <= LastNumber(e) /\ s.iss = Iss[e]
<1>1. s \in Socket /\ w \in Nat /\ e \in Ends BY DEF Core
<1>2. WriteLimit[e] \in Nat BY <1>1, WriteAssumption
<1>3. FinNumber(e) \in Nat BY DEF FinNumber
<1> QED BY <1>1, <1>2, <1>3, SocketNumbers DEF Core, Numbers, LastNumber

LEMMA SentSegment ==
    ASSUME NEW x, NEW p, NEW s, NEW v, EndOK(x, p, s, v), NEW g \in p.sent, Live(g)
    PROVE  Core(x, p, s, v) /\ SegmentOK(p, g) /\ ~Unopened(p)
<1>1. ~Unopened(p) BY DEF EndOK, Blank
<1> QED BY <1>1 DEF EndOK, Core

\* An acknowledgment of a number that was sent comes from a peer that heard it.
LEMMA AckIsHeard ==
    ASSUME StraysAreOld, NEW e \in Ends, NEW s, NEW p, NEW w, Core(e, s, p, w),
           NEW v, EndOK(Peer(e), p, s, v),
           NEW g \in Segment, g \in p.sent \cup Strays[e],
           Live(g), "ACK" \in g.flags, s.iss < g.ack, g.ack <= s.sndNxt
    PROVE  /\ g \in p.sent /\ Core(Peer(e), p, s, v) /\ SegmentOK(p, g)
           /\ p.irs = s.iss /\ g.ack <= p.rcvNxt
<1>1. s \in Socket /\ p \in Socket BY DEF Core
<1>2. g.ack \in Nat BY DEF Segment
<1>3. s.sndNxt <= LastNumber(e) /\ s.iss = Iss[e] BY BelowLast
<1>4. LastNumber(e) \in Nat /\ Iss[e] \in Nat BY LastNumberType
<1>5. g \in p.sent
    <2> SUFFICES ASSUME g \in Strays[e] PROVE FALSE OBVIOUS
    <2>1. g.ack > LastNumber(e) \/ g.ack < Iss[e] BY DEF StraysAreOld, OldSegment
    <2> QED BY <1>1, <1>2, <1>3, <1>4, <2>1, SocketNumbers
<1>6. Core(Peer(e), p, s, v) /\ SegmentOK(p, g) BY <1>5, SentSegment
<1>7. Heard(p) /\ p.irs < g.ack /\ g.ack <= p.rcvNxt BY <1>6 DEF SegmentOK
<1>8. ~Deaf(p) BY <1>1, <1>7, SocketNumbers DEF Deaf, Heard
<1>9. ~Mistaken(Peer(e), p)
    <2> SUFFICES ASSUME Mistaken(Peer(e), p) PROVE FALSE OBVIOUS
    <2>1. p.rcvNxt = p.irs + 1 BY DEF Mistaken
    <2>2. p.irs >= LastNumber(e) \/ p.irs + RxBufferSize + 1 < Iss[e]
        BY PeerOfPeer DEF Mistaken, Foreign
    <2> QED BY <1>1, <1>2, <1>3, <1>4, <1>7, <2>1, <2>2, SocketNumbers,
               RxBufferAssumption
<1>10. Right(p, s) BY <1>6, <1>8, <1>9 DEF Core, Agrees
<1> QED BY <1>5, <1>6, <1>7, <1>10 DEF Right

\* An end that took an old SYN accepts nothing of what its peer sends.
LEMMA MistakenRefuses ==
    ASSUME NEW e \in Ends, NEW s \in Socket, WindowFits(s), Mistaken(e, s),
           NEW p, NEW v, Core(Peer(e), p, s, v),
           NEW g \in Segment, SegmentOK(p, g), "SYN" \notin View(s, g).flags
    PROVE  ~Acceptable(s, View(s, g))
<1> DEFINE x == Peer(e)
<1>1. p \in Socket BY DEF Core
<1>2. /\ g.seq \in Nat /\ Len(g.data) \in Nat /\ g.data \in Seq(Byte)
      /\ g.data # << >> => Len(g.data) > 0
    BY DEF Segment
<1>3. p.sndNxt <= LastNumber(x) /\ p.iss = Iss[x] BY BelowLast
<1>4. LastNumber(x) \in Nat /\ Iss[x] \in Nat /\ Iss[x] < LastNumber(x)
    BY PeerOfPeer, LastNumberType
<1>5. /\ s.rcvNxt = s.irs + 1 /\ s.irs \in Nat /\ s.rcvWnd \in Nat
      /\ s.rcvWnd <= RxBufferSize /\ RxBufferSize \in Nat \ {0}
    BY SocketNumbers, RxBufferAssumption DEF Mistaken, WindowFits
<1>6. FinLength(g.flags) \in Nat BY DEF FinLength
<1>7. /\ Iss[x] - 1 <= g.seq
      /\ g.seq + Len(g.data) <= LastNumber(x)
    BY <1>1, <1>2, <1>3, <1>4, <1>6, SocketNumbers DEF SegmentOK
<1>8. s.irs >= LastNumber(x) \/ s.irs + RxBufferSize + 1 < Iss[x]
    BY DEF Mistaken, Foreign
<1> HIDE DEF x
<1>9. View(s, g) = g
    <2> SUFFICES ASSUME "SYN" \in g.flags, g.seq = s.irs PROVE FALSE BY DEF View
    <2>1. s.irs = Iss[x] BY <1>3 DEF SegmentOK
    <2> QED BY <1>4, <1>5, <1>8, <2>1
<1>10. \A n \in Int : Iss[x] - 1 <= n /\ n <= LastNumber(x) =>
          ~(s.rcvNxt <= n /\ n < s.rcvNxt + s.rcvWnd) /\ n # s.rcvNxt
    BY <1>4, <1>5, <1>8
<1>11. CASE g.data = << >>
    <2>1. g.seq \in Int /\ Iss[x] - 1 <= g.seq /\ g.seq <= LastNumber(x)
        BY <1>2, <1>4, <1>7
    <2> QED BY <1>9, <1>10, <1>11, <2>1 DEF Acceptable
<1>12. CASE g.data # << >>
    <2>1. g.seq \in Int /\ Iss[x] - 1 <= g.seq /\ g.seq <= LastNumber(x)
        BY <1>2, <1>4, <1>7
    <2>2. /\ g.seq + Len(g.data) - 1 \in Int
          /\ Iss[x] - 1 <= g.seq + Len(g.data) - 1
          /\ g.seq + Len(g.data) - 1 <= LastNumber(x)
        BY <1>2, <1>4, <1>7, <1>12
    <2> QED BY <1>9, <1>10, <1>12, <2>1, <2>2 DEF Acceptable
<1> QED BY <1>11, <1>12

\* A segment whose acknowledgment and whose data are true.
Harmless(s, p, g) ==
    /\ g.ack > s.sndUna => Right(s, p) /\ p.irs = s.iss /\ g.ack <= p.rcvNxt
    /\ g.data # << >> \/ "FIN" \in g.flags =>
          Right(s, p) /\ g.seq + Len(g.data) + FinLength(g.flags) <= p.sndNxt

LEMMA ViewFields ==
    ASSUME NEW s, NEW g \in Segment
    PROVE  LET v == View(s, g) IN
           /\ v.ack = g.ack /\ v.data = g.data
           /\ \A f \in {"ACK", "RST", "FIN"} : f \in v.flags <=> f \in g.flags
           /\ v = g \/ "SYN" \in g.flags
<1> DEFINE f == g.flags \ {"SYN"}
           n == g.seq + 1
           v == [g EXCEPT !.flags = f, !.seq = n]
<1>1. View(s, g) = g \/ (View(s, g) = v /\ "SYN" \in g.flags) BY DEF View, Segment
<1>2. \A x \in {"ACK", "RST", "FIN"} : x \in f <=> x \in g.flags OBVIOUS
<1> HIDE DEF f, n
<1>3. v.ack = g.ack /\ v.data = g.data /\ v.flags = f BY DEF Segment
<1> HIDE DEF v
<1> QED BY <1>1, <1>2, <1>3

LEMMA PassesHarmless ==
    ASSUME StraysAreOld, NEW e \in Ends, NEW s, NEW p, NEW w, Core(e, s, p, w),
           WindowFits(s), s.rcvNxt > 0, NEW v, EndOK(Peer(e), p, s, v),
           NEW g \in Segment, g \in p.sent \cup Strays[e],
           Passes(s, View(s, g)), g.ack <= s.sndNxt
    PROVE  Harmless(s, p, View(s, g))
<1> DEFINE u == View(s, g)
<1>1. s \in Socket /\ p \in Socket /\ s.iss <= s.sndUna BY DEF Core, Numbers
<1>2. /\ u.ack = g.ack /\ u.data = g.data
      /\ ("ACK" \in u.flags <=> "ACK" \in g.flags)
      /\ ("RST" \in u.flags <=> "RST" \in g.flags)
      /\ ("FIN" \in u.flags <=> "FIN" \in g.flags)
      /\ (u = g \/ "SYN" \in g.flags)
    BY ViewFields
<1>3. /\ Acceptable(s, u) /\ "ACK" \in u.flags /\ "RST" \notin u.flags
      /\ "SYN" \notin u.flags
    BY DEF Passes
<1> HIDE DEF u
<1>4. Live(g) /\ "ACK" \in g.flags BY <1>2, <1>3 DEF Live
<1>5. g.ack \in Nat BY DEF Segment
<1>6. g \in p.sent => Core(Peer(e), p, s, v) /\ SegmentOK(p, g) /\ Right(s, p)
    <2> SUFFICES ASSUME g \in p.sent
                 PROVE  Core(Peer(e), p, s, v) /\ SegmentOK(p, g) /\ Right(s, p)
        OBVIOUS
    <2>1. Core(Peer(e), p, s, v) /\ SegmentOK(p, g) BY <1>4, SentSegment
    <2>2. ~Mistaken(e, s) BY <1>1, <1>3, <2>1, MistakenRefuses DEF u
    <2>3. ~Deaf(s) BY <1>1, SocketNumbers DEF Deaf
    <2> QED BY <2>1, <2>2, <2>3 DEF Core, Agrees
<1>7. u.ack > s.sndUna => Right(s, p) /\ p.irs = s.iss /\ u.ack <= p.rcvNxt
    <2> SUFFICES ASSUME g.ack > s.sndUna
                 PROVE  Right(s, p) /\ p.irs = s.iss /\ g.ack <= p.rcvNxt
        BY <1>2
    <2>1. s.iss < g.ack BY <1>1, <1>5, SocketNumbers
    <2>2. g \in p.sent /\ p.irs = s.iss /\ g.ack <= p.rcvNxt
        BY <1>4, <2>1, AckIsHeard
    <2> QED BY <1>6, <2>2
<1>8. u.data # << >> \/ "FIN" \in u.flags =>
         Right(s, p) /\ u.seq + Len(u.data) + FinLength(u.flags) <= p.sndNxt
    <2> SUFFICES ASSUME u.data # << >> \/ "FIN" \in u.flags
                 PROVE  /\ Right(s, p)
                        /\ u.seq + Len(u.data) + FinLength(u.flags) <= p.sndNxt
        OBVIOUS
    <2>1. g \in p.sent
        <3> SUFFICES ASSUME g \in Strays[e] PROVE FALSE OBVIOUS
        <3>1. OldSegment(e, g) BY <1>4 DEF StraysAreOld
        <3>2. g.ack > LastNumber(e) BY <1>2, <1>4, <3>1 DEF OldSegment
        <3>3. s.sndNxt <= LastNumber(e) BY BelowLast
        <3> QED BY <1>1, <1>5, <3>2, <3>3, SocketNumbers, LastNumberType
    <2>2. SegmentOK(p, g) /\ Right(s, p) BY <1>6, <2>1
    <2>3. u = g BY <1>2, <2>2 DEF SegmentOK
    <2> QED BY <2>2, <2>3 DEF SegmentOK
<1> QED BY <1>7, <1>8 DEF Harmless, u

-----------------------------------------------------------------------------
(* The handlers.                                                           *)

\* An end of which only the receive side advanced.
TakesFrom(s, t) ==
    /\ Advances(s, t) /\ SameControl(s, t)
    /\ t.sndUna = s.sndUna /\ t.sndNxt = s.sndNxt /\ t.sndUser = s.sndUser

LEMMA SynchronizedHears ==
    ASSUME NEW e, NEW s, NEW p, NEW w, Core(e, s, p, w), Phase(s, w),
           s.state # "CLOSED", s.state # "SYN_SENT"
    PROVE  s.rcvNxt > 0 /\ Heard(s)
<1>1. s \in Socket /\ s.rcvNxt > 0 BY DEF Core, Phase
<1> QED BY <1>1, SocketNumbers DEF Core, Agrees, Deaf, Right, Mistaken, Heard

LEMMA HeardOnward ==
    ASSUME NEW s \in Socket, Heard(s), NEW t, Advances(s, t)
    PROVE  Heard(t) /\ t.rcvNxt > 0
BY SocketNumbers DEF Advances, Heard

\* tcpProcessSegmentData on a true segment, and the FIN when it is reached.
LEMMA AfterDataCore ==
    ASSUME NEW e, NEW s, NEW p, NEW w, Core(e, s, p, w), Heard(s),
           Good(s), s.type = "STREAM", s.state \in Receiving, s.state # "SYN_SENT",
           NEW g \in Segment,
           g.data # << >> \/ "FIN" \in g.flags =>
              Right(s, p) /\ g.seq + Len(g.data) + FinLength(g.flags) <= p.sndNxt
    PROVE  LET d == ProcessSegmentData(s, g)
               f == TakeFin(d) IN
           /\ Core(e, d, p, w) /\ TakesFrom(s, d)
           /\ FinReached(d, g) => Core(e, f, p, w) /\ TakesFrom(s, f)
<1> DEFINE d == ProcessSegmentData(s, g)
           f == TakeFin(d)
<1>1. s \in Socket /\ p \in Socket /\ WindowFits(s) /\ GapsInside(s)
    BY DEF Core, Good
<1>2. g.seq \in Nat /\ Len(g.data) \in Nat BY DEF Segment
<1>3. FinLength(g.flags) \in Nat /\ ("FIN" \in g.flags => FinLength(g.flags) = 1)
    BY DEF FinLength
<1>4. g.data # << >> => Right(s, p) /\ g.seq + Len(g.data) <= p.sndNxt
    BY <1>1, <1>2, <1>3, SocketNumbers
<1>5. /\ Core(e, d, p, w) /\ Advances(s, d) /\ SameControl(s, d)
      /\ d.iss = s.iss /\ d.sndUna = s.sndUna /\ d.sndNxt = s.sndNxt
      /\ d.sndUser = s.sndUser
      /\ Right(s, p) => Right(d, p)
    BY <1>1, <1>4, ProcessSegmentDataCore
<1>6. WindowFits(d)
    <2>1. s.state \in Receiving \ {"SYN_SENT"} OBVIOUS
    <2> QED BY <2>1, AfterDataGood DEF Evolves, Good
<1> HIDE DEF d
<1>7. TakesFrom(s, d) BY <1>5 DEF TakesFrom
<1>8. ASSUME FinReached(d, g)
      PROVE  Core(e, f, p, w) /\ TakesFrom(s, f)
    <2>1. "FIN" \in g.flags /\ d.rcvNxt = g.seq + Len(g.data)
        BY <1>8 DEF FinReached
    <2>2. Right(d, p) /\ d.rcvNxt + 1 <= p.sndNxt
        BY <1>1, <1>2, <1>3, <1>5, <2>1, SocketNumbers
    <2>3. /\ Core(e, f, p, w) /\ Advances(d, f) /\ SameControl(d, f)
          /\ f.sndUna = d.sndUna /\ f.sndNxt = d.sndNxt /\ f.sndUser = d.sndUser
        BY <1>5, <1>6, <2>2, TakeFinCore
    <2> HIDE DEF f
    <2>4. Advances(s, f) BY <1>1, <1>5, <2>3, AdvancesTransitive
    <2>5. SameControl(s, f) BY <1>5, <2>3 DEF SameControl
    <2> QED BY <1>5, <2>3, <2>4, <2>5 DEF TakesFrom
<1> QED BY <1>5, <1>7, <1>8 DEF d, f

\* A step of an end that keeps what is to be kept.
Settles(e, s, p, w, t) == Core(e, t, p, w) /\ Advances(s, t) /\ Phase(t, w)

\* Entry in a state, when its numbers are right.
LEMMA EntersCore ==
    ASSUME NEW e, NEW s \in Socket, Heard(s), NEW p, NEW w, NEW f, Core(e, f, p, w),
           Advances(s, f), NEW state \in States,
           state # "SYN_SENT", state # "SYN_RECEIVED",
           state = "ESTABLISHED" \/ state = "CLOSE_WAIT" =>
               f.sndNxt + f.sndUser = f.iss + 1 + w,
           state \in Finishing => f.sndUser = 0 /\ f.sndNxt = f.iss + w + 2,
           state = "FIN_WAIT_2" \/ state = "TIME_WAIT" => f.sndUna = f.sndNxt
    PROVE  Settles(e, s, p, w, ChangeState(f, state))
<1> DEFINE t == ChangeState(f, state)
<1>1. /\ Core(e, t, p, w) /\ Advances(f, t) /\ SameNumbers(f, t)
      /\ t.state = state
    BY ChangeStateCore
<1> HIDE DEF t
<1>2. Advances(s, t) BY <1>1, AdvancesTransitive
<1>3. t.rcvNxt > 0 BY <1>2, HeardOnward
<1>4. Phase(t, w) BY <1>1, <1>3 DEF Phase, SameNumbers
<1> QED BY <1>1, <1>2, <1>4 DEF Settles, t

LEMMA TimeWaitCore ==
    ASSUME NEW e, NEW s \in Socket, Heard(s), NEW p, NEW w, NEW f, Core(e, f, p, w),
           Advances(s, f), f.sndUser = 0, f.sndNxt = f.iss + w + 2,
           f.sndUna = f.sndNxt
    PROVE  Settles(e, s, p, w, TimeWait(f))
<1> DEFINE d == DeleteControlBlock(f)
           state == "TIME_WAIT"
<1>1. Core(e, d, p, w) /\ Advances(f, d) /\ SameNumbers(f, d)
    BY DeleteControlBlockCore
<1> HIDE DEF d
<1>2. Advances(s, d) BY <1>1, AdvancesTransitive
<1>3. /\ d.sndUser = 0 /\ d.sndNxt = d.iss + w + 2 /\ d.sndUna = d.sndNxt
    BY <1>1 DEF SameNumbers
<1>4. state \in States /\ state # "SYN_SENT" /\ state # "SYN_RECEIVED"
      /\ state # "ESTABLISHED" /\ state # "CLOSE_WAIT"
    BY DEF States
<1> HIDE DEF state
<1>5. Settles(e, s, p, w, ChangeState(d, state))
    BY <1>1, <1>2, <1>3, <1>4, EntersCore
<1> QED BY <1>5 DEF TimeWait, d, state

\* A state that stays, while the receive side advances.
LEMMA TakesFromSettles ==
    ASSUME NEW e, NEW s \in Socket, Heard(s), NEW p, NEW w, NEW f, Core(e, f, p, w),
           Advances(s, f), Phase(f, w), f.state # "SYN_SENT",
           NEW t, Core(e, t, p, w), TakesFrom(f, t)
    PROVE  Settles(e, s, p, w, t)
<1>1. Advances(s, t) BY AdvancesTransitive DEF TakesFrom
<1>2. t.rcvNxt > 0 BY <1>1, HeardOnward
<1>3. t.iss = f.iss BY DEF TakesFrom, Advances
<1>4. Phase(t, w) BY <1>2, <1>3 DEF Phase, TakesFrom, SameControl
<1> QED BY <1>1, <1>4 DEF Settles

\* tcpCheckAck on a true acknowledgment.
LEMMA CheckAckSettles ==
    ASSUME NEW e, NEW s, NEW p, NEW w, Core(e, s, p, w), Phase(s, w),
           s.state # "CLOSED", s.state # "SYN_SENT",
           NEW g \in Segment, g.ack <= s.sndNxt, Harmless(s, p, g)
    PROVE  LET t == CheckAck(s, g) IN
           /\ Settles(e, s, p, w, t) /\ SameControl(s, t)
           /\ t.sndNxt = s.sndNxt /\ Heard(t)
           /\ g.ack = s.sndNxt => t.sndUna = t.sndNxt
           /\ g.data # << >> \/ "FIN" \in g.flags =>
                 /\ Right(t, p)
                 /\ g.seq + Len(g.data) + FinLength(g.flags) <= p.sndNxt
<1> DEFINE t == CheckAck(s, g)
<1>1. s \in Socket /\ s.sndUna <= s.sndNxt BY DEF Core, Numbers
<1>2. Heard(s) BY SynchronizedHears
<1>3. /\ Core(e, t, p, w) /\ Advances(s, t) /\ SameControl(s, t)
      /\ t.iss = s.iss /\ t.sndNxt = s.sndNxt /\ t.sndUser = s.sndUser
      /\ t.irs = s.irs /\ t.rcvNxt = s.rcvNxt /\ t.ooo = s.ooo
      /\ g.ack >= s.sndUna => t.sndUna = g.ack
      /\ t.sndUna >= s.sndUna
    BY CheckAckCore DEF Harmless
<1> HIDE DEF t
<1>4. t \in Socket /\ t.sndUna <= t.sndNxt BY <1>3 DEF Core, Numbers
<1>5. s.sndUna = s.sndNxt => t.sndUna = t.sndNxt
    BY <1>1, <1>3, <1>4, SocketNumbers
<1>6. g.ack = s.sndNxt => t.sndUna = t.sndNxt
    BY <1>1, <1>3, SocketNumbers
<1>7. Phase(t, w) BY <1>3, <1>5 DEF Phase, SameControl
<1>8. Heard(t) BY <1>2, <1>3 DEF Heard
<1>9. Right(s, p) => Right(t, p) BY <1>3, <1>8 DEF Right
<1> QED BY <1>3, <1>6, <1>7, <1>8, <1>9 DEF Settles, Harmless, t

\* The segment that a handler takes: what the tests left, and what it is worth.
Worthy(s, p, g) == g \in Segment /\ g.ack <= s.sndNxt /\ Harmless(s, p, g)

LEMMA NagleSettles ==
    ASSUME NEW e, NEW s \in Socket, NEW p, NEW w, NEW f, Settles(e, s, p, w, f),
           Heard(f), NEW flag
    PROVE  Settles(e, s, p, w, NagleAlgo(f, flag))
<1> DEFINE t == NagleAlgo(f, flag)
<1>1. Core(e, f, p, w) /\ Advances(s, f) /\ Phase(f, w) BY DEF Settles
<1>2. Core(e, t, p, w) /\ Advances(f, t) /\ Sends(f, t) BY <1>1, NagleAlgoCore
<1> HIDE DEF t
<1>3. Advances(s, t) BY <1>1, <1>2, AdvancesTransitive
<1>4. Phase(t, w) BY <1>1, <1>2, SendsPhase DEF Core
<1> QED BY <1>2, <1>3, <1>4 DEF Settles, t

\* What tcpStateEstablished has done when it calls tcpNagleAlgo.
EstablishedTakes(s, g) ==
    LET d == AfterData(s, g)
    IN  IF FinReached(d, g) THEN ChangeState(TakeFin(d), "CLOSE_WAIT") ELSE d

LEMMA EstablishedTakesSettles ==
    ASSUME NEW e, NEW s, NEW p, NEW w, Core(e, s, p, w), Phase(s, w), Good(s),
           s.state = "ESTABLISHED", NEW g, Worthy(s, p, g)
    PROVE  LET h == EstablishedTakes(s, g) IN
           Settles(e, s, p, w, h) /\ Heard(h)
<1> DEFINE a == CheckAck(s, g)
           d == ProcessSegmentData(a, g)
           f == TakeFin(d)
           c == ChangeState(f, "CLOSE_WAIT")
           h == IF FinReached(d, g) THEN c ELSE d
<1>1. s \in Socket /\ g \in Segment /\ Heard(s)
    BY SynchronizedHears DEF Good, Worthy
<1>2. /\ Settles(e, s, p, w, a) /\ SameControl(s, a) /\ Heard(a)
      /\ g.data # << >> \/ "FIN" \in g.flags =>
            Right(a, p) /\ g.seq + Len(g.data) + FinLength(g.flags) <= p.sndNxt
    BY <1>1, CheckAckSettles DEF Worthy
<1>3. Good(a) BY <1>1, CheckAckGood DEF Evolves
<1>4. EstablishedTakes(s, g) = h BY DEF EstablishedTakes, AfterData
<1> HIDE DEF a
<1>5. a.state = "ESTABLISHED" /\ a.type = "STREAM"
    BY <1>2, <1>3, GoodStream DEF SameControl
<1>6. /\ a.state \in Receiving /\ a.state # "SYN_SENT"
      /\ Core(e, a, p, w) /\ Advances(s, a) /\ Phase(a, w)
    BY <1>2, <1>5 DEF Receiving, Settles
<1>7. /\ Core(e, d, p, w) /\ TakesFrom(a, d)
      /\ FinReached(d, g) => Core(e, f, p, w) /\ TakesFrom(a, f)
    BY <1>1, <1>2, <1>3, <1>5, <1>6, AfterDataCore
<1> HIDE DEF d, f
<1>8. Settles(e, s, p, w, d) BY <1>1, <1>6, <1>7, TakesFromSettles
<1>9. ASSUME FinReached(d, g) PROVE Settles(e, s, p, w, c)
    <2>1. Core(e, f, p, w) /\ TakesFrom(a, f) BY <1>7, <1>9
    <2>2. Advances(s, f) BY <1>1, <1>6, <2>1, AdvancesTransitive DEF TakesFrom
    <2>3. f.sndNxt + f.sndUser = f.iss + 1 + w
        BY <1>5, <1>6, <2>1 DEF Phase, TakesFrom, Advances
    <2>4. "CLOSE_WAIT" \in States /\ "CLOSE_WAIT" \notin Finishing
        BY DEF States, Finishing
    <2> QED BY <1>1, <2>1, <2>2, <2>3, <2>4, EntersCore
<1>10. Settles(e, s, p, w, h) BY <1>8, <1>9
<1> HIDE DEF h
<1>11. Heard(h) BY <1>1, <1>10, HeardOnward DEF Settles
<1> QED BY <1>4, <1>10, <1>11 DEF h

LEMMA EstablishedHandlerSettles ==
    ASSUME NEW e, NEW s, NEW p, NEW w, Core(e, s, p, w), Phase(s, w), Good(s),
           s.state = "ESTABLISHED", NEW g, Worthy(s, p, g)
    PROVE  Settles(e, s, p, w, EstablishedHandler(s, g))
<1> DEFINE h == EstablishedTakes(s, g)
<1>1. EstablishedHandler(s, g) = NagleAlgo(h, "NONE")
    BY DEF EstablishedHandler, EstablishedTakes
<1>2. Settles(e, s, p, w, h) /\ Heard(h) BY EstablishedTakesSettles
<1>3. s \in Socket BY DEF Good
<1> HIDE DEF h
<1> QED BY <1>1, <1>2, <1>3, NagleSettles

LEMMA CloseWaitHandlerSettles ==
    ASSUME NEW e, NEW s, NEW p, NEW w, Core(e, s, p, w), Phase(s, w), Good(s),
           s.state = "CLOSE_WAIT", NEW g, Worthy(s, p, g)
    PROVE  Settles(e, s, p, w, CloseWaitHandler(s, g))
<1>1. s \in Socket /\ g \in Segment BY DEF Good, Worthy
<1>2. Settles(e, s, p, w, CheckAck(s, g)) /\ Heard(CheckAck(s, g))
    BY <1>1, CheckAckSettles DEF Worthy
<1> QED BY <1>1, <1>2, NagleSettles DEF CloseWaitHandler

\* Data and FIN in the states that wait for the FIN of the peer.
LEMMA WaitingData ==
    ASSUME NEW e, NEW s \in Socket, Heard(s), NEW p, NEW w,
           NEW b, Settles(e, s, p, w, b), Good(b),
           b.state = "FIN_WAIT_1" \/ b.state = "FIN_WAIT_2",
           NEW g \in Segment,
           g.data # << >> \/ "FIN" \in g.flags =>
              Right(b, p) /\ g.seq + Len(g.data) + FinLength(g.flags) <= p.sndNxt
    PROVE  LET d == ProcessSegmentData(b, g) IN
           /\ Settles(e, s, p, w, d)
           /\ FinReached(d, g) =>
                 /\ Settles(e, s, p, w, ChangeState(TakeFin(d), "CLOSING"))
                 /\ b.sndUna = b.sndNxt => Settles(e, s, p, w, TimeWait(TakeFin(d)))
<1> DEFINE d == ProcessSegmentData(b, g)
           f == TakeFin(d)
<1>1. Core(e, b, p, w) /\ Advances(s, b) /\ Phase(b, w) BY DEF Settles
<1>2. b.type = "STREAM" /\ b.state \in Receiving /\ b.state # "SYN_SENT"
    BY GoodStream DEF Receiving
<1>3. Heard(b) BY <1>1, HeardOnward
<1>4. /\ Core(e, d, p, w) /\ TakesFrom(b, d)
      /\ FinReached(d, g) => Core(e, f, p, w) /\ TakesFrom(b, f)
    BY <1>1, <1>2, <1>3, AfterDataCore
<1> HIDE DEF d, f
<1>5. Settles(e, s, p, w, d) BY <1>1, <1>2, <1>4, TakesFromSettles
<1>6. ASSUME FinReached(d, g)
      PROVE  /\ Settles(e, s, p, w, ChangeState(f, "CLOSING"))
             /\ b.sndUna = b.sndNxt => Settles(e, s, p, w, TimeWait(f))
    <2>1. Core(e, f, p, w) /\ TakesFrom(b, f) BY <1>4, <1>6
    <2>2. Advances(s, f) BY <1>1, <2>1, AdvancesTransitive DEF TakesFrom
    <2>3. b.sndUser = 0 /\ b.sndNxt = b.iss + w + 2 BY <1>1 DEF Phase, Finishing
    <2>4. f.sndUser = 0 /\ f.sndNxt = f.iss + w + 2
          /\ (b.sndUna = b.sndNxt => f.sndUna = f.sndNxt)
        BY <2>1, <2>3 DEF TakesFrom, Advances
    <2>5. "CLOSING" \in States BY DEF States
    <2>6. Settles(e, s, p, w, ChangeState(f, "CLOSING"))
        BY <2>1, <2>2, <2>4, <2>5, EntersCore
    <2>7. b.sndUna = b.sndNxt => Settles(e, s, p, w, TimeWait(f))
        BY <2>1, <2>2, <2>4, TimeWaitCore
    <2> QED BY <2>6, <2>7
<1> QED BY <1>5, <1>6 DEF d, f

LEMMA FinWait1HandlerSettles ==
    ASSUME NEW e, NEW s, NEW p, NEW w, Core(e, s, p, w), Phase(s, w), Good(s),
           s.state = "FIN_WAIT_1", NEW g, Worthy(s, p, g)
    PROVE  Settles(e, s, p, w, FinWait1Handler(s, g))
<1> DEFINE a == CheckAck(s, g)
           acked == g.ack = a.sndNxt
           c == ChangeState(a, "FIN_WAIT_2")
           b == IF acked THEN c ELSE a
           d == ProcessSegmentData(b, g)
<1>1. s \in Socket /\ g \in Segment /\ Heard(s)
    BY SynchronizedHears DEF Good, Worthy
<1>2. /\ Settles(e, s, p, w, a) /\ SameControl(s, a) /\ Heard(a)
      /\ a.sndNxt = s.sndNxt
      /\ g.ack = s.sndNxt => a.sndUna = a.sndNxt
      /\ g.data # << >> \/ "FIN" \in g.flags =>
            Right(a, p) /\ g.seq + Len(g.data) + FinLength(g.flags) <= p.sndNxt
    BY <1>1, CheckAckSettles DEF Worthy
<1>3. Good(a) BY <1>1, CheckAckGood DEF Evolves
<1>4. FinWait1Handler(s, g) = IF ~FinReached(d, g) THEN d
                              ELSE IF acked THEN TimeWait(TakeFin(d))
                              ELSE ChangeState(TakeFin(d), "CLOSING")
    BY DEF FinWait1Handler
<1> HIDE DEF a, acked
<1>5. a.state = "FIN_WAIT_1" /\ a.type = "STREAM"
    BY <1>2, <1>3, GoodStream DEF SameControl
<1>6. Core(e, a, p, w) /\ Advances(s, a) /\ Phase(a, w) BY <1>2 DEF Settles
<1>7. acked => a.sndUna = a.sndNxt BY <1>2 DEF acked
<1>8. "FIN_WAIT_2" \in States /\ a.state \in Receiving
    BY <1>5 DEF States, Receiving
<1>9. SameNumbers(a, c) /\ c.state = "FIN_WAIT_2" BY <1>6, <1>8, ChangeStateCore
<1>10. Good(c) BY <1>3, <1>5, <1>8, ReceivingStateGood DEF Evolves
<1>11. acked => Settles(e, s, p, w, c)
    <2>1. a.sndUser = 0 /\ a.sndNxt = a.iss + w + 2
        BY <1>5, <1>6 DEF Phase, Finishing
    <2> QED BY <1>1, <1>6, <1>7, <1>8, <2>1, EntersCore
<1> HIDE DEF c
<1>12. /\ Settles(e, s, p, w, b) /\ Good(b)
       /\ b.state = "FIN_WAIT_1" \/ b.state = "FIN_WAIT_2"
       /\ acked => b.sndUna = b.sndNxt
       /\ Right(a, p) => Right(b, p)
    BY <1>2, <1>3, <1>5, <1>7, <1>9, <1>10, <1>11
       DEF SameNumbers, Right, Heard
<1> HIDE DEF b
<1>13. /\ Settles(e, s, p, w, d)
       /\ FinReached(d, g) =>
             /\ Settles(e, s, p, w, ChangeState(TakeFin(d), "CLOSING"))
             /\ b.sndUna = b.sndNxt => Settles(e, s, p, w, TimeWait(TakeFin(d)))
    BY <1>1, <1>2, <1>12, WaitingData
<1> HIDE DEF d
<1> QED BY <1>4, <1>12, <1>13

LEMMA FinWait2HandlerSettles ==
    ASSUME NEW e, NEW s, NEW p, NEW w, Core(e, s, p, w), Phase(s, w), Good(s),
           s.state = "FIN_WAIT_2", NEW g, Worthy(s, p, g)
    PROVE  Settles(e, s, p, w, FinWait2Handler(s, g))
<1> DEFINE a == CheckAck(s, g)
           d == ProcessSegmentData(a, g)
<1>1. s \in Socket /\ g \in Segment /\ Heard(s)
    BY SynchronizedHears DEF Good, Worthy
<1>2. /\ Settles(e, s, p, w, a) /\ SameControl(s, a)
      /\ g.data # << >> \/ "FIN" \in g.flags =>
            Right(a, p) /\ g.seq + Len(g.data) + FinLength(g.flags) <= p.sndNxt
    BY <1>1, CheckAckSettles DEF Worthy
<1>3. Good(a) BY <1>1, CheckAckGood DEF Evolves
<1>4. FinWait2Handler(s, g) = IF FinReached(d, g) THEN TimeWait(TakeFin(d)) ELSE d
    BY DEF FinWait2Handler, AfterData
<1> HIDE DEF a
<1>5. a.state = "FIN_WAIT_2" BY <1>2 DEF SameControl
<1>6. a.sndUna = a.sndNxt BY <1>2, <1>5 DEF Settles, Phase
<1>7. /\ Settles(e, s, p, w, d)
      /\ FinReached(d, g) /\ a.sndUna = a.sndNxt =>
            Settles(e, s, p, w, TimeWait(TakeFin(d)))
    BY <1>1, <1>2, <1>3, <1>5, WaitingData
<1> HIDE DEF d
<1> QED BY <1>4, <1>6, <1>7

LEMMA ClosingHandlerSettles ==
    ASSUME NEW e, NEW s, NEW p, NEW w, Core(e, s, p, w), Phase(s, w), Good(s),
           s.state = "CLOSING", NEW g, Worthy(s, p, g)
    PROVE  Settles(e, s, p, w, ClosingHandler(s, g))
<1> DEFINE a == CheckAck(s, g)
<1>1. s \in Socket /\ g \in Segment /\ Heard(s)
    BY SynchronizedHears DEF Good, Worthy
<1>2. /\ Settles(e, s, p, w, a) /\ SameControl(s, a) /\ a.sndNxt = s.sndNxt
      /\ g.ack = s.sndNxt => a.sndUna = a.sndNxt
    BY <1>1, CheckAckSettles DEF Worthy
<1>3. ClosingHandler(s, g) = IF g.ack = a.sndNxt THEN TimeWait(a) ELSE a
    BY DEF ClosingHandler
<1> HIDE DEF a
<1>4. Core(e, a, p, w) /\ Advances(s, a) /\ Phase(a, w) BY <1>2 DEF Settles
<1>5. a.sndUser = 0 /\ a.sndNxt = a.iss + w + 2
    BY <1>2, <1>4 DEF Phase, Finishing, SameControl
<1>6. g.ack = a.sndNxt => Settles(e, s, p, w, TimeWait(a))
    BY <1>1, <1>2, <1>4, <1>5, TimeWaitCore
<1> QED BY <1>2, <1>3, <1>6

-----------------------------------------------------------------------------
(* The steps.                                                              *)

\* A step of one end.
LEMMA EndStep ==
    ASSUME IInv, AInv, NEW e \in Ends, NEW t, NEW v,
           EndOK(e, t, sock[Peer(e)], v), Advances(sock[e], t),
           sock' = [sock EXCEPT ![e] = t],
           written' = [written EXCEPT ![e] = v],
           \A x \in Ends : \A n \in synQueue'[x] : SynOK(x, n, sock[Peer(x)])
    PROVE  AInv'
<1>1. sock \in [Ends -> Socket] /\ written \in [Ends -> Nat] BY DEF IInv, TypeOK
<1>2. /\ sock'[e] = t /\ \A x \in Ends \ {e} : sock'[x] = sock[x]
      /\ written'[e] = v /\ \A x \in Ends \ {e} : written'[x] = written[x]
    BY <1>1
<1>3. ASSUME NEW x \in Ends PROVE EndOK(x, sock'[x], sock'[Peer(x)], written'[x])
    <2>1. CASE x = e BY <1>2, <2>1, PeerOfPeer
    <2>2. CASE x # e
        <3>1. Peer(x) = e BY <2>2, PeerOfPeer
        <3>2. sock'[x] = sock[x] /\ written'[x] = written[x] /\ sock'[Peer(x)] = t
            BY <1>2, <2>2, <3>1
        <3>3. EndOK(x, sock[x], sock[e], written[x]) BY <3>1 DEF AInv
        <3>4. EndOK(x, sock[x], t, written[x]) BY <3>3, PeerKept DEF EndOK
        <3> QED BY <3>2, <3>4
    <2> QED BY <2>1, <2>2
<1>4. ASSUME NEW x \in Ends, NEW n \in synQueue'[x]
      PROVE  SynOK(x, n, sock'[Peer(x)])
    <2>1. SynOK(x, n, sock[Peer(x)]) /\ Peer(x) \in Ends BY PeerOfPeer
    <2>2. ~Unopened(sock[Peer(x)]) => ~Unopened(sock'[Peer(x)])
        BY <1>2, <2>1 DEF Advances
    <2> QED BY <2>1, <2>2 DEF SynOK
<1> QED BY <1>3, <1>4 DEF AInv

LEMMA SettlesMove ==
    ASSUME IInv, AInv, NEW e \in Ends, ~Unopened(sock[e]), NEW t,
           Settles(e, sock[e], sock[Peer(e)], written[e], t),
           sock' = [sock EXCEPT ![e] = t], UNCHANGED <<synQueue, written>>
    PROVE  AInv'
<1>1. ~Unopened(t) /\ Advances(sock[e], t) BY DEF Settles, Advances
<1>2. EndOK(e, t, sock[Peer(e)], written[e]) BY <1>1 DEF EndOK, Settles
<1>3. written \in [Ends -> Nat] BY DEF IInv, TypeOK
<1>4. written' = [written EXCEPT ![e] = written[e]] BY <1>3
<1>5. \A x \in Ends : \A n \in synQueue'[x] : SynOK(x, n, sock[Peer(x)])
    BY DEF AInv
<1> QED BY <1>1, <1>2, <1>4, <1>5, EndStep

LEMMA SettlesStep ==
    ASSUME IInv, AInv, NEW e \in Ends, ~Unopened(sock[e]), NEW t,
           Settles(e, sock[e], sock[Peer(e)], written[e], t), Becomes(e, t)
    PROVE  AInv'
BY SettlesMove DEF Becomes, app, listener

\* A step that changes no socket.
LEMMA StillStep ==
    ASSUME AInv, UNCHANGED <<sock, written>>,
           \A x \in Ends : \A n \in synQueue'[x] : SynOK(x, n, sock[Peer(x)])
    PROVE  AInv'
BY DEF AInv

\* What the invariant says of an end whose connection started.
LEMMA OpenEnd ==
    ASSUME IInv, AInv, NEW e \in Ends, ~Unopened(sock[e])
    PROVE  /\ Core(e, sock[e], sock[Peer(e)], written[e])
           /\ Phase(sock[e], written[e])
           /\ Good(sock[e]) /\ sock[e] \in Socket
BY DEF AInv, EndOK, IInv, Good

LEMMA NotClosedIsOpen ==
    ASSUME NEW s, Good(s), s.type = "STREAM" \/ s.state # "CLOSED"
    PROVE  ~Unopened(s) /\ s.type = "STREAM"
BY GoodStream DEF Unopened

LEMMA AlikeSettles ==
    ASSUME NEW e, NEW s, NEW p, NEW w, Core(e, s, p, w), Phase(s, w),
           NEW t, Core(e, t, p, w), Alike(s, t)
    PROVE  Settles(e, s, p, w, t)
BY AlikeAdvances, AlikePhase DEF Settles, Core

LEMMA ClosedSettles ==
    ASSUME NEW e, NEW s \in Socket, NEW p, NEW w, NEW f, Core(e, f, p, w),
           Advances(s, f), Phase(f, w)
    PROVE  Settles(e, s, p, w, ChangeState(f, "CLOSED"))
<1> DEFINE t == ChangeState(f, "CLOSED")
<1>1. "CLOSED" \in States BY DEF States
<1>2. /\ Core(e, t, p, w) /\ Advances(f, t) /\ SameNumbers(f, t)
      /\ t.state = "CLOSED" /\ t.type = f.type
      /\ t.closedFlag => \/ f.closedFlag
                         \/ f.state = "LAST_ACK" \/ f.state = "TIME_WAIT"
    BY <1>1, ChangeStateCore
<1> HIDE DEF t
<1>3. Advances(s, t) BY <1>2, AdvancesTransitive
<1>4. t.closedFlag /\ t.type = "STREAM" => t.rcvNxt > 0
    BY <1>2 DEF Phase, SameNumbers
<1>5. Phase(t, w) BY <1>2, <1>4 DEF Phase, Finishing
<1> QED BY <1>2, <1>3, <1>5 DEF Settles, t

LEMMA SelfSettles ==
    ASSUME NEW e, NEW s, NEW p, NEW w, Core(e, s, p, w), Phase(s, w)
    PROVE  Settles(e, s, p, w, s)
<1>1. Alike(s, s) BY DEF Core, Alike, SameNumbers, SameControl
<1> QED BY <1>1, AlikeSettles

\* The timers and counters of an end say nothing of its numbers.
LEMMA TimersCore ==
    ASSUME NEW e, NEW s, NEW p, NEW w, Core(e, s, p, w), NEW b \in BOOLEAN, NEW n \in Nat,
           NEW m \in Nat
    PROVE  LET t == [s EXCEPT !.rtxTimer = b, !.rtxCount = n, !.probeCount = m] IN
           Core(e, t, p, w) /\ Alike(s, t)
<1> DEFINE t == [s EXCEPT !.rtxTimer = b, !.rtxCount = n, !.probeCount = m]
<1>1. s \in Socket BY DEF Core
<1>2. t \in Socket BY <1>1 DEF Socket
<1>3. /\ SameNumbers(s, t) /\ SameControl(s, t) /\ t.probing = s.probing
      /\ t.rtxQ = s.rtxQ /\ t.sent = s.sent
    BY <1>1 DEF SameNumbers, SameControl, Socket
<1> HIDE DEF t
<1>4. Unopened(t) => Unopened(s) BY <1>3 DEF SameControl, Unopened
<1>5. Core(e, t, p, w) BY <1>2, <1>3, <1>4, AlikeCore
<1> QED BY <1>2, <1>3, <1>5 DEF Alike, t

LEMMA AlikeTransitive ==
    ASSUME NEW s, NEW t, NEW u, Alike(s, t), Alike(t, u)
    PROVE  Alike(s, u)
BY DEF Alike, SameNumbers, SameControl

LEMMA ConnectEnds ==
    ASSUME IInv, AInv, NEW e \in Ends, Connect(e)
    PROVE  AInv'
<1> DEFINE s == sock[e]
           p == sock[Peer(e)]
           o == Opened(s, 0, 0)
           flags == {"SYN"}
           i == [seq |-> o.iss, len |-> 0, flags |-> flags]
           q == QueueControl(o, flags, o.iss)
           t == ChangeState(q, "SYN_SENT")
<1>1. /\ Good(s) /\ Unopened(s) /\ p \in Socket
      /\ Becomes(e, ChangeState(QueueControl(o, flags, s.iss), "SYN_SENT"))
    BY PeerInEnds DEF Connect, IInv, Good
<1>2. Blank(e, s, 0) /\ written[e] = 0 BY <1>1 DEF AInv, EndOK, Blank
<1>3. /\ Core(e, o, p, 0) /\ Advances(s, o) /\ ~Unopened(o)
      /\ o.sndNxt = o.iss + 1 /\ o.sndUser = 0 /\ o.rcvNxt = 0
      /\ ~o.probing /\ o.iss = s.iss
      /\ ~o.closedFlag /\ o.state = "CLOSED"
    BY <1>1, <1>2, OpenedCore
<1> HIDE DEF o
<1>4. o \in Socket /\ o.iss \in Nat BY <1>3, SocketNumbers DEF Core
<1>5. flags \in SUBSET Flags /\ FinLength(flags) = 0 /\ "RST" \notin flags
      /\ "ACK" \notin flags /\ "FIN" \notin flags
    BY DEF Flags, FinLength
<1> HIDE DEF flags
<1>6. i.seq = o.iss /\ i.len = 0 /\ i.flags = flags OBVIOUS
<1>7. ItemOK(o, i)
    <2>1. o.iss <= o.iss /\ o.iss + 0 + 0 <= o.sndNxt BY <1>3, <1>4
    <2> HIDE DEF i
    <2> QED BY <1>5, <1>6, <2>1 DEF ItemOK
<1>8. Core(e, q, p, 0) /\ Advances(o, q) /\ Alike(o, q)
    BY <1>3, <1>4, <1>5, <1>7, QueueControlCore
<1>9. Becomes(e, t) BY <1>1, <1>3
<1> HIDE DEF q
<1>10. "SYN_SENT" \in States BY DEF States
<1>11. /\ Core(e, t, p, 0) /\ Advances(q, t) /\ SameNumbers(q, t)
       /\ t.state = "SYN_SENT" /\ t.probing = q.probing
       /\ t.closedFlag => \/ q.closedFlag
                          \/ q.state = "LAST_ACK" \/ q.state = "TIME_WAIT"
    BY <1>8, <1>10, ChangeStateCore
<1> HIDE DEF t
<1>12. s \in Socket BY <1>1 DEF Good
<1>13. Advances(s, q) BY <1>3, <1>8, <1>12, AdvancesTransitive
<1>14. Advances(s, t) BY <1>11, <1>12, <1>13, AdvancesTransitive
<1>15. /\ t.sndNxt = t.iss + 1 /\ t.sndUser = 0 /\ t.rcvNxt = 0 /\ ~t.probing
      /\ ~t.closedFlag
    BY <1>3, <1>8, <1>11 DEF Alike, SameNumbers, SameControl
<1>16. Phase(t, 0) BY <1>11, <1>15 DEF Phase, Finishing
<1>17. ~Unopened(t) BY <1>3, <1>8, <1>11 DEF Advances
<1>18. EndOK(e, t, p, 0) BY <1>11, <1>16, <1>17 DEF EndOK
<1>19. written \in [Ends -> Nat] BY DEF IInv, TypeOK
<1>20. written' = [written EXCEPT ![e] = 0]
    BY <1>2, <1>9, <1>19 DEF Becomes, app
<1>21. \A x \in Ends : \A n \in synQueue'[x] : SynOK(x, n, sock[Peer(x)])
    BY <1>9 DEF Becomes, listener, AInv
<1> QED BY <1>9, <1>14, <1>18, <1>20, <1>21, EndStep DEF Becomes

LEMMA AcceptEnds ==
    ASSUME IInv, AInv, NEW e \in Ends, Accept(e)
    PROVE  AInv'
<1>1. PICK isn \in synQueue[e] :
        LET s == ChangeState(Opened(sock[e], isn, isn + 1), "SYN_RECEIVED") IN
        /\ e \in listening /\ Unopened(sock[e])
        /\ sock' = [sock EXCEPT ![e] = QueueControl(s, {"SYN", "ACK"}, s.iss)]
        /\ synQueue' = [synQueue EXCEPT ![e] = @ \ {isn}]
        /\ UNCHANGED <<listening, app>>
    BY DEF Accept
<1> DEFINE s == sock[e]
           p == sock[Peer(e)]
           o == Opened(s, isn, isn + 1)
           c == ChangeState(o, "SYN_RECEIVED")
           flags == {"SYN", "ACK"}
           i == [seq |-> c.iss, len |-> 0, flags |-> flags]
           t == QueueControl(c, flags, c.iss)
<1>2. Good(s) /\ Unopened(s) /\ p \in Socket /\ s \in Socket
    BY <1>1, PeerInEnds DEF IInv, Good
<1>3. Blank(e, s, 0) /\ written[e] = 0 BY <1>2 DEF AInv, EndOK, Blank
<1>4. synQueue \in [Ends -> SUBSET Nat] BY DEF IInv, TypeOK
<1>5. isn \in Nat /\ isn + 1 \in Nat BY <1>4
<1>6. Foreign(e, isn) \/ (isn = p.iss /\ isn + 1 <= p.sndNxt)
    <2>1. SynOK(e, isn, p) BY DEF AInv
    <2>2. CASE Foreign(e, isn) BY <2>2
    <2>3. CASE isn = Iss[Peer(e)] /\ ~Unopened(p)
        <3>1. EndOK(Peer(e), p, s, written[Peer(e)]) BY PeerOfPeer DEF AInv
        <3>2. p.iss = Iss[Peer(e)] /\ p.iss < p.sndNxt
            BY <2>3, <3>1 DEF EndOK, Core, Numbers
        <3> QED BY <1>2, <2>3, <3>2, SocketNumbers
    <2> QED BY <2>1, <2>2, <2>3 DEF SynOK
<1> DEFINE nxt == isn + 1
<1>7. /\ Core(e, o, p, 0) /\ Advances(s, o) /\ ~Unopened(o)
      /\ o.sndNxt = o.iss + 1 /\ o.sndUser = 0 /\ o.rcvNxt = isn + 1
      /\ o.irs = isn
    <2>1. \/ nxt = 0
          \/ nxt = isn + 1 /\ (Foreign(e, isn) \/ (isn = p.iss /\ nxt <= p.sndNxt))
        BY <1>6
    <2>2. nxt \in Nat /\ nxt = isn + 1 BY <1>5
    <2>3. o = Opened(s, isn, nxt) OBVIOUS
    <2> HIDE DEF nxt, o
    <2> QED BY <1>2, <1>3, <1>5, <2>1, <2>2, <2>3, OpenedCore
<1> HIDE DEF o
<1>8. "SYN_RECEIVED" \in States BY DEF States
<1>9. /\ Core(e, c, p, 0) /\ Advances(o, c) /\ SameNumbers(o, c)
      /\ c.state = "SYN_RECEIVED"
    BY <1>7, <1>8, ChangeStateCore
<1> HIDE DEF c
<1>10. /\ c \in Socket /\ c.iss \in Nat /\ c.sndNxt = c.iss + 1 /\ c.sndUser = 0
       /\ c.rcvNxt > 0 /\ Heard(c)
    BY <1>5, <1>7, <1>9, SocketNumbers DEF Core, SameNumbers, Heard
<1>11. flags \in SUBSET Flags /\ FinLength(flags) = 0 /\ "RST" \notin flags
       /\ "FIN" \notin flags
    BY DEF Flags, FinLength
<1>12. sock' = [sock EXCEPT ![e] = t] BY <1>1 DEF o, c
<1> HIDE DEF flags
<1>13. i.seq = c.iss /\ i.len = 0 /\ i.flags = flags OBVIOUS
<1>14. ItemOK(c, i)
    <2>1. c.iss <= c.iss /\ c.iss + 0 + 0 <= c.sndNxt BY <1>10
    <2> HIDE DEF i
    <2> QED BY <1>10, <1>11, <1>13, <2>1 DEF ItemOK
<1>15. Core(e, t, p, 0) /\ Advances(c, t) /\ Alike(c, t)
    BY <1>9, <1>10, <1>11, <1>14, QueueControlCore
<1> HIDE DEF t
<1>16. Advances(s, c) BY <1>2, <1>7, <1>9, AdvancesTransitive
<1>17. Advances(s, t) BY <1>2, <1>15, <1>16, AdvancesTransitive
<1>18. Phase(c, 0) BY <1>9, <1>10 DEF Phase, Finishing
<1>19. Phase(t, 0) BY <1>15, <1>18, AlikePhase
<1>20. ~Unopened(t) BY <1>7, <1>9, <1>15 DEF Advances
<1>21. EndOK(e, t, p, 0) BY <1>15, <1>19, <1>20 DEF EndOK
<1>22. written \in [Ends -> Nat] BY DEF IInv, TypeOK
<1>23. written' = [written EXCEPT ![e] = 0] BY <1>1, <1>3, <1>22 DEF app
<1>24. \A x \in Ends : \A n \in synQueue'[x] : SynOK(x, n, sock[Peer(x)])
    <2>1. \A x \in Ends : synQueue'[x] \subseteq synQueue[x] BY <1>1, <1>4
    <2> QED BY <2>1 DEF AInv
<1> QED BY <1>12, <1>17, <1>21, <1>23, <1>24, EndStep

LEMMA SendEnds ==
    ASSUME IInv, AInv, NEW e \in Ends, Send(e)
    PROVE  AInv'
<1> DEFINE s == sock[e]
           p == sock[Peer(e)]
           w == written[e]
<1>1. PICK n \in 0 .. (WriteLimit[e] - written[e]),
           flag \in {"NONE", "NO_DELAY", "DELAY"} :
        LET data == [i \in 1 .. n |-> written[e] + i] IN
        /\ Usable(sock[e]) /\ sock[e].state \in {"ESTABLISHED", "CLOSE_WAIT"}
        /\ sock' = [sock EXCEPT ![e] = NagleAlgo(WriteTxBuffer(sock[e], data), flag)]
        /\ written' = [written EXCEPT ![e] = @ + n]
        /\ UNCHANGED <<listener, delivered, eos>>
    BY DEF Send
<1> DEFINE data == [i \in 1 .. n |-> written[e] + i]
           b == WriteTxBuffer(s, data)
           t == NagleAlgo(b, flag)
<1>2. /\ written \in [Ends -> Nat] /\ WriteLimit \in [Ends -> Nat]
      /\ Good(s) /\ s \in Socket
    BY WriteAssumption DEF IInv, TypeOK, Good
<1>3. n \in Nat /\ w \in Nat /\ w + n <= WriteLimit[e] BY <1>2
<1>4. data \in Seq(Byte) /\ Len(data) = n
    <2>1. data \in [1 .. n -> Byte] BY <1>3 DEF Byte
    <2> HIDE DEF data
    <2> QED BY <1>3, <2>1
<1>5. ~Unopened(s) BY <1>1, <1>2, NotClosedIsOpen DEF Usable
<1>6. Core(e, s, p, w) /\ Phase(s, w) BY <1>5, OpenEnd
<1>7. s.state = "ESTABLISHED" \/ s.state = "CLOSE_WAIT" BY <1>1
<1>8. Heard(s) BY <1>6, <1>7, SynchronizedHears
<1>9. sock' = [sock EXCEPT ![e] = t] BY <1>1 DEF data
<1> HIDE DEF data
<1>10. /\ Core(e, b, p, w + n) /\ Advances(s, b) /\ SameControl(s, b)
       /\ b.sndUser = s.sndUser + n /\ b.sndNxt = s.sndNxt /\ b.iss = s.iss
       /\ b.rcvNxt = s.rcvNxt
    BY <1>3, <1>4, <1>6, WriteTxBufferCore
<1> HIDE DEF b
<1>11. Heard(b) BY <1>2, <1>8, <1>10, HeardOnward
<1>12. s.sndNxt + s.sndUser = s.iss + 1 + w BY <1>6, <1>7 DEF Phase
<1>13. b.sndNxt + b.sndUser = b.iss + 1 + (w + n)
    BY <1>2, <1>3, <1>10, <1>12, SocketNumbers
<1>14. Phase(b, w + n)
    BY <1>6, <1>7, <1>10, <1>13 DEF Phase, SameControl, Finishing
<1>15. Settles(e, s, p, w + n, b) BY <1>10, <1>14 DEF Settles
<1>16. Settles(e, s, p, w + n, t) BY <1>2, <1>11, <1>15, NagleSettles
<1> HIDE DEF t
<1>17. ~Unopened(t) BY <1>5, <1>16 DEF Settles, Advances
<1>18. EndOK(e, t, p, w + n) BY <1>16, <1>17 DEF Settles, EndOK
<1>19. written' = [written EXCEPT ![e] = w + n] BY <1>1
<1>20. \A x \in Ends : \A m \in synQueue'[x] : SynOK(x, m, sock[Peer(x)])
    BY <1>1 DEF listener, AInv
<1> QED BY <1>9, <1>16, <1>18, <1>19, <1>20, EndStep DEF Settles

LEMMA ReceiveEnds ==
    ASSUME IInv, AInv, NEW e \in Ends, Receive(e)
    PROVE  AInv'
<1> DEFINE s == sock[e]
           p == sock[Peer(e)]
           w == written[e]
<1>1. PICK n \in 1 .. sock[e].rcvUser :
        /\ Usable(sock[e]) /\ Readable(sock[e])
        /\ sock' = [sock EXCEPT ![e] = TakeBytes(@, n)]
        /\ UNCHANGED <<listener, written>>
    BY DEF Receive
<1> DEFINE t == TakeBytes(s, n)
<1>2. Good(s) /\ s \in Socket /\ WindowFits(s) BY DEF IInv, Good
<1>3. ~Unopened(s) BY <1>1, <1>2, NotClosedIsOpen DEF Usable
<1>4. Core(e, s, p, w) /\ Phase(s, w) BY <1>3, OpenEnd
<1>5. s.rcvNxt > 0
    <2>1. s.state # "SYN_SENT" /\ (s.state = "CLOSED" => s.closedFlag)
        BY <1>1 DEF Readable
    <2> QED BY <1>1, <1>4, <2>1 DEF Phase, Usable
<1>6. Heard(s)
    BY <1>2, <1>4, <1>5, SocketNumbers
       DEF Core, Agrees, Deaf, Right, Mistaken, Heard
<1>7. Core(e, t, p, w) /\ Alike(s, t) BY <1>2, <1>4, <1>6, TakeBytesCore
<1>8. sock' = [sock EXCEPT ![e] = t] BY <1>1
<1> HIDE DEF t
<1>9. Settles(e, s, p, w, t) BY <1>4, <1>7, AlikeSettles
<1>10. UNCHANGED <<synQueue, written>> BY <1>1 DEF listener
<1> QED BY <1>3, <1>8, <1>9, <1>10, SettlesMove

LEMMA ShutdownFlushEnds ==
    ASSUME IInv, AInv, NEW e \in Ends, ShutdownFlush(e)
    PROVE  AInv'
<1> DEFINE s == sock[e]
           p == sock[Peer(e)]
           w == written[e]
           t == NagleAlgo(s, "NO_DELAY")
<1>1. /\ s.type = "STREAM" /\ s.state # "CLOSED" /\ s.state # "SYN_SENT"
      /\ Becomes(e, t)
    BY DEF ShutdownFlush, Usable
<1>2. ~Unopened(s) /\ s \in Socket /\ Core(e, s, p, w) /\ Phase(s, w)
    BY <1>1, OpenEnd, NotClosedIsOpen DEF IInv
<1>3. Heard(s) BY <1>1, <1>2, SynchronizedHears
<1>4. Settles(e, s, p, w, s) BY <1>2, SelfSettles
<1>5. Settles(e, s, p, w, t) BY <1>2, <1>3, <1>4, NagleSettles
<1> HIDE DEF t
<1> QED BY <1>1, <1>2, <1>5, SettlesStep

LEMMA ShutdownFinEnds ==
    ASSUME IInv, AInv, NEW e \in Ends, ShutdownFin(e)
    PROVE  AInv'
<1> DEFINE s == sock[e]
           p == sock[Peer(e)]
           w == written[e]
           fin == QueueControl(s, {"FIN", "ACK"}, s.sndNxt)
           f == [fin EXCEPT !.sndNxt = @ + 1]
           next == IF s.state = "CLOSE_WAIT" THEN "LAST_ACK" ELSE "FIN_WAIT_1"
           t == ChangeState(f, next)
<1>1. /\ s.type = "STREAM" /\ s.sndUser = 0 /\ e \in Shutters
      /\ \/ s.state = "SYN_RECEIVED" \/ s.state = "ESTABLISHED"
         \/ s.state = "CLOSE_WAIT"
      /\ Becomes(e, t)
    BY DEF ShutdownFin, Usable, ShutsDown
<1>2. ~Unopened(s) /\ s \in Socket /\ Core(e, s, p, w) /\ Phase(s, w)
    BY <1>1, OpenEnd, NotClosedIsOpen DEF IInv
<1>3. Heard(s) BY <1>1, <1>2, SynchronizedHears
<1>4. s.sndNxt = s.iss + 1 + w
    <2>1. s.iss \in Nat /\ s.sndNxt \in Nat BY <1>2, SocketNumbers
    <2>2. CASE s.state = "SYN_RECEIVED" BY <1>2, <2>1, <2>2 DEF Phase
    <2>3. CASE s.state = "ESTABLISHED" \/ s.state = "CLOSE_WAIT"
        BY <1>1, <1>2, <2>1, <2>3 DEF Phase
    <2> QED BY <1>1, <2>2, <2>3
<1>5. /\ Core(e, f, p, w) /\ Advances(s, f)
      /\ f.sndUser = 0 /\ f.sndNxt = f.iss + w + 2
    BY <1>1, <1>2, <1>3, <1>4, FinCore
<1> HIDE DEF f
<1>6. /\ next \in States /\ next # "SYN_SENT" /\ next # "SYN_RECEIVED"
      /\ next # "ESTABLISHED" /\ next # "CLOSE_WAIT"
      /\ next # "FIN_WAIT_2" /\ next # "TIME_WAIT"
    BY DEF States
<1> HIDE DEF next
<1>7. Settles(e, s, p, w, t) BY <1>2, <1>3, <1>5, <1>6, EntersCore
<1> HIDE DEF t
<1> QED BY <1>1, <1>2, <1>7, SettlesStep

LEMMA FreedSettles ==
    ASSUME NEW e, NEW s \in Socket, NEW p, NEW w, NEW f, Core(e, f, p, w),
           Advances(s, f)
    PROVE  Settles(e, s, p, w, [DeleteControlBlock(ChangeState(f, "CLOSED"))
                                  EXCEPT !.type = "UNUSED"])
<1> DEFINE t == [DeleteControlBlock(ChangeState(f, "CLOSED"))
                   EXCEPT !.type = "UNUSED"]
           d == DeleteControlBlock(ChangeState(f, "CLOSED"))
<1>1. /\ Core(e, t, p, w) /\ Advances(f, t)
      /\ t.state = "CLOSED" /\ ~Unopened(t)
    BY FreedCore
<1>2. t.type = "UNUSED"
    <2>1. "type" \in DOMAIN d BY DEF DeleteControlBlock, ChangeState, Core, Socket
    <2> HIDE DEF d
    <2> QED BY <2>1 DEF d
<1> HIDE DEF t
<1>3. Advances(s, t) BY <1>1, AdvancesTransitive
<1>4. Phase(t, w) BY <1>1, <1>2 DEF Phase, Finishing
<1> QED BY <1>1, <1>3, <1>4 DEF Settles, t

LEMMA AbortEnds ==
    ASSUME IInv, AInv, NEW e \in Ends, Abort(e)
    PROVE  AInv'
<1> DEFINE s == sock[e]
           p == sock[Peer(e)]
           w == written[e]
           reset == SendResetSegment(s, s.sndNxt)
           r == IF s.state = "SYN_SENT" THEN s ELSE reset
           closed == [DeleteControlBlock(ChangeState(r, "CLOSED"))
                        EXCEPT !.type = "UNUSED"]
           left == [s EXCEPT !.owned = FALSE]
           t == IF s.state = "TIME_WAIT" THEN left ELSE closed
<1>1. s.type = "STREAM" /\ Becomes(e, t) BY DEF Abort, Usable
<1>2. ~Unopened(s) /\ s \in Socket /\ Core(e, s, p, w) /\ Phase(s, w)
    BY <1>1, OpenEnd, NotClosedIsOpen DEF IInv
<1>3. Settles(e, s, p, w, left)
    <2>1. left \in Socket BY <1>2 DEF Socket
    <2>2. /\ SameNumbers(s, left) /\ SameControl(s, left)
          /\ left.probing = s.probing /\ left.rtxQ = s.rtxQ /\ left.sent = s.sent
        BY <1>2 DEF SameNumbers, SameControl, Socket
    <2> HIDE DEF left
    <2>3. Alike(s, left) BY <2>1, <2>2 DEF Alike
    <2>4. Core(e, left, p, w)
        BY <1>2, <2>1, <2>2, AlikeCore DEF SameControl, Unopened
    <2> QED BY <1>2, <2>3, <2>4, AlikeSettles
<1>4. Core(e, reset, p, w) /\ Alike(s, reset)
    BY <1>2, SocketNumbers, SendResetSegmentCore
<1>5. Advances(s, reset) /\ Advances(s, s)
    BY <1>2, <1>4, AlikeAdvances, SelfSettles DEF Settles
<1> HIDE DEF reset, left
<1>6. Core(e, r, p, w) /\ Advances(s, r) BY <1>2, <1>4, <1>5
<1> HIDE DEF r
<1>7. Settles(e, s, p, w, closed) BY <1>2, <1>6, FreedSettles
<1> HIDE DEF closed
<1>8. Settles(e, s, p, w, t) BY <1>3, <1>7
<1> HIDE DEF t
<1> QED BY <1>1, <1>2, <1>8, SettlesStep

LEMMA UserEnds ==
    ASSUME IInv, AInv, NEW e \in Ends, User(e)
    PROVE  AInv'
<1>1. CASE Listen(e)
    BY <1>1, StillStep DEF Listen, app, AInv
<1>2. CASE StopListening(e)
    <2>1. synQueue \in [Ends -> SUBSET Nat] BY DEF IInv, TypeOK
    <2>2. \A x \in Ends : synQueue'[x] \subseteq synQueue[x]
        BY <1>2, <2>1 DEF StopListening
    <2>3. \A x \in Ends : \A n \in synQueue'[x] : SynOK(x, n, sock[Peer(x)])
        BY <2>2 DEF AInv
    <2> QED BY <1>2, <2>3, StillStep DEF StopListening, app
<1>3. CASE ReceiveEndOfStream(e)
    BY <1>3, StillStep DEF ReceiveEndOfStream, listener, AInv
<1> QED BY <1>1, <1>2, <1>3, ConnectEnds, AcceptEnds, SendEnds, ReceiveEnds,
           ShutdownFlushEnds, ShutdownFinEnds, AbortEnds DEF User

-----------------------------------------------------------------------------
(* The timers.                                                             *)

LEMMA TimerSettles ==
    ASSUME NEW e, NEW s, NEW p, NEW w, Core(e, s, p, w), Phase(s, w),
           NEW r, Core(e, r, p, w), Alike(s, r),
           NEW b \in BOOLEAN, NEW n \in Nat, NEW m \in Nat
    PROVE  LET t == [r EXCEPT !.rtxTimer = b, !.rtxCount = n, !.probeCount = m] IN
           Settles(e, s, p, w, t)
<1> DEFINE t == [r EXCEPT !.rtxTimer = b, !.rtxCount = n, !.probeCount = m]
<1>1. Core(e, t, p, w) /\ Alike(r, t) BY TimersCore
<1> HIDE DEF t
<1>2. Alike(s, t) BY <1>1, AlikeTransitive
<1>3. Settles(e, s, p, w, t) BY <1>1, <1>2, AlikeSettles
<1> QED BY <1>3 DEF t

LEMMA RetransmitEnds ==
    ASSUME IInv, AInv, NEW e \in Ends, Retransmit(e)
    PROVE  AInv'
<1> DEFINE s == sock[e]
           p == sock[Peer(e)]
           w == written[e]
           r == RetransmitSegment(s)
           b == r.rtxTimer
           n == r.rtxCount + 1
           m == r.probeCount
           t == [r EXCEPT !.rtxTimer = b, !.rtxCount = n, !.probeCount = m]
           u == [r EXCEPT !.rtxCount = @ + 1]
<1>1. s.state # "CLOSED" /\ Becomes(e, u) BY DEF Retransmit, RetransmitDue
<1>2. ~Unopened(s) /\ s \in Socket /\ Core(e, s, p, w) /\ Phase(s, w)
    BY <1>1, OpenEnd, NotClosedIsOpen DEF IInv
<1>3. Core(e, r, p, w) /\ Alike(s, r) BY <1>2, RetransmitSegmentCore
<1> HIDE DEF r
<1>4. r \in Socket BY <1>3 DEF Core
<1>5. u = t BY <1>4 DEF Socket
<1>6. b \in BOOLEAN /\ n \in Nat /\ m \in Nat BY <1>4 DEF Socket
<1> HIDE DEF b, n, m, u
<1>7. Settles(e, s, p, w, t) BY <1>2, <1>3, <1>6, TimerSettles
<1> HIDE DEF t
<1> QED BY <1>1, <1>2, <1>5, <1>7, SettlesStep

LEMMA GiveUpEnds ==
    ASSUME IInv, AInv, NEW e \in Ends, GiveUp(e)
    PROVE  AInv'
<1> DEFINE s == sock[e]
           p == sock[Peer(e)]
           w == written[e]
           r == SendResetSegment(s, s.sndNxt)
           b == FALSE
           n == r.rtxCount
           m == r.probeCount
           f == [r EXCEPT !.rtxTimer = b, !.rtxCount = n, !.probeCount = m]
           u == [r EXCEPT !.rtxTimer = FALSE]
           t == ChangeState(f, "CLOSED")
<1>1. s.state # "CLOSED" /\ Becomes(e, ChangeState(u, "CLOSED"))
    BY DEF GiveUp, RetransmitDue
<1>2. ~Unopened(s) /\ s \in Socket /\ Core(e, s, p, w) /\ Phase(s, w)
    BY <1>1, OpenEnd, NotClosedIsOpen DEF IInv
<1>3. Core(e, r, p, w) /\ Alike(s, r)
    BY <1>2, SocketNumbers, SendResetSegmentCore
<1> HIDE DEF r
<1>4. r \in Socket BY <1>3 DEF Core
<1>5. u = f BY <1>4 DEF Socket
<1>6. b \in BOOLEAN /\ n \in Nat /\ m \in Nat BY <1>4 DEF Socket
<1> HIDE DEF b, n, m, u
<1>7. Settles(e, s, p, w, f) BY <1>2, <1>3, <1>6, TimerSettles
<1> HIDE DEF f
<1>8. Settles(e, s, p, w, t) BY <1>2, <1>7, ClosedSettles DEF Settles
<1>9. Becomes(e, t) BY <1>1, <1>5
<1> HIDE DEF t
<1> QED BY <1>2, <1>8, <1>9, SettlesStep

LEMMA ProbeEnds ==
    ASSUME IInv, AInv, NEW e \in Ends, Probe(e)
    PROVE  AInv'
<1> DEFINE s == sock[e]
           p == sock[Peer(e)]
           w == written[e]
           flags == {"ACK"}
           seq == s.sndUna - 1
           r == SendSegment(s, flags, seq, s.rcvNxt)
           b == r.rtxTimer
           n == r.rtxCount
           m == r.probeCount + 1
           t == [r EXCEPT !.rtxTimer = b, !.rtxCount = n, !.probeCount = m]
           u == [r EXCEPT !.probeCount = @ + 1]
<1>1. s.state # "CLOSED" /\ s.probing /\ Becomes(e, u) BY DEF Probe, ProbeDue
<1>2. ~Unopened(s) /\ s \in Socket /\ Core(e, s, p, w) /\ Phase(s, w)
    BY <1>1, OpenEnd, NotClosedIsOpen DEF IInv
<1>3. s.state # "SYN_SENT" BY <1>1, <1>2 DEF Phase
<1>4. Heard(s) BY <1>1, <1>2, <1>3, SynchronizedHears
<1>5. s.iss >= 1 /\ s.iss <= s.sndUna /\ s.sndUna <= s.sndNxt
    BY <1>2, OpenEnd DEF Core, Numbers, Good, Numbered
<1>6. /\ seq \in Nat /\ s.iss - 1 <= seq /\ seq + 0 <= s.sndNxt
      /\ s.rcvNxt \in Nat /\ s.irs < s.rcvNxt /\ s.rcvNxt <= s.rcvNxt
    BY <1>2, <1>4, <1>5, SocketNumbers DEF Heard
<1>7. flags \in SUBSET Flags /\ FinLength(flags) = 0 /\ "SYN" \notin flags
    BY DEF Flags, FinLength
<1> HIDE DEF flags, seq
<1>8. Core(e, r, p, w) /\ Alike(s, r) BY <1>2, <1>6, <1>7, SendSegmentCore
<1> HIDE DEF r
<1>9. r \in Socket BY <1>8 DEF Core
<1>10. u = t BY <1>9 DEF Socket
<1>11. b \in BOOLEAN /\ n \in Nat /\ m \in Nat BY <1>9 DEF Socket
<1> HIDE DEF b, n, m, u
<1>12. Settles(e, s, p, w, t) BY <1>2, <1>8, <1>11, TimerSettles
<1> HIDE DEF t
<1> QED BY <1>1, <1>2, <1>10, <1>12, SettlesStep DEF flags, seq

LEMMA ProbeGiveUpEnds ==
    ASSUME IInv, AInv, NEW e \in Ends, ProbeGiveUp(e)
    PROVE  AInv'
<1> DEFINE s == sock[e]
           p == sock[Peer(e)]
           w == written[e]
           r == SendResetSegment(s, s.sndNxt)
           t == ChangeState(r, "CLOSED")
<1>1. s.state # "CLOSED" /\ Becomes(e, t) BY DEF ProbeGiveUp, ProbeDue
<1>2. ~Unopened(s) /\ s \in Socket /\ Core(e, s, p, w) /\ Phase(s, w)
    BY <1>1, OpenEnd, NotClosedIsOpen DEF IInv
<1>3. Core(e, r, p, w) /\ Alike(s, r)
    BY <1>2, SocketNumbers, SendResetSegmentCore
<1> HIDE DEF r
<1>4. Settles(e, s, p, w, r) BY <1>2, <1>3, AlikeSettles
<1>5. Settles(e, s, p, w, t) BY <1>2, <1>4, ClosedSettles DEF Settles
<1> HIDE DEF t
<1> QED BY <1>1, <1>2, <1>5, SettlesStep

LEMMA OverrideEnds ==
    ASSUME IInv, AInv, NEW e \in Ends, Override(e)
    PROVE  AInv'
<1> DEFINE s == sock[e]
           p == sock[Peer(e)]
           w == written[e]
           t == OverrideSend(s)
<1>1. s.state # "CLOSED" /\ s.state # "SYN_SENT" /\ Becomes(e, t)
    BY DEF Override
<1>2. ~Unopened(s) /\ s \in Socket /\ Core(e, s, p, w) /\ Phase(s, w)
    BY <1>1, OpenEnd, NotClosedIsOpen DEF IInv
<1>3. Heard(s) BY <1>1, <1>2, SynchronizedHears
<1>4. Core(e, t, p, w) /\ Advances(s, t) /\ Sends(s, t)
    BY <1>2, <1>3, OverrideSendCore
<1> HIDE DEF t
<1>5. Phase(t, w) BY <1>2, <1>4, SendsPhase DEF Core
<1>6. Settles(e, s, p, w, t) BY <1>4, <1>5 DEF Settles
<1> QED BY <1>1, <1>2, <1>6, SettlesStep

LEMMA FinWait2TimeoutEnds ==
    ASSUME IInv, AInv, NEW e \in Ends, FinWait2Timeout(e)
    PROVE  AInv'
<1> DEFINE s == sock[e]
           t == ChangeState(s, "CLOSED")
<1>1. s.state # "CLOSED" /\ Becomes(e, t) BY DEF FinWait2Timeout
<1>2. /\ ~Unopened(s) /\ s \in Socket
      /\ Core(e, s, sock[Peer(e)], written[e]) /\ Phase(s, written[e])
    BY <1>1, OpenEnd, NotClosedIsOpen DEF IInv
<1>3. Settles(e, s, sock[Peer(e)], written[e], t)
    BY <1>2, SelfSettles, ClosedSettles DEF Settles
<1> HIDE DEF t
<1> QED BY <1>1, <1>2, <1>3, SettlesStep

LEMMA TimeWaitTimeoutEnds ==
    ASSUME IInv, AInv, NEW e \in Ends, TimeWaitTimeout(e)
    PROVE  AInv'
<1> DEFINE s == sock[e]
           p == sock[Peer(e)]
           w == written[e]
           c == ChangeState(s, "CLOSED")
           freed == [DeleteControlBlock(c) EXCEPT !.type = "UNUSED"]
           t == IF c.owned THEN c ELSE freed
<1>1. s.state # "CLOSED" /\ Becomes(e, t) BY DEF TimeWaitTimeout
<1>2. ~Unopened(s) /\ s \in Socket /\ Core(e, s, p, w) /\ Phase(s, w)
    BY <1>1, OpenEnd, NotClosedIsOpen DEF IInv
<1>3. Advances(s, s) BY <1>2, SelfSettles DEF Settles
<1>4. Settles(e, s, p, w, c) BY <1>2, <1>3, ClosedSettles
<1>5. Settles(e, s, p, w, freed) BY <1>2, <1>3, FreedSettles
<1> HIDE DEF c, freed
<1>6. Settles(e, s, p, w, t) BY <1>4, <1>5
<1> HIDE DEF t
<1> QED BY <1>1, <1>2, <1>6, SettlesStep

LEMMA TimerEnds ==
    ASSUME IInv, AInv, NEW e \in Ends, Timer(e)
    PROVE  AInv'
BY RetransmitEnds, GiveUpEnds, ProbeEnds, ProbeGiveUpEnds, OverrideEnds,
   FinWait2TimeoutEnds, TimeWaitTimeoutEnds DEF Timer

-----------------------------------------------------------------------------
(* What the network delivers.                                              *)

LEMMA PeerEnd ==
    ASSUME IInv, AInv, NEW e \in Ends
    PROVE  /\ EndOK(Peer(e), sock[Peer(e)], sock[e], written[Peer(e)])
           /\ sock[Peer(e)] \in Socket
<1>1. Peer(e) \in Ends /\ Peer(Peer(e)) = e BY PeerOfPeer
<1> QED BY <1>1 DEF AInv, IInv, Good

\* An end whose connection started, and is in a state that knows its peer.
LEMMA OpenSocket ==
    ASSUME IInv, AInv, NEW e \in Ends, sock[e].state # "CLOSED"
    PROVE  /\ ~Unopened(sock[e]) /\ sock[e] \in Socket /\ Good(sock[e])
           /\ Core(e, sock[e], sock[Peer(e)], written[e])
           /\ Phase(sock[e], written[e])
           /\ sock[e].state # "SYN_SENT" => sock[e].rcvNxt > 0 /\ Heard(sock[e])
<1>1. Good(sock[e]) BY DEF IInv
<1>2. ~Unopened(sock[e]) BY <1>1, NotClosedIsOpen
<1>3. /\ Core(e, sock[e], sock[Peer(e)], written[e]) /\ sock[e] \in Socket
      /\ Phase(sock[e], written[e])
    BY <1>2, OpenEnd
<1> QED BY <1>1, <1>2, <1>3, SynchronizedHears

\* An answer that changes no number.
LEMMA AnswerEnds ==
    ASSUME IInv, AInv, NEW e \in Ends, sock[e].state # "CLOSED",
           NEW t, Core(e, t, sock[Peer(e)], written[e]), Alike(sock[e], t),
           Becomes(e, t)
    PROVE  AInv'
BY OpenSocket, AlikeSettles, SettlesStep

LEMMA ResetEnds ==
    ASSUME IInv, AInv, NEW e \in Ends, sock[e].state # "CLOSED",
           NEW n \in Nat, Becomes(e, SendResetSegment(sock[e], n))
    PROVE  AInv'
<1> DEFINE t == SendResetSegment(sock[e], n)
<1>1. Core(e, t, sock[Peer(e)], written[e]) /\ Alike(sock[e], t)
    BY OpenSocket, SendResetSegmentCore
<1> HIDE DEF t
<1>2. Becomes(e, t) BY DEF t
<1> QED BY <1>1, <1>2, AnswerEnds

LEMMA AckEnds ==
    ASSUME IInv, AInv, NEW e \in Ends, sock[e].state # "CLOSED",
           sock[e].state # "SYN_SENT", Becomes(e, SendAck(sock[e]))
    PROVE  AInv'
<1> DEFINE t == SendAck(sock[e])
<1>1. Core(e, t, sock[Peer(e)], written[e]) /\ Alike(sock[e], t)
    BY OpenSocket, SendAckCore
<1> HIDE DEF t
<1>2. Becomes(e, t) BY DEF t
<1> QED BY <1>1, <1>2, AnswerEnds

LEMMA ClosedEnds ==
    ASSUME IInv, AInv, NEW e \in Ends, sock[e].state # "CLOSED",
           Becomes(e, ChangeState(sock[e], "CLOSED"))
    PROVE  AInv'
<1> DEFINE s == sock[e]
           t == ChangeState(s, "CLOSED")
<1>1. /\ ~Unopened(s) /\ s \in Socket
      /\ Core(e, s, sock[Peer(e)], written[e]) /\ Phase(s, written[e])
    BY OpenSocket
<1>2. Settles(e, s, sock[Peer(e)], written[e], t)
    BY <1>1, SelfSettles, ClosedSettles DEF Settles
<1> HIDE DEF t
<1>3. Becomes(e, t) BY DEF t
<1> QED BY <1>1, <1>2, <1>3, SettlesStep

LEMMA SameEnds ==
    ASSUME IInv, AInv, NEW e \in Ends, sock[e].state # "CLOSED", Becomes(e, sock[e])
    PROVE  AInv'
BY OpenSocket, SelfSettles, SettlesStep

LEMMA RejectEnds ==
    ASSUME IInv, AInv, NEW e \in Ends, NEW g \in Segment, Reject(e, g)
    PROVE  AInv'
<1> DEFINE s == sock[e]
           p == sock[Peer(e)]
           w == written[e]
           t == RejectSegment(s, g)
<1>1. Becomes(e, t) BY DEF Reject
<1>2. s \in Socket /\ p \in Socket BY PeerEnd DEF IInv, Good
<1>3. PICK G \in SUBSET Segment :
          t = [s EXCEPT !.sent = @ \cup G] /\ \A g2 \in G : ~Live(g2)
    <2> DEFINE syn == IF "SYN" \in g.flags THEN 1 ELSE 0
               fin == IF "FIN" \in g.flags THEN 1 ELSE 0
               n == g.seq + (Len(g.data) + syn + fin)
               a == [flags |-> {"RST"}, seq |-> g.ack, ack |-> 0,
                     wnd |-> 0, data |-> << >>]
               b == [flags |-> {"RST", "ACK"}, seq |-> 0,
                     ack |-> n, wnd |-> 0, data |-> << >>]
               r == IF "ACK" \in g.flags THEN a ELSE b
               u == [s EXCEPT !.sent = @ \cup {r}]
    <2>1. g.seq \in Nat /\ g.ack \in Nat /\ n \in Nat
        <3>1. g.seq \in Nat /\ g.ack \in Nat /\ Len(g.data) \in Nat BY DEF Segment
        <3>2. syn \in Nat /\ fin \in Nat OBVIOUS
        <3> HIDE DEF syn, fin
        <3> QED BY <3>1, <3>2
    <2>2. t = IF "RST" \in g.flags THEN s ELSE u BY Zenon DEF RejectSegment
    <2> HIDE DEF t, n
    <2>3. << >> \in Seq(Byte) BY DEF Byte
    <2>4. a \in Segment /\ ~Live(a) BY <2>1, <2>3 DEF Segment, Flags, Live
    <2>5. b \in Segment /\ ~Live(b) BY <2>1, <2>3 DEF Segment, Flags, Live
    <2> HIDE DEF a, b
    <2>6. r \in Segment /\ ~Live(r) BY <2>4, <2>5
    <2> HIDE DEF r
    <2>7. CASE "RST" \in g.flags
        <3> DEFINE S == s.sent \cup {}
        <3>1. S = s.sent OBVIOUS
        <3> HIDE DEF S
        <3>2. t = [s EXCEPT !.sent = S] BY <1>2, <2>2, <2>7, <3>1 DEF Socket
        <3>3. t = [s EXCEPT !.sent = @ \cup {}] BY <1>2, <3>2 DEF S, Socket
        <3>4. {} \in SUBSET Segment /\ \A g2 \in {} : ~Live(g2) OBVIOUS
        <3> QED BY <3>3, <3>4
    <2>8. CASE "RST" \notin g.flags
        <3>1. {r} \in SUBSET Segment /\ \A g2 \in {r} : ~Live(g2) BY <2>6
        <3> QED BY <2>2, <2>8, <3>1
    <2> QED BY <2>7, <2>8
<1> HIDE DEF t
<1>4. CASE ~Unopened(s)
    <2>1. Core(e, s, p, w) /\ Phase(s, w) BY <1>4, OpenEnd
    <2>2. Core(e, t, p, w) /\ Alike(s, t) BY <1>3, <2>1, MoreSentCore
    <2> QED BY <1>1, <1>4, <2>1, <2>2, AlikeSettles, SettlesStep
<1>5. CASE Unopened(s)
    <2>1. Blank(e, s, w) BY <1>5 DEF AInv, EndOK
    <2>2. /\ t \in Socket /\ t.iss = s.iss /\ t.rtxQ = s.rtxQ
          /\ t.probing = s.probing /\ t.sndNxt = s.sndNxt /\ t.sndUna = s.sndUna
          /\ t.sndUser = s.sndUser /\ t.rcvNxt = s.rcvNxt
          /\ t.type = s.type /\ t.resetFlag = s.resetFlag
          /\ t.closedFlag = s.closedFlag /\ t.irs = s.irs
        BY <1>2, <1>3 DEF Socket
    <2>3. t.sent = s.sent \cup G BY <1>2, <1>3 DEF Socket
    <2>4. Unopened(t) BY <1>5, <2>2 DEF Unopened
    <2>5. Blank(e, t, w) BY <1>3, <2>1, <2>2, <2>3 DEF Blank
    <2>6. EndOK(e, t, p, w) BY <2>4, <2>5 DEF EndOK
    <2>7. Advances(s, t) BY <1>2, <1>5, <2>2, SocketNumbers DEF Advances, Heard
    <2>8. written \in [Ends -> Nat] BY DEF IInv, TypeOK
    <2>9. written' = [written EXCEPT ![e] = w] BY <1>1, <2>8 DEF Becomes, app
    <2>10. \A x \in Ends : \A n \in synQueue'[x] : SynOK(x, n, sock[Peer(x)])
        BY <1>1 DEF Becomes, listener, AInv
    <2> QED BY <1>1, <2>6, <2>7, <2>9, <2>10, EndStep DEF Becomes
<1> QED BY <1>4, <1>5

\* What a SYN without an acknowledgment says of its sender.
LEMMA SynIsOldOrRight ==
    ASSUME StraysAreOld, IInv, AInv, NEW e \in Ends, NEW g \in Incoming(e),
           Live(g), "SYN" \in g.flags, "ACK" \notin g.flags
    PROVE  \/ Foreign(e, g.seq)
           \/ /\ g.seq = Iss[Peer(e)] /\ g.seq = sock[Peer(e)].iss
              /\ ~Unopened(sock[Peer(e)]) /\ g.seq + 1 <= sock[Peer(e)].sndNxt
<1> DEFINE p == sock[Peer(e)]
<1>1. CASE g \in Strays[e] BY <1>1 DEF StraysAreOld, OldSegment
<1>2. CASE g \in p.sent
    <2>1. /\ Core(Peer(e), p, sock[e], written[Peer(e)]) /\ SegmentOK(p, g)
          /\ ~Unopened(p)
        BY <1>2, PeerEnd, SentSegment
    <2>2. g.seq = p.iss BY <2>1 DEF SegmentOK
    <2>3. p.iss = Iss[Peer(e)] /\ p.iss < p.sndNxt /\ p \in Socket
        BY <2>1 DEF Core, Numbers
    <2> QED BY <2>1, <2>2, <2>3, SocketNumbers
<1> QED BY <1>1, <1>2 DEF Incoming

LEMMA ListenSynEnds ==
    ASSUME StraysAreOld, IInv, AInv, NEW e \in Ends, NEW g \in Incoming(e),
           ListenSyn(e, g)
    PROVE  AInv'
<1>1. Live(g) /\ "SYN" \in g.flags /\ "ACK" \notin g.flags BY DEF ListenSyn, Live
<1>2. SynOK(e, g.seq, sock[Peer(e)]) BY <1>1, SynIsOldOrRight DEF SynOK
<1>3. synQueue \in [Ends -> SUBSET Nat] BY DEF IInv, TypeOK
<1>4. synQueue' = [synQueue EXCEPT ![e] = {g.seq}] BY DEF ListenSyn
<1>5. ASSUME NEW x \in Ends, NEW n \in synQueue'[x]
      PROVE  SynOK(x, n, sock[Peer(x)])
    <2>1. CASE x = e BY <1>2, <1>3, <1>4, <1>5, <2>1
    <2>2. CASE x # e
        <3>1. n \in synQueue[x] BY <1>3, <1>4, <1>5, <2>2
        <3> QED BY <3>1 DEF AInv
    <2> QED BY <2>1, <2>2
<1> QED BY <1>5, StillStep DEF ListenSyn, app

\* The windows that a handshake records are no numbers.
LEMMA NewWindowQuiet ==
    ASSUME NEW s \in Socket, NEW a \in Int, NEW b \in Int, NEW c \in Nat, NEW d \in Int
    PROVE  LET t == [s EXCEPT !.sndWnd = a, !.sndWl1 = b, !.sndWl2 = c,
                              !.maxSndWnd = d] IN
           t \in Socket /\ Quiet(s, t) /\ SameControl(s, t)
BY DEF Socket, Quiet, SameNumbers, SameControl

\* An end in SYN_SENT learns the initial number of its peer.
LEMMA SynTakenCore ==
    ASSUME NEW e, NEW s, NEW p, NEW w, Core(e, s, p, w), Phase(s, w), Good(s),
           s.state = "SYN_SENT", NEW g \in Segment, NEW una \in Nat,
           \/ una = s.sndUna /\ Foreign(e, g.seq)
           \/ g.seq = p.iss /\ g.seq + 1 <= p.sndNxt /\ una = s.sndUna
           \/ /\ g.seq = p.iss /\ g.seq + 1 <= p.sndNxt /\ una = s.sndNxt
              /\ p.irs = s.iss /\ una <= p.rcvNxt
    PROVE  LET t == SynTaken(s, g, una) IN
           /\ Core(e, t, p, w) /\ Advances(s, t) /\ Heard(t)
           /\ t.sndNxt = t.iss + 1 /\ t.sndUser = 0 /\ w = 0
           /\ t.rcvNxt > 0 /\ SameControl(s, t)
<1> DEFINE n == g.seq + 1
           t == SynTaken(s, g, una)
           u == [s EXCEPT !.irs = g.seq, !.rcvNxt = n, !.sndUna = una]
<1>1. s \in Socket /\ p \in Socket /\ w \in Nat BY DEF Core
<1>2. s.iss >= 1 /\ s.type = "STREAM" BY GoodStream DEF Good, Numbered
<1>3. s.iss <= s.sndUna /\ s.sndUna <= s.sndNxt BY DEF Core, Numbers
<1>4. s.iss \in Nat /\ s.sndUna \in Nat /\ s.sndNxt \in Nat BY <1>1, SocketNumbers
<1>5. una >= 1 BY <1>2, <1>3, <1>4
<1>6. /\ t \in Socket /\ t.type = "STREAM" /\ t.ooo = {} /\ t.state = "SYN_SENT"
    BY <1>5, SynTakenGood
<1>7. g.seq \in Nat /\ n = g.seq + 1 /\ n \in Nat BY DEF Segment
<1>8. t = u BY DEF SynTaken
<1> HIDE DEF t, n
<1>9. /\ u.iss = s.iss /\ u.irs = g.seq /\ u.sndUna = una /\ u.sndNxt = s.sndNxt
      /\ u.sndUser = s.sndUser /\ u.rcvNxt = n /\ u.rtxQ = s.rtxQ
      /\ u.sent = s.sent /\ SameControl(s, u)
    BY <1>1 DEF SameControl, Socket
<1> HIDE DEF u
<1>10. s.rcvNxt = 0 /\ s.sndNxt = s.iss + 1 /\ s.sndUser = 0 /\ w = 0
    BY DEF Phase
<1>11. ~Heard(s) BY <1>1, <1>10, SocketNumbers DEF Heard
<1>12. Advances(s, t)
    BY <1>4, <1>6, <1>8, <1>9, <1>11 DEF Advances, SameControl, Unopened
<1>13. Numbers(e, t, w) BY <1>3, <1>4, <1>8, <1>9 DEF Core, Numbers
<1>14. s.sndUna = s.iss
    BY <1>1, <1>10, <1>11, SocketNumbers DEF Core, Agrees, Deaf, Right, Mistaken
<1>15. Heard(t) BY <1>7, <1>8, <1>9 DEF Heard
<1>16. Agrees(e, t, p)
    <2>1. CASE una = s.sndUna /\ Foreign(e, g.seq)
        <3>1. Mistaken(e, t) BY <1>7, <1>8, <1>9, <1>14, <2>1 DEF Mistaken
        <3>2. ~(t.sndUna > t.iss) BY <1>4, <1>8, <1>9, <1>14, <2>1
        <3> QED BY <3>1, <3>2 DEF Agrees
    <2>2. CASE g.seq = p.iss /\ g.seq + 1 <= p.sndNxt
        <3>1. Right(t, p) BY <1>6, <1>7, <1>8, <1>9, <1>15, <2>2 DEF Right
        <3>2. CASE una = s.sndUna
            <4>1. ~(t.sndUna > t.iss) BY <1>4, <1>8, <1>9, <1>14, <3>2
            <4> QED BY <3>1, <4>1 DEF Agrees
        <3>3. CASE p.irs = s.iss /\ una <= p.rcvNxt
            BY <1>8, <1>9, <3>1, <3>3 DEF Agrees
        <3> QED BY <2>2, <3>2, <3>3
    <2> QED BY <2>1, <2>2
<1>17. Core(e, t, p, w) BY <1>1, <1>8, <1>9, <1>12, <1>13, <1>16, CoreStep
<1>18. t.rcvNxt > 0 BY <1>7, <1>8, <1>9
<1>19. /\ t.sndNxt = t.iss + 1 /\ t.sndUser = 0 /\ w = 0 /\ SameControl(s, t)
    BY <1>8, <1>9, <1>10
<1> QED BY <1>12, <1>15, <1>17, <1>18, <1>19 DEF t

LEMMA SynSentSynAckEnds ==
    ASSUME StraysAreOld, IInv, AInv, NEW e \in Ends, NEW g \in Segment,
           g \in Incoming(e), SynSentSynAck(e, g)
    PROVE  AInv'
<1> DEFINE s == sock[e]
           p == sock[Peer(e)]
           v == written[e]
           o == SynTaken(s, g, g.ack)
           u == UpdateRetransmitQueue(o)
           w == [u EXCEPT !.sndWnd = g.wnd, !.sndWl1 = g.seq,
                          !.sndWl2 = g.ack, !.maxSndWnd = g.wnd]
           a == SendAck(w)
           t == ChangeState(a, "ESTABLISHED")
<1>1. /\ s.state = "SYN_SENT" /\ g.ack = s.sndNxt /\ Becomes(e, t)
      /\ "SYN" \in g.flags /\ "ACK" \in g.flags /\ Live(g)
    BY DEF SynSentSynAck, SynTaken, Live
<1>2. /\ ~Unopened(s) /\ s \in Socket /\ Good(s)
      /\ Core(e, s, p, v) /\ Phase(s, v)
    BY <1>1, OpenSocket
<1>3. s.iss < g.ack /\ g.ack <= s.sndNxt
    BY <1>1, <1>2, SocketNumbers DEF Core, Numbers
<1>4. /\ g \in p.sent /\ Core(Peer(e), p, s, written[Peer(e)]) /\ SegmentOK(p, g)
      /\ p.irs = s.iss /\ g.ack <= p.rcvNxt
    BY <1>1, <1>2, <1>3, PeerEnd, AckIsHeard DEF Incoming
<1>5. g.seq = p.iss /\ p.iss < p.sndNxt /\ p \in Socket
    BY <1>1, <1>4 DEF SegmentOK, Core, Numbers
<1>6. g.seq + 1 <= p.sndNxt BY <1>5, SocketNumbers
<1>7. g.ack \in Nat /\ g.seq \in Int /\ g.wnd \in Int BY DEF Segment
<1>8. /\ Core(e, o, p, v) /\ Advances(s, o) /\ Heard(o)
      /\ o.sndNxt = o.iss + 1 /\ o.sndUser = 0 /\ v = 0
      /\ o.rcvNxt > 0 /\ SameControl(s, o)
    BY <1>1, <1>2, <1>4, <1>5, <1>6, <1>7, SynTakenCore
<1> HIDE DEF o
<1>9. o \in Socket BY <1>8 DEF Core
<1>10. Quiet(o, u) /\ u \in Socket /\ SameControl(o, u)
    BY <1>9, UpdateRetransmitQueueQuiet, UpdateRetransmitQueueType DEF Transmits
<1> HIDE DEF u
<1>11. Quiet(u, w) /\ w \in Socket /\ SameControl(u, w)
    BY <1>7, <1>10, NewWindowQuiet
<1> HIDE DEF w
<1>12. Core(e, u, p, v) /\ Advances(o, u)
    BY <1>8, <1>10, QuietCore DEF SameControl, Unopened
<1>13. Core(e, w, p, v) /\ Advances(u, w)
    BY <1>11, <1>12, QuietCore DEF SameControl, Unopened
<1>14. Heard(w) BY <1>8, <1>10, <1>11 DEF Heard, Quiet, SameNumbers
<1>15. Core(e, a, p, v) /\ Alike(w, a) BY <1>13, <1>14, SendAckCore
<1> HIDE DEF a
<1>16. Advances(w, a) BY <1>11, <1>15, AlikeAdvances
<1>17. Advances(o, w) BY <1>9, <1>12, <1>13, AdvancesTransitive
<1>18. Advances(o, a) BY <1>9, <1>16, <1>17, AdvancesTransitive
<1>19. a.sndNxt + a.sndUser = a.iss + 1 + v
    <2>1. a.sndNxt = o.iss + 1 /\ a.sndUser = 0 /\ a.iss = o.iss /\ v = 0
        BY <1>8, <1>10, <1>11, <1>15 DEF Alike, Quiet, SameNumbers
    <2> QED BY <1>9, <2>1, SocketNumbers
<1>20. "ESTABLISHED" \in States /\ "ESTABLISHED" \notin Finishing
    BY DEF States, Finishing
<1>21. Settles(e, o, p, v, t)
    BY <1>8, <1>9, <1>15, <1>18, <1>19, <1>20, EntersCore
<1> HIDE DEF t
<1>22. Advances(s, t) BY <1>2, <1>8, <1>21, AdvancesTransitive DEF Settles
<1>23. Settles(e, s, p, v, t) BY <1>21, <1>22 DEF Settles
<1> QED BY <1>1, <1>2, <1>23, SettlesStep

LEMMA SynSentSynEnds ==
    ASSUME StraysAreOld, IInv, AInv, NEW e \in Ends, NEW g \in Segment,
           g \in Incoming(e), SynSentSyn(e, g)
    PROVE  AInv'
<1> DEFINE s == sock[e]
           p == sock[Peer(e)]
           v == written[e]
           una == s.sndUna
           flags == {"SYN", "ACK"}
           o == SynTaken(s, g, una)
           u == UpdateRetransmitQueue(o)
           i == [seq |-> u.iss, len |-> 0, flags |-> flags]
           q == QueueControl(u, flags, u.iss)
           t == ChangeState(q, "SYN_RECEIVED")
<1>1. /\ s.state = "SYN_SENT" /\ "SYN" \in g.flags /\ "ACK" \notin g.flags
      /\ Live(g)
    BY DEF SynSentSyn, Live
<1>2. /\ ~Unopened(s) /\ s \in Socket /\ Good(s)
      /\ Core(e, s, p, v) /\ Phase(s, v)
    BY <1>1, OpenSocket
<1>3. Becomes(e, t)
    <2>1. o = [s EXCEPT !.irs = g.seq, !.rcvNxt = g.seq + 1]
        BY <1>2 DEF Socket, SynTaken
    <2> QED BY <2>1 DEF SynSentSyn
<1>4. \/ Foreign(e, g.seq)
      \/ g.seq = p.iss /\ g.seq + 1 <= p.sndNxt
    BY <1>1, SynIsOldOrRight
<1>5. una \in Nat BY <1>2, SocketNumbers
<1>6. /\ Core(e, o, p, v) /\ Advances(s, o) /\ Heard(o)
      /\ o.sndNxt = o.iss + 1 /\ o.sndUser = 0 /\ v = 0
      /\ o.rcvNxt > 0 /\ SameControl(s, o)
    BY <1>1, <1>2, <1>4, <1>5, SynTakenCore
<1> HIDE DEF o
<1>7. o \in Socket BY <1>6 DEF Core
<1>8. Quiet(o, u) /\ u \in Socket /\ SameControl(o, u)
    BY <1>7, UpdateRetransmitQueueQuiet, UpdateRetransmitQueueType DEF Transmits
<1> HIDE DEF u
<1>9. Core(e, u, p, v) /\ Advances(o, u)
    BY <1>6, <1>8, QuietCore DEF SameControl, Unopened
<1>10. Heard(u) /\ u.sndNxt = u.iss + 1 /\ u.sndUser = 0 /\ u.rcvNxt > 0
    BY <1>6, <1>8 DEF Heard, Quiet, SameNumbers
<1>11. u.iss \in Nat BY <1>8, SocketNumbers
<1>12. flags \in SUBSET Flags /\ FinLength(flags) = 0 /\ "RST" \notin flags
       /\ "FIN" \notin flags
    BY DEF Flags, FinLength
<1> HIDE DEF flags
<1>13. i.seq = u.iss /\ i.len = 0 /\ i.flags = flags OBVIOUS
<1>14. ItemOK(u, i)
    <2>1. u.iss <= u.iss /\ u.iss + 0 + 0 <= u.sndNxt BY <1>10, <1>11
    <2> HIDE DEF i
    <2> QED BY <1>10, <1>12, <1>13, <2>1 DEF ItemOK
<1>15. Core(e, q, p, v) /\ Advances(u, q) /\ Alike(u, q)
    BY <1>9, <1>11, <1>12, <1>14, QueueControlCore
<1> HIDE DEF q
<1>16. "SYN_RECEIVED" \in States BY DEF States
<1>17. /\ Core(e, t, p, v) /\ Advances(q, t) /\ SameNumbers(q, t)
       /\ t.state = "SYN_RECEIVED"
    BY <1>15, <1>16, ChangeStateCore
<1> HIDE DEF t
<1>18. t.sndNxt = t.iss + 1 /\ t.sndUser = 0 /\ t.rcvNxt > 0
    BY <1>10, <1>15, <1>17 DEF Alike, SameNumbers
<1>19. Phase(t, v) BY <1>6, <1>17, <1>18 DEF Phase, Finishing
<1>20. Advances(s, u) BY <1>2, <1>6, <1>9, AdvancesTransitive
<1>21. Advances(s, q) BY <1>2, <1>15, <1>20, AdvancesTransitive
<1>22. Advances(s, t) BY <1>2, <1>17, <1>21, AdvancesTransitive
<1>23. Settles(e, s, p, v, t) BY <1>17, <1>19, <1>22 DEF Settles
<1> QED BY <1>2, <1>3, <1>23, SettlesStep DEF flags, q, t, u, o

LEMMA SynReceivedAckEnds ==
    ASSUME StraysAreOld, IInv, AInv, NEW e \in Ends, NEW g \in Segment,
           g \in Incoming(e), SynReceivedAck(e, g)
    PROVE  AInv'
<1> DEFINE s == sock[e]
           p == sock[Peer(e)]
           w == written[e]
           v == View(s, g)
           o == [s EXCEPT !.sndWnd = g.wnd, !.sndWl1 = g.seq,
                          !.sndWl2 = g.ack, !.maxSndWnd = g.wnd]
           c == ChangeState(o, "ESTABLISHED")
           t == EstablishedHandler(c, v)
<1>1. /\ s.state = "SYN_RECEIVED" /\ Becomes(e, t)
      /\ Passes(s, v) /\ g.ack = s.sndNxt
    BY DEF SynReceivedAck
<1>2. /\ ~Unopened(s) /\ s \in Socket /\ Good(s)
      /\ Core(e, s, p, w) /\ Phase(s, w) /\ s.rcvNxt > 0 /\ Heard(s)
    BY <1>1, OpenSocket
<1>3. v \in Segment /\ v.ack = g.ack BY <1>2, ViewType, ViewFields
<1>4. g.ack \in Nat /\ g.seq \in Int /\ g.wnd \in Int BY DEF Segment
<1>5. Harmless(s, p, v)
    <2>1. WindowFits(s) /\ g.ack <= s.sndNxt
        BY <1>1, <1>2, SocketNumbers DEF Good
    <2>2. g \in p.sent \cup Strays[e] BY DEF Incoming
    <2> QED BY <1>1, <1>2, <2>1, <2>2, PeerEnd, PassesHarmless
<1> HIDE DEF v
<1>6. /\ o \in Socket /\ Quiet(s, o) /\ SameControl(s, o)
      /\ Transmits(s, o)
    BY <1>2, <1>4, NewWindowQuiet, NewWindow
<1> HIDE DEF o
<1>7. Core(e, o, p, w) /\ Advances(s, o)
    BY <1>2, <1>6, QuietCore DEF SameControl, Unopened
<1>8. /\ o.sndNxt = o.iss + 1 /\ o.sndUser = 0 /\ w = 0
      /\ o.state = "SYN_RECEIVED"
    BY <1>1, <1>2, <1>6 DEF Phase, Quiet, SameNumbers, SameControl
<1>9. o.sndNxt + o.sndUser = o.iss + 1 + w
    BY <1>6, <1>8, SocketNumbers
<1>10. "ESTABLISHED" \in States /\ "ESTABLISHED" \notin Finishing
    BY DEF States, Finishing
<1>11. Settles(e, s, p, w, c) BY <1>2, <1>7, <1>9, <1>10, EntersCore
<1>12. SameNumbers(o, c) /\ c.state = "ESTABLISHED"
    BY <1>7, <1>10, ChangeStateCore
<1>13. Good(c)
    <2>1. Good(o) /\ o.type = "STREAM"
        BY <1>2, <1>6, <1>8, TransmitsGood, GoodStream DEF Evolves
    <2>2. o.state \in Receiving BY <1>8 DEF Receiving
    <2> QED BY <1>10, <2>1, <2>2, ReceivingStateGood DEF Evolves
<1> HIDE DEF c
<1>14. Worthy(c, p, v)
    <2>1. SameNumbers(s, c) BY <1>6, <1>12 DEF Quiet, SameNumbers
    <2>2. Harmless(c, p, v)
        BY <1>5, <2>1 DEF Harmless, SameNumbers, Right, Heard
    <2>3. v.ack <= c.sndNxt
        BY <1>1, <1>3, <1>4, <2>1 DEF SameNumbers
    <2> QED BY <1>3, <2>2, <2>3 DEF Worthy
<1>15. Settles(e, c, p, w, t)
    BY <1>11, <1>12, <1>13, <1>14, EstablishedHandlerSettles DEF Settles
<1> HIDE DEF t
<1>16. Advances(s, t) BY <1>2, <1>11, <1>15, AdvancesTransitive DEF Settles
<1>17. Settles(e, s, p, w, t) BY <1>15, <1>16 DEF Settles
<1> QED BY <1>1, <1>2, <1>17, SettlesStep

\* The segment that a handler of a later state takes.
LEMMA TakenWorthy ==
    ASSUME StraysAreOld, IInv, AInv, NEW e \in Ends, NEW g \in Segment,
           g \in Incoming(e), sock[e].state # "CLOSED", sock[e].state # "SYN_SENT",
           sock[e].state # "SYN_RECEIVED",
           Passes(sock[e], g), g.ack <= sock[e].sndNxt
    PROVE  Worthy(sock[e], sock[Peer(e)], g)
<1> DEFINE s == sock[e]
           p == sock[Peer(e)]
<1>1. /\ Core(e, s, p, written[e]) /\ s.rcvNxt > 0 /\ WindowFits(s)
    BY OpenSocket DEF Good
<1>2. View(s, g) = g BY DEF View
<1>3. g \in p.sent \cup Strays[e] BY DEF Incoming
<1>4. Harmless(s, p, g) BY <1>1, <1>2, <1>3, PeerEnd, PassesHarmless
<1> QED BY <1>4 DEF Worthy

LEMMA TakenEnds ==
    ASSUME StraysAreOld, IInv, AInv, NEW e \in Ends, NEW g \in Segment,
           g \in Incoming(e),
           \/ EstablishedSegment(e, g) \/ CloseWaitSegment(e, g)
           \/ FinWait1Segment(e, g) \/ FinWait2Segment(e, g)
           \/ ClosingSegment(e, g)
    PROVE  AInv'
<1> DEFINE s == sock[e]
           p == sock[Peer(e)]
           w == written[e]
<1>1. CASE EstablishedSegment(e, g)
    <2> DEFINE t == EstablishedHandler(s, g)
    <2>1. /\ s.state = "ESTABLISHED" /\ Passes(s, g) /\ g.ack <= s.sndNxt
          /\ Becomes(e, t)
        BY <1>1 DEF EstablishedSegment, Taken
    <2>2. Worthy(s, p, g) BY <2>1, TakenWorthy
    <2>3. Settles(e, s, p, w, t) BY <2>1, <2>2, OpenSocket, EstablishedHandlerSettles
    <2> HIDE DEF t
    <2> QED BY <2>1, <2>3, OpenSocket, SettlesStep
<1>2. CASE CloseWaitSegment(e, g)
    <2> DEFINE t == CloseWaitHandler(s, g)
    <2>1. /\ s.state = "CLOSE_WAIT" /\ Passes(s, g) /\ g.ack <= s.sndNxt
          /\ Becomes(e, t)
        BY <1>2 DEF CloseWaitSegment, Taken
    <2>2. Worthy(s, p, g) BY <2>1, TakenWorthy
    <2>3. Settles(e, s, p, w, t) BY <2>1, <2>2, OpenSocket, CloseWaitHandlerSettles
    <2> HIDE DEF t
    <2> QED BY <2>1, <2>3, OpenSocket, SettlesStep
<1>3. CASE FinWait1Segment(e, g)
    <2> DEFINE t == FinWait1Handler(s, g)
    <2>1. /\ s.state = "FIN_WAIT_1" /\ Passes(s, g) /\ g.ack <= s.sndNxt
          /\ Becomes(e, t)
        BY <1>3 DEF FinWait1Segment, Taken
    <2>2. Worthy(s, p, g) BY <2>1, TakenWorthy
    <2>3. Settles(e, s, p, w, t) BY <2>1, <2>2, OpenSocket, FinWait1HandlerSettles
    <2> HIDE DEF t
    <2> QED BY <2>1, <2>3, OpenSocket, SettlesStep
<1>4. CASE FinWait2Segment(e, g)
    <2> DEFINE t == FinWait2Handler(s, g)
    <2>1. /\ s.state = "FIN_WAIT_2" /\ Passes(s, g) /\ g.ack <= s.sndNxt
          /\ Becomes(e, t)
        BY <1>4 DEF FinWait2Segment, Taken
    <2>2. Worthy(s, p, g) BY <2>1, TakenWorthy
    <2>3. Settles(e, s, p, w, t) BY <2>1, <2>2, OpenSocket, FinWait2HandlerSettles
    <2> HIDE DEF t
    <2> QED BY <2>1, <2>3, OpenSocket, SettlesStep
<1>5. CASE ClosingSegment(e, g)
    <2> DEFINE t == ClosingHandler(s, g)
    <2>1. /\ s.state = "CLOSING" /\ Passes(s, g) /\ g.ack <= s.sndNxt
          /\ Becomes(e, t)
        BY <1>5 DEF ClosingSegment, Taken
    <2>2. Worthy(s, p, g) BY <2>1, TakenWorthy
    <2>3. Settles(e, s, p, w, t) BY <2>1, <2>2, OpenSocket, ClosingHandlerSettles
    <2> HIDE DEF t
    <2> QED BY <2>1, <2>3, OpenSocket, SettlesStep
<1> QED BY <1>1, <1>2, <1>3, <1>4, <1>5

LEMMA NetworkEnds ==
    ASSUME StraysAreOld, IInv, AInv, NEW e \in Ends, NEW g \in Incoming(e),
           Network(e, g)
    PROVE  AInv'
<1> DEFINE s == sock[e]
           p == sock[Peer(e)]
           w == written[e]
<1>1. g \in Segment BY IncomingType
<1>2. g.ack \in Nat /\ g.seq \in Nat /\ Len(g.data) \in Nat BY <1>1 DEF Segment
<1>3. CASE SynSentBadAck(e, g) BY <1>2, <1>3, ResetEnds DEF SynSentBadAck
<1>4. CASE SynSentReset(e, g) BY <1>4, ClosedEnds DEF SynSentReset
<1>5. CASE SynReceivedDuplicateSyn(e, g)
    <2> DEFINE flags == {"SYN", "ACK"}
               t == SendSegment(s, flags, s.iss, s.rcvNxt)
    <2>1. s.state = "SYN_RECEIVED" /\ Becomes(e, t)
        BY <1>5 DEF SynReceivedDuplicateSyn, DuplicateSyn
    <2>2. Core(e, s, p, w) /\ Heard(s) /\ s \in Socket BY <2>1, OpenSocket
    <2>3. flags \in SUBSET Flags /\ FinLength(flags) = 0 /\ "FIN" \notin flags
        BY DEF Flags, FinLength
    <2>4. /\ s.iss \in Nat /\ s.rcvNxt \in Nat /\ s.iss - 1 <= s.iss
          /\ s.iss + 0 <= s.sndNxt /\ s.irs < s.rcvNxt /\ s.rcvNxt <= s.rcvNxt
        BY <2>2, SocketNumbers DEF Core, Numbers, Heard
    <2> HIDE DEF flags
    <2>5. Core(e, t, p, w) /\ Alike(s, t) BY <2>2, <2>3, <2>4, SendSegmentCore
    <2> HIDE DEF t
    <2> QED BY <2>1, <2>5, AnswerEnds
<1>6. CASE SynReceivedBadAck(e, g)
    BY <1>2, <1>6, ResetEnds DEF SynReceivedBadAck
<1>7. CASE Unacceptable(e, g)
    BY <1>7, AckEnds DEF Unacceptable, Examined, Synchronized
<1>8. CASE ResetByPeer(e, g)
    BY <1>8, ClosedEnds DEF ResetByPeer, Examined, Synchronized
<1>9. CASE UnexpectedSyn(e, g)
    <2> DEFINE n == View(s, g).seq + Len(g.data) + 1
               flags == {"RST", "ACK"}
               r == SendResetSegment(s, g.ack)
               q == SendSegment(s, flags, 0, n)
               t == IF "ACK" \in g.flags THEN r ELSE q
    <2>1. s.state # "CLOSED" /\ Becomes(e, t)
        BY <1>9 DEF UnexpectedSyn, Examined, Synchronized
    <2>2. Core(e, s, p, w) /\ s \in Socket BY <2>1, OpenSocket
    <2>3. View(s, g).seq \in Nat BY <1>1, <2>2, ViewType DEF Segment
    <2>4. n \in Nat BY <1>2, <2>3
    <2>5. flags \in SUBSET Flags /\ "RST" \in flags /\ 0 \in Nat BY DEF Flags
    <2> HIDE DEF n, flags
    <2>6. Core(e, q, p, w) /\ Alike(s, q) BY <2>2, <2>4, <2>5, SendSegmentCore
    <2>7. Core(e, r, p, w) /\ Alike(s, r) BY <1>2, <2>2, SendResetSegmentCore
    <2> HIDE DEF q, r
    <2>8. Core(e, t, p, w) /\ Alike(s, t) BY <2>6, <2>7
    <2> HIDE DEF t
    <2> QED BY <2>1, <2>8, AnswerEnds
<1>10. CASE AckOfUnsent(e, g) BY <1>10, AckEnds DEF AckOfUnsent, AckChecked
<1>11. CASE LastAckSegment(e, g)
    <2>1. s.state # "CLOSED" BY <1>11 DEF LastAckSegment
    <2>2. CASE g.ack = s.sndNxt BY <1>11, <2>1, <2>2, ClosedEnds DEF LastAckSegment
    <2>3. CASE g.ack # s.sndNxt BY <1>11, <2>1, <2>3, SameEnds DEF LastAckSegment
    <2> QED BY <2>2, <2>3
<1>12. CASE TimeWaitSegment(e, g)
    <2>1. s.state # "CLOSED" /\ s.state # "SYN_SENT" BY <1>12 DEF TimeWaitSegment
    <2>2. CASE "FIN" \in g.flags BY <1>12, <2>1, <2>2, AckEnds DEF TimeWaitSegment
    <2>3. CASE "FIN" \notin g.flags BY <1>12, <2>1, <2>3, SameEnds DEF TimeWaitSegment
    <2> QED BY <2>2, <2>3
<1> QED BY <1>1, <1>3, <1>4, <1>5, <1>6, <1>7, <1>8, <1>9, <1>10, <1>11, <1>12,
           RejectEnds, ListenSynEnds, SynSentSynAckEnds, SynSentSynEnds,
           SynReceivedAckEnds, TakenEnds DEF Network

-----------------------------------------------------------------------------
(* The invariant, from the first state on.                                 *)

LEMMA InitAInv ==
    Init => AInv
<1> SUFFICES ASSUME Init PROVE AInv OBVIOUS
<1>1. IInv BY InitIInv
<1>2. ASSUME NEW e \in Ends
      PROVE  /\ EndOK(e, sock[e], sock[Peer(e)], written[e])
             /\ \A n \in synQueue[e] : SynOK(e, n, sock[Peer(e)])
    <2> DEFINE s == FreshSocket("UNUSED", Iss[e])
    <2>1. sock[e] = s /\ written[e] = 0 /\ synQueue[e] = {} BY DEF Init
    <2>2. s \in Socket BY <1>1, <2>1 DEF IInv, Good
    <2>3. /\ s.iss = Iss[e] /\ s.rtxQ = {} /\ ~s.probing /\ s.sndNxt = 0
          /\ s.sndUna = 0 /\ s.sndUser = 0 /\ s.rcvNxt = 0 /\ s.sent = {}
          /\ s.type = "UNUSED" /\ ~s.resetFlag /\ ~s.closedFlag
        BY DEF FreshSocket
    <2> HIDE DEF s
    <2>4. Blank(e, s, 0) /\ Unopened(s) BY <2>2, <2>3 DEF Blank, Unopened
    <2> QED BY <2>1, <2>4 DEF EndOK
<1> QED BY <1>2 DEF AInv

LEMMA EstablishedAInv ==
    EstablishedInit => AInv
<1> SUFFICES ASSUME EstablishedInit PROVE AInv OBVIOUS
<1>1. IInv BY EstablishedIInv
<1>2. ASSUME NEW e \in Ends
      PROVE  /\ sock[e] \in Socket /\ sock[e].type = "STREAM"
             /\ sock[e].state = "ESTABLISHED"
             /\ sock[e].iss = Iss[e] /\ sock[e].irs = Iss[Peer(e)]
             /\ sock[e].sndUna = Iss[e] + 1 /\ sock[e].sndNxt = Iss[e] + 1
             /\ sock[e].sndUser = 0 /\ sock[e].rcvNxt = Iss[Peer(e)] + 1
             /\ sock[e].ooo = {} /\ sock[e].rtxQ = {} /\ sock[e].sent = {}
             /\ written[e] = 0 /\ synQueue[e] = {}
    <2>1. sock[e] \in Socket BY <1>1 DEF IInv, Good
    <2> QED BY <2>1 DEF EstablishedInit, FreshSocket
<1>3. ASSUME NEW e \in Ends
      PROVE  EndOK(e, sock[e], sock[Peer(e)], written[e])
    <2> DEFINE s == sock[e]
               p == sock[Peer(e)]
               w == written[e]
    <2>1. Peer(e) \in Ends /\ Peer(Peer(e)) = e BY PeerOfPeer
    <2>2. /\ s \in Socket /\ s.type = "STREAM" /\ s.state = "ESTABLISHED"
          /\ s.iss = Iss[e] /\ s.irs = Iss[Peer(e)]
          /\ s.sndUna = Iss[e] + 1 /\ s.sndNxt = Iss[e] + 1
          /\ s.sndUser = 0 /\ s.rcvNxt = Iss[Peer(e)] + 1
          /\ s.ooo = {} /\ s.rtxQ = {} /\ s.sent = {} /\ w = 0
        BY <1>2
    <2>3. /\ p \in Socket /\ p.iss = Iss[Peer(e)] /\ p.irs = Iss[e]
          /\ p.sndNxt = Iss[Peer(e)] + 1 /\ p.rcvNxt = Iss[e] + 1
        BY <1>2, <2>1
    <2>4. /\ Iss[e] \in Nat /\ Iss[e] >= 1 /\ Iss[Peer(e)] \in Nat
          /\ WriteLimit[e] \in Nat /\ FinNumber(e) \in Nat
        BY <2>1, IssAssumption, WriteAssumption DEF FinNumber
    <2> HIDE DEF s, p, w
    <2>5. Numbers(e, s, w) BY <2>2, <2>4 DEF Numbers
    <2>6. Right(s, p) BY <2>2, <2>3, <2>4 DEF Right, Heard
    <2>7. Agrees(e, s, p) BY <2>2, <2>3, <2>4, <2>6 DEF Agrees
    <2>8. Core(e, s, p, w) BY <2>2, <2>3, <2>5, <2>7 DEF Core
    <2>9. Phase(s, w) BY <2>2, <2>4 DEF Phase, Finishing
    <2>10. ~Unopened(s) BY <2>2 DEF Unopened
    <2> QED BY <2>8, <2>9, <2>10 DEF EndOK, s, p, w
<1> QED BY <1>2, <1>3 DEF AInv

LEMMA NextAInv ==
    ASSUME StraysAreOld
    PROVE  IInv /\ AInv /\ [Next]_vars => AInv'
<1> SUFFICES ASSUME IInv, AInv, [Next]_vars PROVE AInv' OBVIOUS
<1>1. CASE Next
    <2>1. PICK e \in Ends : \/ User(e) \/ Timer(e)
                            \/ \E g \in Incoming(e) : Network(e, g)
        BY <1>1 DEF Next
    <2> QED BY <2>1, UserEnds, TimerEnds, NetworkEnds
<1>2. CASE UNCHANGED vars
    BY <1>2, StillStep DEF vars, AInv
<1> QED BY <1>1, <1>2

\* An end that believes something acknowledged was heard, and hears.
LEMMA AcknowledgedAgree ==
    ASSUME IInv, AInv, NEW e \in Ends, sock[e].sndUna > sock[e].iss
    PROVE  /\ sock[e].irs = sock[Peer(e)].iss
           /\ sock[e].sndUna <= sock[Peer(e)].rcvNxt
           /\ sock[e].rcvNxt <= sock[Peer(e)].sndNxt
           /\ sock[Peer(e)].irs = sock[e].iss
           /\ sock[Peer(e)].rcvNxt <= sock[e].sndNxt
<1> DEFINE s == sock[e]
           p == sock[Peer(e)]
           x == Peer(e)
<1>1. s \in Socket /\ p \in Socket BY PeerEnd DEF IInv, Good
<1>2. s.iss \in Nat /\ s.sndUna \in Nat /\ s.sndNxt \in Nat /\ p.rcvNxt \in Nat
    BY <1>1, SocketNumbers
<1>3. ~Unopened(s)
    <2> SUFFICES ASSUME Unopened(s) PROVE FALSE OBVIOUS
    <2>1. s.sndUna = 0 BY DEF AInv, EndOK, Blank
    <2> QED BY <1>2, <2>1
<1>4. Core(e, s, p, written[e]) BY <1>3, OpenEnd
<1>5. p.irs = s.iss /\ s.sndUna <= p.rcvNxt BY <1>4 DEF Core, Agrees
<1>6. Right(s, p) BY <1>2, <1>4 DEF Core, Agrees, Deaf, Mistaken
<1>7. p.rcvNxt > 0 BY <1>2, <1>5
<1>8. Core(x, p, s, written[x])
    <2>1. EndOK(x, p, s, written[x]) BY PeerEnd
    <2>2. ~Unopened(p) BY <1>7, <2>1 DEF EndOK, Blank
    <2> QED BY <2>1, <2>2 DEF EndOK
<1>9. ~Deaf(p) BY <1>7 DEF Deaf
<1>10. ~Mistaken(x, p)
    <2> SUFFICES ASSUME Mistaken(x, p) PROVE FALSE OBVIOUS
    <2>1. p.irs >= LastNumber(e) \/ p.irs + RxBufferSize + 1 < Iss[e]
        BY PeerOfPeer DEF Mistaken, Foreign
    <2>2. p.irs = Iss[e] BY <1>4, <1>5 DEF Core, Numbers
    <2> QED BY <2>1, <2>2, LastNumberType, RxBufferAssumption
<1>11. Right(p, s) BY <1>8, <1>9, <1>10 DEF Core, Agrees
<1> QED BY <1>5, <1>6, <1>11 DEF Right

LEMMA AgreementIsTheProperty ==
    IInv /\ AInv => EndsAgree
BY AcknowledgedAgree DEF EndsAgree

LEMMA FinishIsTheProperty ==
    IInv /\ AInv => FinishedMeansReceived
<1> SUFFICES ASSUME IInv, AInv, NEW e \in Ends,
                    sock[e].state \in {"FIN_WAIT_2", "TIME_WAIT"}
             PROVE  /\ sock[e].sndNxt = sock[e].iss + 1 + written[e] + 1
                    /\ sock[Peer(e)].rcvNxt = sock[e].sndNxt
    BY DEF FinishedMeansReceived
<1> DEFINE s == sock[e]
           p == sock[Peer(e)]
           w == written[e]
<1>1. s.state # "CLOSED" OBVIOUS
<1>2. s \in Socket /\ Core(e, s, p, w) /\ Phase(s, w) BY <1>1, OpenSocket
<1>3. s.iss \in Nat /\ s.sndNxt \in Nat /\ w \in Nat /\ p.rcvNxt \in Nat
    BY <1>2, SocketNumbers DEF Core
<1>4. s.sndNxt = s.iss + w + 2 /\ s.sndUna = s.sndNxt
    BY <1>2 DEF Phase, Finishing
<1>5. s.sndUna > s.iss BY <1>3, <1>4
<1>6. s.sndUna <= p.rcvNxt /\ p.rcvNxt <= s.sndNxt BY <1>5, AcknowledgedAgree
<1> QED BY <1>3, <1>4, <1>6

-----------------------------------------------------------------------------
(* The theorems.                                                           *)

\* Once its SYN is acknowledged an end knows the initial number of its peer,
\* believes acknowledged what the peer received and received what the peer
\* sent (tcpStateSynSent, tcpStateSynReceived, tcpCheckAck): for every loss,
\* reordering and duplication, and old segments that acknowledge no number of
\* this connection.
THEOREM EndsKeepAgreeing ==
    ASSUME StraysAreOld
    PROVE  (Spec => []EndsAgree) /\ (EstablishedSpec => []EndsAgree)
<1>1. IInv /\ [Next]_vars => IInv' BY NextIInv
<1>2. IInv /\ AInv /\ [Next]_vars => AInv' BY NextAInv
<1>3. Spec => []EndsAgree
    BY <1>1, <1>2, InitIInv, InitAInv, AgreementIsTheProperty, PTL DEF Spec
<1>4. EstablishedSpec => []EndsAgree
    BY <1>1, <1>2, EstablishedIInv, EstablishedAInv, AgreementIsTheProperty, PTL
       DEF EstablishedSpec
<1> QED BY <1>3, <1>4

\* An end in FIN_WAIT_2 or TIME_WAIT has had every byte its user wrote, and its
\* FIN, received by its peer (tcpStateFinWait1, tcpStateClosing).
THEOREM FinishedWasReceived ==
    ASSUME StraysAreOld
    PROVE  /\ Spec => []FinishedMeansReceived
           /\ EstablishedSpec => []FinishedMeansReceived
<1>1. IInv /\ [Next]_vars => IInv' BY NextIInv
<1>2. IInv /\ AInv /\ [Next]_vars => AInv' BY NextAInv
<1>3. Spec => []FinishedMeansReceived
    BY <1>1, <1>2, InitIInv, InitAInv, FinishIsTheProperty, PTL DEF Spec
<1>4. EstablishedSpec => []FinishedMeansReceived
    BY <1>1, <1>2, EstablishedIInv, EstablishedAInv, FinishIsTheProperty, PTL
       DEF EstablishedSpec
<1> QED BY <1>3, <1>4
=============================================================================
