---------------------------- MODULE TcpWindowProofs ----------------------------
(***************************************************************************)
(* A sender stays inside the window of a peer that only acknowledges,      *)
(* whatever the network does to the acknowledgments: the peer never takes  *)
(* back what it offers, each of its segments offers no more than it can    *)
(* store, and the sender keeps the window of the acknowledgment it         *)
(* believes.                                                               *)
(***************************************************************************)
EXTENDS TcpEndsProofs

\* How far the peer of p may send: the right edge of the window p offers, once
\* p knows where the stream starts.
Reach(p) == IF Heard(p) THEN RightEdge(p) ELSE 0

\* A segment offers no more than that.
Offer(p, g) == Live(g) /\ "ACK" \in g.flags => g.ack + g.wnd <= Reach(p)

\* An end that has only acknowledged has used the number of its SYN.
AcksOnly(p) == OnlyAcks(p) /\ ~Unopened(p) => p.sndNxt = p.iss + 1

\* No data was sent, or are queued, beyond b.
Within(s, b) ==
    /\ \A g \in s.sent : g.data # << >> => g.seq + Len(g.data) <= b
    /\ \A i \in s.rtxQ : i.len > 0 => i.seq + i.len <= b

\* The states in which new data are sent.
Sending == {"ESTABLISHED", "CLOSE_WAIT"}

\* The window is that of the last acknowledgment, of number n or before, and
\* ends before b.
Window(s, n, b) ==
    /\ s.iss < s.sndUna /\ s.sndWl1 <= n /\ s.sndWl2 = s.sndUna
    /\ s.sndUna + s.sndWnd <= b

\* An end within the bound b of a peer whose acknowledgments have the number n.
Held(s, n, b) == Within(s, b) /\ (s.state \in Sending => Window(s, n, b))

Flow(s, p) == OnlyAcks(p) => Held(s, p.iss + 1, Reach(p))

\* The invariant of the window.
WInv == \A e \in Ends : /\ \A g \in sock[e].sent : Offer(sock[e], g)
                        /\ AcksOnly(sock[e])
                        /\ Flow(sock[e], sock[Peer(e)])

\* What an end may say: it takes back no window, and a sequence number goes
\* with data or a FIN.
Speaks(s, t) ==
    /\ t \in Socket /\ t.iss = s.iss /\ s.sent \subseteq t.sent
    /\ Reach(s) <= Reach(t)
    /\ \A g \in t.sent : g \in s.sent \/ Offer(t, g)
    /\ OnlyAcks(t) => t.sndNxt = s.sndNxt

\* It sends no data, or data it sent before.
Repeats(s, t) == Speaks(s, t) /\ \A b \in Int : Within(s, b) => Within(t, b)

SameWindow(s, t) ==
    /\ t.sndUna = s.sndUna /\ t.sndWnd = s.sndWnd
    /\ t.sndWl1 = s.sndWl1 /\ t.sndWl2 = s.sndWl2

LEMMA ReachType ==
    ASSUME NEW s \in Socket
    PROVE  Reach(s) \in Int
BY SocketNumbers DEF Reach, RightEdge

LEMMA ReachSame ==
    ASSUME NEW s, NEW t, t.irs = s.irs, t.rcvNxt = s.rcvNxt, t.rcvWnd = s.rcvWnd
    PROVE  Reach(t) = Reach(s)
BY DEF Reach, Heard, RightEdge

LEMMA SpeaksTransitive ==
    ASSUME NEW s \in Socket, NEW t, NEW u, Speaks(s, t), Speaks(t, u)
    PROVE  Speaks(s, u)
<1>1. t \in Socket /\ u \in Socket BY DEF Speaks
<1>2. Reach(s) \in Int /\ Reach(t) \in Int /\ Reach(u) \in Int BY <1>1, ReachType
<1>3. Reach(s) <= Reach(t) /\ Reach(t) <= Reach(u) BY DEF Speaks
<1>4. OnlyAcks(u) => OnlyAcks(t) BY DEF Speaks, OnlyAcks
<1>5. ASSUME NEW g \in u.sent, g \notin s.sent PROVE Offer(u, g)
    <2>1. CASE g \notin t.sent BY <2>1 DEF Speaks
    <2>2. CASE g \in t.sent
        <3>1. g \in Segment BY <1>1, <2>2 DEF Socket
        <3>2. g.ack \in Nat /\ g.wnd \in Int BY <3>1 DEF Segment
        <3>3. Offer(t, g) BY <1>5, <2>2 DEF Speaks
        <3> QED BY <1>2, <1>3, <3>2, <3>3 DEF Offer
    <2> QED BY <2>1, <2>2
<1>6. Reach(s) <= Reach(u) BY <1>2, <1>3
<1> QED BY <1>4, <1>5, <1>6 DEF Speaks

LEMMA RepeatsTransitive ==
    ASSUME NEW s \in Socket, NEW t, NEW u, Repeats(s, t), Repeats(t, u)
    PROVE  Repeats(s, u)
BY SpeaksTransitive DEF Repeats

\* A step of which the other end learns an acknowledgment at most.
LEMMA RepeatsOnward ==
    ASSUME NEW s \in Socket, NEW t \in Socket, t.iss = s.iss,
           t.sndNxt = s.sndNxt, Reach(s) <= Reach(t),
           \A i \in t.rtxQ : i \in s.rtxQ \/ i.len = 0,
           s.sent \subseteq t.sent,
           \A g \in t.sent : g \in s.sent \/ (g.data = << >> /\ Offer(t, g))
    PROVE  Repeats(s, t)
<1>1. Speaks(s, t) BY DEF Speaks
<1>2. ASSUME NEW b \in Int, Within(s, b) PROVE Within(t, b)
    <2>1. \A i \in t.rtxQ : i.len > 0 => i \in s.rtxQ OBVIOUS
    <2> QED BY <1>2, <2>1 DEF Within
<1> QED BY <1>1, <1>2 DEF Repeats

LEMMA RepeatsFrom ==
    ASSUME NEW s \in Socket, NEW t \in Socket, t.iss = s.iss, t.irs = s.irs,
           t.rcvNxt = s.rcvNxt, t.rcvWnd = s.rcvWnd, t.sndNxt = s.sndNxt,
           \A i \in t.rtxQ : i \in s.rtxQ \/ i.len = 0,
           s.sent \subseteq t.sent,
           \A g \in t.sent : g \in s.sent \/ (g.data = << >> /\ Offer(s, g))
    PROVE  Repeats(s, t)
<1>1. Reach(t) = Reach(s) /\ Reach(s) \in Int BY ReachSame, ReachType
<1>2. \A g \in t.sent : g \in s.sent \/ (g.data = << >> /\ Offer(t, g))
    BY <1>1 DEF Offer
<1> QED BY <1>1, <1>2, RepeatsOnward

LEMMA MoreSentRepeats ==
    ASSUME NEW s \in Socket, NEW G \in SUBSET Segment,
           \A g \in G : g.data = << >> /\ Offer(s, g)
    PROVE  LET t == [s EXCEPT !.sent = @ \cup G] IN
           Repeats(s, t) /\ SameWindow(s, t)
<1> DEFINE t == [s EXCEPT !.sent = @ \cup G]
<1>1. t \in Socket BY MoreSent DEF Transmits
<1>2. /\ t.iss = s.iss /\ t.irs = s.irs /\ t.rcvNxt = s.rcvNxt
      /\ t.rcvWnd = s.rcvWnd /\ t.sndNxt = s.sndNxt /\ t.rtxQ = s.rtxQ
      /\ t.sent = s.sent \cup G /\ SameWindow(s, t)
    BY DEF Socket, SameWindow
<1> HIDE DEF t
<1>3. Repeats(s, t) BY <1>1, <1>2, RepeatsFrom
<1> QED BY <1>2, <1>3 DEF t

LEMMA SendSegmentRepeats ==
    ASSUME NEW s \in Socket, NEW flags \in SUBSET Flags, NEW seq \in Nat,
           NEW ack \in Nat,
           "RST" \notin flags /\ "ACK" \in flags => Heard(s) /\ ack = s.rcvNxt
    PROVE  LET t == SendSegment(s, flags, seq, ack) IN
           Repeats(s, t) /\ SameWindow(s, t)
<1> DEFINE g == [flags |-> flags, seq |-> seq,
                 ack |-> IF "ACK" \in flags THEN ack ELSE 0,
                 wnd |-> s.rcvWnd, data |-> << >>]
<1>1. << >> \in Seq(Byte) BY DEF Byte
<1>2. g \in Segment BY <1>1, SocketNumbers DEF Segment
<1>3. Offer(s, g)
    <2> SUFFICES ASSUME "RST" \notin flags, "ACK" \in flags
                 PROVE  ack + s.rcvWnd <= Reach(s)
        BY DEF Offer, Live
    <2> QED BY SocketNumbers DEF Reach, RightEdge
<1>4. g.data = << >> OBVIOUS
<1> HIDE DEF g
<1>5. {g} \in SUBSET Segment BY <1>2
<1>6. LET t == [s EXCEPT !.sent = @ \cup {g}] IN
      Repeats(s, t) /\ SameWindow(s, t)
    BY <1>3, <1>4, <1>5, MoreSentRepeats
<1> QED BY <1>6 DEF SendSegment, g

LEMMA SelfRepeats ==
    ASSUME NEW s \in Socket
    PROVE  Repeats(s, s) /\ SameWindow(s, s)
BY RepeatsFrom DEF SameWindow

LEMMA SendAckRepeats ==
    ASSUME NEW s \in Socket, Heard(s)
    PROVE  Repeats(s, SendAck(s)) /\ SameWindow(s, SendAck(s))
<1>1. s.sndNxt \in Nat /\ s.rcvNxt \in Nat /\ {"ACK"} \in SUBSET Flags
    BY SocketNumbers DEF Flags
<1> QED BY <1>1, SendSegmentRepeats DEF SendAck

LEMMA SendResetSegmentRepeats ==
    ASSUME NEW s \in Socket, NEW seq \in Nat
    PROVE  LET t == SendResetSegment(s, seq) IN
           Repeats(s, t) /\ SameWindow(s, t)
<1> DEFINE flags == {"RST"}
           t == SendSegment(s, flags, seq, 0)
<1>1. flags \in SUBSET Flags /\ "RST" \in flags /\ 0 \in Nat BY DEF Flags
<1>2. SendResetSegment(s, seq) \in {s, t} BY DEF SendResetSegment
<1> HIDE DEF flags
<1>3. Repeats(s, t) /\ SameWindow(s, t) BY <1>1, SendSegmentRepeats
<1> HIDE DEF t
<1> QED BY <1>2, <1>3, SelfRepeats

LEMMA RejectSegmentRepeats ==
    ASSUME NEW s \in Socket, NEW g \in Segment
    PROVE  LET t == RejectSegment(s, g) IN
           Repeats(s, t) /\ SameWindow(s, t)
<1> DEFINE syn == IF "SYN" \in g.flags THEN 1 ELSE 0
           fin == IF "FIN" \in g.flags THEN 1 ELSE 0
           occupied == Len(g.data) + syn + fin
           a == [flags |-> {"RST"}, seq |-> g.ack, ack |-> 0,
                 wnd |-> 0, data |-> << >>]
           b == [flags |-> {"RST", "ACK"}, seq |-> 0,
                 ack |-> g.seq + occupied, wnd |-> 0, data |-> << >>]
           t(x) == [s EXCEPT !.sent = @ \cup {x}]
<1>1. << >> \in Seq(Byte) BY DEF Byte
<1>2. g.ack \in Nat /\ g.seq \in Nat /\ Len(g.data) \in Nat BY DEF Segment
<1>3. occupied \in Nat
    <2>1. syn \in Nat /\ fin \in Nat OBVIOUS
    <2> HIDE DEF syn, fin
    <2> QED BY <1>2, <2>1
<1> HIDE DEF occupied
<1>4. a \in Segment /\ b \in Segment BY <1>1, <1>2, <1>3 DEF Segment, Flags
<1>5. a.data = << >> /\ b.data = << >> /\ ~Live(a) /\ ~Live(b) BY DEF Live
<1>6. RejectSegment(s, g) \in {s, t(a), t(b)} BY DEF RejectSegment, occupied
<1> HIDE DEF a, b
<1>7. ASSUME NEW x, x = a \/ x = b PROVE Repeats(s, t(x)) /\ SameWindow(s, t(x))
    <2>1. {x} \in SUBSET Segment /\ x.data = << >> /\ Offer(s, x)
        BY <1>4, <1>5, <1>7 DEF Offer
    <2> QED BY <2>1, MoreSentRepeats
<1>8. /\ Repeats(s, t(a)) /\ SameWindow(s, t(a))
      /\ Repeats(s, t(b)) /\ SameWindow(s, t(b))
    BY <1>7
<1> HIDE DEF t
<1> QED BY <1>6, <1>8, SelfRepeats

\* What goes on the wire for an item.
LEMMA SegmentOfFields ==
    ASSUME NEW s \in Socket, NEW i \in Item
    PROVE  LET g == SegmentOf(s, i) IN
           /\ g \in Segment /\ g.seq = i.seq /\ g.flags = i.flags
           /\ Len(g.data) = i.len /\ (i.len = 0 <=> g.data = << >>)
           /\ Heard(s) \/ "ACK" \notin i.flags => Offer(s, g)
<1> DEFINE g == SegmentOf(s, i)
           d == ReadTxBuffer(s, i.seq, i.len)
<1>1. i.seq \in Nat /\ i.len \in Nat BY DEF Item
<1>2. d \in Seq(Byte) BY <1>1, ReadTxBufferType
<1>3. Len(d) = i.len
    <2>1. DOMAIN d = 1 .. i.len BY DEF ReadTxBuffer
    <2> HIDE DEF d
    <2>2. DOMAIN d = 1 .. Len(d) /\ Len(d) \in Nat BY <1>2
    <2> QED BY <1>1, <2>1, <2>2
<1> HIDE DEF d
<1>4. i.len = 0 <=> d = << >> BY <1>2, <1>3
<1>5. g \in Segment BY SegmentOfType
<1>6. /\ g.seq = i.seq /\ g.flags = i.flags /\ g.data = d /\ g.wnd = s.rcvWnd
      /\ "ACK" \in i.flags => g.ack = s.rcvNxt
    BY DEF SegmentOf, d
<1> HIDE DEF g
<1>7. Heard(s) \/ "ACK" \notin i.flags => Offer(s, g)
    <2> SUFFICES ASSUME Heard(s), "ACK" \in i.flags
                 PROVE  g.ack + g.wnd <= Reach(s)
        BY <1>6 DEF Offer
    <2> QED BY <1>6, SocketNumbers DEF Reach, RightEdge
<1> QED BY <1>3, <1>4, <1>5, <1>6, <1>7 DEF g

LEMMA QueueSegmentsWindow ==
    ASSUME NEW s \in Socket, NEW items
    PROVE  SameWindow(s, QueueSegments(s, items))
<1> DEFINE S == s.sent \cup {SegmentOf(s, i) : i \in items}
           Q == s.rtxQ \cup items
           C == IF s.rtxTimer THEN s.rtxCount ELSE 0
           q == [s EXCEPT !.sent = S, !.rtxQ = Q, !.rtxTimer = TRUE, !.rtxCount = C]
<1>1. QueueSegments(s, items) = q BY DEF QueueSegments, Socket
<1> HIDE DEF S, Q, C
<1>2. SameWindow(s, q) BY DEF SameWindow, Socket
<1> QED BY <1>1, <1>2

LEMMA QueueControlRepeats ==
    ASSUME NEW s \in Socket, NEW flags \in SUBSET Flags, NEW seq \in Nat,
           Heard(s) \/ "ACK" \notin flags
    PROVE  LET t == QueueControl(s, flags, seq) IN
           Repeats(s, t) /\ SameWindow(s, t)
<1> DEFINE i == [seq |-> seq, len |-> 0, flags |-> flags]
           items == {i}
           t == QueueControl(s, flags, seq)
<1>1. t = QueueSegments(s, items) BY DEF QueueControl
<1>2. i \in Item /\ i.len = 0 /\ i.flags = flags BY DEF Item
<1> HIDE DEF i
<1>3. t \in Socket /\ t.rcvWnd = s.rcvWnd
    BY QueueControlType DEF Transmits, SameReceive
<1> HIDE DEF items, t
<1>4. /\ t.iss = s.iss /\ t.irs = s.irs /\ t.rcvNxt = s.rcvNxt
      /\ t.sndNxt = s.sndNxt /\ t.rtxQ = s.rtxQ \cup items
      /\ t.sent = s.sent \cup {SegmentOf(s, x) : x \in items}
    BY <1>1, QueueSegmentsFields DEF SameNumbers
<1>5. SameWindow(s, t) BY <1>1, QueueSegmentsWindow
<1>6. SegmentOf(s, i).data = << >> /\ Offer(s, SegmentOf(s, i))
    BY <1>2, SegmentOfFields
<1>7. \A x \in items : x = i BY DEF items
<1>8. \A g \in t.sent : g \in s.sent \/ (g.data = << >> /\ Offer(s, g))
    BY <1>4, <1>6, <1>7
<1>9. \A x \in t.rtxQ : x \in s.rtxQ \/ x.len = 0 BY <1>2, <1>4, <1>7
<1>10. Repeats(s, t) BY <1>3, <1>4, <1>8, <1>9, RepeatsFrom
<1> QED BY <1>5, <1>10 DEF t

LEMMA ChangeStateRepeats ==
    ASSUME NEW s \in Socket, NEW state \in States
    PROVE  LET t == ChangeState(s, state) IN
           Repeats(s, t) /\ SameWindow(s, t) /\ t.state = state
<1> DEFINE t == ChangeState(s, state)
<1>1. t \in Socket /\ t.state = state BY ChangeStateType
<1>2. /\ t.iss = s.iss /\ t.irs = s.irs /\ t.rcvNxt = s.rcvNxt
      /\ t.rcvWnd = s.rcvWnd /\ t.sndNxt = s.sndNxt /\ t.rtxQ = s.rtxQ
      /\ t.sent = s.sent /\ SameWindow(s, t)
    BY DEF ChangeState, Socket, SameWindow
<1> HIDE DEF t
<1>3. Repeats(s, t) BY <1>1, <1>2, RepeatsFrom
<1> QED BY <1>1, <1>2, <1>3 DEF t

LEMMA DeleteControlBlockRepeats ==
    ASSUME NEW s \in Socket
    PROVE  LET t == DeleteControlBlock(s) IN Repeats(s, t)
<1> DEFINE t == DeleteControlBlock(s)
<1>1. t \in Socket BY DeleteControlBlockType DEF Transmits
<1>2. /\ t.iss = s.iss /\ t.irs = s.irs /\ t.rcvNxt = s.rcvNxt
      /\ t.rcvWnd = s.rcvWnd /\ t.sndNxt = s.sndNxt /\ t.rtxQ = {}
      /\ t.sent = s.sent
    BY DEF DeleteControlBlock, Socket
<1> HIDE DEF t
<1>3. Repeats(s, t) BY <1>1, <1>2, RepeatsFrom
<1> QED BY <1>3 DEF t

\* socketClose and tcpTick free the socket.
LEMMA FreedRepeats ==
    ASSUME NEW s \in Socket
    PROVE  LET t == [DeleteControlBlock(ChangeState(s, "CLOSED"))
                       EXCEPT !.type = "UNUSED"] IN
           Repeats(s, t) /\ t.state = "CLOSED"
<1> DEFINE c == ChangeState(s, "CLOSED")
           d == DeleteControlBlock(c)
           t == [d EXCEPT !.type = "UNUSED"]
<1>1. "CLOSED" \in States BY DEF States
<1>2. Repeats(s, c) /\ c.state = "CLOSED" BY <1>1, ChangeStateRepeats
<1>3. c \in Socket BY <1>2 DEF Repeats, Speaks
<1> HIDE DEF c
<1>4. Repeats(c, d) /\ d \in Socket /\ d.state = "CLOSED"
    BY <1>2, <1>3, DeleteControlBlockRepeats, DeleteControlBlockType
       DEF Transmits, SameControl
<1> HIDE DEF d
<1>5. t \in Socket BY <1>4 DEF Socket
<1>6. /\ t.iss = d.iss /\ t.irs = d.irs /\ t.rcvNxt = d.rcvNxt
      /\ t.rcvWnd = d.rcvWnd /\ t.sndNxt = d.sndNxt /\ t.rtxQ = d.rtxQ
      /\ t.sent = d.sent /\ t.state = d.state
    BY <1>4 DEF Socket
<1> HIDE DEF t
<1>7. Repeats(d, t) BY <1>4, <1>5, <1>6, RepeatsFrom
<1>8. Repeats(s, t) BY <1>2, <1>3, <1>4, <1>7, RepeatsTransitive
<1> QED BY <1>4, <1>6, <1>8 DEF t, d, c

LEMMA RetransmitSegmentRepeats ==
    ASSUME NEW s \in Socket, \A i \in s.rtxQ : ItemOK(s, i)
    PROVE  LET t == RetransmitSegment(s) IN
           Repeats(s, t) /\ SameWindow(s, t)
<1> DEFINE burst == {i \in s.rtxQ :
                       \A h \in s.rtxQ : i.seq + i.len - h.seq <= Mss}
           G == {SegmentOf(s, i) : i \in burst}
           t == RetransmitSegment(s)
<1>1. burst \subseteq s.rtxQ /\ burst \subseteq Item BY DEF Socket
<1>2. t \in Socket BY RetransmitSegmentType DEF Transmits
<1>3. t = [s EXCEPT !.sent = @ \cup G] BY DEF RetransmitSegment
<1> HIDE DEF burst, t
<1>4. /\ t.iss = s.iss /\ t.irs = s.irs /\ t.rcvNxt = s.rcvNxt
      /\ t.rcvWnd = s.rcvWnd /\ t.sndNxt = s.sndNxt /\ t.rtxQ = s.rtxQ
      /\ t.sent = s.sent \cup G /\ SameWindow(s, t)
    BY <1>3 DEF Socket, SameWindow
<1>5. \A i \in burst : Offer(s, SegmentOf(s, i))
    BY <1>1, SegmentOfFields DEF ItemOK
<1>6. Reach(t) = Reach(s) /\ Reach(s) \in Int BY <1>4, ReachSame, ReachType
<1>7. Speaks(s, t) BY <1>2, <1>4, <1>5, <1>6 DEF Speaks, Offer
<1>8. ASSUME NEW b \in Int, Within(s, b) PROVE Within(t, b)
    <2>1. ASSUME NEW i \in burst, SegmentOf(s, i).data # << >>
          PROVE  SegmentOf(s, i).seq + Len(SegmentOf(s, i).data) <= b
        <3>1. i \in Item /\ i \in s.rtxQ BY <1>1
        <3>2. /\ SegmentOf(s, i).seq = i.seq /\ Len(SegmentOf(s, i).data) = i.len
              /\ i.len # 0 /\ i.len \in Nat
            BY <2>1, <3>1, SegmentOfFields DEF Item
        <3> QED BY <1>8, <3>1, <3>2 DEF Within
    <2> QED BY <1>4, <1>8, <2>1 DEF Within
<1> QED BY <1>4, <1>7, <1>8 DEF Repeats, t

LEMMA WriteTxBufferRepeats ==
    ASSUME NEW s \in Socket, NEW data \in Seq(Byte)
    PROVE  LET t == WriteTxBuffer(s, data) IN
           Repeats(s, t) /\ SameWindow(s, t)
<1> DEFINE t == WriteTxBuffer(s, data)
<1>1. t \in Socket BY WriteTxBufferType DEF Transmits
<1>2. /\ t.iss = s.iss /\ t.irs = s.irs /\ t.rcvNxt = s.rcvNxt
      /\ t.rcvWnd = s.rcvWnd /\ t.sndNxt = s.sndNxt /\ t.rtxQ = s.rtxQ
      /\ t.sent = s.sent /\ SameWindow(s, t)
    BY DEF WriteTxBuffer, Socket, SameWindow
<1> HIDE DEF t
<1>3. Repeats(s, t) BY <1>1, <1>2, RepeatsFrom
<1> QED BY <1>2, <1>3 DEF t

\* The timers and counters of an end.
LEMMA TimersRepeats ==
    ASSUME NEW s \in Socket, NEW b \in BOOLEAN, NEW n \in Nat, NEW m \in Nat
    PROVE  LET t == [s EXCEPT !.rtxTimer = b, !.rtxCount = n, !.probeCount = m] IN
           Repeats(s, t) /\ SameWindow(s, t) /\ t.state = s.state
<1> DEFINE t == [s EXCEPT !.rtxTimer = b, !.rtxCount = n, !.probeCount = m]
<1>1. t \in Socket BY DEF Socket
<1>2. /\ t.iss = s.iss /\ t.irs = s.irs /\ t.rcvNxt = s.rcvNxt
      /\ t.rcvWnd = s.rcvWnd /\ t.sndNxt = s.sndNxt /\ t.rtxQ = s.rtxQ
      /\ t.sent = s.sent /\ SameWindow(s, t) /\ t.state = s.state
    BY DEF Socket, SameWindow
<1> HIDE DEF t
<1>3. Repeats(s, t) BY <1>1, <1>2, RepeatsFrom
<1> QED BY <1>2, <1>3 DEF t

\* Data within the bound b are sent.
LEMMA SendDataSpeaks ==
    ASSUME NEW s \in Socket, Heard(s), NEW n \in Int, n <= s.sndUser
    PROVE  LET t == SendData(s, n) IN
           /\ Speaks(s, t) /\ SameWindow(s, t) /\ t.state = s.state
           /\ \A b \in Int : Within(s, b) /\ (n > 0 => s.sndNxt + n <= b) =>
                 Within(t, b)
<1>1. CASE n <= 0
    <2>1. SendData(s, n) = s BY <1>1 DEF SendData
    <2> QED BY <2>1, SelfRepeats DEF Repeats
<1>2. CASE n > 0
    <2> DEFINE chunk(k) == [seq |-> s.sndNxt + k * Mss,
                            len |-> Min(Mss, n - k * Mss), flags |-> {"ACK"}]
               items == {chunk(k) : k \in 0 .. (n - 1) \div Mss}
               q == QueueSegments(s, items)
               r == [q EXCEPT !.sndNxt = @ + n, !.sndUser = @ - n]
               t == SendData(s, n)
    <2>1. n \in Nat \ {0} /\ s.sndNxt \in Nat /\ s.sndUser \in Nat
        BY <1>2, SocketNumbers
    <2>2. t \in Socket /\ t.state = s.state /\ t.rcvWnd = s.rcvWnd
        BY SendDataType DEF Transmits, SameControl, SameReceive
    <2>3. /\ t.iss = s.iss /\ t.irs = s.irs /\ t.rcvNxt = s.rcvNxt
          /\ t.rtxQ = s.rtxQ \cup items
          /\ t.sent = s.sent \cup {SegmentOf(s, i) : i \in items}
        BY <1>2, SendDataFields
    <2>4. SameWindow(s, t)
        <3>1. t = r BY <1>2 DEF SendData
        <3> HIDE DEF items, t
        <3>2. SameWindow(s, q) BY QueueSegmentsWindow
        <3>3. DOMAIN q = DOMAIN s BY DEF QueueSegments
        <3> HIDE DEF q
        <3>4. SameWindow(q, r) BY <3>3 DEF SameWindow, Socket
        <3> HIDE DEF r
        <3> QED BY <3>1, <3>2, <3>4 DEF SameWindow
    <2> HIDE DEF t, q, r
    <2>5. ASSUME NEW k \in 0 .. (n - 1) \div Mss
          PROVE  /\ chunk(k) \in Item /\ chunk(k).len > 0
                 /\ chunk(k).seq + chunk(k).len <= s.sndNxt + n
        <3>1. k * Mss \in Nat /\ k * Mss <= n BY <2>1, ChunkStarts
        <3>2. k * Mss < n
            <4>1. k \in Nat /\ k * Mss <= ((n - 1) \div Mss) * Mss
                BY <2>1, MssAssumption
            <4>2. ((n - 1) \div Mss) * Mss <= n - 1 BY <2>1, MssAssumption
            <4>3. ((n - 1) \div Mss) * Mss \in Int BY <2>1, MssAssumption
            <4> QED BY <2>1, <3>1, <4>1, <4>2, <4>3
        <3>3. s.sndNxt + k * Mss \in Nat BY <2>1, <3>1
        <3>4. /\ Min(Mss, n - k * Mss) \in Nat /\ Min(Mss, n - k * Mss) > 0
              /\ s.sndNxt + k * Mss + Min(Mss, n - k * Mss) <= s.sndNxt + n
            BY <2>1, <3>1, <3>2, MssAssumption DEF Min
        <3> QED BY <3>3, <3>4 DEF Item, Flags
    <2>6. \A i \in items : i \in Item /\ i.len > 0 /\ i.seq + i.len <= s.sndNxt + n
        BY <2>5
    <2>7. \E i \in items : TRUE
        <3>1. 0 \in 0 .. (n - 1) \div Mss BY <2>1, MssAssumption
        <3>2. chunk(0) \in items BY <3>1
        <3> QED BY <3>2
    <2> HIDE DEF items
    <2>8. ASSUME NEW i \in items
          PROVE  LET g == SegmentOf(s, i) IN
                 /\ g.data # << >> /\ Offer(s, g) /\ g.seq + Len(g.data) = i.seq + i.len
        <3>1. i \in Item /\ i.len # 0 BY <2>6 DEF Item
        <3> QED BY <3>1, SegmentOfFields
    <2>9. ~OnlyAcks(t) BY <2>3, <2>7, <2>8 DEF OnlyAcks
    <2>10. Reach(t) = Reach(s) /\ Reach(s) \in Int BY <2>2, <2>3, ReachSame, ReachType
    <2>11. Speaks(s, t) BY <2>2, <2>3, <2>8, <2>9, <2>10 DEF Speaks, Offer
    <2>12. ASSUME NEW b \in Int, Within(s, b), s.sndNxt + n <= b PROVE Within(t, b)
        <3>1. \A i \in items : i.seq + i.len <= b
            <4> TAKE i \in items
            <4>1. i.seq \in Nat /\ i.len \in Nat /\ i.seq + i.len <= s.sndNxt + n
                BY <2>6 DEF Item
            <4> QED BY <2>1, <2>12, <4>1
        <3>2. \A i \in items : SegmentOf(s, i).seq + Len(SegmentOf(s, i).data) <= b
            BY <2>8, <3>1
        <3> QED BY <2>3, <2>12, <3>1, <3>2 DEF Within
    <2> QED BY <1>2, <2>2, <2>4, <2>11, <2>12 DEF t
<1> QED BY <1>1, <1>2

\* What is sent at once fits in the window (tcpNagleAlgo, the override timer).
LEMMA SendsInWindow ==
    ASSUME NEW s \in Socket, NEW flag
    PROVE  /\ NagleAmount(s, flag) > 0 =>
                 s.sndNxt + NagleAmount(s, flag) <= s.sndUna + s.sndWnd
           /\ LET n == Max(0, Min(s.sndUser, UsableWindow(s))) IN
              /\ n \in Int /\ n <= s.sndUser
              /\ n > 0 => s.sndNxt + n <= s.sndUna + s.sndWnd
<1> DEFINE sendable  == Max(0, Min(s.sndUser, UsableWindow(s)))
           remainder == sendable % Mss
<1>1. s.sndUser \in Nat /\ s.sndWnd \in Int /\ s.sndNxt \in Nat /\ s.sndUna \in Nat
    BY SocketNumbers
<1>2. /\ UsableWindow(s) \in Int
      /\ s.sndNxt + UsableWindow(s) <= s.sndUna + s.sndWnd
    BY <1>1, TxBufferAssumption DEF UsableWindow, Min
<1>3. /\ sendable \in Nat /\ sendable <= s.sndUser
      /\ sendable > 0 => sendable <= UsableWindow(s)
    BY <1>1, <1>2 DEF Min, Max
<1> HIDE DEF sendable
<1>4. remainder \in Nat BY <1>3, MssAssumption
<1> HIDE DEF remainder
<1>5. NagleAmount(s, flag) \in {sendable, sendable - remainder}
    BY DEF NagleAmount, sendable, remainder
<1>6. NagleAmount(s, flag) \in Int /\ NagleAmount(s, flag) <= sendable
    BY <1>3, <1>4, <1>5
<1>7. sendable > 0 => s.sndNxt + sendable <= s.sndUna + s.sndWnd
    BY <1>1, <1>2, <1>3
<1>8. NagleAmount(s, flag) > 0 =>
         s.sndNxt + NagleAmount(s, flag) <= s.sndUna + s.sndWnd
    BY <1>1, <1>3, <1>6, <1>7
<1> QED BY <1>1, <1>3, <1>7, <1>8 DEF sendable

LEMMA NagleSends ==
    ASSUME NEW s \in Socket, Heard(s), NEW flag
    PROVE  LET t == NagleAlgo(s, flag) IN
           /\ Speaks(s, t) /\ SameWindow(s, t) /\ t.state = s.state
           /\ \A b \in Int : Within(s, b) /\ s.sndUna + s.sndWnd <= b => Within(t, b)
<1> DEFINE n == NagleAmount(s, flag)
           t == SendData(s, n)
<1>1. n \in Int /\ n <= s.sndUser BY NagleAmountBound
<1>2. n > 0 => s.sndNxt + n <= s.sndUna + s.sndWnd BY SendsInWindow
<1>3. NagleAlgo(s, flag) = t BY DEF NagleAlgo
<1> HIDE DEF n
<1>4. /\ Speaks(s, t) /\ SameWindow(s, t) /\ t.state = s.state
      /\ \A b \in Int : Within(s, b) /\ (n > 0 => s.sndNxt + n <= b) => Within(t, b)
    BY <1>1, SendDataSpeaks
<1> HIDE DEF t
<1>5. ASSUME NEW b \in Int, Within(s, b), s.sndUna + s.sndWnd <= b PROVE Within(t, b)
    <2>1. n > 0 => s.sndNxt + n <= b BY <1>1, <1>2, <1>5, SocketNumbers
    <2> QED BY <1>4, <1>5, <2>1
<1> QED BY <1>3, <1>4, <1>5

LEMMA OverrideSends ==
    ASSUME NEW s \in Socket, Heard(s)
    PROVE  LET t == OverrideSend(s) IN
           /\ Speaks(s, t) /\ SameWindow(s, t) /\ t.state = s.state
           /\ \A b \in Int : Within(s, b) /\ s.sndUna + s.sndWnd <= b => Within(t, b)
<1> DEFINE n == Max(0, Min(s.sndUser, UsableWindow(s)))
           t == SendData(s, n)
<1>1. n \in Int /\ n <= s.sndUser BY SendsInWindow
<1>2. n > 0 => s.sndNxt + n <= s.sndUna + s.sndWnd BY SendsInWindow
<1>3. OverrideSend(s) = t BY DEF OverrideSend
<1> HIDE DEF n
<1>4. /\ Speaks(s, t) /\ SameWindow(s, t) /\ t.state = s.state
      /\ \A b \in Int : Within(s, b) /\ (n > 0 => s.sndNxt + n <= b) => Within(t, b)
    BY <1>1, SendDataSpeaks
<1> HIDE DEF t
<1>5. ASSUME NEW b \in Int, Within(s, b), s.sndUna + s.sndWnd <= b PROVE Within(t, b)
    <2>1. n > 0 => s.sndNxt + n <= b BY <1>1, <1>2, <1>5, SocketNumbers
    <2> QED BY <1>4, <1>5, <2>1
<1> QED BY <1>3, <1>4, <1>5

\* tcpUpdateSendWindow takes the window of the segment, or the segment is older
\* than the current window or repeats it.
LEMMA UpdateSendWindowTakes ==
    ASSUME NEW s \in Socket, NEW g \in Segment
    PROVE  LET w == UpdateSendWindow(s, g) IN
           \/ w.sndWnd = g.wnd /\ w.sndWl1 = g.seq /\ w.sndWl2 = g.ack
           \/ /\ SameWindow(s, w)
              /\ \/ g.seq = s.sndWl1 /\ g.ack = s.sndWl2
                 \/ ~(g.seq >= s.sndWl1 /\ g.ack >= s.sndWl2)
<1> DEFINE most == Max(s.maxSndWnd, g.wnd)
           taken == [s EXCEPT !.sndWnd = g.wnd, !.sndWl1 = g.seq,
                              !.sndWl2 = g.ack, !.maxSndWnd = most]
           closes == g.wnd = 0 /\ s.sndWnd # 0
           b == taken.probing \/ closes
           n == IF closes THEN 0 ELSE taken.probeCount
           probed == [taken EXCEPT !.probing = b, !.probeCount = n]
           w == UpdateSendWindow(s, g)
           New(x) == x.sndWnd = g.wnd /\ x.sndWl1 = g.seq /\ x.sndWl2 = g.ack
<1>1. taken = [s EXCEPT !.sndWnd = g.wnd, !.sndWl1 = g.seq,
                        !.sndWl2 = g.ack, !.maxSndWnd = Max(@, g.wnd)]
    BY DEF Socket
<1>2. probed = [taken EXCEPT !.probing = @ \/ closes,
                             !.probeCount = IF closes THEN 0 ELSE @]
    BY DEF Socket
<1>3. w \in {taken, probed} \/
      (w = s /\ (\/ g.seq = s.sndWl1 /\ g.ack = s.sndWl2
                 \/ ~(g.seq >= s.sndWl1 /\ g.ack >= s.sndWl2)))
    BY <1>1, <1>2, ZenonT(30) DEF UpdateSendWindow
<1> HIDE DEF most, b, n
<1>4. New(taken) /\ DOMAIN taken = DOMAIN s BY DEF Socket
<1>5. DOMAIN s = DOMAIN probed BY <1>4
<1> HIDE DEF taken
<1>6. New(probed) BY <1>4 DEF Socket
<1> HIDE DEF probed, w
<1>7. CASE w = taken \/ w = probed BY <1>4, <1>6, <1>7 DEF w
<1>8. CASE w = s /\ (\/ g.seq = s.sndWl1 /\ g.ack = s.sndWl2
                     \/ ~(g.seq >= s.sndWl1 /\ g.ack >= s.sndWl2))
    BY <1>8 DEF SameWindow, w
<1> QED BY <1>3, <1>7, <1>8

\* What an acknowledgment leaves of the window.
LEMMA CheckAckTakes ==
    ASSUME NEW s \in Socket, NEW g \in Segment
    PROVE  LET t == CheckAck(s, g)
               w == UpdateSendWindow(s, g) IN
           /\ g.ack < s.sndUna => t = s
           /\ g.ack >= s.sndUna => /\ t.sndUna = g.ack /\ t.sndWnd = w.sndWnd
                                   /\ t.sndWl1 = w.sndWl1 /\ t.sndWl2 = w.sndWl2
<1> DEFINE w == UpdateSendWindow(s, g)
           u == [w EXCEPT !.sndUna = g.ack]
           left == {i \in u.rtxQ : ItemEnd(i) > u.sndUna}
           timer == left # {} /\ (left # u.rtxQ \/ u.rtxTimer)
           count == IF left # u.rtxQ THEN 0 ELSE u.rtxCount
           r == [u EXCEPT !.rtxQ = left, !.rtxTimer = timer, !.rtxCount = count]
           t == CheckAck(s, g)
<1>1. w \in Socket /\ w.sndUna = s.sndUna BY UpdateSendWindowType DEF Transmits
<1>2. g.ack \in Nat /\ s.sndUna \in Nat BY SocketNumbers DEF Segment
<1>3. t = IF g.ack < s.sndUna THEN s
          ELSE IF g.ack > s.sndUna THEN UpdateRetransmitQueue(u) ELSE w
    BY DEF CheckAck
<1> HIDE DEF w, t
<1>4. u \in Socket BY <1>1, <1>2 DEF Socket
<1>5. /\ u.sndUna = g.ack /\ u.sndWnd = w.sndWnd
      /\ u.sndWl1 = w.sndWl1 /\ u.sndWl2 = w.sndWl2
    BY <1>1 DEF Socket
<1> HIDE DEF u
<1>6. UpdateRetransmitQueue(u) = r BY <1>4 DEF UpdateRetransmitQueue, Socket
<1> HIDE DEF left, timer, count
<1>7. SameWindow(u, r) BY <1>4 DEF SameWindow, Socket
<1> HIDE DEF r
<1>8. CASE g.ack < s.sndUna BY <1>2, <1>3, <1>8 DEF t
<1>9. CASE g.ack > s.sndUna
    BY <1>2, <1>3, <1>5, <1>6, <1>7, <1>9 DEF SameWindow, t, w
<1>10. CASE g.ack = s.sndUna BY <1>1, <1>2, <1>3, <1>10 DEF t, w
<1> QED BY <1>2, <1>8, <1>9, <1>10

LEMMA CheckAckRepeats ==
    ASSUME NEW s \in Socket, NEW g \in Segment
    PROVE  LET t == CheckAck(s, g) IN Repeats(s, t) /\ t.state = s.state
<1> DEFINE t == CheckAck(s, g)
<1>1. t \in Socket /\ t.rcvWnd = s.rcvWnd /\ t.state = s.state
    BY CheckAckType DEF Transmits, SameReceive, SameControl
<1>2. /\ t.iss = s.iss /\ t.irs = s.irs /\ t.rcvNxt = s.rcvNxt
      /\ t.sndNxt = s.sndNxt /\ t.rtxQ \subseteq s.rtxQ /\ t.sent = s.sent
    BY CheckAckFields
<1> HIDE DEF t
<1>3. Repeats(s, t) BY <1>1, <1>2, RepeatsFrom
<1> QED BY <1>1, <1>3 DEF t

\* A window within b, in the segment of number n, keeps the window within b.
LEMMA CheckAckWindow ==
    ASSUME NEW s \in Socket, NEW g \in Segment, NEW n \in Int, NEW b \in Int,
           s.sndWl1 <= n,
           \/ g.ack < s.sndUna /\ Window(s, n, b)
           \/ /\ g.ack >= s.sndUna /\ g.seq = n /\ g.ack + g.wnd <= b
              /\ s.iss < g.ack /\ s.sndWl2 <= g.ack
              /\ s.sndWl2 = g.ack => g.ack + s.sndWnd <= b
    PROVE  Window(CheckAck(s, g), n, b)
<1> DEFINE t == CheckAck(s, g)
           w == UpdateSendWindow(s, g)
<1>1. /\ g.ack \in Nat /\ g.seq \in Nat /\ g.wnd \in Int
      /\ s.sndUna \in Nat /\ s.sndWl1 \in Int /\ s.sndWl2 \in Nat
      /\ s.sndWnd \in Int
    BY SocketNumbers DEF Segment
<1>2. /\ g.ack < s.sndUna => t = s
      /\ g.ack >= s.sndUna => /\ t.sndUna = g.ack /\ t.sndWnd = w.sndWnd
                              /\ t.sndWl1 = w.sndWl1 /\ t.sndWl2 = w.sndWl2
    BY CheckAckTakes
<1>3. t.iss = s.iss BY CheckAckFields
<1>4. \/ w.sndWnd = g.wnd /\ w.sndWl1 = g.seq /\ w.sndWl2 = g.ack
      \/ /\ SameWindow(s, w)
         /\ \/ g.seq = s.sndWl1 /\ g.ack = s.sndWl2
            \/ ~(g.seq >= s.sndWl1 /\ g.ack >= s.sndWl2)
    BY UpdateSendWindowTakes
<1> HIDE DEF t, w
<1>5. CASE g.ack < s.sndUna
    <2>1. t = s /\ Window(s, n, b) BY <1>1, <1>2, <1>5
    <2> QED BY <2>1 DEF t
<1>6. CASE g.ack >= s.sndUna
    <2>1. /\ g.seq = n /\ g.ack + g.wnd <= b /\ s.iss < g.ack
          /\ s.sndWl2 <= g.ack
          /\ s.sndWl2 = g.ack => g.ack + s.sndWnd <= b
        BY <1>1, <1>6
    <2>2. CASE w.sndWnd = g.wnd /\ w.sndWl1 = g.seq /\ w.sndWl2 = g.ack
        BY <1>2, <1>3, <1>6, <2>1, <2>2 DEF Window, t
    <2>3. CASE SameWindow(s, w) /\ g.seq = s.sndWl1 /\ g.ack = s.sndWl2
        BY <1>2, <1>3, <1>6, <2>1, <2>3 DEF Window, SameWindow, t
    <2>4. ~(~(g.seq >= s.sndWl1 /\ g.ack >= s.sndWl2)) BY <1>1, <2>1
    <2> QED BY <1>4, <2>2, <2>3, <2>4
<1> QED BY <1>1, <1>5, <1>6

\* What arrives moves no edge.
LEMMA ProcessSegmentDataRepeats ==
    ASSUME NEW s \in Socket, NEW g \in Segment, WindowFits(s), GapsInside(s),
           Heard(s)
    PROVE  LET t == ProcessSegmentData(s, g) IN
           Repeats(s, t) /\ SameWindow(s, t) /\ t.state = s.state /\ Heard(t)
<1> DEFINE leftEdge  == Max(g.seq, s.rcvNxt)
           rightEdge == Min(g.seq + Len(g.data), s.rcvNxt + s.rcvWnd)
           arrived   == leftEdge .. (rightEdge - 1)
           held      == s.ooo \cup arrived
           nxt       == CHOOSE n \in s.rcvNxt .. (s.rcvNxt + s.rcvWnd) :
                           /\ n \notin held
                           /\ \A m \in s.rcvNxt .. (s.rcvNxt + s.rcvWnd) :
                                 m \notin held => n <= m
           slot(n)   == (n - s.irs - 1) % RxBufferSize
           buf       == [p \in 0 .. RxBufferSize - 1 |->
                           IF \E n \in arrived : slot(n) = p
                           THEN g.data[(CHOOSE n \in arrived : slot(n) = p)
                                           - g.seq + 1]
                           ELSE s.rxBuf[p]]
           gaps      == {n \in held : n > nxt}
           user      == s.rcvUser + (nxt - s.rcvNxt)
           wnd       == s.rcvWnd - (nxt - s.rcvNxt)
           u         == [s EXCEPT !.rxBuf = buf, !.ooo = gaps, !.rcvNxt = nxt,
                                  !.rcvUser = user, !.rcvWnd = wnd]
           a         == [flags |-> {"ACK"}, seq |-> u.sndNxt, ack |-> u.rcvNxt,
                         wnd |-> u.rcvWnd, data |-> << >>]
           v         == [u EXCEPT !.sent = @ \cup {a}]
           b         == (s.rcvNxt + s.rcvWnd) + (g.seq + Len(g.data))
           t         == ProcessSegmentData(s, g)
<1>1. CASE g.data = << >>
    <2>1. t = s BY <1>1 DEF ProcessSegmentData
    <2> QED BY <2>1, SelfRepeats
<1>2. CASE g.data # << >>
    <2>1. /\ t \in Socket /\ t.state = s.state
          /\ t.rcvNxt + t.rcvWnd = s.rcvNxt + s.rcvWnd
        BY ProcessSegmentDataType DEF Receives, SameControl
    <2>2. /\ b \in Nat /\ s.rcvNxt <= b /\ g.seq + Len(g.data) <= b
          /\ \A n \in s.ooo : n < b
        <3>1. /\ s.rcvNxt \in Nat /\ s.rcvWnd \in Nat /\ s.ooo \in SUBSET Nat
              /\ g.seq \in Nat /\ Len(g.data) \in Nat
            BY SocketNumbers DEF WindowFits, Segment
        <3>2. \A n \in s.ooo : n < s.rcvNxt + s.rcvWnd BY DEF GapsInside
        <3>3. ASSUME NEW n \in s.ooo PROVE n < b
            <4>1. n \in Nat /\ n < s.rcvNxt + s.rcvWnd BY <3>1, <3>2
            <4> QED BY <3>1, <4>1
        <3>4. b \in Nat /\ s.rcvNxt <= b /\ g.seq + Len(g.data) <= b
            <4>1. s.rcvNxt + s.rcvWnd \in Nat /\ s.rcvNxt <= s.rcvNxt + s.rcvWnd
                BY <3>1
            <4>2. g.seq + Len(g.data) \in Nat BY <3>1
            <4> QED BY <3>1, <4>1, <4>2
        <3> HIDE DEF b
        <3> QED BY <3>3, <3>4
    <2> HIDE DEF b
    <2>3. /\ t.iss = s.iss /\ t.irs = s.irs /\ t.sndNxt = s.sndNxt
          /\ s.rcvNxt <= t.rcvNxt /\ t.rtxQ = s.rtxQ
        BY <1>2, <2>2, ProcessSegmentDataFields
    <2>4. t = SendAck(u) BY <1>2 DEF ProcessSegmentData, Socket
    <2> HIDE DEF buf, gaps, nxt, user, wnd
    <2>5. u.sent = s.sent /\ SameWindow(s, u) BY DEF SameWindow, Socket
    <2>6. DOMAIN u = DOMAIN s OBVIOUS
    <2> HIDE DEF u
    <2>7. t = v BY <2>4, <2>6 DEF SendAck, SendSegment, Socket
    <2> HIDE DEF t, a
    <2>8. /\ SameWindow(u, v) /\ v.sent = u.sent \cup {a}
          /\ v.rcvNxt = u.rcvNxt /\ v.rcvWnd = u.rcvWnd
        BY <2>6 DEF SameWindow, Socket
    <2> HIDE DEF v
    <2>9. SameWindow(s, t) BY <2>5, <2>7, <2>8 DEF SameWindow
    <2>10. /\ t.sent = s.sent \cup {a} /\ a.data = << >>
           /\ a.ack = t.rcvNxt /\ a.wnd = t.rcvWnd
        BY <2>5, <2>7, <2>8 DEF a
    <2>11. s.irs < t.rcvNxt BY <2>1, <2>3, SocketNumbers DEF Heard
    <2>12. Heard(t) BY <2>3, <2>11 DEF Heard
    <2>13. Reach(t) = t.rcvNxt + t.rcvWnd /\ Reach(s) = s.rcvNxt + s.rcvWnd
        BY <2>12 DEF Reach, RightEdge
    <2>14. Reach(s) \in Int /\ Reach(s) <= Reach(t) BY <2>1, <2>13, ReachType
    <2>15. Offer(t, a)
        <3>1. t.rcvNxt + t.rcvWnd \in Int BY <2>1, SocketNumbers
        <3> QED BY <2>10, <2>13, <3>1 DEF Offer
    <2>16. Repeats(s, t) BY <2>1, <2>3, <2>10, <2>14, <2>15, RepeatsOnward
    <2> QED BY <2>1, <2>9, <2>12, <2>16 DEF t
<1> QED BY <1>1, <1>2

LEMMA TakeFinRepeats ==
    ASSUME NEW s \in Socket, Heard(s)
    PROVE  LET t == TakeFin(s) IN
           Repeats(s, t) /\ SameWindow(s, t) /\ t.state = s.state /\ Heard(t)
<1> DEFINE n == s.rcvNxt + 1
           u == [s EXCEPT !.rcvNxt = n]
           t == SendAck(u)
<1>1. TakeFin(s) = t BY DEF TakeFin, Socket
<1>2. n \in Nat /\ n > s.rcvNxt BY SocketNumbers
<1> HIDE DEF n
<1>3. u \in Socket BY <1>2 DEF Socket
<1>4. /\ u.iss = s.iss /\ u.irs = s.irs /\ u.sndNxt = s.sndNxt
      /\ u.rcvNxt = n /\ u.rcvWnd = s.rcvWnd /\ u.rtxQ = s.rtxQ
      /\ u.sent = s.sent /\ u.state = s.state /\ SameWindow(s, u)
    BY DEF Socket, SameWindow
<1> HIDE DEF u
<1>5. Heard(u) BY <1>2, <1>4, SocketNumbers DEF Heard
<1>6. Reach(s) <= Reach(u)
    BY <1>2, <1>4, <1>5, SocketNumbers DEF Reach, RightEdge
<1>7. Repeats(s, u) BY <1>3, <1>4, <1>6, RepeatsOnward
<1>8. Repeats(u, t) /\ SameWindow(u, t) BY <1>3, <1>5, SendAckRepeats
<1>9. t.state = u.state BY <1>3, SendAckType DEF Transmits, SameControl
<1>12. Heard(t) BY <1>3, <1>5 DEF Heard, SendAck, SendSegment, Socket
<1> HIDE DEF t
<1>10. Repeats(s, t) BY <1>7, <1>8, RepeatsTransitive
<1>11. SameWindow(s, t) BY <1>4, <1>8 DEF SameWindow
<1> QED BY <1>1, <1>4, <1>9, <1>10, <1>11, <1>12

LEMMA TimeWaitRepeats ==
    ASSUME NEW s \in Socket
    PROVE  Repeats(s, TimeWait(s)) /\ TimeWait(s).state = "TIME_WAIT"
<1> DEFINE d == DeleteControlBlock(s)
           t == ChangeState(d, "TIME_WAIT")
<1>1. TimeWait(s) = t BY DEF TimeWait
<1>2. Repeats(s, d) BY DeleteControlBlockRepeats
<1>3. d \in Socket BY <1>2 DEF Repeats, Speaks
<1> HIDE DEF d
<1>4. "TIME_WAIT" \in States BY DEF States
<1>5. Repeats(d, t) /\ t.state = "TIME_WAIT" BY <1>3, <1>4, ChangeStateRepeats
<1> HIDE DEF t
<1> QED BY <1>1, <1>2, <1>5, RepeatsTransitive

\* Reading opens the window.
LEMMA TakeBytesRepeats ==
    ASSUME NEW s \in Socket, Heard(s), WindowFits(s), NEW n \in 1 .. s.rcvUser
    PROVE  LET t == TakeBytes(s, n) IN
           Repeats(s, t) /\ SameWindow(s, t) /\ t.state = s.state
<1> DEFINE m == s.rcvUser - n
           u == [s EXCEPT !.rcvUser = m]
           reduction == RxBufferSize - u.rcvUser - u.rcvWnd
           wnd == u.rcvWnd + reduction
           o == [u EXCEPT !.rcvWnd = wnd]
           t == TakeBytes(s, n)
<1>1. m \in Nat BY SocketNumbers
<1>2. t = UpdateReceiveWindow(u) BY DEF TakeBytes, Socket
<1>3. m < s.rcvUser BY SocketNumbers
<1> HIDE DEF t, m
<1>4. u \in Socket BY <1>1 DEF Socket
<1>5. /\ u.iss = s.iss /\ u.irs = s.irs /\ u.sndNxt = s.sndNxt
      /\ u.rcvNxt = s.rcvNxt /\ u.rcvWnd = s.rcvWnd /\ u.rcvUser = m
      /\ u.rtxQ = s.rtxQ /\ u.sent = s.sent /\ u.state = s.state
      /\ SameWindow(s, u)
    BY DEF Socket, SameWindow
<1> HIDE DEF u
<1>6. o = [u EXCEPT !.rcvWnd = @ + reduction] BY <1>4 DEF Socket
<1>7. t \in {u, o, SendAck(o)} BY <1>2, <1>6, Zenon DEF UpdateReceiveWindow
<1>8. wnd \in Int /\ wnd >= u.rcvWnd
    <2>1. /\ s.rcvUser \in Nat /\ s.rcvWnd \in Int /\ RxBufferSize \in Nat
        BY SocketNumbers, RxBufferAssumption
    <2> QED BY <1>1, <1>3, <1>5, <2>1 DEF WindowFits
<1> HIDE DEF reduction, wnd
<1>9. o \in Socket BY <1>4, <1>8 DEF Socket
<1>10. /\ o.iss = u.iss /\ o.irs = u.irs /\ o.sndNxt = u.sndNxt
       /\ o.rcvNxt = u.rcvNxt /\ o.rcvWnd = wnd
       /\ o.rtxQ = u.rtxQ /\ o.sent = u.sent /\ o.state = u.state
       /\ SameWindow(u, o)
    BY <1>4 DEF Socket, SameWindow
<1> HIDE DEF o
<1>11. Heard(u) /\ Heard(o) BY <1>5, <1>10 DEF Heard
<1>12. Reach(u) <= Reach(o)
    BY <1>4, <1>8, <1>10, <1>11, SocketNumbers DEF Reach, RightEdge
<1>13. Repeats(s, u) BY <1>4, <1>5, RepeatsFrom
<1>14. Repeats(u, o) BY <1>4, <1>9, <1>10, <1>12, RepeatsOnward
<1>15. Repeats(s, o) BY <1>13, <1>14, RepeatsTransitive
<1>16. /\ Repeats(o, SendAck(o)) /\ SameWindow(o, SendAck(o))
       /\ SendAck(o).state = o.state
    BY <1>9, <1>11, SendAckRepeats, SendAckType DEF Transmits, SameControl
<1>17. Repeats(s, SendAck(o)) BY <1>15, <1>16, RepeatsTransitive
<1>18. /\ SameWindow(s, o) /\ SameWindow(s, SendAck(o))
       /\ o.state = s.state /\ SendAck(o).state = s.state
    BY <1>5, <1>10, <1>16 DEF SameWindow
<1> QED BY <1>5, <1>7, <1>13, <1>15, <1>17, <1>18 DEF t

-----------------------------------------------------------------------------
(* The handlers.                                                           *)

LEMMA HeldRepeats ==
    ASSUME NEW s \in Socket, NEW t, Repeats(s, t), SameWindow(s, t),
           t.state \in Sending => s.state \in Sending,
           NEW n \in Int, NEW b \in Int, Held(s, n, b)
    PROVE  Held(t, n, b)
BY DEF Held, Repeats, Speaks, Window, SameWindow

\* The window is used no further than it goes.
LEMMA NagleHeld ==
    ASSUME NEW s \in Socket, Heard(s), NEW flag, s.state \in Sending
    PROVE  LET t == NagleAlgo(s, flag) IN
           /\ Speaks(s, t)
           /\ \A n, b \in Int : Held(s, n, b) => Held(t, n, b)
<1> DEFINE t == NagleAlgo(s, flag)
<1>1. /\ Speaks(s, t) /\ SameWindow(s, t) /\ t.state = s.state
      /\ \A b \in Int : Within(s, b) /\ s.sndUna + s.sndWnd <= b => Within(t, b)
    BY NagleSends
<1> HIDE DEF t
<1>2. ASSUME NEW n \in Int, NEW b \in Int, Held(s, n, b) PROVE Held(t, n, b)
    <2>1. Within(s, b) /\ Window(s, n, b) BY <1>2 DEF Held
    <2>2. Within(t, b) BY <1>1, <2>1 DEF Window
    <2>3. Window(t, n, b) BY <1>1, <2>1 DEF Window, SameWindow, Speaks
    <2> QED BY <2>2, <2>3 DEF Held
<1> QED BY <1>1, <1>2 DEF t

LEMMA OverrideHeld ==
    ASSUME NEW s \in Socket, Heard(s), s.state \in Sending
    PROVE  LET t == OverrideSend(s) IN
           /\ Speaks(s, t)
           /\ \A n, b \in Int : Held(s, n, b) => Held(t, n, b)
<1> DEFINE t == OverrideSend(s)
<1>1. /\ Speaks(s, t) /\ SameWindow(s, t) /\ t.state = s.state
      /\ \A b \in Int : Within(s, b) /\ s.sndUna + s.sndWnd <= b => Within(t, b)
    BY OverrideSends
<1> HIDE DEF t
<1>2. ASSUME NEW n \in Int, NEW b \in Int, Held(s, n, b) PROVE Held(t, n, b)
    <2>1. Within(s, b) /\ Window(s, n, b) BY <1>2 DEF Held
    <2>2. Within(t, b) BY <1>1, <2>1 DEF Window
    <2>3. Window(t, n, b) BY <1>1, <2>1 DEF Window, SameWindow, Speaks
    <2> QED BY <2>2, <2>3 DEF Held
<1> QED BY <1>1, <1>2 DEF t

\* The data of a segment, then its FIN.
LEMMA DataRepeats ==
    ASSUME NEW s, Good(s), s.type = "STREAM",
           s.state \in Receiving, s.state # "SYN_SENT", Heard(s), NEW g \in Segment
    PROVE  LET d == ProcessSegmentData(s, g)
               f == TakeFin(d) IN
           /\ Repeats(s, d) /\ SameWindow(s, d) /\ d.state = s.state /\ Heard(d)
           /\ Repeats(s, f) /\ SameWindow(s, f) /\ f.state = s.state /\ Heard(f)
<1> DEFINE d == ProcessSegmentData(s, g)
           f == TakeFin(d)
<1>1. s \in Socket /\ WindowFits(s) /\ GapsInside(s) BY DEF Good
<1>2. Repeats(s, d) /\ SameWindow(s, d) /\ d.state = s.state /\ Heard(d)
    BY <1>1, ProcessSegmentDataRepeats
<1>3. d \in Socket BY <1>2 DEF Repeats, Speaks
<1> HIDE DEF d
<1>4. Repeats(d, f) /\ SameWindow(d, f) /\ f.state = d.state /\ Heard(f)
    BY <1>2, <1>3, TakeFinRepeats
<1> HIDE DEF f
<1>5. Repeats(s, f) BY <1>1, <1>2, <1>4, RepeatsTransitive
<1>6. SameWindow(s, f) BY <1>2, <1>4 DEF SameWindow
<1> QED BY <1>2, <1>4, <1>5, <1>6 DEF f, d

LEMMA CheckAckOnward ==
    ASSUME NEW s, Good(s), s.state # "CLOSED", Heard(s), NEW g \in Segment
    PROVE  LET a == CheckAck(s, g) IN
           /\ s \in Socket /\ a \in Socket /\ Good(a) /\ a.type = "STREAM"
           /\ a.state = s.state /\ Heard(a) /\ Repeats(s, a)
<1> DEFINE a == CheckAck(s, g)
<1>1. s \in Socket /\ s.type = "STREAM" BY GoodStream DEF Good
<1>2. Good(a) /\ a.type = s.type /\ a.state = s.state
    BY CheckAckGood DEF Evolves
<1>3. Repeats(s, a) BY <1>1, CheckAckRepeats
<1>4. Heard(a) BY <1>1, CheckAckFields DEF Heard
<1> QED BY <1>1, <1>2, <1>3, <1>4 DEF Good

LEMMA EstablishedHandlerHeld ==
    ASSUME NEW s, Good(s), s.state = "ESTABLISHED", Heard(s), NEW g \in Segment
    PROVE  LET t == EstablishedHandler(s, g) IN
           /\ Speaks(s, t)
           /\ \A n, b \in Int :
                 Within(s, b) /\ Window(CheckAck(s, g), n, b) => Held(t, n, b)
<1> DEFINE a == CheckAck(s, g)
           d == ProcessSegmentData(a, g)
           f == TakeFin(d)
           c == ChangeState(f, "CLOSE_WAIT")
           h == IF FinReached(d, g) THEN c ELSE d
           t == NagleAlgo(h, "NONE")
<1>1. EstablishedHandler(s, g) = t BY DEF EstablishedHandler, AfterData
<1>2. /\ s \in Socket /\ a \in Socket /\ Good(a) /\ a.type = "STREAM"
      /\ a.state = s.state /\ Heard(a) /\ Repeats(s, a)
    BY CheckAckOnward
<1> HIDE DEF a
<1>3. /\ Repeats(a, d) /\ SameWindow(a, d) /\ d.state = a.state /\ Heard(d)
      /\ Repeats(a, f) /\ SameWindow(a, f) /\ f.state = a.state /\ Heard(f)
    BY <1>2, DataRepeats DEF Receiving
<1>4. d \in Socket /\ f \in Socket BY <1>3 DEF Repeats, Speaks
<1> HIDE DEF d, f
<1>5. "CLOSE_WAIT" \in States BY DEF States
<1>6. Repeats(f, c) /\ SameWindow(f, c) /\ c.state = "CLOSE_WAIT"
    BY <1>4, <1>5, ChangeStateRepeats
<1>7. Heard(c) BY <1>3, <1>4 DEF Heard, ChangeState, Socket
<1> HIDE DEF c
<1>8. Repeats(a, c) BY <1>2, <1>3, <1>6, RepeatsTransitive
<1>9. SameWindow(a, c) BY <1>3, <1>6 DEF SameWindow
<1>10. /\ Repeats(a, h) /\ SameWindow(a, h) /\ h.state \in Sending /\ Heard(h)
    BY <1>2, <1>3, <1>6, <1>7, <1>8, <1>9 DEF Sending
<1>11. h \in Socket BY <1>10 DEF Repeats, Speaks
<1> HIDE DEF h
<1>12. Speaks(h, t) /\ \A n, b \in Int : Held(h, n, b) => Held(t, n, b)
    BY <1>10, <1>11, NagleHeld
<1> HIDE DEF t
<1>13. Repeats(s, h) BY <1>2, <1>10, RepeatsTransitive
<1>14. Speaks(s, t) BY <1>2, <1>12, <1>13, SpeaksTransitive DEF Repeats
<1>15. ASSUME NEW n \in Int, NEW b \in Int, Within(s, b), Window(a, n, b)
       PROVE  Held(t, n, b)
    <2>1. Within(a, b) BY <1>2, <1>15 DEF Repeats
    <2>2. Held(a, n, b) BY <1>15, <2>1 DEF Held
    <2>3. a.state \in Sending BY <1>2 DEF Sending
    <2>4. Held(h, n, b) BY <1>2, <1>10, <2>2, <2>3, HeldRepeats
    <2> QED BY <1>12, <2>4
<1> QED BY <1>1, <1>14, <1>15 DEF a

LEMMA CloseWaitHandlerHeld ==
    ASSUME NEW s, Good(s), s.state = "CLOSE_WAIT", Heard(s), NEW g \in Segment
    PROVE  LET t == CloseWaitHandler(s, g) IN
           /\ Speaks(s, t)
           /\ \A n, b \in Int :
                 Within(s, b) /\ Window(CheckAck(s, g), n, b) => Held(t, n, b)
<1> DEFINE a == CheckAck(s, g)
           t == NagleAlgo(a, "NONE")
<1>1. CloseWaitHandler(s, g) = t BY DEF CloseWaitHandler
<1>2. /\ s \in Socket /\ a \in Socket
      /\ a.state = s.state /\ Heard(a) /\ Repeats(s, a)
    BY CheckAckOnward
<1> HIDE DEF a
<1>3. a.state \in Sending BY <1>2 DEF Sending
<1>4. Speaks(a, t) /\ \A n, b \in Int : Held(a, n, b) => Held(t, n, b)
    BY <1>2, <1>3, NagleHeld
<1> HIDE DEF t
<1>5. Speaks(s, t) BY <1>2, <1>4, SpeaksTransitive DEF Repeats
<1>6. ASSUME NEW n \in Int, NEW b \in Int, Within(s, b), Window(a, n, b)
      PROVE  Held(t, n, b)
    <2>1. Within(a, b) BY <1>2, <1>6 DEF Repeats
    <2> QED BY <1>4, <1>6, <2>1 DEF Held
<1> QED BY <1>1, <1>5, <1>6 DEF a

\* The states that end a connection: no new data.
LEMMA WaitingRepeats ==
    ASSUME NEW s, Good(s), s.type = "STREAM", Heard(s),
           s.state = "FIN_WAIT_1" \/ s.state = "FIN_WAIT_2", NEW g \in Segment,
           NEW t,
           LET d == ProcessSegmentData(s, g) IN
           t \in {d, TimeWait(TakeFin(d)), ChangeState(TakeFin(d), "CLOSING")}
    PROVE  Repeats(s, t) /\ t.state \notin Sending
<1> DEFINE d == ProcessSegmentData(s, g)
           f == TakeFin(d)
           c == ChangeState(f, "CLOSING")
           x == TimeWait(f)
<1>1. s \in Socket BY DEF Good
<1>2. Repeats(s, d) /\ d.state = s.state /\ Repeats(s, f)
    BY DataRepeats DEF Receiving
<1>3. t \in {d, x, c} OBVIOUS
<1> HIDE DEF d
<1>4. f \in Socket BY <1>2 DEF Repeats, Speaks
<1> HIDE DEF f
<1>5. "CLOSING" \in States BY DEF States
<1>6. Repeats(f, c) /\ c.state = "CLOSING" BY <1>4, <1>5, ChangeStateRepeats
<1>7. Repeats(f, x) /\ x.state = "TIME_WAIT" BY <1>4, TimeWaitRepeats
<1> HIDE DEF c, x
<1>8. Repeats(s, c) /\ Repeats(s, x) BY <1>1, <1>2, <1>6, <1>7, RepeatsTransitive
<1> QED BY <1>2, <1>3, <1>6, <1>7, <1>8 DEF Sending

LEMMA FinWait1HandlerRepeats ==
    ASSUME NEW s, Good(s), s.state = "FIN_WAIT_1", Heard(s), NEW g \in Segment
    PROVE  LET t == FinWait1Handler(s, g) IN Repeats(s, t) /\ t.state \notin Sending
<1> DEFINE a == CheckAck(s, g)
           c == ChangeState(a, "FIN_WAIT_2")
           b == IF g.ack = a.sndNxt THEN c ELSE a
           d == ProcessSegmentData(b, g)
           t == FinWait1Handler(s, g)
<1>1. t \in {d, TimeWait(TakeFin(d)), ChangeState(TakeFin(d), "CLOSING")}
    BY DEF FinWait1Handler
<1>2. /\ s \in Socket /\ a \in Socket /\ Good(a) /\ a.type = "STREAM"
      /\ a.state = s.state /\ Heard(a) /\ Repeats(s, a)
    BY CheckAckOnward
<1> HIDE DEF a, t
<1>3. "FIN_WAIT_2" \in States BY DEF States
<1>4. Good(c) /\ c.type = "STREAM" /\ c.state = "FIN_WAIT_2"
    BY <1>2, <1>3, ReceivingStateGood, ChangeStateType DEF Receiving, Evolves
<1>5. Repeats(a, c) BY <1>2, <1>3, ChangeStateRepeats
<1>6. Heard(c) BY <1>2 DEF Heard, ChangeState, Socket
<1> HIDE DEF c
<1>7. Repeats(s, c) BY <1>2, <1>5, RepeatsTransitive
<1>8. /\ Good(b) /\ b.type = "STREAM" /\ Heard(b) /\ Repeats(s, b)
      /\ b.state = "FIN_WAIT_1" \/ b.state = "FIN_WAIT_2"
    BY <1>2, <1>4, <1>6, <1>7
<1> HIDE DEF b
<1>9. Repeats(b, t) /\ t.state \notin Sending BY <1>1, <1>8, WaitingRepeats
<1>10. Repeats(s, t) BY <1>2, <1>8, <1>9, RepeatsTransitive
<1> QED BY <1>9, <1>10 DEF t

LEMMA FinWait2HandlerRepeats ==
    ASSUME NEW s, Good(s), s.state = "FIN_WAIT_2", Heard(s), NEW g \in Segment
    PROVE  LET t == FinWait2Handler(s, g) IN Repeats(s, t) /\ t.state \notin Sending
<1> DEFINE a == CheckAck(s, g)
           d == ProcessSegmentData(a, g)
           t == FinWait2Handler(s, g)
<1>1. t \in {d, TimeWait(TakeFin(d)), ChangeState(TakeFin(d), "CLOSING")}
    BY DEF FinWait2Handler, AfterData
<1>2. /\ s \in Socket /\ a \in Socket /\ Good(a) /\ a.type = "STREAM"
      /\ a.state = s.state /\ Heard(a) /\ Repeats(s, a)
    BY CheckAckOnward
<1> HIDE DEF a, t
<1>3. Repeats(a, t) /\ t.state \notin Sending BY <1>1, <1>2, WaitingRepeats
<1>4. Repeats(s, t) BY <1>2, <1>3, RepeatsTransitive
<1> QED BY <1>3, <1>4 DEF t

LEMMA ClosingHandlerRepeats ==
    ASSUME NEW s, Good(s), s.state = "CLOSING", Heard(s), NEW g \in Segment
    PROVE  LET t == ClosingHandler(s, g) IN Repeats(s, t) /\ t.state \notin Sending
<1> DEFINE a == CheckAck(s, g)
           t == ClosingHandler(s, g)
<1>1. t \in {a, TimeWait(a)} BY DEF ClosingHandler
<1>2. s \in Socket /\ a \in Socket /\ a.state = s.state /\ Repeats(s, a)
    BY CheckAckOnward
<1> HIDE DEF a, t
<1>3. Repeats(a, TimeWait(a)) /\ TimeWait(a).state = "TIME_WAIT"
    BY <1>2, TimeWaitRepeats
<1>4. Repeats(s, TimeWait(a)) BY <1>2, <1>3, RepeatsTransitive
<1> QED BY <1>1, <1>2, <1>3, <1>4 DEF Sending, t

-----------------------------------------------------------------------------
(* The steps.                                                              *)

\* A window that opens loses nothing.
LEMMA HeldFurther ==
    ASSUME NEW s \in Socket, NEW n \in Int, NEW b \in Int, NEW c \in Int, b <= c,
           Held(s, n, b)
    PROVE  Held(s, n, c)
<1>1. ASSUME NEW g \in s.sent, g.data # << >> PROVE g.seq + Len(g.data) <= c
    <2>1. g \in Segment BY DEF Socket
    <2>2. g.seq \in Nat /\ Len(g.data) \in Nat BY <2>1 DEF Segment
    <2>3. g.seq + Len(g.data) <= b BY <1>1 DEF Held, Within
    <2> QED BY <2>2, <2>3
<1>2. ASSUME NEW i \in s.rtxQ, i.len > 0 PROVE i.seq + i.len <= c
    <2>1. i \in Item BY DEF Socket
    <2>2. i.seq \in Nat /\ i.len \in Nat BY <2>1 DEF Item
    <2>3. i.seq + i.len <= b BY <1>2 DEF Held, Within
    <2> QED BY <2>2, <2>3
<1>3. s.state \in Sending => Window(s, n, c)
    <2> SUFFICES ASSUME s.state \in Sending PROVE Window(s, n, c) OBVIOUS
    <2>1. Window(s, n, b) BY DEF Held
    <2>2. s.sndUna + s.sndWnd \in Int BY SocketNumbers
    <2> QED BY <2>1, <2>2 DEF Window
<1> QED BY <1>1, <1>2, <1>3 DEF Held, Within

LEMMA WindowMove ==
    ASSUME IInv, WInv, NEW e \in Ends, NEW t \in Socket,
           t.iss = sock[e].iss, sock[e].sent \subseteq t.sent,
           Reach(sock[e]) <= Reach(t),
           \A g \in t.sent : Offer(t, g), AcksOnly(t), Flow(t, sock[Peer(e)]),
           sock' = [sock EXCEPT ![e] = t]
    PROVE  WInv'
<1> DEFINE x == Peer(e)
           s == sock[e]
           p == sock[x]
<1>1. /\ x \in Ends /\ x # e /\ Peer(x) = e /\ Ends = {e, x} BY PeerOfPeer
<1>2. sock'[e] = t /\ sock'[x] = p BY <1>1 DEF IInv, TypeOK
<1>3. s \in Socket /\ p \in Socket BY <1>1 DEF IInv, TypeOK
<1>4. /\ \A g \in p.sent : Offer(p, g)
      /\ AcksOnly(p) /\ Flow(p, s)
    BY <1>1 DEF WInv
<1>5. Flow(p, t)
    <2> SUFFICES ASSUME OnlyAcks(t) PROVE Held(p, t.iss + 1, Reach(t)) BY DEF Flow
    <2>1. OnlyAcks(s) BY DEF OnlyAcks
    <2>2. Held(p, s.iss + 1, Reach(s)) BY <1>4, <2>1 DEF Flow
    <2>3. s.iss + 1 \in Int /\ Reach(s) \in Int /\ Reach(t) \in Int
        BY <1>3, ReachType, SocketNumbers
    <2> QED BY <1>3, <2>2, <2>3, HeldFurther
<1> HIDE DEF x, s, p
<1>6. /\ \A g \in sock'[e].sent : Offer(sock'[e], g)
      /\ AcksOnly(sock'[e]) /\ Flow(sock'[e], sock'[Peer(e)])
    BY <1>2 DEF x, p
<1>7. /\ \A g \in sock'[x].sent : Offer(sock'[x], g)
      /\ AcksOnly(sock'[x]) /\ Flow(sock'[x], sock'[Peer(x)])
    BY <1>1, <1>2, <1>4, <1>5
<1>8. \A y \in Ends : y = e \/ y = x BY <1>1
<1> QED BY <1>6, <1>7, <1>8 DEF WInv

\* o is the socket, or the socket with the fields of its opening.
LEMMA SpeaksMove ==
    ASSUME IInv, WInv, NEW e \in Ends, NEW o \in Socket,
           o.iss = sock[e].iss, sock[e].sent \subseteq o.sent,
           Reach(sock[e]) <= Reach(o),
           \A g \in o.sent : Offer(o, g), AcksOnly(o),
           NEW t, Speaks(o, t), ~Unopened(o) \/ Unopened(t),
           Flow(t, sock[Peer(e)]), sock' = [sock EXCEPT ![e] = t]
    PROVE  WInv'
<1> DEFINE s == sock[e]
<1>1. s \in Socket BY DEF IInv, TypeOK
<1>2. /\ t \in Socket /\ t.iss = s.iss /\ s.sent \subseteq t.sent
      /\ Reach(o) <= Reach(t)
    BY DEF Speaks
<1>3. Reach(s) \in Int /\ Reach(o) \in Int /\ Reach(t) \in Int
    BY <1>1, <1>2, ReachType
<1>4. Reach(s) <= Reach(t) BY <1>2, <1>3
<1>5. ASSUME NEW g \in t.sent PROVE Offer(t, g)
    <2>1. CASE g \in o.sent
        <3>1. g \in Segment BY <1>2 DEF Socket
        <3>2. g.ack \in Nat /\ g.wnd \in Int BY <3>1 DEF Segment
        <3>3. Offer(o, g) BY <2>1
        <3> QED BY <1>2, <1>3, <3>2, <3>3 DEF Offer
    <2>2. CASE g \notin o.sent BY <2>2 DEF Speaks
    <2> QED BY <2>1, <2>2
<1>6. AcksOnly(t)
    <2> SUFFICES ASSUME OnlyAcks(t), ~Unopened(t) PROVE t.sndNxt = t.iss + 1
        BY DEF AcksOnly
    <2>1. OnlyAcks(o) BY DEF Speaks, OnlyAcks
    <2> QED BY <2>1 DEF AcksOnly, Speaks
<1> QED BY <1>2, <1>4, <1>5, <1>6, WindowMove

LEMMA HeldMove ==
    ASSUME IInv, WInv, NEW e \in Ends, NEW t, Speaks(sock[e], t),
           ~Unopened(sock[e]) \/ Unopened(t),
           LET p == sock[Peer(e)] IN
           OnlyAcks(p) /\ Held(sock[e], p.iss + 1, Reach(p)) =>
               Held(t, p.iss + 1, Reach(p)),
           sock' = [sock EXCEPT ![e] = t]
    PROVE  WInv'
<1> DEFINE s == sock[e]
           p == sock[Peer(e)]
<1>1. s \in Socket BY DEF IInv, TypeOK
<1>2. /\ \A g \in s.sent : Offer(s, g)
      /\ AcksOnly(s) /\ Flow(s, p)
    BY DEF WInv
<1>3. Flow(t, p) BY <1>2 DEF Flow
<1>4. Reach(s) <= Reach(s) BY <1>1, ReachType
<1> QED BY <1>1, <1>2, <1>3, <1>4, SpeaksMove

LEMMA RepeatsMove ==
    ASSUME IInv, WInv, NEW e \in Ends, NEW t, Repeats(sock[e], t),
           ~Unopened(sock[e]) \/ Unopened(t),
           t.state \in Sending => sock[e].state \in Sending /\ SameWindow(sock[e], t),
           sock' = [sock EXCEPT ![e] = t]
    PROVE  WInv'
<1> DEFINE s == sock[e]
           p == sock[Peer(e)]
<1>1. s \in Socket /\ p \in Socket BY PeerInEnds DEF IInv, TypeOK
<1>2. p.iss + 1 \in Int /\ Reach(p) \in Int BY <1>1, ReachType, SocketNumbers
<1>3. ASSUME Held(s, p.iss + 1, Reach(p)) PROVE Held(t, p.iss + 1, Reach(p))
    <2>1. CASE t.state \in Sending BY <1>1, <1>2, <1>3, <2>1, HeldRepeats
    <2>2. CASE t.state \notin Sending BY <1>2, <1>3, <2>2 DEF Held, Repeats
    <2> QED BY <2>1, <2>2
<1> QED BY <1>3, HeldMove DEF Repeats

\* A step of a socket that changes no socket.
LEMMA StillWindow ==
    ASSUME WInv, UNCHANGED sock
    PROVE  WInv'
BY DEF WInv

\* An answer in the same state.
LEMMA AnswerWindow ==
    ASSUME IInv, WInv, NEW e \in Ends, ~Unopened(sock[e]),
           NEW t, Repeats(sock[e], t), SameWindow(sock[e], t),
           t.state = sock[e].state, Becomes(e, t)
    PROVE  WInv'
BY RepeatsMove DEF Becomes

\* The connection ends.
LEMMA EndWindow ==
    ASSUME IInv, WInv, NEW e \in Ends, ~Unopened(sock[e]),
           NEW t, Repeats(sock[e], t), t.state \notin Sending, Becomes(e, t)
    PROVE  WInv'
BY RepeatsMove DEF Becomes

\* A socket that opens has said nothing that binds it.
LEMMA OpenedOffers ==
    ASSUME NEW e, NEW s, Good(s), Unopened(s), Blank(e, s, 0),
           NEW irs \in Nat, NEW nxt \in Nat
    PROVE  LET o == Opened(s, irs, nxt) IN
           /\ o \in Socket /\ o.iss = s.iss /\ o.irs = irs /\ o.rcvNxt = nxt
           /\ o.sent = s.sent /\ o.rtxQ = s.rtxQ /\ Reach(s) <= Reach(o)
           /\ \A g \in o.sent : Offer(o, g)
           /\ AcksOnly(o) /\ ~Unopened(o)
<1> DEFINE n == s.iss + 1
           o == [s EXCEPT !.type = "STREAM", !.owned = TRUE, !.irs = irs,
                          !.sndUna = s.iss, !.sndNxt = n,
                          !.rcvNxt = nxt, !.rcvUser = 0, !.rcvWnd = RxBufferSize]
<1>1. s \in Socket /\ s.rcvNxt = 0 /\ \A g \in s.sent : ~Live(g) BY DEF Good, Blank
<1>2. Opened(s, irs, nxt) = o BY DEF Opened
<1>3. s.iss \in Nat /\ n \in Nat /\ RxBufferSize \in Nat
    BY <1>1, SocketNumbers, RxBufferAssumption
<1> HIDE DEF n
<1>4. o \in Socket BY <1>2, OpenedGood
<1>5. /\ o.type = "STREAM" /\ o.iss = s.iss /\ o.irs = irs /\ o.rcvNxt = nxt
      /\ o.rcvWnd = RxBufferSize /\ o.sndNxt = n
      /\ o.sent = s.sent /\ o.rtxQ = s.rtxQ
    BY <1>1 DEF Socket
<1> HIDE DEF o
<1>6. Reach(s) = 0 BY <1>1, SocketNumbers DEF Reach, Heard
<1>7. Reach(o) \in Int /\ Reach(o) >= 0 BY <1>3, <1>5 DEF Reach, RightEdge
<1>8. \A g \in o.sent : Offer(o, g) BY <1>1, <1>5 DEF Offer
<1>9. AcksOnly(o) BY <1>5 DEF AcksOnly, n
<1>10. ~Unopened(o) BY <1>5 DEF Unopened
<1> QED BY <1>2, <1>4, <1>5, <1>6, <1>7, <1>8, <1>9, <1>10

LEMMA OpenMove ==
    ASSUME IInv, AInv, WInv, NEW e \in Ends, Unopened(sock[e]),
           NEW irs \in Nat, NEW nxt \in Nat,
           NEW t, Repeats(Opened(sock[e], irs, nxt), t), t.state \notin Sending,
           sock' = [sock EXCEPT ![e] = t]
    PROVE  WInv'
<1> DEFINE s == sock[e]
           p == sock[Peer(e)]
           o == Opened(s, irs, nxt)
<1>1. Good(s) /\ p \in Socket BY PeerInEnds DEF IInv, Good
<1>2. Blank(e, s, 0) BY DEF AInv, EndOK, Blank
<1>3. /\ o \in Socket /\ o.iss = s.iss
      /\ o.sent = s.sent /\ o.rtxQ = s.rtxQ /\ Reach(s) <= Reach(o)
      /\ \A g \in o.sent : Offer(o, g)
      /\ AcksOnly(o) /\ ~Unopened(o)
    BY <1>1, <1>2, OpenedOffers
<1>4. Repeats(o, t) OBVIOUS
<1> HIDE DEF o
<1>5. Flow(t, p)
    <2> SUFFICES ASSUME OnlyAcks(p) PROVE Held(t, p.iss + 1, Reach(p)) BY DEF Flow
    <2>1. Reach(p) \in Int BY <1>1, ReachType
    <2>2. Flow(s, p) BY DEF WInv
    <2>3. Within(o, Reach(p)) BY <1>3, <2>2 DEF Flow, Held, Within
    <2>4. Within(t, Reach(p)) BY <1>4, <2>1, <2>3 DEF Repeats
    <2> QED BY <2>4 DEF Held
<1> QED BY <1>3, <1>4, <1>5, SpeaksMove DEF Repeats

LEMMA ConnectWindow ==
    ASSUME IInv, AInv, WInv, NEW e \in Ends, Connect(e)
    PROVE  WInv'
<1> DEFINE s == sock[e]
           zero == 0
           o == Opened(s, zero, zero)
           flags == {"SYN"}
           q == QueueControl(o, flags, s.iss)
           t == ChangeState(q, "SYN_SENT")
<1>1. Good(s) /\ Unopened(s) /\ s \in Socket /\ Becomes(e, t)
    BY DEF Connect, IInv, Good
<1>2. Blank(e, s, 0) BY <1>1 DEF AInv, EndOK, Blank
<1>3. zero \in Nat OBVIOUS
<1> HIDE DEF zero
<1>4. o \in Socket BY <1>1, <1>2, <1>3, OpenedOffers
<1>5. s.iss \in Nat BY <1>1, SocketNumbers
<1>6. flags \in SUBSET Flags /\ "ACK" \notin flags BY DEF Flags
<1> HIDE DEF flags, o
<1>7. Repeats(o, q) BY <1>4, <1>5, <1>6, QueueControlRepeats
<1>8. q \in Socket BY <1>7 DEF Repeats, Speaks
<1> HIDE DEF q
<1>9. "SYN_SENT" \in States BY DEF States
<1>10. Repeats(q, t) /\ t.state = "SYN_SENT" BY <1>8, <1>9, ChangeStateRepeats
<1> HIDE DEF t
<1>11. Repeats(o, t) BY <1>4, <1>7, <1>10, RepeatsTransitive
<1>12. t.state \notin Sending BY <1>10 DEF Sending
<1> QED BY <1>1, <1>3, <1>11, <1>12, OpenMove DEF Becomes, o

LEMMA AcceptWindow ==
    ASSUME IInv, AInv, WInv, NEW e \in Ends, Accept(e)
    PROVE  WInv'
<1>1. PICK isn \in synQueue[e] :
        LET s == ChangeState(Opened(sock[e], isn, isn + 1), "SYN_RECEIVED") IN
        /\ Unopened(sock[e])
        /\ sock' = [sock EXCEPT ![e] = QueueControl(s, {"SYN", "ACK"}, s.iss)]
    BY DEF Accept
<1> DEFINE s == sock[e]
           nxt == isn + 1
           o == Opened(s, isn, nxt)
           c == ChangeState(o, "SYN_RECEIVED")
           flags == {"SYN", "ACK"}
           t == QueueControl(c, flags, c.iss)
<1>2. Good(s) /\ Unopened(s) /\ s \in Socket BY <1>1 DEF IInv, Good
<1>3. Blank(e, s, 0) BY <1>2 DEF AInv, EndOK, Blank
<1>4. synQueue \in [Ends -> SUBSET Nat] BY DEF IInv, TypeOK
<1>5. isn \in Nat /\ nxt \in Nat /\ isn < nxt BY <1>4
<1>6. sock' = [sock EXCEPT ![e] = t] BY <1>1
<1> HIDE DEF nxt
<1>7. o \in Socket /\ o.irs = isn /\ o.rcvNxt = nxt
    BY <1>2, <1>3, <1>5, OpenedOffers
<1> HIDE DEF o
<1>8. "SYN_RECEIVED" \in States BY DEF States
<1>9. Repeats(o, c) /\ c.state = "SYN_RECEIVED" BY <1>7, <1>8, ChangeStateRepeats
<1>10. c \in Socket /\ c.iss \in Nat BY <1>9, SocketNumbers DEF Repeats, Speaks
<1>11. Heard(c) BY <1>5, <1>7 DEF Heard, ChangeState, Socket
<1> HIDE DEF c
<1>12. flags \in SUBSET Flags BY DEF Flags
<1> HIDE DEF flags
<1>13. Repeats(c, t) BY <1>10, <1>11, <1>12, QueueControlRepeats
<1>14. t.state = c.state
    BY <1>10, <1>12, QueueControlType DEF Transmits, SameControl
<1> HIDE DEF t
<1>15. Repeats(o, t) BY <1>7, <1>9, <1>13, RepeatsTransitive
<1>16. t.state \notin Sending BY <1>9, <1>14 DEF Sending
<1> QED BY <1>2, <1>5, <1>6, <1>15, <1>16, OpenMove DEF o

LEMMA SendWindow ==
    ASSUME IInv, AInv, WInv, NEW e \in Ends, Send(e)
    PROVE  WInv'
<1>1. PICK n \in 0 .. (WriteLimit[e] - written[e]),
           flag \in {"NONE", "NO_DELAY", "DELAY"} :
        LET data == [i \in 1 .. n |-> written[e] + i] IN
        /\ Usable(sock[e]) /\ sock[e].state \in {"ESTABLISHED", "CLOSE_WAIT"}
        /\ sock' = [sock EXCEPT ![e] = NagleAlgo(WriteTxBuffer(sock[e], data), flag)]
    BY DEF Send
<1> DEFINE s == sock[e]
           p == sock[Peer(e)]
           data == [i \in 1 .. n |-> written[e] + i]
           w == WriteTxBuffer(s, data)
           t == NagleAlgo(w, flag)
<1>2. /\ written \in [Ends -> Nat] /\ WriteLimit \in [Ends -> Nat]
      /\ s \in Socket /\ s.state \in Sending /\ s.state # "CLOSED"
      /\ s.state # "SYN_SENT" /\ p \in Socket
    BY <1>1, WriteAssumption, PeerInEnds DEF IInv, TypeOK, Sending
<1>3. n \in Nat /\ written[e] \in Nat BY <1>2
<1>4. data \in Seq(Byte)
    <2>1. data \in [1 .. n -> Byte] BY <1>3 DEF Byte
    <2> HIDE DEF data
    <2> QED BY <1>3, <2>1
<1>5. sock' = [sock EXCEPT ![e] = t] BY <1>1
<1> HIDE DEF data
<1>6. ~Unopened(s) /\ Heard(s) BY <1>2, OpenSocket
<1>7. Repeats(s, w) /\ SameWindow(s, w) BY <1>2, <1>4, WriteTxBufferRepeats
<1>8. w \in Socket /\ w.state = s.state
    BY <1>2, <1>4, WriteTxBufferType DEF Transmits, SameControl
<1>9. Heard(w) BY <1>2, <1>6 DEF Heard, WriteTxBuffer, Socket
<1> HIDE DEF w
<1>10. Speaks(w, t) /\ \A m, b \in Int : Held(w, m, b) => Held(t, m, b)
    BY <1>2, <1>8, <1>9, NagleHeld
<1> HIDE DEF t
<1>11. Speaks(s, t) BY <1>2, <1>7, <1>10, SpeaksTransitive DEF Repeats
<1>12. p.iss + 1 \in Int /\ Reach(p) \in Int BY <1>2, ReachType, SocketNumbers
<1>13. ASSUME Held(s, p.iss + 1, Reach(p)) PROVE Held(t, p.iss + 1, Reach(p))
    <2>1. Held(w, p.iss + 1, Reach(p))
        BY <1>2, <1>7, <1>8, <1>12, <1>13, HeldRepeats
    <2> QED BY <1>10, <1>12, <2>1
<1> QED BY <1>5, <1>6, <1>11, <1>13, HeldMove

LEMMA ReceiveWindow ==
    ASSUME IInv, AInv, WInv, NEW e \in Ends, Receive(e)
    PROVE  WInv'
<1> DEFINE s == sock[e]
           p == sock[Peer(e)]
<1>1. PICK n \in 1 .. s.rcvUser :
        /\ Usable(s) /\ Readable(s)
        /\ sock' = [sock EXCEPT ![e] = TakeBytes(@, n)]
    BY DEF Receive
<1> DEFINE t == TakeBytes(s, n)
<1>2. Good(s) /\ s \in Socket /\ WindowFits(s) BY DEF IInv, Good
<1>3. ~Unopened(s) BY <1>1, <1>2, NotClosedIsOpen DEF Usable
<1>4. Core(e, s, p, written[e]) /\ Phase(s, written[e]) BY <1>3, OpenEnd
<1>5. s.rcvNxt > 0
    <2>1. s.state # "SYN_SENT" /\ (s.state = "CLOSED" => s.closedFlag)
        BY <1>1 DEF Readable
    <2> QED BY <1>1, <1>4, <2>1 DEF Phase, Usable
<1>6. Heard(s)
    BY <1>2, <1>4, <1>5, SocketNumbers
       DEF Core, Agrees, Deaf, Right, Mistaken, Heard
<1>7. Repeats(s, t) /\ SameWindow(s, t) /\ t.state = s.state
    BY <1>2, <1>6, TakeBytesRepeats
<1>8. sock' = [sock EXCEPT ![e] = t] BY <1>1
<1> HIDE DEF t
<1> QED BY <1>3, <1>7, <1>8, RepeatsMove

LEMMA ShutdownFlushWindow ==
    ASSUME IInv, AInv, WInv, NEW e \in Ends, ShutdownFlush(e)
    PROVE  WInv'
<1> DEFINE s == sock[e]
           p == sock[Peer(e)]
           t == NagleAlgo(s, "NO_DELAY")
<1>1. /\ s.state # "CLOSED" /\ s.state # "SYN_SENT" /\ s.sndUser > 0
      /\ s.state \in {"SYN_RECEIVED", "ESTABLISHED", "CLOSE_WAIT"}
      /\ Becomes(e, t) /\ p \in Socket
    BY PeerInEnds DEF ShutdownFlush, IInv, TypeOK
<1>2. ~Unopened(s) /\ s \in Socket /\ Heard(s) /\ Phase(s, written[e])
    BY <1>1, OpenSocket
<1>3. s.state # "SYN_RECEIVED" BY <1>1, <1>2 DEF Phase
<1>4. s.state \in Sending BY <1>1, <1>3 DEF Sending
<1>5. Speaks(s, t) /\ \A m, b \in Int : Held(s, m, b) => Held(t, m, b)
    BY <1>2, <1>4, NagleHeld
<1> HIDE DEF t
<1>6. p.iss + 1 \in Int /\ Reach(p) \in Int BY <1>1, ReachType, SocketNumbers
<1> QED BY <1>1, <1>2, <1>5, <1>6, HeldMove DEF Becomes

\* The FIN: the end does more than acknowledge from now on.
LEMMA ShutdownFinWindow ==
    ASSUME IInv, AInv, WInv, NEW e \in Ends, ShutdownFin(e)
    PROVE  WInv'
<1> DEFINE s == sock[e]
           flags == {"FIN", "ACK"}
           i == [seq |-> s.sndNxt, len |-> 0, flags |-> flags]
           items == {i}
           fin == QueueControl(s, flags, s.sndNxt)
           n == s.sndNxt + 1
           f == [fin EXCEPT !.sndNxt = n]
           next == IF s.state = "CLOSE_WAIT" THEN "LAST_ACK" ELSE "FIN_WAIT_1"
           t == ChangeState(f, next)
<1>1. /\ s.state # "CLOSED" /\ s.state # "SYN_SENT" BY DEF ShutdownFin
<1>2. ~Unopened(s) /\ s \in Socket /\ Heard(s) BY <1>1, OpenSocket
<1>3. s.sndNxt \in Nat /\ n \in Nat BY <1>2, SocketNumbers
<1>4. flags \in SUBSET Flags /\ "FIN" \in flags BY DEF Flags
<1> HIDE DEF flags
<1>5. i \in Item /\ i.flags = flags BY <1>3, <1>4 DEF Item
<1>6. fin = QueueSegments(s, items) BY DEF QueueControl
<1>7. Repeats(s, fin) BY <1>2, <1>3, <1>4, QueueControlRepeats
<1>8. fin \in Socket BY <1>7 DEF Repeats, Speaks
<1> HIDE DEF i, n
<1>9. /\ fin.sndNxt = s.sndNxt
      /\ fin.sent = s.sent \cup {SegmentOf(s, x) : x \in items}
    BY <1>2, <1>6, QueueSegmentsFields DEF SameNumbers
<1> HIDE DEF fin
<1>10. f = [fin EXCEPT !.sndNxt = @ + 1] BY <1>8, <1>9 DEF Socket, n
<1>11. f \in Socket BY <1>3, <1>8 DEF Socket
<1>12. /\ f.iss = fin.iss /\ f.irs = fin.irs /\ f.rcvNxt = fin.rcvNxt
       /\ f.rcvWnd = fin.rcvWnd /\ f.rtxQ = fin.rtxQ /\ f.sent = fin.sent
    BY <1>8 DEF Socket
<1> HIDE DEF f
<1>13. ~OnlyAcks(f)
    <2>1. SegmentOf(s, i) \in f.sent BY <1>9, <1>12
    <2>2. "FIN" \in SegmentOf(s, i).flags BY <1>2, <1>4, <1>5, SegmentOfFields
    <2> QED BY <2>1, <2>2 DEF OnlyAcks
<1>14. Reach(f) = Reach(fin) /\ Reach(fin) \in Int BY <1>8, <1>12, ReachSame, ReachType
<1>15. Repeats(fin, f)
    <2>1. Speaks(fin, f) BY <1>11, <1>12, <1>13, <1>14 DEF Speaks
    <2> QED BY <1>12, <2>1 DEF Repeats, Within
<1>16. next \in States /\ next \notin Sending BY DEF States, Sending
<1>17. Becomes(e, t) BY <1>10 DEF ShutdownFin, fin, flags
<1> HIDE DEF next
<1>18. Repeats(f, t) /\ t.state = next BY <1>11, <1>16, ChangeStateRepeats
<1> HIDE DEF t
<1>19. Repeats(s, f) BY <1>2, <1>7, <1>15, RepeatsTransitive
<1>20. Repeats(s, t) BY <1>2, <1>18, <1>19, RepeatsTransitive
<1> QED BY <1>2, <1>16, <1>17, <1>18, <1>20, EndWindow

LEMMA AbortWindow ==
    ASSUME IInv, AInv, WInv, NEW e \in Ends, Abort(e)
    PROVE  WInv'
<1> DEFINE s == sock[e]
           reset == SendResetSegment(s, s.sndNxt)
           r == IF s.state = "SYN_SENT" THEN s ELSE reset
           closed == [DeleteControlBlock(ChangeState(r, "CLOSED"))
                        EXCEPT !.type = "UNUSED"]
           left == [s EXCEPT !.owned = FALSE]
           t == IF s.state = "TIME_WAIT" THEN left ELSE closed
<1>1. s.type = "STREAM" /\ Becomes(e, t) BY DEF Abort, Usable
<1>2. ~Unopened(s) /\ s \in Socket BY <1>1, OpenEnd, NotClosedIsOpen DEF IInv
<1>3. Repeats(s, left) /\ left.state = s.state
    <2>1. left \in Socket BY <1>2 DEF Socket
    <2>2. /\ left.iss = s.iss /\ left.irs = s.irs /\ left.rcvNxt = s.rcvNxt
          /\ left.rcvWnd = s.rcvWnd /\ left.sndNxt = s.sndNxt
          /\ left.rtxQ = s.rtxQ /\ left.sent = s.sent /\ left.state = s.state
        BY <1>2 DEF Socket
    <2> HIDE DEF left
    <2> QED BY <1>2, <2>1, <2>2, RepeatsFrom
<1>4. Repeats(s, reset) BY <1>2, SocketNumbers, SendResetSegmentRepeats
<1>5. Repeats(s, s) BY <1>2, SelfRepeats
<1> HIDE DEF reset, left
<1>6. Repeats(s, r) /\ r \in Socket BY <1>4, <1>5 DEF Repeats, Speaks
<1> HIDE DEF r
<1>7. Repeats(r, closed) /\ closed.state = "CLOSED" BY <1>6, FreedRepeats
<1> HIDE DEF closed
<1>8. Repeats(s, closed) BY <1>2, <1>6, <1>7, RepeatsTransitive
<1>9. Repeats(s, t) /\ t.state \notin Sending BY <1>3, <1>7, <1>8 DEF Sending
<1> HIDE DEF t
<1> QED BY <1>1, <1>2, <1>9, EndWindow

LEMMA UserWindow ==
    ASSUME IInv, AInv, WInv, NEW e \in Ends, User(e)
    PROVE  WInv'
<1>1. CASE Connect(e) BY <1>1, ConnectWindow
<1>2. CASE Listen(e) BY <1>2, StillWindow DEF Listen
<1>3. CASE StopListening(e) BY <1>3, StillWindow DEF StopListening
<1>4. CASE Accept(e) BY <1>4, AcceptWindow
<1>5. CASE Send(e) BY <1>5, SendWindow
<1>6. CASE Receive(e) BY <1>6, ReceiveWindow
<1>7. CASE ReceiveEndOfStream(e) BY <1>7, StillWindow DEF ReceiveEndOfStream
<1>8. CASE ShutdownFlush(e) BY <1>8, ShutdownFlushWindow
<1>9. CASE ShutdownFin(e) BY <1>9, ShutdownFinWindow
<1>10. CASE Abort(e) BY <1>10, AbortWindow
<1> QED
    BY <1>1, <1>2, <1>3, <1>4, <1>5, <1>6, <1>7, <1>8, <1>9, <1>10 DEF User

LEMMA RetransmitWindow ==
    ASSUME IInv, AInv, WInv, NEW e \in Ends, Retransmit(e)
    PROVE  WInv'
<1> DEFINE s == sock[e]
           r == RetransmitSegment(s)
           b == r.rtxTimer
           n == r.rtxCount + 1
           m == r.probeCount
           t == [r EXCEPT !.rtxTimer = b, !.rtxCount = n, !.probeCount = m]
           u == [r EXCEPT !.rtxCount = @ + 1]
<1>1. s.state # "CLOSED" /\ Becomes(e, u) BY DEF Retransmit, RetransmitDue
<1>2. ~Unopened(s) /\ s \in Socket /\ \A i \in s.rtxQ : ItemOK(s, i)
    BY <1>1, OpenSocket DEF Core
<1>3. Repeats(s, r) /\ SameWindow(s, r) BY <1>2, RetransmitSegmentRepeats
<1>4. r \in Socket /\ r.state = s.state
    BY <1>2, RetransmitSegmentType DEF Transmits, SameControl
<1> HIDE DEF r
<1>5. u = t BY <1>4 DEF Socket
<1>6. b \in BOOLEAN /\ n \in Nat /\ m \in Nat BY <1>4 DEF Socket
<1> HIDE DEF b, n, m, u
<1>7. Repeats(r, t) /\ SameWindow(r, t) /\ t.state = r.state
    <2>1. Repeats(r, t) BY <1>4, <1>6, TimersRepeats
    <2>2. SameWindow(r, t) BY <1>4 DEF SameWindow, Socket
    <2>3. t.state = r.state BY <1>4 DEF Socket
    <2> QED BY <2>1, <2>2, <2>3
<1> HIDE DEF t
<1>8. Repeats(s, t) BY <1>2, <1>3, <1>7, RepeatsTransitive
<1>9. SameWindow(s, t) BY <1>3, <1>7 DEF SameWindow
<1> QED BY <1>1, <1>2, <1>4, <1>5, <1>7, <1>8, <1>9, AnswerWindow

LEMMA GiveUpWindow ==
    ASSUME IInv, AInv, WInv, NEW e \in Ends, GiveUp(e)
    PROVE  WInv'
<1> DEFINE s == sock[e]
           r == SendResetSegment(s, s.sndNxt)
           b == FALSE
           n == r.rtxCount
           m == r.probeCount
           f == [r EXCEPT !.rtxTimer = b, !.rtxCount = n, !.probeCount = m]
           u == [r EXCEPT !.rtxTimer = FALSE]
           t == ChangeState(f, "CLOSED")
<1>1. s.state # "CLOSED" /\ Becomes(e, ChangeState(u, "CLOSED"))
    BY DEF GiveUp, RetransmitDue
<1>2. ~Unopened(s) /\ s \in Socket BY <1>1, OpenSocket
<1>3. Repeats(s, r) BY <1>2, SocketNumbers, SendResetSegmentRepeats
<1> HIDE DEF r
<1>4. r \in Socket BY <1>3 DEF Repeats, Speaks
<1>5. u = f BY <1>4 DEF Socket
<1>6. b \in BOOLEAN /\ n \in Nat /\ m \in Nat BY <1>4 DEF Socket
<1> HIDE DEF b, n, m, u
<1>7. Repeats(r, f) BY <1>4, <1>6, TimersRepeats
<1>8. f \in Socket BY <1>7 DEF Repeats, Speaks
<1> HIDE DEF f
<1>9. "CLOSED" \in States /\ "CLOSED" \notin Sending BY DEF States, Sending
<1>10. Repeats(f, t) /\ t.state = "CLOSED" BY <1>8, <1>9, ChangeStateRepeats
<1>11. Becomes(e, t) BY <1>1, <1>5
<1> HIDE DEF t
<1>12. Repeats(s, f) BY <1>2, <1>3, <1>7, RepeatsTransitive
<1>13. Repeats(s, t) BY <1>2, <1>10, <1>12, RepeatsTransitive
<1> QED BY <1>2, <1>9, <1>10, <1>11, <1>13, EndWindow

LEMMA ProbeWindow ==
    ASSUME IInv, AInv, WInv, NEW e \in Ends, Probe(e)
    PROVE  WInv'
<1> DEFINE s == sock[e]
           flags == {"ACK"}
           seq == s.sndUna - 1
           r == SendSegment(s, flags, seq, s.rcvNxt)
           b == r.rtxTimer
           n == r.rtxCount
           m == r.probeCount + 1
           t == [r EXCEPT !.rtxTimer = b, !.rtxCount = n, !.probeCount = m]
           u == [r EXCEPT !.probeCount = @ + 1]
<1>1. s.state # "CLOSED" /\ s.probing /\ Becomes(e, u) BY DEF Probe, ProbeDue
<1>2. /\ ~Unopened(s) /\ s \in Socket /\ Good(s)
      /\ Core(e, s, sock[Peer(e)], written[e]) /\ Phase(s, written[e])
    BY <1>1, OpenSocket
<1>3. s.state # "SYN_SENT" BY <1>1, <1>2 DEF Phase
<1>4. Heard(s) BY <1>1, <1>3, OpenSocket
<1>5. s.iss >= 1 /\ s.iss <= s.sndUna
    BY <1>2, GoodStream, NotClosedIsOpen, <1>1 DEF Core, Numbers, Good, Numbered
<1>6. seq \in Nat /\ s.rcvNxt \in Nat BY <1>2, <1>5, SocketNumbers
<1>7. flags \in SUBSET Flags BY DEF Flags
<1> HIDE DEF flags, seq
<1>8. Repeats(s, r) /\ SameWindow(s, r)
    BY <1>2, <1>4, <1>6, <1>7, SendSegmentRepeats
<1>9. r \in Socket /\ r.state = s.state
    BY <1>2, <1>6, <1>7, SendSegmentType DEF Transmits, SameControl
<1> HIDE DEF r
<1>10. u = t BY <1>9 DEF Socket
<1>11. b \in BOOLEAN /\ n \in Nat /\ m \in Nat BY <1>9 DEF Socket
<1> HIDE DEF b, n, m, u
<1>12. Repeats(r, t) /\ SameWindow(r, t) /\ t.state = r.state
    <2>1. Repeats(r, t) BY <1>9, <1>11, TimersRepeats
    <2>2. SameWindow(r, t) BY <1>9 DEF SameWindow, Socket
    <2>3. t.state = r.state BY <1>9 DEF Socket
    <2> QED BY <2>1, <2>2, <2>3
<1> HIDE DEF t
<1>13. Repeats(s, t) BY <1>2, <1>8, <1>12, RepeatsTransitive
<1>14. SameWindow(s, t) BY <1>8, <1>12 DEF SameWindow
<1>15. Becomes(e, t) BY <1>1, <1>10 DEF u, t, r, n, m, b, flags, seq
<1> QED BY <1>2, <1>9, <1>12, <1>13, <1>14, <1>15, AnswerWindow

LEMMA ProbeGiveUpWindow ==
    ASSUME IInv, AInv, WInv, NEW e \in Ends, ProbeGiveUp(e)
    PROVE  WInv'
<1> DEFINE s == sock[e]
           r == SendResetSegment(s, s.sndNxt)
           t == ChangeState(r, "CLOSED")
<1>1. s.state # "CLOSED" /\ Becomes(e, t) BY DEF ProbeGiveUp, ProbeDue
<1>2. ~Unopened(s) /\ s \in Socket BY <1>1, OpenSocket
<1>3. Repeats(s, r) BY <1>2, SocketNumbers, SendResetSegmentRepeats
<1> HIDE DEF r
<1>4. r \in Socket BY <1>3 DEF Repeats, Speaks
<1>5. "CLOSED" \in States /\ "CLOSED" \notin Sending BY DEF States, Sending
<1>6. Repeats(r, t) /\ t.state = "CLOSED" BY <1>4, <1>5, ChangeStateRepeats
<1> HIDE DEF t
<1>7. Repeats(s, t) BY <1>2, <1>3, <1>6, RepeatsTransitive
<1> QED BY <1>1, <1>2, <1>5, <1>6, <1>7, EndWindow

LEMMA OverrideWindow ==
    ASSUME IInv, AInv, WInv, NEW e \in Ends, Override(e)
    PROVE  WInv'
<1> DEFINE s == sock[e]
           p == sock[Peer(e)]
           t == OverrideSend(s)
<1>1. /\ s.state # "CLOSED" /\ s.state # "SYN_SENT" /\ s.state \in Sending
      /\ Becomes(e, t) /\ p \in Socket
    BY PeerEnd DEF Override, Sending
<1>2. ~Unopened(s) /\ s \in Socket /\ Heard(s) BY <1>1, OpenSocket
<1>3. Speaks(s, t) /\ \A m, b \in Int : Held(s, m, b) => Held(t, m, b)
    BY <1>1, <1>2, OverrideHeld
<1> HIDE DEF t
<1>4. p.iss + 1 \in Int /\ Reach(p) \in Int BY <1>1, ReachType, SocketNumbers
<1> QED BY <1>1, <1>2, <1>3, <1>4, HeldMove DEF Becomes

\* The state CLOSED is entered, or left behind with the control block.
LEMMA ClosedWindow ==
    ASSUME IInv, AInv, WInv, NEW e \in Ends, sock[e].state # "CLOSED",
           Becomes(e, ChangeState(sock[e], "CLOSED"))
    PROVE  WInv'
<1> DEFINE s == sock[e]
           t == ChangeState(s, "CLOSED")
<1>1. ~Unopened(s) /\ s \in Socket BY OpenSocket
<1>2. "CLOSED" \in States /\ "CLOSED" \notin Sending BY DEF States, Sending
<1>3. Repeats(s, t) /\ t.state = "CLOSED" BY <1>1, <1>2, ChangeStateRepeats
<1> HIDE DEF t
<1>4. Becomes(e, t) BY DEF t
<1> QED BY <1>1, <1>2, <1>3, <1>4, EndWindow

LEMMA TimeWaitTimeoutWindow ==
    ASSUME IInv, AInv, WInv, NEW e \in Ends, TimeWaitTimeout(e)
    PROVE  WInv'
<1> DEFINE s == sock[e]
           c == ChangeState(s, "CLOSED")
           freed == [DeleteControlBlock(c) EXCEPT !.type = "UNUSED"]
           t == IF c.owned THEN c ELSE freed
<1>1. s.state # "CLOSED" /\ Becomes(e, t) BY DEF TimeWaitTimeout
<1>2. ~Unopened(s) /\ s \in Socket BY <1>1, OpenSocket
<1>3. "CLOSED" \in States /\ "CLOSED" \notin Sending BY DEF States, Sending
<1>4. Repeats(s, c) /\ c.state = "CLOSED" BY <1>2, <1>3, ChangeStateRepeats
<1>5. Repeats(s, freed) /\ freed.state = "CLOSED" BY <1>2, FreedRepeats
<1> HIDE DEF c, freed
<1>6. Repeats(s, t) /\ t.state = "CLOSED" BY <1>4, <1>5
<1> HIDE DEF t
<1> QED BY <1>1, <1>2, <1>3, <1>6, EndWindow

LEMMA TimerWindow ==
    ASSUME IInv, AInv, WInv, NEW e \in Ends, Timer(e)
    PROVE  WInv'
<1>1. CASE FinWait2Timeout(e) BY <1>1, ClosedWindow DEF FinWait2Timeout
<1> QED BY <1>1, RetransmitWindow, GiveUpWindow, ProbeWindow, ProbeGiveUpWindow,
           OverrideWindow, TimeWaitTimeoutWindow DEF Timer

\* A segment that acknowledges a number of this connection is the peer's own.
\* While the peer only acknowledges, it bears the number after the SYN and
\* offers a window no further than the peer can store.
LEMMA TakenOffer ==
    ASSUME StraysAreOld, IInv, AInv, WInv, NEW e \in Ends, NEW g \in Segment,
           g \in Incoming(e), sock[e].state # "CLOSED", sock[e].state # "SYN_SENT",
           Passes(sock[e], View(sock[e], g)), g.ack <= sock[e].sndNxt,
           sock[e].iss < g.ack, OnlyAcks(sock[Peer(e)])
    PROVE  /\ View(sock[e], g).seq = sock[Peer(e)].iss + 1
           /\ g.seq <= sock[Peer(e)].iss + 1
           /\ g.ack + g.wnd <= Reach(sock[Peer(e)])
<1> DEFINE s == sock[e]
           p == sock[Peer(e)]
           w == written[e]
           v == written[Peer(e)]
           u == View(s, g)
<1>1. /\ Core(e, s, p, w) /\ s \in Socket /\ WindowFits(s) /\ s.rcvNxt > 0
    BY OpenSocket DEF Good
<1>2. /\ u.ack = g.ack /\ u.data = g.data
      /\ ("ACK" \in u.flags <=> "ACK" \in g.flags)
      /\ ("RST" \in u.flags <=> "RST" \in g.flags)
      /\ (u = g \/ "SYN" \in g.flags)
    BY ViewFields
<1>3. u = g \/ (u.seq = g.seq + 1)
    <2> DEFINE f == g.flags \ {"SYN"}
               n == g.seq + 1
               x == [g EXCEPT !.flags = f, !.seq = n]
    <2>1. u = g \/ u = x BY DEF View
    <2>2. x.seq = n BY DEF Segment
    <2> QED BY <2>1, <2>2
<1>4. /\ Acceptable(s, u) /\ "ACK" \in u.flags /\ "RST" \notin u.flags
      /\ "SYN" \notin u.flags
    BY DEF Passes
<1> HIDE DEF u
<1>5. Live(g) /\ "ACK" \in g.flags BY <1>2, <1>4 DEF Live
<1>6. EndOK(Peer(e), p, s, v) /\ p \in Socket BY PeerEnd
<1>7. g \in p.sent /\ Core(Peer(e), p, s, v) /\ SegmentOK(p, g)
    BY <1>1, <1>5, <1>6, AckIsHeard DEF Incoming
<1>8. ~Unopened(p) BY <1>5, <1>6, <1>7, SentSegment
<1>9. ~Mistaken(e, s) BY <1>1, <1>4, <1>7, MistakenRefuses DEF u
<1>10. ~Deaf(s) BY <1>1, SocketNumbers DEF Deaf
<1>11. s.irs = p.iss /\ s.irs < s.rcvNxt
    BY <1>1, <1>9, <1>10 DEF Core, Agrees, Right, Heard
<1>12. Offer(p, g) /\ p.sndNxt = p.iss + 1
    <2>1. Peer(e) \in Ends BY PeerInEnds
    <2> QED BY <1>7, <1>8, <2>1 DEF WInv, AcksOnly
<1>13. g.ack + g.wnd <= Reach(p) BY <1>5, <1>12 DEF Offer
<1>14. g.data = << >> BY <1>7 DEF OnlyAcks
<1>15. /\ g.seq \in Nat /\ p.iss \in Nat /\ s.rcvNxt \in Nat /\ s.rcvWnd \in Int
       /\ Len(g.data) = 0 /\ FinLength(g.flags) \in Nat
    BY <1>1, <1>6, <1>14, SocketNumbers DEF Segment, FinLength
<1>16. g.seq <= p.iss + 1 BY <1>7, <1>12, <1>15 DEF SegmentOK
<1>17. u.seq <= p.iss + 1
    <2>1. CASE u = g BY <1>16, <2>1
    <2>2. CASE u # g
        <3>1. g.seq = p.iss BY <1>2, <1>7, <2>2 DEF SegmentOK
        <3> QED BY <1>3, <1>15, <2>2, <3>1
    <2> QED BY <2>1, <2>2
<1>18. u.seq \in Nat BY <1>3, <1>15
<1>19. s.rcvNxt <= u.seq
    BY <1>2, <1>4, <1>14, <1>15, <1>18 DEF Acceptable
<1>20. u.seq = p.iss + 1 BY <1>11, <1>15, <1>17, <1>18, <1>19
<1> QED BY <1>13, <1>16, <1>20 DEF u

\* An acknowledgment that a handler takes leaves a window as far as the peer
\* can store, or the window as it was.
LEMMA TakenWindow ==
    ASSUME StraysAreOld, IInv, AInv, WInv, NEW e \in Ends, NEW g \in Segment,
           g \in Incoming(e), sock[e].state \in Sending,
           Passes(sock[e], g), g.ack <= sock[e].sndNxt, OnlyAcks(sock[Peer(e)])
    PROVE  LET p == sock[Peer(e)] IN
           /\ Within(sock[e], Reach(p))
           /\ Window(CheckAck(sock[e], g), p.iss + 1, Reach(p))
<1> DEFINE s == sock[e]
           p == sock[Peer(e)]
           n == p.iss + 1
           b == Reach(p)
<1>1. s.state # "CLOSED" /\ s.state # "SYN_SENT" /\ View(s, g) = g
    BY DEF Sending, View
<1>2. s \in Socket /\ p \in Socket BY <1>1, OpenSocket, PeerEnd
<1>3. n \in Int /\ b \in Int BY <1>2, ReachType, SocketNumbers
<1>4. Within(s, b) /\ Window(s, n, b) BY DEF WInv, Flow, Held
<1>5. /\ g.ack \in Nat /\ s.sndUna \in Nat /\ s.sndWl2 \in Nat /\ s.iss \in Nat
      /\ s.sndWnd \in Int
    BY <1>2, SocketNumbers DEF Segment
<1>6. /\ s.iss < s.sndUna /\ s.sndWl1 <= n /\ s.sndWl2 = s.sndUna
      /\ s.sndUna + s.sndWnd <= b
    BY <1>4 DEF Window
<1>7. CASE g.ack < s.sndUna
    <2> HIDE DEF n, b, s
    <2>1. Window(CheckAck(s, g), n, b)
        BY <1>2, <1>3, <1>4, <1>6, <1>7, CheckAckWindow
    <2> QED BY <1>4, <2>1 DEF n, b, s
<1>8. CASE ~(g.ack < s.sndUna)
    <2>1. g.ack >= s.sndUna /\ s.iss < g.ack BY <1>5, <1>6, <1>8
    <2>2. g.seq = n /\ g.ack + g.wnd <= b BY <1>1, <2>1, TakenOffer
    <2>3. s.sndWl2 <= g.ack /\ (s.sndWl2 = g.ack => g.ack + s.sndWnd <= b)
        BY <1>5, <1>6, <2>1
    <2> HIDE DEF n, b, s
    <2>4. Window(CheckAck(s, g), n, b)
        BY <1>2, <1>3, <1>6, <2>1, <2>2, <2>3, CheckAckWindow
    <2> QED BY <1>4, <2>4 DEF n, b, s
<1> QED BY <1>7, <1>8

LEMMA TakenMoves ==
    ASSUME StraysAreOld, IInv, AInv, WInv, NEW e \in Ends, NEW g \in Segment,
           g \in Incoming(e),
           \/ EstablishedSegment(e, g) \/ CloseWaitSegment(e, g)
           \/ FinWait1Segment(e, g) \/ FinWait2Segment(e, g)
           \/ ClosingSegment(e, g)
    PROVE  WInv'
<1> DEFINE s == sock[e]
           p == sock[Peer(e)]
<1>1. s.state # "CLOSED" /\ s.state # "SYN_SENT"
    BY DEF EstablishedSegment, CloseWaitSegment, FinWait1Segment,
           FinWait2Segment, ClosingSegment, Taken
<1>2. ~Unopened(s) /\ s \in Socket /\ Good(s) /\ Heard(s) BY <1>1, OpenSocket
<1>3. p.iss + 1 \in Int /\ Reach(p) \in Int BY PeerEnd, ReachType, SocketNumbers
<1>4. CASE EstablishedSegment(e, g)
    <2> DEFINE t == EstablishedHandler(s, g)
    <2>1. /\ s.state = "ESTABLISHED" /\ Passes(s, g) /\ g.ack <= s.sndNxt
          /\ Becomes(e, t) /\ s.state \in Sending
        BY <1>4 DEF EstablishedSegment, Taken, Sending
    <2>2. /\ Speaks(s, t)
          /\ \A n, b \in Int :
                Within(s, b) /\ Window(CheckAck(s, g), n, b) => Held(t, n, b)
        BY <1>2, <2>1, EstablishedHandlerHeld
    <2> HIDE DEF t
    <2>3. OnlyAcks(p) => Held(t, p.iss + 1, Reach(p))
        BY <1>3, <2>1, <2>2, TakenWindow
    <2> QED BY <1>2, <2>1, <2>2, <2>3, HeldMove DEF Becomes
<1>5. CASE CloseWaitSegment(e, g)
    <2> DEFINE t == CloseWaitHandler(s, g)
    <2>1. /\ s.state = "CLOSE_WAIT" /\ Passes(s, g) /\ g.ack <= s.sndNxt
          /\ Becomes(e, t) /\ s.state \in Sending
        BY <1>5 DEF CloseWaitSegment, Taken, Sending
    <2>2. /\ Speaks(s, t)
          /\ \A n, b \in Int :
                Within(s, b) /\ Window(CheckAck(s, g), n, b) => Held(t, n, b)
        BY <1>2, <2>1, CloseWaitHandlerHeld
    <2> HIDE DEF t
    <2>3. OnlyAcks(p) => Held(t, p.iss + 1, Reach(p))
        BY <1>3, <2>1, <2>2, TakenWindow
    <2> QED BY <1>2, <2>1, <2>2, <2>3, HeldMove DEF Becomes
<1>6. CASE FinWait1Segment(e, g)
    <2> DEFINE t == FinWait1Handler(s, g)
    <2>1. s.state = "FIN_WAIT_1" /\ Becomes(e, t) BY <1>6 DEF FinWait1Segment, Taken
    <2>2. Repeats(s, t) /\ t.state \notin Sending
        BY <1>2, <2>1, FinWait1HandlerRepeats
    <2> HIDE DEF t
    <2> QED BY <1>2, <2>1, <2>2, EndWindow
<1>7. CASE FinWait2Segment(e, g)
    <2> DEFINE t == FinWait2Handler(s, g)
    <2>1. s.state = "FIN_WAIT_2" /\ Becomes(e, t) BY <1>7 DEF FinWait2Segment, Taken
    <2>2. Repeats(s, t) /\ t.state \notin Sending
        BY <1>2, <2>1, FinWait2HandlerRepeats
    <2> HIDE DEF t
    <2> QED BY <1>2, <2>1, <2>2, EndWindow
<1>8. CASE ClosingSegment(e, g)
    <2> DEFINE t == ClosingHandler(s, g)
    <2>1. s.state = "CLOSING" /\ Becomes(e, t) BY <1>8 DEF ClosingSegment, Taken
    <2>2. Repeats(s, t) /\ t.state \notin Sending
        BY <1>2, <2>1, ClosingHandlerRepeats
    <2> HIDE DEF t
    <2> QED BY <1>2, <2>1, <2>2, EndWindow
<1> QED BY <1>4, <1>5, <1>6, <1>7, <1>8

\* The acknowledgment of the SYN opens the window.
LEMMA SynReceivedAckWindow ==
    ASSUME StraysAreOld, IInv, AInv, WInv, NEW e \in Ends, NEW g \in Segment,
           g \in Incoming(e), SynReceivedAck(e, g)
    PROVE  WInv'
<1> DEFINE s == sock[e]
           p == sock[Peer(e)]
           v == View(s, g)
           o == [s EXCEPT !.sndWnd = g.wnd, !.sndWl1 = g.seq,
                          !.sndWl2 = g.ack, !.maxSndWnd = g.wnd]
           c == ChangeState(o, "ESTABLISHED")
           t == EstablishedHandler(c, v)
<1>1. /\ s.state = "SYN_RECEIVED" /\ Becomes(e, t)
      /\ Passes(s, v) /\ g.ack = s.sndNxt
    BY DEF SynReceivedAck
<1>2. /\ ~Unopened(s) /\ s \in Socket /\ Good(s) /\ Heard(s)
      /\ Core(e, s, p, written[e]) /\ p \in Socket
    BY <1>1, OpenSocket, PeerEnd
<1>3. v \in Segment /\ v.ack = g.ack BY <1>2, ViewType, ViewFields
<1>4. v.wnd = g.wnd
    <2> DEFINE f == g.flags \ {"SYN"}
               n == g.seq + 1
               x == [g EXCEPT !.flags = f, !.seq = n]
    <2>1. v = g \/ v = x BY DEF View
    <2>2. x.wnd = g.wnd BY DEF Segment
    <2> QED BY <2>1, <2>2
<1>5. g.ack \in Nat /\ g.seq \in Int /\ g.wnd \in Int BY DEF Segment
<1>6. s.iss < g.ack /\ g.ack <= s.sndNxt /\ s.sndUna <= g.ack
    BY <1>1, <1>2, SocketNumbers DEF Core, Numbers
<1>7. OnlyAcks(p) =>
          /\ v.seq = p.iss + 1 /\ g.seq <= p.iss + 1
          /\ g.ack + g.wnd <= Reach(p)
    BY <1>1, <1>6, TakenOffer
<1> HIDE DEF v
<1>8. /\ o \in Socket /\ Quiet(s, o) /\ SameControl(s, o) /\ Transmits(s, o)
    BY <1>2, <1>5, NewWindowQuiet, NewWindow
<1>9. /\ o.sndWnd = g.wnd /\ o.sndWl1 = g.seq /\ o.sndWl2 = g.ack
      /\ o.rcvWnd = s.rcvWnd
    BY <1>2 DEF Socket
<1> HIDE DEF o
<1>10. Repeats(s, o)
    BY <1>2, <1>8, <1>9, RepeatsFrom DEF Quiet, SameNumbers
<1>11. "ESTABLISHED" \in States BY DEF States
<1>12. Repeats(o, c) /\ SameWindow(o, c) /\ c.state = "ESTABLISHED"
    BY <1>8, <1>11, ChangeStateRepeats
<1>13. Good(c)
    <2>1. Good(o) /\ o.type = "STREAM"
        BY <1>1, <1>2, <1>8, TransmitsGood, GoodStream DEF Evolves, SameControl
    <2>2. o.state \in Receiving BY <1>1, <1>8 DEF Receiving, SameControl
    <2> QED BY <1>11, <2>1, <2>2, ReceivingStateGood DEF Evolves
<1>14. /\ c.irs = s.irs /\ c.rcvNxt = s.rcvNxt /\ c.iss = s.iss
       /\ c.sndUna = s.sndUna
    BY <1>8 DEF ChangeState, Socket, Quiet, SameNumbers
<1> HIDE DEF c
<1>15. c \in Socket /\ Heard(c) BY <1>2, <1>13, <1>14 DEF Good, Heard
<1>16. /\ Speaks(c, t)
       /\ \A n, b \in Int :
             Within(c, b) /\ Window(CheckAck(c, v), n, b) => Held(t, n, b)
    BY <1>3, <1>12, <1>13, <1>15, EstablishedHandlerHeld
<1> HIDE DEF t
<1>17. Repeats(s, c) BY <1>2, <1>10, <1>12, RepeatsTransitive
<1>18. Speaks(s, t) BY <1>2, <1>16, <1>17, SpeaksTransitive DEF Repeats
<1>19. p.iss + 1 \in Int /\ Reach(p) \in Int BY <1>2, ReachType, SocketNumbers
<1>20. ASSUME OnlyAcks(p), Held(s, p.iss + 1, Reach(p))
       PROVE  Held(t, p.iss + 1, Reach(p))
    <2> DEFINE n == p.iss + 1
               b == Reach(p)
    <2>1. Within(c, b) BY <1>17, <1>19, <1>20 DEF Repeats, Held
    <2>2. /\ c.sndWl1 <= n /\ v.ack >= c.sndUna /\ v.seq = n
          /\ v.ack + v.wnd <= b /\ c.iss < v.ack
        BY <1>3, <1>4, <1>5, <1>6, <1>7, <1>9, <1>12, <1>14, <1>20, <1>2, SocketNumbers
           DEF SameWindow
    <2>3. c.sndWl2 <= v.ack /\ (c.sndWl2 = v.ack => v.ack + c.sndWnd <= b)
        BY <1>3, <1>5, <1>7, <1>9, <1>12, <1>20 DEF SameWindow
    <2> HIDE DEF n, b
    <2>4. n \in Int /\ b \in Int BY <1>19 DEF n, b
    <2>5. Window(CheckAck(c, v), n, b)
        BY <1>3, <1>15, <2>2, <2>3, <2>4, CheckAckWindow
    <2> QED BY <1>16, <2>1, <2>4, <2>5 DEF n, b
<1> QED BY <1>1, <1>2, <1>18, <1>20, HeldMove DEF Becomes

\* What SYN_SENT takes of a SYN.
LEMMA SynTakenRepeats ==
    ASSUME NEW s, Good(s), s.state = "SYN_SENT", s.rcvNxt = 0,
           NEW g \in Segment, NEW una \in Nat, una >= 1
    PROVE  LET o == SynTaken(s, g, una) IN
           /\ Repeats(s, o) /\ o \in Socket /\ o.state = s.state
           /\ o.iss = s.iss /\ o.irs = g.seq /\ o.sndUna = una
           /\ o.rcvNxt = g.seq + 1 /\ Heard(o)
<1> DEFINE o == SynTaken(s, g, una)
           n == g.seq + 1
<1>1. s \in Socket /\ WindowFits(s) BY DEF Good
<1>2. g.seq \in Nat /\ n \in Nat BY DEF Segment
<1>3. o \in Socket /\ o.state = "SYN_SENT" BY SynTakenGood
<1>4. o = [s EXCEPT !.irs = g.seq, !.rcvNxt = n, !.sndUna = una] BY DEF SynTaken
<1> HIDE DEF o, n
<1>5. /\ o.iss = s.iss /\ o.irs = g.seq /\ o.sndUna = una /\ o.sndNxt = s.sndNxt
      /\ o.rcvNxt = n /\ o.rcvWnd = s.rcvWnd /\ o.rtxQ = s.rtxQ /\ o.sent = s.sent
    BY <1>1, <1>4 DEF Socket
<1>6. Heard(o) BY <1>2, <1>5 DEF Heard, n
<1>7. Reach(s) = 0 BY <1>1, SocketNumbers DEF Reach, Heard
<1>8. Reach(s) <= Reach(o)
    BY <1>1, <1>2, <1>5, <1>6, <1>7, SocketNumbers DEF Reach, RightEdge, WindowFits
<1>9. Repeats(s, o) BY <1>1, <1>3, <1>5, <1>8, RepeatsOnward
<1> QED BY <1>3, <1>5, <1>6, <1>9 DEF o, n

\* tcpUpdateRetransmitQueue drops items.
LEMMA UpdateRetransmitQueueRepeats ==
    ASSUME NEW s \in Socket
    PROVE  LET t == UpdateRetransmitQueue(s) IN
           /\ Repeats(s, t) /\ t \in Socket /\ t.state = s.state
           /\ t.iss = s.iss /\ t.irs = s.irs /\ t.rcvNxt = s.rcvNxt
           /\ t.sndUna = s.sndUna
<1> DEFINE t == UpdateRetransmitQueue(s)
<1>1. Quiet(s, t) /\ Transmits(s, t)
    BY UpdateRetransmitQueueQuiet, UpdateRetransmitQueueType
<1> HIDE DEF t
<1>2. t \in Socket /\ t.state = s.state /\ t.rcvWnd = s.rcvWnd
    BY <1>1 DEF Transmits, SameControl, SameReceive
<1>3. Repeats(s, t) BY <1>1, <1>2, RepeatsFrom DEF Quiet, SameNumbers
<1> QED BY <1>1, <1>2, <1>3 DEF Quiet, SameNumbers, t

\* A SYN alone: the end acknowledges it and sends nothing yet.
LEMMA SynSentSynWindow ==
    ASSUME IInv, AInv, WInv, NEW e \in Ends, NEW g \in Segment, SynSentSyn(e, g)
    PROVE  WInv'
<1> DEFINE s == sock[e]
           una == s.sndUna
           flags == {"SYN", "ACK"}
           o == SynTaken(s, g, una)
           u == UpdateRetransmitQueue(o)
           q == QueueControl(u, flags, u.iss)
           t == ChangeState(q, "SYN_RECEIVED")
<1>1. s.state = "SYN_SENT" BY DEF SynSentSyn
<1>2. /\ ~Unopened(s) /\ s \in Socket /\ Good(s)
      /\ Core(e, s, sock[Peer(e)], written[e]) /\ Phase(s, written[e])
    BY <1>1, OpenSocket
<1>3. Becomes(e, t)
    <2>1. o = [s EXCEPT !.irs = g.seq, !.rcvNxt = g.seq + 1]
        BY <1>2 DEF Socket, SynTaken
    <2> QED BY <2>1 DEF SynSentSyn
<1>4. s.rcvNxt = 0 BY <1>1, <1>2 DEF Phase
<1>5. una \in Nat /\ una >= 1
    BY <1>1, <1>2, GoodStream, SocketNumbers DEF Core, Numbers, Good, Numbered
<1> HIDE DEF una
<1>6. Repeats(s, o) /\ o \in Socket /\ Heard(o)
    BY <1>1, <1>2, <1>4, <1>5, SynTakenRepeats
<1> HIDE DEF o
<1>7. /\ Repeats(o, u) /\ u \in Socket /\ u.irs = o.irs /\ u.rcvNxt = o.rcvNxt
    BY <1>6, UpdateRetransmitQueueRepeats
<1> HIDE DEF u
<1>8. Heard(u) /\ u.iss \in Nat BY <1>6, <1>7, SocketNumbers DEF Heard
<1>9. flags \in SUBSET Flags BY DEF Flags
<1> HIDE DEF flags
<1>10. Repeats(u, q) BY <1>7, <1>8, <1>9, QueueControlRepeats
<1>11. q \in Socket BY <1>10 DEF Repeats, Speaks
<1> HIDE DEF q
<1>12. "SYN_RECEIVED" \in States /\ "SYN_RECEIVED" \notin Sending
    BY DEF States, Sending
<1>13. Repeats(q, t) /\ t.state = "SYN_RECEIVED" BY <1>11, <1>12, ChangeStateRepeats
<1> HIDE DEF t
<1>14. Repeats(s, u) BY <1>2, <1>6, <1>7, RepeatsTransitive
<1>15. Repeats(s, q) BY <1>2, <1>10, <1>14, RepeatsTransitive
<1>16. Repeats(s, t) BY <1>2, <1>13, <1>15, RepeatsTransitive
<1> QED BY <1>2, <1>3, <1>12, <1>13, <1>16, EndWindow DEF t, q, flags, u, o, una

\* A SYN that acknowledges ours opens the window.
LEMMA SynSentSynAckWindow ==
    ASSUME StraysAreOld, IInv, AInv, WInv, NEW e \in Ends, NEW g \in Segment,
           g \in Incoming(e), SynSentSynAck(e, g)
    PROVE  WInv'
<1> DEFINE s == sock[e]
           p == sock[Peer(e)]
           o == SynTaken(s, g, g.ack)
           u == UpdateRetransmitQueue(o)
           w == [u EXCEPT !.sndWnd = g.wnd, !.sndWl1 = g.seq,
                          !.sndWl2 = g.ack, !.maxSndWnd = g.wnd]
           a == SendAck(w)
           t == ChangeState(a, "ESTABLISHED")
<1>1. /\ s.state = "SYN_SENT" /\ g.ack = s.sndNxt /\ Becomes(e, t)
      /\ "SYN" \in g.flags /\ "ACK" \in g.flags /\ Live(g)
    BY DEF SynSentSynAck, SynTaken, Live
<1>2. /\ ~Unopened(s) /\ s \in Socket /\ Good(s)
      /\ Core(e, s, p, written[e]) /\ Phase(s, written[e])
    BY <1>1, OpenSocket
<1>3. s.iss < g.ack /\ g.ack <= s.sndNxt /\ s.rcvNxt = 0
    BY <1>1, <1>2, SocketNumbers DEF Core, Numbers, Phase
<1>4. g \in p.sent /\ SegmentOK(p, g) /\ p \in Socket
    BY <1>1, <1>2, <1>3, PeerEnd, AckIsHeard DEF Incoming
<1>5. g.seq = p.iss BY <1>1, <1>4 DEF SegmentOK
<1>6. g.ack + g.wnd <= Reach(p)
    <2>1. Peer(e) \in Ends BY PeerInEnds
    <2>2. Offer(p, g) BY <1>4, <2>1 DEF WInv
    <2> QED BY <1>1, <2>2 DEF Offer
<1>7. g.ack \in Nat /\ g.ack >= 1 /\ g.seq \in Int /\ g.wnd \in Int
    BY <1>2, <1>3, SocketNumbers DEF Segment
<1>8. /\ Repeats(s, o) /\ o \in Socket /\ Heard(o) /\ o.iss = s.iss
      /\ o.sndUna = g.ack
    BY <1>1, <1>2, <1>3, <1>7, SynTakenRepeats
<1> HIDE DEF o
<1>9. /\ Repeats(o, u) /\ u \in Socket /\ u.iss = o.iss
      /\ u.irs = o.irs /\ u.rcvNxt = o.rcvNxt /\ u.sndUna = o.sndUna
    BY <1>8, UpdateRetransmitQueueRepeats
<1> HIDE DEF u
<1>10. /\ w \in Socket /\ Quiet(u, w)
    BY <1>7, <1>9, NewWindowQuiet
<1>11. /\ w.sndWnd = g.wnd /\ w.sndWl1 = g.seq /\ w.sndWl2 = g.ack
       /\ w.rcvWnd = u.rcvWnd
    BY <1>9 DEF Socket
<1> HIDE DEF w
<1>12. Repeats(u, w) BY <1>9, <1>10, <1>11, RepeatsFrom DEF Quiet, SameNumbers
<1>13. Heard(w) /\ w.iss = s.iss /\ w.sndUna = g.ack
    BY <1>8, <1>9, <1>10 DEF Heard, Quiet, SameNumbers
<1>14. Repeats(w, a) /\ SameWindow(w, a) BY <1>10, <1>13, SendAckRepeats
<1>15. a \in Socket /\ a.iss = w.iss BY <1>14 DEF Repeats, Speaks
<1> HIDE DEF a
<1>16. "ESTABLISHED" \in States BY DEF States
<1>17. Repeats(a, t) /\ SameWindow(a, t) BY <1>15, <1>16, ChangeStateRepeats
<1> HIDE DEF t
<1>18. Repeats(s, u) BY <1>2, <1>8, <1>9, RepeatsTransitive
<1>19. Repeats(s, w) BY <1>2, <1>12, <1>18, RepeatsTransitive
<1>20. Repeats(s, a) BY <1>2, <1>14, <1>19, RepeatsTransitive
<1>21. Repeats(s, t) BY <1>2, <1>17, <1>20, RepeatsTransitive
<1>22. Window(t, p.iss + 1, Reach(p))
    <2>1. /\ t.sndUna = g.ack /\ t.sndWl1 = g.seq /\ t.sndWl2 = g.ack
          /\ t.sndWnd = g.wnd
        BY <1>11, <1>13, <1>14, <1>17 DEF SameWindow
    <2>2. t.iss = s.iss BY <1>21 DEF Repeats, Speaks
    <2>3. g.seq <= p.iss + 1 BY <1>5, <1>7
    <2> QED BY <1>3, <1>6, <2>1, <2>2, <2>3 DEF Window
<1>23. Reach(p) \in Int BY <1>4, ReachType
<1>24. Held(s, p.iss + 1, Reach(p)) => Held(t, p.iss + 1, Reach(p))
    BY <1>21, <1>22, <1>23 DEF Held, Repeats
<1> QED BY <1>1, <1>2, <1>21, <1>24, HeldMove DEF Becomes, Repeats

LEMMA ResetWindow ==
    ASSUME IInv, AInv, WInv, NEW e \in Ends, sock[e].state # "CLOSED",
           NEW n \in Nat, Becomes(e, SendResetSegment(sock[e], n))
    PROVE  WInv'
<1> DEFINE s == sock[e]
           t == SendResetSegment(s, n)
<1>1. ~Unopened(s) /\ s \in Socket BY OpenSocket
<1>2. Repeats(s, t) /\ SameWindow(s, t) BY <1>1, SendResetSegmentRepeats
<1>3. t.state = s.state
    BY <1>1, SendResetSegmentType DEF Transmits, SameControl
<1> HIDE DEF t
<1>4. Becomes(e, t) BY DEF t
<1> QED BY <1>1, <1>2, <1>3, <1>4, AnswerWindow

LEMMA AckWindow ==
    ASSUME IInv, AInv, WInv, NEW e \in Ends, sock[e].state # "CLOSED",
           sock[e].state # "SYN_SENT", Becomes(e, SendAck(sock[e]))
    PROVE  WInv'
<1> DEFINE s == sock[e]
           t == SendAck(s)
<1>1. ~Unopened(s) /\ s \in Socket /\ Heard(s) BY OpenSocket
<1>2. Repeats(s, t) /\ SameWindow(s, t) BY <1>1, SendAckRepeats
<1>3. t.state = s.state BY <1>1, SendAckType DEF Transmits, SameControl
<1> HIDE DEF t
<1>4. Becomes(e, t) BY DEF t
<1> QED BY <1>1, <1>2, <1>3, <1>4, AnswerWindow

LEMMA SameWindowStep ==
    ASSUME IInv, AInv, WInv, NEW e \in Ends, sock[e].state # "CLOSED",
           Becomes(e, sock[e])
    PROVE  WInv'
BY OpenSocket, SelfRepeats, AnswerWindow

\* A closed socket, opened or not, rejects what arrives.
LEMMA RejectWindow ==
    ASSUME IInv, AInv, WInv, NEW e \in Ends, NEW g \in Segment, Reject(e, g)
    PROVE  WInv'
<1> DEFINE s == sock[e]
           t == RejectSegment(s, g)
<1>1. s.state = "CLOSED" /\ Becomes(e, t) BY DEF Reject
<1>2. s \in Socket BY DEF IInv, Good
<1>3. Repeats(s, t) BY <1>2, RejectSegmentRepeats
<1>4. SameControl(s, t) BY <1>2, RejectSegmentType DEF Transmits
<1> HIDE DEF t
<1>5. ~Unopened(s) \/ Unopened(t) BY <1>4 DEF SameControl, Unopened
<1>6. t.state \notin Sending BY <1>1, <1>4 DEF SameControl, Sending
<1> QED BY <1>1, <1>3, <1>5, <1>6, RepeatsMove DEF Becomes

LEMMA NetworkWindow ==
    ASSUME StraysAreOld, IInv, AInv, WInv, NEW e \in Ends, NEW g \in Incoming(e),
           Network(e, g)
    PROVE  WInv'
<1> DEFINE s == sock[e]
<1>1. g \in Segment BY IncomingType
<1>2. g.ack \in Nat /\ Len(g.data) \in Nat BY <1>1 DEF Segment
<1>3. CASE SynSentBadAck(e, g) BY <1>2, <1>3, ResetWindow DEF SynSentBadAck
<1>4. CASE SynSentReset(e, g) BY <1>4, ClosedWindow DEF SynSentReset
<1>5. CASE SynReceivedDuplicateSyn(e, g)
    <2> DEFINE flags == {"SYN", "ACK"}
               t == SendSegment(s, flags, s.iss, s.rcvNxt)
    <2>1. s.state = "SYN_RECEIVED" /\ Becomes(e, t)
        BY <1>5 DEF SynReceivedDuplicateSyn, DuplicateSyn
    <2>2. Heard(s) /\ s \in Socket /\ ~Unopened(s) BY <2>1, OpenSocket
    <2>3. flags \in SUBSET Flags BY DEF Flags
    <2>4. s.iss \in Nat /\ s.rcvNxt \in Nat BY <2>2, SocketNumbers
    <2> HIDE DEF flags
    <2>5. Repeats(s, t) /\ SameWindow(s, t)
        BY <2>2, <2>3, <2>4, SendSegmentRepeats
    <2>6. t.state = s.state
        BY <2>2, <2>3, <2>4, SendSegmentType DEF Transmits, SameControl
    <2> HIDE DEF t
    <2> QED BY <2>1, <2>2, <2>5, <2>6, AnswerWindow
<1>6. CASE SynReceivedBadAck(e, g)
    BY <1>2, <1>6, ResetWindow DEF SynReceivedBadAck
<1>7. CASE Unacceptable(e, g)
    BY <1>7, AckWindow DEF Unacceptable, Examined, Synchronized
<1>8. CASE ResetByPeer(e, g)
    BY <1>8, ClosedWindow DEF ResetByPeer, Examined, Synchronized
<1>9. CASE UnexpectedSyn(e, g)
    <2> DEFINE n == View(s, g).seq + Len(g.data) + 1
               flags == {"RST", "ACK"}
               q == SendSegment(s, flags, 0, n)
    <2>1. /\ s.state # "CLOSED"
          /\ Becomes(e, IF "ACK" \in g.flags THEN SendResetSegment(s, g.ack) ELSE q)
        BY <1>9 DEF UnexpectedSyn, Examined, Synchronized
    <2>2. s \in Socket /\ ~Unopened(s) BY <2>1, OpenSocket
    <2>3. CASE "ACK" \in g.flags BY <1>2, <2>1, <2>3, ResetWindow
    <2>4. CASE "ACK" \notin g.flags
        <3>1. View(s, g).seq \in Nat BY <1>1, <2>2, ViewType DEF Segment
        <3>2. n \in Nat BY <1>2, <3>1
        <3>3. flags \in SUBSET Flags /\ "RST" \in flags /\ 0 \in Nat BY DEF Flags
        <3> HIDE DEF n, flags
        <3>4. Repeats(s, q) /\ SameWindow(s, q)
            BY <2>2, <3>2, <3>3, SendSegmentRepeats
        <3>5. q.state = s.state
            BY <2>2, <3>2, <3>3, SendSegmentType DEF Transmits, SameControl
        <3> HIDE DEF q
        <3> QED BY <2>1, <2>2, <2>4, <3>4, <3>5, AnswerWindow
    <2> QED BY <2>3, <2>4
<1>10. CASE AckOfUnsent(e, g) BY <1>10, AckWindow DEF AckOfUnsent, AckChecked
<1>11. CASE LastAckSegment(e, g)
    <2>1. s.state # "CLOSED" BY <1>11 DEF LastAckSegment
    <2>2. CASE g.ack = s.sndNxt BY <1>11, <2>1, <2>2, ClosedWindow DEF LastAckSegment
    <2>3. CASE g.ack # s.sndNxt
        BY <1>11, <2>1, <2>3, SameWindowStep DEF LastAckSegment
    <2> QED BY <2>2, <2>3
<1>12. CASE TimeWaitSegment(e, g)
    <2>1. s.state # "CLOSED" /\ s.state # "SYN_SENT" BY <1>12 DEF TimeWaitSegment
    <2>2. CASE "FIN" \in g.flags BY <1>12, <2>1, <2>2, AckWindow DEF TimeWaitSegment
    <2>3. CASE "FIN" \notin g.flags
        BY <1>12, <2>1, <2>3, SameWindowStep DEF TimeWaitSegment
    <2> QED BY <2>2, <2>3
<1>13. CASE ListenSyn(e, g) BY <1>13, StillWindow DEF ListenSyn
<1> QED BY <1>1, <1>3, <1>4, <1>5, <1>6, <1>7, <1>8, <1>9, <1>10, <1>11, <1>12,
           <1>13, RejectWindow, SynSentSynAckWindow, SynSentSynWindow,
           SynReceivedAckWindow, TakenMoves DEF Network

-----------------------------------------------------------------------------
(* The invariant of the window, from the first state on.                   *)

LEMMA InitWInv ==
    Init => WInv
<1> SUFFICES ASSUME Init PROVE WInv OBVIOUS
<1>1. ASSUME NEW e \in Ends
      PROVE  /\ sock[e].sent = {} /\ sock[e].rtxQ = {} /\ Unopened(sock[e])
             /\ sock[e].state = "CLOSED"
    BY DEF Init, FreshSocket, Unopened
<1>2. ASSUME NEW e \in Ends
      PROVE  /\ \A g \in sock[e].sent : Offer(sock[e], g)
             /\ AcksOnly(sock[e])
             /\ Flow(sock[e], sock[Peer(e)])
    BY <1>1 DEF AcksOnly, Flow, Held, Within, Sending
<1> QED BY <1>2 DEF WInv

LEMMA EstablishedWInv ==
    EstablishedInit => WInv
<1> SUFFICES ASSUME EstablishedInit PROVE WInv OBVIOUS
<1>1. IInv BY EstablishedIInv
<1>2. ASSUME NEW e \in Ends
      PROVE  /\ sock[e] \in Socket
             /\ sock[e].iss = Iss[e] /\ sock[e].irs = Iss[Peer(e)]
             /\ sock[e].sndUna = Iss[e] + 1 /\ sock[e].sndNxt = Iss[e] + 1
             /\ sock[e].sndWnd = RxBufferSize
             /\ sock[e].sndWl1 \in {Iss[Peer(e)], Iss[Peer(e)] + 1}
             /\ sock[e].sndWl2 = Iss[e] + 1
             /\ sock[e].rcvNxt = Iss[Peer(e)] + 1
             /\ sock[e].rcvWnd = RxBufferSize
             /\ sock[e].rtxQ = {} /\ sock[e].sent = {}
    <2>1. sock[e] \in Socket BY <1>1 DEF IInv, Good
    <2> QED BY <2>1 DEF EstablishedInit, FreshSocket
<1>3. ASSUME NEW e \in Ends
      PROVE  /\ \A g \in sock[e].sent : Offer(sock[e], g)
             /\ AcksOnly(sock[e])
             /\ Flow(sock[e], sock[Peer(e)])
    <2> DEFINE s == sock[e]
               p == sock[Peer(e)]
    <2>1. Peer(e) \in Ends /\ Peer(Peer(e)) = e BY PeerOfPeer
    <2>2. /\ s.iss = Iss[e] /\ s.sndUna = Iss[e] + 1 /\ s.sndNxt = Iss[e] + 1
          /\ s.sndWnd = RxBufferSize /\ s.sndWl2 = Iss[e] + 1
          /\ s.sndWl1 \in {Iss[Peer(e)], Iss[Peer(e)] + 1}
          /\ s.rtxQ = {} /\ s.sent = {}
        BY <1>2
    <2>3. /\ p.iss = Iss[Peer(e)] /\ p.irs = Iss[e] /\ p.rcvNxt = Iss[e] + 1
          /\ p.rcvWnd = RxBufferSize
        BY <1>2, <2>1
    <2>4. Iss[e] \in Nat /\ Iss[Peer(e)] \in Nat /\ RxBufferSize \in Nat
        BY <2>1, IssAssumption, RxBufferAssumption
    <2> HIDE DEF s, p
    <2>5. Reach(p) = Iss[e] + 1 + RxBufferSize
        BY <2>3, <2>4 DEF Reach, Heard, RightEdge
    <2>6. Window(s, p.iss + 1, Reach(p)) BY <2>2, <2>3, <2>4, <2>5 DEF Window
    <2>7. Flow(s, p) BY <2>2, <2>6 DEF Flow, Held, Within
    <2>8. AcksOnly(s) BY <2>2 DEF AcksOnly
    <2> QED BY <2>2, <2>7, <2>8 DEF s, p
<1> QED BY <1>3 DEF WInv

LEMMA NextWInv ==
    ASSUME StraysAreOld
    PROVE  IInv /\ AInv /\ WInv /\ [Next]_vars => WInv'
<1> SUFFICES ASSUME IInv, AInv, WInv, [Next]_vars PROVE WInv' OBVIOUS
<1>1. CASE Next
    <2>1. PICK e \in Ends : \/ User(e) \/ Timer(e)
                            \/ \E g \in Incoming(e) : Network(e, g)
        BY <1>1 DEF Next
    <2> QED BY <2>1, UserWindow, TimerWindow, NetworkWindow
<1>2. CASE UNCHANGED vars
    BY <1>2, StillWindow DEF vars
<1> QED BY <1>1, <1>2

LEMMA WindowIsTheProperty ==
    IInv /\ WInv => NoOverrun
<1> SUFFICES ASSUME IInv, WInv, NEW e \in Ends, OnlyAcks(sock[Peer(e)]),
                    NEW g \in sock[e].sent, g.data # << >>
             PROVE  g.seq + Len(g.data) <= sock[Peer(e)].rcvNxt + sock[Peer(e)].rcvWnd
    BY DEF NoOverrun
<1> DEFINE p == sock[Peer(e)]
<1>1. sock[e] \in Socket /\ p \in Socket /\ WindowFits(p)
    BY PeerInEnds DEF IInv, Good
<1>2. g \in Segment BY <1>1 DEF Socket
<1>3. g.seq \in Nat /\ Len(g.data) \in Nat BY <1>2 DEF Segment
<1>4. g.seq + Len(g.data) <= Reach(p)
    <2>1. Flow(sock[e], p) BY DEF WInv
    <2>2. Within(sock[e], Reach(p)) BY <2>1 DEF Flow, Held
    <2> QED BY <2>2 DEF Within
<1> QED BY <1>1, <1>3, <1>4, SocketNumbers DEF Reach, RightEdge, WindowFits

\* No data lies beyond the window of a peer that only acknowledges
\* (tcpUpdateSendWindow, tcpNagleAlgo, the override timer): for every loss,
\* reordering and duplication, the acknowledgments whose windows count bear one
\* number, so that a late one never enlarges what a newer one closed.
THEOREM WindowRespected ==
    ASSUME StraysAreOld
    PROVE  (Spec => []NoOverrun) /\ (EstablishedSpec => []NoOverrun)
<1>1. IInv /\ [Next]_vars => IInv' BY NextIInv
<1>2. IInv /\ AInv /\ [Next]_vars => AInv' BY NextAInv
<1>3. IInv /\ AInv /\ WInv /\ [Next]_vars => WInv' BY NextWInv
<1>4. Spec => []NoOverrun
    BY <1>1, <1>2, <1>3, InitIInv, InitAInv, InitWInv, WindowIsTheProperty, PTL
       DEF Spec
<1>5. EstablishedSpec => []NoOverrun
    BY <1>1, <1>2, <1>3, EstablishedIInv, EstablishedAInv, EstablishedWInv,
       WindowIsTheProperty, PTL DEF EstablishedSpec
<1> QED BY <1>4, <1>5
=============================================================================
