---------------------------- MODULE TcpStreamProofs ----------------------------
(***************************************************************************)
(* The pair of sockets implements the byte stream of ByteStream: what each *)
(* user reads are the bytes the other wrote, in order and without gaps,    *)
(* and the end of the stream comes after the last of them, in spite of     *)
(* lost, repeated and reordered segments, of ring buffers that are written *)
(* over and of a queue that is sent again.                                 *)
(***************************************************************************)
EXTENDS TcpEndsProofs

(* The invariant: every byte on the network, in the retransmission queue   *)
(* and in the two ring buffers is the one its sequence number says.        *)

Over == {"CLOSED", "TIME_WAIT"}

\* The FIN took a sequence number.
Finished(s, w) == s.sndNxt = s.iss + 1 + w + 1

\* A segment of s carries bytes that were written, each under its number unless
\* the peer has it already, or the FIN, after the last byte.
Carries(s, w, p, g) ==
    /\ g.data # << >> => s.iss < g.seq /\ g.seq + Len(g.data) <= s.iss + 1 + w
    /\ "FIN" \in g.flags => /\ g.data = << >> /\ g.seq = s.iss + 1 + w
                            /\ Finished(s, w)
    /\ \A i \in 1 .. Len(g.data) :
          g.data[i] = g.seq + i - 1 - s.iss \/ g.seq + i - 1 < p.rcvNxt

\* An item of the queue stands for such a segment.
ItemFits(s, w, i) ==
    /\ i.len > 0 => s.iss < i.seq /\ i.seq + i.len <= s.iss + 1 + w
    /\ "FIN" \in i.flags => /\ i.len = 0 /\ i.seq = s.iss + 1 + w
                            /\ Finished(s, w)

\* The transmit buffer holds every byte that was written and not acknowledged.
Holds(s, w) ==
    /\ s.iss + w + 1 - s.sndUna <= TxBufferSize
    /\ \A b \in 1 .. w : s.iss + b < s.sndUna \/ s.txBuf[(b - 1) % TxBufferSize] = b
    /\ \A i \in s.rtxQ : ItemFits(s, w, i)

SendsStream(s, w, p) ==
    /\ \A g \in s.sent : Live(g) => Carries(s, w, p, g)
    /\ s.state \notin Over => Holds(s, w)
    /\ s.state = "TIME_WAIT" => s.rtxQ = {}

\* The receive buffer holds the bytes with the numbers N.
Buffered(s, N) ==
    \A n \in N : s.rxBuf[(n - s.irs - 1) % RxBufferSize] = n - s.irs

\* The numbers of the bytes not read, when n follows the last one.
Unread(s, n) == (n - s.rcvUser) .. (n - 1)

Taking(s) ==
    s.state \in {"SYN_RECEIVED", "ESTABLISHED", "FIN_WAIT_1", "FIN_WAIT_2"}

\* The FIN of the peer was taken.
FinTaken(s) ==
    \/ s.state \in {"CLOSE_WAIT", "LAST_ACK", "CLOSING", "TIME_WAIT"}
    \/ s.state = "CLOSED" /\ s.closedFlag /\ ~s.resetFlag

Takes(s, p, w, d) ==
    /\ Len(d) + s.rcvUser = s.rcvNxt - s.irs - 1
    /\ Buffered(s, Unread(s, s.rcvNxt) \cup s.ooo)
    /\ s.irs = p.iss => /\ s.rcvNxt <= p.iss + 1 + w
                        /\ \A n \in s.ooo : n < p.iss + 1 + w

TookAll(s, p, w, d) ==
    /\ s.irs = p.iss /\ Finished(p, w) /\ s.rcvNxt = p.sndNxt
    /\ Len(d) + s.rcvUser = w
    /\ \/ Buffered(s, Unread(s, s.rcvNxt - 1))
       \/ s.state \in Over /\ s.rxBuf = NoRx

TakesStream(s, p, w, d) ==
    /\ s.state = "SYN_SENT" => d = << >> /\ s.rcvUser = 0
    /\ Taking(s) => Takes(s, p, w, d)
    /\ FinTaken(s) => TookAll(s, p, w, d)

EndStream(s, p, w, v, d) ==
    /\ Unopened(s) => d = << >>
    /\ SendsStream(s, w, p)
    /\ TakesStream(s, p, v, d)

BInv == \A e \in Ends :
            EndStream(sock[e], sock[Peer(e)], written[e], written[Peer(e)],
                      delivered[e])

-----------------------------------------------------------------------------
(* Steps that leave the streams alone.                                     *)

Bare(g) == g.data = << >> /\ "FIN" \notin g.flags
BareItem(i) == i.len = 0 /\ "FIN" \notin i.flags

\* Only control segments leave; what is in flight can be acknowledged, and
\* the buffer goes when the connection ends.
SameTx(s, t) ==
    /\ t.iss = s.iss /\ t.sndNxt = s.sndNxt
    /\ \A g \in t.sent : g \in s.sent \/ (Live(g) => Bare(g))
    /\ t.state \notin Over =>
          /\ s.state \notin Over /\ t.txBuf = s.txBuf /\ s.sndUna <= t.sndUna
          /\ \A i \in t.rtxQ : i \in s.rtxQ \/ BareItem(i)
    /\ t.state = "TIME_WAIT" =>
          t.rtxQ = {} \/ (s.state = "TIME_WAIT" /\ t.rtxQ \subseteq s.rtxQ)

\* Nothing is received or read.
SameRx(s, t) ==
    /\ t.irs = s.irs /\ t.rcvNxt = s.rcvNxt /\ t.rcvUser = s.rcvUser
    /\ t.ooo = s.ooo
    /\ t.rxBuf = s.rxBuf \/ (t.state \in Over /\ t.rxBuf = NoRx)
    /\ t.state \notin Over => s.state \notin Over
    /\ Taking(t) => Taking(s)
    /\ FinTaken(t) => FinTaken(s)
    /\ t.state = "SYN_SENT" => s.state = "SYN_SENT"

Calm(s, t) == t \in Socket /\ SameTx(s, t) /\ SameRx(s, t)

LEMMA CalmTransitive ==
    ASSUME NEW s \in Socket, NEW t, NEW u, Calm(s, t), Calm(t, u)
    PROVE  Calm(s, u)
<1>1. /\ s.sndUna \in Nat /\ t.sndUna \in Nat /\ u.sndUna \in Nat
      /\ t \in Socket /\ u \in Socket
    BY SocketNumbers DEF Calm
<1>2. SameTx(s, u)
    <2>1. s.sndUna <= t.sndUna /\ t.sndUna <= u.sndUna => s.sndUna <= u.sndUna
        BY <1>1
    <2> QED BY <2>1 DEF Calm, SameTx
<1>3. SameRx(s, u) BY DEF Calm, SameRx
<1> QED BY <1>1, <1>2, <1>3 DEF Calm

LEMMA SendsKept ==
    ASSUME NEW s \in Socket, NEW w \in Nat, NEW p, SendsStream(s, w, p),
           NEW t \in Socket, SameTx(s, t)
    PROVE  SendsStream(t, w, p)
<1>1. ASSUME NEW g \in t.sent, Live(g) PROVE Carries(t, w, p, g)
    <2>1. CASE g \in s.sent
        BY <1>1, <2>1 DEF SendsStream, SameTx, Carries, Finished
    <2>2. CASE Bare(g)
        BY <2>2 DEF Bare, Carries
    <2> QED BY <1>1, <2>1, <2>2 DEF SameTx
<1>2. ASSUME t.state \notin Over PROVE Holds(t, w)
    <2>1. /\ s.iss \in Nat /\ s.sndUna \in Nat /\ t.sndUna \in Nat
        BY SocketNumbers
    <2>2. /\ Holds(s, w) /\ t.txBuf = s.txBuf /\ s.sndUna <= t.sndUna
          /\ t.iss = s.iss /\ t.sndNxt = s.sndNxt
          /\ \A i \in t.rtxQ : i \in s.rtxQ \/ BareItem(i)
        BY <1>2 DEF SendsStream, SameTx
    <2>3. t.iss + w + 1 - t.sndUna <= TxBufferSize
        BY <2>1, <2>2, TxBufferAssumption DEF Holds
    <2>4. ASSUME NEW b \in 1 .. w
          PROVE  t.iss + b < t.sndUna \/ t.txBuf[(b - 1) % TxBufferSize] = b
        <3>1. s.iss + b < s.sndUna => t.iss + b < t.sndUna BY <2>1, <2>2
        <3> QED BY <2>2, <3>1 DEF Holds
    <2>5. ASSUME NEW i \in t.rtxQ PROVE ItemFits(t, w, i)
        <3>1. CASE i \in s.rtxQ BY <2>2, <3>1 DEF Holds, ItemFits, Finished
        <3>2. CASE BareItem(i) BY <3>2 DEF BareItem, ItemFits
        <3> QED BY <2>2, <3>1, <3>2
    <2> QED BY <2>3, <2>4, <2>5 DEF Holds
<1>3. t.state = "TIME_WAIT" => t.rtxQ = {} BY DEF SendsStream, SameTx
<1> QED BY <1>1, <1>2, <1>3 DEF SendsStream

LEMMA TakesKept ==
    ASSUME NEW s, NEW p, NEW w, NEW d, TakesStream(s, p, w, d),
           NEW t, SameRx(s, t)
    PROVE  TakesStream(t, p, w, d)
<1>1. t.state = "SYN_SENT" => d = << >> /\ t.rcvUser = 0
    BY DEF TakesStream, SameRx
<1>2. ASSUME Taking(t) PROVE Takes(t, p, w, d)
    <2>1. t.state \notin Over BY <1>2 DEF Taking, Over
    <2> QED BY <1>2, <2>1 DEF TakesStream, SameRx, Takes, Buffered, Unread
<1>3. ASSUME FinTaken(t) PROVE TookAll(t, p, w, d)
    BY <1>3 DEF TakesStream, SameRx, TookAll, Buffered, Unread
<1> QED BY <1>1, <1>2, <1>3 DEF TakesStream

\* Only fields that no byte depends on change.
LEMMA CalmFields ==
    ASSUME NEW s \in Socket, NEW t \in Socket, SameControl(s, t),
           t.iss = s.iss, t.sndNxt = s.sndNxt, s.sndUna <= t.sndUna,
           t.irs = s.irs, t.rcvNxt = s.rcvNxt, t.rcvUser = s.rcvUser,
           t.ooo = s.ooo, t.txBuf = s.txBuf, t.rxBuf = s.rxBuf,
           t.rtxQ \subseteq s.rtxQ,
           \A g \in t.sent : g \in s.sent \/ (Live(g) => Bare(g))
    PROVE  Calm(s, t)
<1>1. t.state = s.state /\ t.closedFlag = s.closedFlag /\ t.resetFlag = s.resetFlag
    BY DEF SameControl
<1>2. SameTx(s, t) BY <1>1 DEF SameTx
<1>3. SameRx(s, t) BY <1>1 DEF SameRx, Taking, FinTaken
<1> QED BY <1>2, <1>3 DEF Calm

LEMMA CalmSelf ==
    ASSUME NEW s \in Socket
    PROVE  Calm(s, s)
<1>1. s.sndUna <= s.sndUna BY SocketNumbers
<1>2. SameControl(s, s) BY DEF SameControl
<1> QED BY <1>1, <1>2, CalmFields

LEMMA SendSegmentCalm ==
    ASSUME NEW s \in Socket, NEW flags \in SUBSET Flags, "FIN" \notin flags,
           NEW seq \in Nat, NEW ack \in Nat
    PROVE  Calm(s, SendSegment(s, flags, seq, ack))
<1> DEFINE g == [flags |-> flags, seq |-> seq,
                 ack |-> IF "ACK" \in flags THEN ack ELSE 0,
                 wnd |-> s.rcvWnd, data |-> << >>]
           t == [s EXCEPT !.sent = @ \cup {g}]
           u == SendSegment(s, flags, seq, ack)
<1>1. u = t BY DEF SendSegment
<1>2. u \in Socket /\ SameControl(s, u) BY SendSegmentType DEF Transmits
<1> HIDE DEF u
<1>3. Bare(g) BY DEF Bare
<1> HIDE DEF g
<1>4. /\ t.iss = s.iss /\ t.sndNxt = s.sndNxt /\ t.sndUna = s.sndUna
      /\ t.irs = s.irs /\ t.rcvNxt = s.rcvNxt /\ t.rcvUser = s.rcvUser
      /\ t.ooo = s.ooo /\ t.txBuf = s.txBuf /\ t.rxBuf = s.rxBuf
      /\ t.rtxQ = s.rtxQ /\ t.sent = s.sent \cup {g}
    BY DEF Socket
<1> HIDE DEF t
<1>5. s.sndUna <= t.sndUna BY <1>4, SocketNumbers
<1>6. \A x \in t.sent : x \in s.sent \/ Bare(x) BY <1>3, <1>4
<1>7. t.rtxQ \subseteq s.rtxQ BY <1>4
<1> QED BY <1>1, <1>2, <1>4, <1>5, <1>6, <1>7, CalmFields DEF u

LEMMA SendAckCalm ==
    ASSUME NEW s \in Socket
    PROVE  Calm(s, SendAck(s))
<1>1. {"ACK"} \in SUBSET Flags /\ "FIN" \notin {"ACK"} BY DEF Flags
<1>2. s.sndNxt \in Nat /\ s.rcvNxt \in Nat BY SocketNumbers
<1> QED BY <1>1, <1>2, SendSegmentCalm DEF SendAck

LEMMA SendResetSegmentCalm ==
    ASSUME NEW s \in Socket, NEW seq \in Nat
    PROVE  Calm(s, SendResetSegment(s, seq))
<1>1. {"RST"} \in SUBSET Flags /\ "FIN" \notin {"RST"} /\ 0 \in Nat BY DEF Flags
<1>2. Calm(s, SendSegment(s, {"RST"}, seq, 0)) BY <1>1, SendSegmentCalm
<1> QED BY <1>2, CalmSelf DEF SendResetSegment

LEMMA RejectSegmentCalm ==
    ASSUME NEW s \in Socket, NEW g \in Segment
    PROVE  Calm(s, RejectSegment(s, g))
<1> DEFINE occupied == Len(g.data) + (IF "SYN" \in g.flags THEN 1 ELSE 0)
                                   + (IF "FIN" \in g.flags THEN 1 ELSE 0)
           r == IF "ACK" \in g.flags
                THEN [flags |-> {"RST"}, seq |-> g.ack, ack |-> 0,
                      wnd |-> 0, data |-> << >>]
                ELSE [flags |-> {"RST", "ACK"}, seq |-> 0,
                      ack |-> g.seq + occupied, wnd |-> 0, data |-> << >>]
           t == [s EXCEPT !.sent = @ \cup {r}]
           u == RejectSegment(s, g)
<1>1. u = IF "RST" \in g.flags THEN s ELSE t BY DEF RejectSegment
<1>2. u \in Socket /\ SameControl(s, u) BY RejectSegmentType DEF Transmits
<1> HIDE DEF u
<1>3. ~Live(r) BY DEF Live
<1> HIDE DEF r
<1>4. /\ t.iss = s.iss /\ t.sndNxt = s.sndNxt /\ t.sndUna = s.sndUna
      /\ t.irs = s.irs /\ t.rcvNxt = s.rcvNxt /\ t.rcvUser = s.rcvUser
      /\ t.ooo = s.ooo /\ t.txBuf = s.txBuf /\ t.rxBuf = s.rxBuf
      /\ t.rtxQ = s.rtxQ /\ t.sent = s.sent \cup {r}
    BY DEF Socket
<1> HIDE DEF t
<1>5. CASE "RST" \in g.flags BY <1>1, <1>5, CalmSelf DEF u
<1>6. CASE "RST" \notin g.flags
    <2>1. u = t BY <1>1, <1>6
    <2>2. s.sndUna <= t.sndUna BY <1>4, SocketNumbers
    <2>3. \A x \in t.sent : x \in s.sent \/ ~Live(x) BY <1>3, <1>4
    <2>4. t.rtxQ \subseteq s.rtxQ BY <1>4
    <2> QED BY <1>2, <1>4, <2>1, <2>2, <2>3, <2>4, CalmFields DEF u
<1> QED BY <1>5, <1>6

SameBuffers(s, t) == t.txBuf = s.txBuf /\ t.rxBuf = s.rxBuf

LEMMA QuietCalm ==
    ASSUME NEW s \in Socket, NEW t, Transmits(s, t), Quiet(s, t), SameBuffers(s, t)
    PROVE  Calm(s, t)
<1>1. /\ t \in Socket /\ SameControl(s, t) /\ t.rcvUser = s.rcvUser
      /\ t.txBuf = s.txBuf /\ t.rxBuf = s.rxBuf
    BY DEF Transmits, SameReceive, SameBuffers
<1>2. /\ t.iss = s.iss /\ t.sndNxt = s.sndNxt /\ t.sndUna = s.sndUna
      /\ t.irs = s.irs /\ t.rcvNxt = s.rcvNxt /\ t.ooo = s.ooo
      /\ t.rtxQ \subseteq s.rtxQ /\ t.sent = s.sent
    BY DEF Quiet, SameNumbers
<1>3. s.sndUna <= t.sndUna BY <1>2, SocketNumbers
<1> QED BY <1>1, <1>2, <1>3, CalmFields

LEMMA UpdateSendWindowBuffers ==
    ASSUME NEW s \in Socket, NEW g \in Segment
    PROVE  SameBuffers(s, UpdateSendWindow(s, g))
<1> DEFINE most == Max(s.maxSndWnd, g.wnd)
           taken == [s EXCEPT !.sndWnd = g.wnd, !.sndWl1 = g.seq,
                              !.sndWl2 = g.ack, !.maxSndWnd = most]
           closes == g.wnd = 0 /\ s.sndWnd # 0
           b == taken.probing \/ closes
           n == IF closes THEN 0 ELSE taken.probeCount
           probed == [taken EXCEPT !.probing = b, !.probeCount = n]
<1>1. taken = [s EXCEPT !.sndWnd = g.wnd, !.sndWl1 = g.seq,
                        !.sndWl2 = g.ack, !.maxSndWnd = Max(@, g.wnd)]
    BY DEF Socket
<1>2. probed = [taken EXCEPT !.probing = @ \/ closes,
                             !.probeCount = IF closes THEN 0 ELSE @]
    BY DEF Socket
<1>3. UpdateSendWindow(s, g) \in {s, taken, probed}
    BY <1>1, <1>2, Zenon DEF UpdateSendWindow
<1> HIDE DEF most, b, n
<1>4. SameBuffers(s, taken) /\ DOMAIN taken = DOMAIN s BY DEF SameBuffers, Socket
<1> HIDE DEF taken
<1>5. SameBuffers(taken, probed) BY <1>4 DEF SameBuffers, Socket
<1> HIDE DEF probed
<1> QED BY <1>3, <1>4, <1>5 DEF SameBuffers

LEMMA UpdateRetransmitQueueBuffers ==
    ASSUME NEW s \in Socket
    PROVE  SameBuffers(s, UpdateRetransmitQueue(s))
<1> DEFINE left == {i \in s.rtxQ : ItemEnd(i) > s.sndUna}
           timer == left # {} /\ (left # s.rtxQ \/ s.rtxTimer)
           count == IF left # s.rtxQ THEN 0 ELSE s.rtxCount
           t == [s EXCEPT !.rtxQ = left, !.rtxTimer = timer, !.rtxCount = count]
<1>1. UpdateRetransmitQueue(s) = t BY DEF UpdateRetransmitQueue, Socket
<1> HIDE DEF left, timer, count
<1>2. SameBuffers(s, t) BY DEF SameBuffers, Socket
<1> QED BY <1>1, <1>2

LEMMA UpdateRetransmitQueueCalm ==
    ASSUME NEW s \in Socket
    PROVE  Calm(s, UpdateRetransmitQueue(s))
BY UpdateRetransmitQueueType, UpdateRetransmitQueueQuiet,
   UpdateRetransmitQueueBuffers, QuietCalm

LEMMA CheckAckCalm ==
    ASSUME NEW s \in Socket, NEW g \in Segment
    PROVE  Calm(s, CheckAck(s, g))
<1> DEFINE w == UpdateSendWindow(s, g)
           u == [w EXCEPT !.sndUna = g.ack]
           r == UpdateRetransmitQueue(u)
           t == CheckAck(s, g)
<1>1. w \in Socket /\ SameBuffers(s, w)
    BY UpdateSendWindowType, UpdateSendWindowBuffers DEF Transmits
<1>2. g.ack \in Nat BY DEF Segment
<1>3. t = IF g.ack < s.sndUna THEN s ELSE IF g.ack > s.sndUna THEN r ELSE w
    BY DEF CheckAck
<1>4. Transmits(s, t) BY CheckAckType
<1>5. /\ t.irs = s.irs /\ t.sndNxt = s.sndNxt
      /\ t.rtxQ \subseteq s.rtxQ /\ t.sent = s.sent
    BY CheckAckFields
<1> HIDE DEF w, t
<1>6. u \in Socket /\ SameBuffers(w, u) BY <1>1, <1>2 DEF Socket, SameBuffers
<1> HIDE DEF u
<1>7. SameBuffers(u, r) BY <1>6, UpdateRetransmitQueueBuffers
<1> HIDE DEF r
<1>8. SameBuffers(s, t) BY <1>1, <1>3, <1>6, <1>7 DEF SameBuffers
<1>9. /\ t \in Socket /\ SameControl(s, t)
      /\ t.rcvNxt = s.rcvNxt /\ t.rcvUser = s.rcvUser /\ t.ooo = s.ooo
      /\ t.iss = s.iss /\ t.sndUna >= s.sndUna
    BY <1>4 DEF Transmits, SameReceive, Onward
<1>10. s.sndUna <= t.sndUna BY <1>9, SocketNumbers
<1> QED BY <1>5, <1>8, <1>9, <1>10, CalmFields DEF SameBuffers, t

\* The fields that neither a change of state nor the end of a control block
\* touches.
SameStreams(s, t) ==
    /\ t.iss = s.iss /\ t.sndUna = s.sndUna /\ t.sndNxt = s.sndNxt
    /\ t.irs = s.irs /\ t.rcvNxt = s.rcvNxt /\ t.rcvUser = s.rcvUser
    /\ t.ooo = s.ooo /\ t.sent = s.sent

LEMMA ChangeStateFields ==
    ASSUME NEW s \in Socket, NEW state \in States
    PROVE  LET t == ChangeState(s, state) IN
           /\ t \in Socket /\ t.state = state /\ t.type = s.type
           /\ SameStreams(s, t) /\ SameBuffers(s, t) /\ t.rtxQ = s.rtxQ
           /\ state = "CLOSED" /\ t.closedFlag /\ ~t.resetFlag => FinTaken(s)
<1> DEFINE t == ChangeState(s, state)
           ended == s.state \in {"LAST_ACK", "TIME_WAIT"}
           c == s.closedFlag \/ (state = "CLOSED" /\ ended)
           r == s.resetFlag \/ (state = "CLOSED" /\ ~ended)
           u == [s EXCEPT !.state = state, !.closedFlag = c, !.resetFlag = r]
<1>1. t \in Socket /\ t.type = s.type /\ t.state = state BY ChangeStateType
<1>2. t = u BY DEF ChangeState, Socket
<1>3. state = "CLOSED" /\ ~r => FinTaken(s) BY DEF FinTaken
<1> HIDE DEF t, c, r
<1>4. /\ SameStreams(s, u) /\ SameBuffers(s, u) /\ u.rtxQ = s.rtxQ
      /\ u.resetFlag = r
    BY DEF SameStreams, SameBuffers, Socket
<1> HIDE DEF u
<1> QED BY <1>1, <1>2, <1>3, <1>4 DEF t

LEMMA SameStreamsCalm ==
    ASSUME NEW s \in Socket, NEW t \in Socket, SameStreams(s, t),
           t.state \notin Over =>
              s.state \notin Over /\ t.txBuf = s.txBuf /\ t.rtxQ \subseteq s.rtxQ,
           t.state = "TIME_WAIT" => t.rtxQ = {},
           t.rxBuf = s.rxBuf \/ (t.state \in Over /\ t.rxBuf = NoRx),
           Taking(t) => Taking(s), FinTaken(t) => FinTaken(s),
           t.state # "SYN_SENT"
    PROVE  Calm(s, t)
<1>1. s.sndUna <= t.sndUna BY SocketNumbers DEF SameStreams
<1>2. SameTx(s, t) BY <1>1 DEF SameTx, SameStreams
<1>3. SameRx(s, t) BY DEF SameRx, SameStreams
<1> QED BY <1>2, <1>3 DEF Calm

LEMMA ClosedCalm ==
    ASSUME NEW s \in Socket
    PROVE  Calm(s, ChangeState(s, "CLOSED"))
<1> DEFINE t == ChangeState(s, "CLOSED")
<1>1. "CLOSED" \in States BY DEF States
<1>2. /\ t \in Socket /\ t.state = "CLOSED"
      /\ SameStreams(s, t) /\ SameBuffers(s, t)
      /\ t.closedFlag /\ ~t.resetFlag => FinTaken(s)
    BY <1>1, ChangeStateFields
<1> HIDE DEF t
<1>3. t.state \in Over /\ ~Taking(t) /\ t.state # "TIME_WAIT" /\ t.state # "SYN_SENT"
    BY <1>2 DEF Over, Taking
<1>4. FinTaken(t) => FinTaken(s) BY <1>2 DEF FinTaken
<1> QED BY <1>2, <1>3, <1>4, SameStreamsCalm DEF SameBuffers, t

LEMMA WaitsCalm ==
    ASSUME NEW s \in Socket, NEW state,
           \/ Taking(s) /\ state \in {"ESTABLISHED", "FIN_WAIT_1", "FIN_WAIT_2"}
           \/ s.state = "CLOSE_WAIT" /\ state = "LAST_ACK"
    PROVE  Calm(s, ChangeState(s, state))
<1> DEFINE t == ChangeState(s, state)
<1>1. state \in States BY DEF States
<1>2. /\ t \in Socket /\ t.state = state /\ t.rtxQ = s.rtxQ
      /\ SameStreams(s, t) /\ SameBuffers(s, t)
    BY <1>1, ChangeStateFields
<1> HIDE DEF t
<1>3. /\ s.state \notin Over /\ t.state # "TIME_WAIT" /\ t.state # "SYN_SENT"
      /\ Taking(t) => Taking(s)
      /\ FinTaken(t) => FinTaken(s)
    BY <1>2 DEF Over, Taking, FinTaken
<1> QED BY <1>2, <1>3, SameStreamsCalm DEF SameBuffers, t

LEMMA DeleteControlBlockFields ==
    ASSUME NEW s \in Socket
    PROVE  LET t == DeleteControlBlock(s) IN
           /\ t \in Socket /\ SameControl(s, t) /\ SameStreams(s, t)
           /\ t.rtxQ = {} /\ t.rxBuf = NoRx
<1> DEFINE t == DeleteControlBlock(s)
<1>1. t \in Socket /\ SameControl(s, t) BY DeleteControlBlockType DEF Transmits
<1>2. SameStreams(s, t) /\ t.rtxQ = {} /\ t.rxBuf = NoRx
    BY DEF DeleteControlBlock, SameStreams, Socket
<1> QED BY <1>1, <1>2

LEMMA TimeWaitFields ==
    ASSUME NEW s \in Socket
    PROVE  LET t == TimeWait(s) IN
           /\ t \in Socket /\ t.state = "TIME_WAIT" /\ SameStreams(s, t)
           /\ t.rtxQ = {} /\ t.rxBuf = NoRx
<1> DEFINE u == DeleteControlBlock(s)
           t == ChangeState(u, "TIME_WAIT")
<1>1. u \in Socket /\ SameStreams(s, u) /\ u.rtxQ = {} /\ u.rxBuf = NoRx
    BY DeleteControlBlockFields
<1>2. "TIME_WAIT" \in States BY DEF States
<1>3. TimeWait(s) = t BY DEF TimeWait
<1> HIDE DEF u
<1>4. /\ t \in Socket /\ t.state = "TIME_WAIT" /\ t.rtxQ = u.rtxQ
      /\ SameStreams(u, t) /\ SameBuffers(u, t)
    BY <1>1, <1>2, ChangeStateFields
<1> HIDE DEF t
<1> QED BY <1>1, <1>3, <1>4 DEF SameStreams, SameBuffers

LEMMA TimeWaitCalm ==
    ASSUME NEW s \in Socket, s.state = "CLOSING"
    PROVE  Calm(s, TimeWait(s))
<1> DEFINE t == TimeWait(s)
<1>1. /\ t \in Socket /\ t.state = "TIME_WAIT" /\ SameStreams(s, t)
      /\ t.rtxQ = {} /\ t.rxBuf = NoRx
    BY TimeWaitFields
<1> HIDE DEF t
<1>2. t.state \in Over /\ ~Taking(t) /\ FinTaken(s) /\ t.state # "SYN_SENT"
    BY <1>1 DEF Over, Taking, FinTaken
<1> QED BY <1>1, <1>2, SameStreamsCalm DEF t

\* The table entry is given back.
Freed(s) == [DeleteControlBlock(s) EXCEPT !.type = "UNUSED"]

LEMMA FreedCalm ==
    ASSUME NEW s \in Socket, s.state = "CLOSED"
    PROVE  Calm(s, Freed(s))
<1> DEFINE u == DeleteControlBlock(s)
           t == [u EXCEPT !.type = "UNUSED"]
<1>1. /\ u \in Socket /\ SameControl(s, u) /\ SameStreams(s, u)
      /\ u.rtxQ = {} /\ u.rxBuf = NoRx
    BY DeleteControlBlockFields
<1>2. Freed(s) = t BY DEF Freed
<1> HIDE DEF u
<1>3. t \in Socket BY <1>1 DEF Socket
<1>4. /\ SameStreams(u, t) /\ t.state = u.state /\ t.rtxQ = u.rtxQ
      /\ t.rxBuf = u.rxBuf
      /\ t.closedFlag = u.closedFlag /\ t.resetFlag = u.resetFlag
    BY <1>1 DEF SameStreams, Socket
<1> HIDE DEF t
<1>5. /\ SameStreams(s, t) /\ t.state = "CLOSED" /\ t.rtxQ = {} /\ t.rxBuf = NoRx
      /\ FinTaken(t) => FinTaken(s)
    BY <1>1, <1>4 DEF SameStreams, SameControl, FinTaken
<1>6. t.state \in Over /\ ~Taking(t) /\ t.state # "TIME_WAIT" /\ t.state # "SYN_SENT"
    BY <1>5 DEF Over, Taking
<1> QED BY <1>2, <1>3, <1>5, <1>6, SameStreamsCalm

\* Timers, counters and the hold of the user.
LEMMA TimersCalm ==
    ASSUME NEW s \in Socket, NEW b \in BOOLEAN, NEW n \in Nat, NEW m \in Nat,
           NEW o \in BOOLEAN
    PROVE  Calm(s, [s EXCEPT !.rtxTimer = b, !.rtxCount = n, !.probeCount = m,
                             !.owned = o])
<1> DEFINE t == [s EXCEPT !.rtxTimer = b, !.rtxCount = n, !.probeCount = m,
                          !.owned = o]
<1>1. t \in Socket BY DEF Socket
<1>2. SameStreams(s, t) /\ SameBuffers(s, t) /\ t.rtxQ = s.rtxQ /\ SameControl(s, t)
    BY DEF SameStreams, SameBuffers, SameControl, Socket
<1> HIDE DEF t
<1>3. s.sndUna <= t.sndUna BY <1>2, SocketNumbers DEF SameStreams
<1> QED BY <1>1, <1>2, <1>3, CalmFields DEF SameStreams, SameBuffers, t

-----------------------------------------------------------------------------
(* Sending.                                                                *)

\* What was right of an end and its peer stays right when the end writes more
\* or finishes, and when the peer receives more.
Goes(s, w, t, v) ==
    /\ t.iss = s.iss /\ w <= v
    /\ Finished(s, w) => v = w /\ Finished(t, v)

LEMMA CarriesOn ==
    ASSUME NEW s \in Socket, NEW w \in Nat, NEW p \in Socket, NEW g \in Segment,
           Carries(s, w, p, g), NEW t, NEW v \in Nat, Goes(s, w, t, v),
           NEW q \in Socket, p.rcvNxt <= q.rcvNxt
    PROVE  Carries(t, v, q, g)
<1>1. /\ s.iss \in Nat /\ p.rcvNxt \in Nat /\ q.rcvNxt \in Nat
      /\ g.seq \in Nat /\ Len(g.data) \in Nat
    BY SocketNumbers DEF Segment
<1>2. g.data # << >> => t.iss < g.seq /\ g.seq + Len(g.data) <= t.iss + 1 + v
    BY <1>1 DEF Carries, Goes
<1>3. "FIN" \in g.flags => g.data = << >> /\ g.seq = t.iss + 1 + v /\ Finished(t, v)
    BY DEF Carries, Goes
<1>4. ASSUME NEW i \in 1 .. Len(g.data)
      PROVE  g.data[i] = g.seq + i - 1 - t.iss \/ g.seq + i - 1 < q.rcvNxt
    <2>1. g.seq + i - 1 < p.rcvNxt => g.seq + i - 1 < q.rcvNxt BY <1>1
    <2> QED BY <2>1 DEF Carries, Goes
<1> QED BY <1>2, <1>3, <1>4 DEF Carries

LEMMA ItemFitsOn ==
    ASSUME NEW s \in Socket, NEW w \in Nat, NEW i \in Item, ItemFits(s, w, i),
           NEW t, NEW v \in Nat, Goes(s, w, t, v)
    PROVE  ItemFits(t, v, i)
<1>1. s.iss \in Nat /\ i.seq \in Nat /\ i.len \in Nat
    BY SocketNumbers DEF Item
<1>2. i.len > 0 => t.iss < i.seq /\ i.seq + i.len <= t.iss + 1 + v
    BY <1>1 DEF ItemFits, Goes
<1>3. "FIN" \in i.flags => /\ i.len = 0 /\ i.seq = t.iss + 1 + v
                           /\ Finished(t, v)
    BY DEF ItemFits, Goes
<1> QED BY <1>2, <1>3 DEF ItemFits

LEMMA ReadTxBufferIs ==
    ASSUME NEW s \in Socket, NEW seq \in Nat, NEW n \in Nat
    PROVE  LET d == ReadTxBuffer(s, seq, n) IN
           /\ d \in Seq(Byte) /\ Len(d) = n
           /\ n = 0 => d = << >>
           /\ \A j \in 1 .. n :
                 d[j] = s.txBuf[(seq - s.iss - 1 + j - 1) % TxBufferSize]
<1> DEFINE d == ReadTxBuffer(s, seq, n)
<1>1. d \in Seq(Byte) BY ReadTxBufferType
<1>2. /\ DOMAIN d = 1 .. n
      /\ \A j \in 1 .. n :
            d[j] = s.txBuf[(seq - s.iss - 1 + j - 1) % TxBufferSize]
    BY DEF ReadTxBuffer
<1> HIDE DEF d
<1>3. DOMAIN d = 1 .. Len(d) /\ Len(d) \in Nat BY <1>1
<1>4. Len(d) = n BY <1>2, <1>3
<1>5. n = 0 => d = << >> BY <1>1, <1>4
<1> QED BY <1>1, <1>2, <1>4, <1>5 DEF d

\* What goes on the wire for an item carries what the item stands for: what the
\* ring buffer has not kept was acknowledged, and thus received.
LEMMA ItemCarries ==
    ASSUME NEW e, NEW s, NEW p, NEW w, Core(e, s, p, w), Holds(s, w),
           NEW i \in Item, ItemFits(s, w, i)
    PROVE  Carries(s, w, p, SegmentOf(s, i))
<1> DEFINE g == SegmentOf(s, i)
           d == ReadTxBuffer(s, i.seq, i.len)
<1>1. s \in Socket /\ p \in Socket /\ w \in Nat BY DEF Core
<1>2. i.seq \in Nat /\ i.len \in Nat BY DEF Item
<1>3. g.flags = i.flags /\ g.seq = i.seq /\ g.data = d BY DEF SegmentOf
<1>4. /\ d \in Seq(Byte) /\ Len(d) = i.len
      /\ i.len = 0 => d = << >>
      /\ \A j \in 1 .. i.len :
            d[j] = s.txBuf[(i.seq - s.iss - 1 + j - 1) % TxBufferSize]
    BY <1>1, <1>2, ReadTxBufferIs
<1> HIDE DEF g, d
<1>5. s.iss \in Nat /\ s.sndUna \in Nat /\ p.rcvNxt \in Nat BY <1>1, SocketNumbers
<1>6. g.data # << >> => s.iss < g.seq /\ g.seq + Len(g.data) <= s.iss + 1 + w
    <2>1. d # << >> => i.len > 0 BY <1>2, <1>4
    <2> QED BY <1>3, <1>4, <2>1 DEF ItemFits
<1>7. "FIN" \in g.flags => /\ g.data = << >> /\ g.seq = s.iss + 1 + w
                           /\ Finished(s, w)
    BY <1>3, <1>4 DEF ItemFits
<1>8. ASSUME NEW j \in 1 .. Len(g.data)
      PROVE  g.data[j] = g.seq + j - 1 - s.iss \/ g.seq + j - 1 < p.rcvNxt
    <2> DEFINE b == i.seq - s.iss - 1 + j
    <2>1. j \in 1 .. i.len /\ i.len > 0 BY <1>2, <1>3, <1>4, <1>8
    <2>2. s.iss < i.seq /\ i.seq + i.len <= s.iss + 1 + w BY <2>1 DEF ItemFits
    <2>3. b \in 1 .. w /\ b - 1 = i.seq - s.iss - 1 + j - 1
        BY SMTT(30), <1>1, <1>2, <1>5, <2>1, <2>2
    <2>4. d[j] = s.txBuf[(b - 1) % TxBufferSize] BY <1>4, <2>1, <2>3
    <2>5. s.iss + b = i.seq + j - 1 /\ b = i.seq + j - 1 - s.iss
        BY <1>2, <1>5, <2>1
    <2> HIDE DEF b
    <2>6. s.iss + b < s.sndUna \/ d[j] = b BY <2>3, <2>4 DEF Holds
    <2>7. CASE d[j] = b BY <1>3, <2>5, <2>7
    <2>8. CASE s.iss + b < s.sndUna
        <3>1. s.sndUna > s.iss BY <1>1, <1>5, <2>3, <2>8
        <3>2. s.sndUna <= p.rcvNxt BY <3>1 DEF Core, Agrees
        <3> QED BY <1>1, <1>3, <1>5, <2>3, <2>5, <2>8, <3>2
    <2> QED BY <2>6, <2>7, <2>8
<1> QED BY <1>6, <1>7, <1>8 DEF Carries, g

LEMMA QueueSegmentsBuffers ==
    ASSUME NEW s \in Socket, NEW items
    PROVE  LET t == QueueSegments(s, items) IN
           SameBuffers(s, t) /\ t.rcvUser = s.rcvUser
<1> DEFINE S == s.sent \cup {SegmentOf(s, i) : i \in items}
           Q == s.rtxQ \cup items
           C == IF s.rtxTimer THEN s.rtxCount ELSE 0
           q == [s EXCEPT !.sent = S, !.rtxQ = Q, !.rtxTimer = TRUE, !.rtxCount = C]
<1>1. QueueSegments(s, items) = q BY DEF QueueSegments, Socket
<1> HIDE DEF S, Q, C
<1>2. SameBuffers(s, q) /\ q.rcvUser = s.rcvUser BY DEF SameBuffers, Socket
<1> HIDE DEF q
<1> QED BY <1>1, <1>2

LEMMA SendDataBuffers ==
    ASSUME NEW s \in Socket, NEW n \in Int
    PROVE  SameBuffers(s, SendData(s, n))
<1> DEFINE chunk(k) == [seq |-> s.sndNxt + k * Mss,
                        len |-> Min(Mss, n - k * Mss), flags |-> {"ACK"}]
           items == {chunk(k) : k \in 0 .. (n - 1) \div Mss}
           q == QueueSegments(s, items)
           t == [q EXCEPT !.sndNxt = @ + n, !.sndUser = @ - n]
<1>1. SendData(s, n) = IF n <= 0 THEN s ELSE t BY DEF SendData
<1> HIDE DEF items
<1>2. SameBuffers(s, q) BY QueueSegmentsBuffers
<1>3. DOMAIN q = DOMAIN s BY DEF QueueSegments
<1> HIDE DEF q
<1>4. SameBuffers(q, t) BY <1>3 DEF SameBuffers, Socket
<1> HIDE DEF t
<1> QED BY <1>1, <1>2, <1>4 DEF SameBuffers

\* The control of an end that only sends stays, and so does what it received.
LEMMA SameReceiveRx ==
    ASSUME NEW s \in Socket, NEW t, SameControl(s, t), SameReceive(s, t),
           t.irs = s.irs, t.rxBuf = s.rxBuf
    PROVE  SameRx(s, t)
BY DEF SameControl, SameReceive, SameRx, Taking, FinTaken

LEMMA SendDataStream ==
    ASSUME NEW e, NEW s, NEW p, NEW w, Core(e, s, p, w), SendsStream(s, w, p),
           s.state \notin Over, s.sndNxt + s.sndUser = s.iss + 1 + w,
           NEW n \in Int, n <= s.sndUser
    PROVE  LET t == SendData(s, n) IN
           /\ t \in Socket /\ SendsStream(t, w, p) /\ SameRx(s, t)
           /\ SameControl(s, t)
           /\ ~Finished(s, w) /\ ~Finished(t, w)
<1> DEFINE t == SendData(s, n)
<1>1. s \in Socket /\ p \in Socket /\ w \in Nat BY DEF Core
<1>2. t \in Socket /\ SameControl(s, t) /\ SameReceive(s, t)
    BY <1>1, SendDataType DEF Transmits
<1>3. SameBuffers(s, t) BY <1>1, SendDataBuffers
<1>4. s.sndNxt \in Nat /\ s.sndUser \in Nat /\ s.iss \in Nat BY <1>1, SocketNumbers
<1>5. ~Finished(s, w) BY <1>1, <1>4 DEF Finished
<1>6. CASE n <= 0
    <2>1. t = s BY <1>6 DEF SendData
    <2> HIDE DEF t
    <2>2. SameRx(s, t) BY <2>1 DEF SameRx
    <2> QED BY <1>2, <1>5, <2>1, <2>2 DEF t
<1>7. CASE n > 0
    <2> DEFINE chunk(k) == [seq |-> s.sndNxt + k * Mss,
                            len |-> Min(Mss, n - k * Mss), flags |-> {"ACK"}]
               items == {chunk(k) : k \in 0 .. (n - 1) \div Mss}
    <2>1. /\ t.iss = s.iss /\ t.irs = s.irs /\ t.sndUna = s.sndUna
          /\ t.sndNxt = s.sndNxt + n
          /\ t.rtxQ = s.rtxQ \cup items
          /\ t.sent = s.sent \cup {SegmentOf(s, i) : i \in items}
        BY <1>1, <1>7, SendDataFields
    <2> HIDE DEF t
    <2>2. ~Finished(t, w) BY <1>1, <1>4, <2>1 DEF Finished
    <2>3. Goes(s, w, t, w) BY <1>1, <1>5, <2>1 DEF Goes
    <2>4. ASSUME NEW k \in 0 .. (n - 1) \div Mss
          PROVE  chunk(k) \in Item /\ ItemFits(s, w, chunk(k))
        <3>1. n \in Nat \ {0} BY <1>7
        <3>2. k * Mss \in Nat /\ k * Mss <= n BY <3>1, ChunkStarts
        <3> DEFINE at == k * Mss
                   m == Min(Mss, n - at)
        <3>3. at \in Nat /\ at <= n BY <3>2
        <3> HIDE DEF at
        <3>4. m \in Nat /\ at + m <= n BY <3>1, <3>3, MssAssumption DEF Min
        <3> HIDE DEF m
        <3>5. s.iss < s.sndNxt BY DEF Core, Numbers
        <3>6. s.sndNxt + at \in Nat /\ s.iss < s.sndNxt + at
              /\ s.sndNxt + at + m <= s.iss + 1 + w
            BY <1>1, <1>4, <3>1, <3>3, <3>4, <3>5
        <3>7. chunk(k) = [seq |-> s.sndNxt + at, len |-> m, flags |-> {"ACK"}]
            BY DEF at, m
        <3> HIDE DEF chunk
        <3>8. /\ chunk(k).seq = s.sndNxt + at /\ chunk(k).len = m
              /\ chunk(k).flags = {"ACK"} /\ chunk(k) \in Item
            BY <3>4, <3>6, <3>7 DEF Item, Flags
        <3> QED BY <3>6, <3>8 DEF ItemFits
    <2>5. \A i \in items : i \in Item /\ ItemFits(s, w, i) BY <2>4
    <2> HIDE DEF items
    <2>6. Holds(s, w) BY DEF SendsStream
    <2>7. ASSUME NEW g \in t.sent, Live(g) PROVE Carries(t, w, p, g)
        <3>1. Carries(s, w, p, g)
            <4>1. CASE g \in s.sent BY <2>7, <4>1 DEF SendsStream
            <4>2. CASE g \in {SegmentOf(s, i) : i \in items}
                BY <2>5, <2>6, <4>2, ItemCarries
            <4> QED BY <2>1, <4>1, <4>2
        <3>2. g \in Segment BY <1>2 DEF Socket
        <3>3. p.rcvNxt <= p.rcvNxt BY <1>1, SocketNumbers
        <3> QED BY <1>1, <2>3, <3>1, <3>2, <3>3, CarriesOn
    <2>8. Holds(t, w)
        <3>1. /\ s.iss + w + 1 - s.sndUna <= TxBufferSize
              /\ \A b \in 1 .. w : \/ s.iss + b < s.sndUna
                                   \/ s.txBuf[(b - 1) % TxBufferSize] = b
              /\ \A i \in s.rtxQ : ItemFits(s, w, i)
            BY <2>6 DEF Holds
        <3>2. \A i \in t.rtxQ : i \in Item /\ ItemFits(s, w, i)
            BY <1>1, <2>1, <2>5, <3>1 DEF Socket
        <3>3. \A i \in t.rtxQ : ItemFits(t, w, i)
            BY <1>1, <2>3, <3>2, ItemFitsOn
        <3> QED BY <1>3, <2>1, <3>1, <3>3 DEF Holds, SameBuffers
    <2>9. t.state # "TIME_WAIT" BY <1>2 DEF Over, SameControl
    <2>10. SendsStream(t, w, p) BY <2>7, <2>8, <2>9 DEF SendsStream
    <2>11. SameRx(s, t) BY <1>1, <1>2, <1>3, <2>1, SameReceiveRx DEF SameBuffers
    <2> QED BY <1>2, <1>5, <2>2, <2>10, <2>11 DEF t
<1> QED BY <1>6, <1>7

LEMMA NagleStream ==
    ASSUME NEW e, NEW s, NEW p, NEW w, Core(e, s, p, w), SendsStream(s, w, p),
           s.state \notin Over, s.sndNxt + s.sndUser = s.iss + 1 + w, NEW flag
    PROVE  LET t == NagleAlgo(s, flag) IN
           /\ t \in Socket /\ SendsStream(t, w, p) /\ SameRx(s, t)
           /\ SameControl(s, t)
           /\ ~Finished(s, w) /\ ~Finished(t, w)
<1> DEFINE n == NagleAmount(s, flag)
<1>1. s \in Socket BY DEF Core
<1>2. n \in Int /\ n <= s.sndUser BY <1>1, NagleAmountBound
<1> HIDE DEF n
<1>3. NagleAlgo(s, flag) = SendData(s, n) BY DEF NagleAlgo, n
<1> QED BY <1>2, <1>3, SendDataStream

LEMMA OverrideStream ==
    ASSUME NEW e, NEW s, NEW p, NEW w, Core(e, s, p, w), SendsStream(s, w, p),
           s.state \notin Over, s.sndNxt + s.sndUser = s.iss + 1 + w
    PROVE  LET t == OverrideSend(s) IN
           /\ t \in Socket /\ SendsStream(t, w, p) /\ SameRx(s, t)
           /\ SameControl(s, t)
           /\ ~Finished(s, w) /\ ~Finished(t, w)
<1> DEFINE u == UsableWindow(s)
           n == Max(0, Min(s.sndUser, u))
<1>1. s \in Socket /\ s.sndUser \in Nat BY SocketNumbers DEF Core
<1>2. u \in Int
    BY <1>1, SocketNumbers, TxBufferAssumption DEF UsableWindow, Min
<1>3. OverrideSend(s) = SendData(s, n) BY DEF OverrideSend
<1> HIDE DEF u
<1>4. n \in Int /\ n <= s.sndUser BY <1>1, <1>2 DEF Max, Min
<1> HIDE DEF n
<1> QED BY <1>3, <1>4, SendDataStream

\* Different numbers less than a buffer apart have different places in it.
LEMMA Multiple ==
    ASSUME NEW R \in Nat \ {0}, NEW k \in Int, NEW d \in Int, d = R * k, d > 0
    PROVE  d >= R
<1>1. k > 0 BY SMTT(30)
<1>2. R * k >= R * 1 BY <1>1, SMTT(30)
<1> QED BY <1>1, <1>2

LEMMA PlacesDiffer ==
    ASSUME NEW R \in Nat \ {0}, NEW a \in Int, NEW b \in Int,
           a # b, a - b < R, b - a < R
    PROVE  a % R # b % R
<1>1. ASSUME NEW x \in Int, NEW y \in Int, x < y, y - x < R PROVE x % R # y % R
    <2> SUFFICES ASSUME x % R = y % R PROVE FALSE OBVIOUS
    <2> DEFINE i == x \div R
               j == y \div R
               m == x % R
    <2>1. x = R * i + m /\ y = R * j + m /\ m \in Int /\ i \in Int /\ j \in Int
        BY SMTT(30)
    <2> HIDE DEF i, j, m
    <2>2. y - x = R * (j - i) BY <2>1
    <2> QED BY <1>1, <2>1, <2>2, Multiple
<1>2. a < b \/ b < a OBVIOUS
<1> QED BY <1>1, <1>2

\* tcpSend puts the next bytes after those that wait.
LEMMA WriteFields ==
    ASSUME NEW s \in Socket, NEW w \in Nat, NEW n \in Nat, n <= TxBufferSize,
           s.sndNxt + s.sndUser = s.iss + 1 + w,
           NEW data \in Seq(Byte), Len(data) = n,
           \A i \in 1 .. n : data[i] = w + i
    PROVE  LET t == WriteTxBuffer(s, data) IN
           /\ t \in Socket /\ SameControl(s, t) /\ SameRx(s, t)
           /\ t.iss = s.iss /\ t.sndUna = s.sndUna /\ t.sndNxt = s.sndNxt
           /\ t.rtxQ = s.rtxQ /\ t.sent = s.sent
           /\ \A i \in 1 .. n : t.txBuf[(w + i - 1) % TxBufferSize] = w + i
           /\ \A q \in 0 .. TxBufferSize - 1 :
                 (\A i \in 1 .. n : (w + i - 1) % TxBufferSize # q) =>
                    t.txBuf[q] = s.txBuf[q]
<1> DEFINE offset(i) == (s.sndNxt + s.sndUser - s.iss - 1 + i - 1) % TxBufferSize
           buf == [q \in 0 .. TxBufferSize - 1 |->
                     IF \E i \in 1 .. Len(data) : offset(i) = q
                     THEN data[CHOOSE i \in 1 .. Len(data) : offset(i) = q]
                     ELSE s.txBuf[q]]
           user == s.sndUser + Len(data)
           t == WriteTxBuffer(s, data)
           u == [s EXCEPT !.txBuf = buf, !.sndUser = user]
<1>1. s.iss \in Nat /\ s.sndNxt \in Nat /\ s.sndUser \in Nat BY SocketNumbers
<1>2. t \in Socket /\ SameControl(s, t) /\ SameReceive(s, t)
    BY WriteTxBufferType DEF Transmits
<1>3. t = u BY DEF WriteTxBuffer, Socket
<1>4. \A i \in 1 .. n : offset(i) = (w + i - 1) % TxBufferSize
    <2> TAKE i \in 1 .. n
    <2>1. s.sndNxt + s.sndUser - s.iss - 1 + i - 1 = w + i - 1 BY <1>1
    <2> QED BY <2>1
<1>5. \A i \in 1 .. n : offset(i) \in 0 .. TxBufferSize - 1
    <2> TAKE i \in 1 .. n
    <2>1. w + i - 1 \in Int OBVIOUS
    <2> QED BY <1>4, <2>1, RingOffset, TxBufferAssumption
<1>6. \A i, j \in 1 .. n : offset(i) = offset(j) => i = j
    <2> SUFFICES ASSUME NEW i \in 1 .. n, NEW j \in 1 .. n, i # j
                 PROVE  offset(i) # offset(j)
        OBVIOUS
    <2> DEFINE a == w + i - 1
               b == w + j - 1
    <2>1. a \in Int /\ b \in Int /\ a # b /\ a - b < TxBufferSize /\ b - a < TxBufferSize
        BY TxBufferAssumption
    <2> HIDE DEF a, b
    <2>2. a % TxBufferSize # b % TxBufferSize
        BY <2>1, PlacesDiffer, TxBufferAssumption
    <2> QED BY <1>4, <2>2 DEF a, b
<1> HIDE DEF offset
<1>7. ASSUME NEW i \in 1 .. n PROVE buf[offset(i)] = w + i
    <2>1. offset(i) \in 0 .. TxBufferSize - 1 /\ i \in 1 .. Len(data) BY <1>5
    <2> DEFINE j == CHOOSE j \in 1 .. Len(data) : offset(j) = offset(i)
    <2>2. j \in 1 .. Len(data) /\ offset(j) = offset(i) BY <2>1
    <2>3. buf[offset(i)] = data[j] BY <2>1
    <2> HIDE DEF j, buf
    <2>4. j = i BY <1>6, <2>2
    <2> QED BY <2>3, <2>4
<1>8. ASSUME NEW q \in 0 .. TxBufferSize - 1, \A i \in 1 .. n : offset(i) # q
      PROVE  buf[q] = s.txBuf[q]
    BY <1>8
<1> HIDE DEF t, buf, user
<1>9. /\ u.iss = s.iss /\ u.sndUna = s.sndUna /\ u.sndNxt = s.sndNxt
      /\ u.irs = s.irs /\ u.txBuf = buf /\ u.rxBuf = s.rxBuf
      /\ u.rtxQ = s.rtxQ /\ u.sent = s.sent
    BY DEF Socket
<1> HIDE DEF u
<1>10. SameRx(s, t) BY <1>2, <1>3, <1>9, SameReceiveRx
<1>11. \A i \in 1 .. n : t.txBuf[(w + i - 1) % TxBufferSize] = w + i
    BY <1>3, <1>4, <1>7, <1>9
<1>12. ASSUME NEW q \in 0 .. TxBufferSize - 1,
              \A i \in 1 .. n : (w + i - 1) % TxBufferSize # q
       PROVE  t.txBuf[q] = s.txBuf[q]
    BY <1>3, <1>4, <1>8, <1>9, <1>12
<1> QED BY <1>2, <1>3, <1>9, <1>10, <1>11, <1>12 DEF t

LEMMA RoomKept ==
    ASSUME NEW iss \in Int, NEW una \in Int, NEW size \in Int, NEW w \in Int,
           NEW n \in Int, n + (iss + 1 + w) - una <= size
    PROVE  iss + (w + n) + 1 - una <= size
OBVIOUS

LEMMA WriteStream ==
    ASSUME NEW e, NEW s, NEW p, NEW w, Core(e, s, p, w), SendsStream(s, w, p),
           s.state \notin Over, s.sndNxt + s.sndUser = s.iss + 1 + w,
           NEW n \in Nat, n <= TxRoom(s),
           NEW data \in Seq(Byte), Len(data) = n, \A i \in 1 .. n : data[i] = w + i
    PROVE  LET t == WriteTxBuffer(s, data) IN
           /\ t \in Socket /\ SendsStream(t, w + n, p) /\ SameRx(s, t)
           /\ SameControl(s, t)
<1> DEFINE t == WriteTxBuffer(s, data)
<1>1. s \in Socket /\ p \in Socket /\ w \in Nat BY DEF Core
<1>2. /\ s.iss \in Nat /\ s.sndNxt \in Nat /\ s.sndUser \in Nat /\ s.sndUna \in Nat
      /\ s.iss <= s.sndUna /\ s.sndUna <= s.sndNxt /\ s.iss < s.sndNxt
    BY <1>1, SocketNumbers DEF Core, Numbers
<1>3. /\ n <= TxBufferSize
      /\ s.iss + (w + n) + 1 - s.sndUna <= TxBufferSize
    <2>1. n <= TxBufferSize - (s.sndUser + s.sndNxt - s.sndUna) BY DEF TxRoom
    <2>2. TxBufferSize \in Nat BY TxBufferAssumption
    <2>3. n + s.sndUser + s.sndNxt - s.sndUna <= TxBufferSize BY <1>2, <2>1, <2>2
    <2>4. n + (s.iss + 1 + w) - s.sndUna <= TxBufferSize BY <1>1, <1>2, <2>2, <2>3
    <2>5. n <= TxBufferSize BY <1>2, <2>2, <2>3
    <2>6. /\ s.iss \in Int /\ s.sndUna \in Int /\ TxBufferSize \in Int
          /\ w \in Int /\ n \in Int
        BY <1>1, <1>2, <2>2
    <2>7. s.iss + (w + n) + 1 - s.sndUna <= TxBufferSize BY <2>4, <2>6, RoomKept
    <2> QED BY <2>5, <2>7
<1>4. /\ t \in Socket /\ SameControl(s, t) /\ SameRx(s, t)
      /\ t.iss = s.iss /\ t.sndUna = s.sndUna /\ t.sndNxt = s.sndNxt
      /\ t.rtxQ = s.rtxQ /\ t.sent = s.sent
      /\ \A i \in 1 .. n : t.txBuf[(w + i - 1) % TxBufferSize] = w + i
      /\ \A q \in 0 .. TxBufferSize - 1 :
            (\A i \in 1 .. n : (w + i - 1) % TxBufferSize # q) =>
               t.txBuf[q] = s.txBuf[q]
    BY ZenonT(30), <1>1, <1>3, WriteFields
<1> HIDE DEF t
<1>5. ~Finished(s, w) BY <1>1, <1>2 DEF Finished
<1>6. w + n \in Nat /\ w <= w + n BY <1>1
<1>7. Goes(s, w, t, w + n) BY <1>4, <1>5, <1>6 DEF Goes
<1>8. ASSUME NEW g \in t.sent, Live(g) PROVE Carries(t, w + n, p, g)
    <2>1. g \in Segment /\ Carries(s, w, p, g)
        BY <1>1, <1>4, <1>8 DEF SendsStream, Socket
    <2>2. p.rcvNxt <= p.rcvNxt BY <1>1, SocketNumbers
    <2> QED BY <1>1, <1>6, <1>7, <2>1, <2>2, CarriesOn
<1>9. Holds(s, w) BY DEF SendsStream
<1>10. ASSUME NEW b \in 1 .. w + n
       PROVE  t.iss + b < t.sndUna \/ t.txBuf[(b - 1) % TxBufferSize] = b
    <2>1. CASE b > w
        <3> DEFINE i == b - w
        <3>1. i \in 1 .. n /\ w + i = b /\ w + i - 1 = b - 1 BY <1>1, <1>10, <2>1
        <3> HIDE DEF i
        <3> QED BY <1>4, <3>1
    <2>2. CASE b <= w /\ ~(s.iss + b < s.sndUna)
        <3>1. s.txBuf[(b - 1) % TxBufferSize] = b BY <1>1, <1>9, <1>10, <2>2 DEF Holds
        <3> DEFINE a == b - 1
        <3>2. a \in Int BY <1>10
        <3>3. ASSUME NEW i \in 1 .. n
              PROVE  (w + i - 1) % TxBufferSize # a % TxBufferSize
            <4> DEFINE c == w + i - 1
            <4>1. c \in Int /\ c # a /\ c - a < TxBufferSize /\ a - c < TxBufferSize
                BY SMTT(30), <1>1, <1>2, <1>3, <1>10, <2>2, TxBufferAssumption
            <4> HIDE DEF a, c
            <4>2. c % TxBufferSize # a % TxBufferSize
                BY <3>2, <4>1, PlacesDiffer, TxBufferAssumption
            <4> QED BY <4>2 DEF c
        <3> DEFINE q == a % TxBufferSize
        <3>4. q \in 0 .. TxBufferSize - 1 BY <3>2, RingOffset, TxBufferAssumption
        <3>5. \A i \in 1 .. n : (w + i - 1) % TxBufferSize # q BY <3>3
        <3>6. s.txBuf[q] = b BY <3>1
        <3> HIDE DEF q
        <3>7. t.txBuf[q] = b BY <1>4, <3>4, <3>5, <3>6
        <3> QED BY <3>7 DEF q, a
    <2>3. CASE s.iss + b < s.sndUna BY <1>4, <2>3
    <2>4. b > w \/ b <= w BY <1>1
    <2> QED BY <2>1, <2>2, <2>3, <2>4
<1>11. \A i \in t.rtxQ : ItemFits(t, w + n, i)
    <2> TAKE i \in t.rtxQ
    <2>1. i \in Item /\ ItemFits(s, w, i) BY <1>1, <1>4, <1>9 DEF Socket, Holds
    <2> QED BY <1>1, <1>6, <1>7, <2>1, ItemFitsOn
<1>12. Holds(t, w + n) BY <1>3, <1>4, <1>10, <1>11 DEF Holds
<1>13. t.state # "TIME_WAIT" BY <1>4 DEF Over, SameControl
<1> QED BY <1>4, <1>8, <1>12, <1>13 DEF SendsStream, t

\* A retransmission repeats what the queue says.
LEMMA RetransmitStream ==
    ASSUME NEW e, NEW s, NEW p, NEW w, Core(e, s, p, w), SendsStream(s, w, p),
           s.state # "CLOSED", s.rtxQ # {}
    PROVE  LET t == RetransmitSegment(s) IN
           /\ t \in Socket /\ SendsStream(t, w, p) /\ SameRx(s, t)
           /\ SameControl(s, t) /\ t.iss = s.iss /\ t.sndNxt = s.sndNxt
<1> DEFINE burst == {i \in s.rtxQ :
                       \A h \in s.rtxQ : i.seq + i.len - h.seq <= Mss}
           G == {SegmentOf(s, i) : i \in burst}
           u == [s EXCEPT !.sent = @ \cup G]
           t == RetransmitSegment(s)
<1>1. s \in Socket /\ p \in Socket /\ w \in Nat BY DEF Core
<1>2. t \in Socket /\ SameControl(s, t) /\ SameReceive(s, t)
    BY <1>1, RetransmitSegmentType DEF Transmits
<1>3. t = u BY DEF RetransmitSegment
<1>4. s.state \notin Over /\ Holds(s, w) BY DEF SendsStream, Over
<1>5. burst \subseteq s.rtxQ /\ s.rtxQ \subseteq Item BY <1>1 DEF Socket
<1> HIDE DEF t, burst
<1>6. \A i \in burst : Carries(s, w, p, SegmentOf(s, i))
    BY <1>4, <1>5, ItemCarries DEF Holds
<1>7. \A g \in G : Carries(s, w, p, g) BY <1>6
<1> HIDE DEF G
<1>8. /\ u.iss = s.iss /\ u.sndNxt = s.sndNxt /\ u.sndUna = s.sndUna
      /\ u.irs = s.irs /\ u.txBuf = s.txBuf /\ u.rxBuf = s.rxBuf
      /\ u.rtxQ = s.rtxQ /\ u.sent = s.sent \cup G
    BY <1>1 DEF Socket
<1> HIDE DEF u
<1>9. SameRx(s, t) BY <1>1, <1>2, <1>3, <1>8, SameReceiveRx
<1>10. \A g \in t.sent : Live(g) => Carries(s, w, p, g)
    BY <1>3, <1>7, <1>8 DEF SendsStream
<1>11. \A g \in t.sent : Live(g) => Carries(t, w, p, g)
    BY <1>3, <1>8, <1>10 DEF Carries, Finished
<1>12. Holds(t, w) BY <1>3, <1>4, <1>8 DEF Holds, ItemFits, Finished
<1>13. t.state # "TIME_WAIT" BY <1>2, <1>4 DEF Over, SameControl
<1> QED BY <1>2, <1>3, <1>8, <1>9, <1>11, <1>12, <1>13 DEF SendsStream, t

LEMMA QueueControlCalm ==
    ASSUME NEW s \in Socket, NEW flags \in SUBSET Flags, "FIN" \notin flags,
           NEW seq \in Nat, s.state # "TIME_WAIT"
    PROVE  Calm(s, QueueControl(s, flags, seq))
<1> DEFINE i == [seq |-> seq, len |-> 0, flags |-> flags]
           t == QueueSegments(s, {i})
           g == SegmentOf(s, i)
<1>1. QueueControl(s, flags, seq) = t BY DEF QueueControl
<1>2. /\ t \in Socket /\ SameControl(s, t)
    BY <1>1, QueueControlType DEF Transmits
<1>3. /\ SameNumbers(s, t) /\ t.rtxQ = s.rtxQ \cup {i}
      /\ t.sent = s.sent \cup {SegmentOf(s, x) : x \in {i}}
    BY QueueSegmentsFields
<1>4. SameBuffers(s, t) /\ t.rcvUser = s.rcvUser BY QueueSegmentsBuffers
<1>5. ReadTxBuffer(s, seq, 0) = << >> BY ReadTxBufferIs
<1>6. Bare(g) BY <1>5 DEF Bare, SegmentOf
<1>7. BareItem(i) BY DEF BareItem
<1>8. t.sent = s.sent \cup {g} BY <1>3
<1> HIDE DEF t, i, g
<1>9. s.sndUna <= t.sndUna BY <1>3, SocketNumbers DEF SameNumbers
<1>10. t.state = s.state /\ t.closedFlag = s.closedFlag /\ t.resetFlag = s.resetFlag
    BY <1>2 DEF SameControl
<1>11. SameTx(s, t)
    BY <1>3, <1>4, <1>6, <1>7, <1>8, <1>9, <1>10
       DEF SameTx, SameNumbers, SameBuffers
<1>12. SameRx(s, t)
    BY <1>3, <1>4, <1>10 DEF SameRx, SameNumbers, SameBuffers, Taking, FinTaken
<1> QED BY <1>1, <1>2, <1>11, <1>12 DEF Calm

\* tcpShutdown sends the FIN after the last byte.
FinSent(s) == [QueueControl(s, {"FIN", "ACK"}, s.sndNxt) EXCEPT !.sndNxt = @ + 1]

LEMMA FinStream ==
    ASSUME NEW e, NEW s, NEW p, NEW w, Core(e, s, p, w), SendsStream(s, w, p),
           s.state \notin Over, s.sndNxt = s.iss + 1 + w, FinSent(s) \in Socket
    PROVE  LET t == FinSent(s) IN
           /\ SendsStream(t, w, p) /\ SameRx(s, t) /\ SameControl(s, t)
           /\ t.iss = s.iss /\ Finished(t, w)
<1> DEFINE flags == {"FIN", "ACK"}
           i == [seq |-> s.sndNxt, len |-> 0, flags |-> flags]
           q == QueueSegments(s, {i})
           t == [q EXCEPT !.sndNxt = @ + 1]
           g == SegmentOf(s, i)
<1>1. s \in Socket /\ p \in Socket /\ w \in Nat BY DEF Core
<1>2. FinSent(s) = t BY DEF FinSent, QueueControl
<1>3. flags \in SUBSET Flags /\ s.sndNxt \in Nat /\ s.iss \in Nat
    BY <1>1, SocketNumbers DEF Flags
<1> HIDE DEF flags
<1>4. q \in Socket /\ SameControl(s, q)
    BY <1>1, <1>3, QueueControlType DEF Transmits, QueueControl
<1>5. /\ SameNumbers(s, q) /\ q.rtxQ = s.rtxQ \cup {i}
      /\ q.sent = s.sent \cup {SegmentOf(s, x) : x \in {i}}
    BY <1>1, QueueSegmentsFields
<1>6. SameBuffers(s, q) /\ q.rcvUser = s.rcvUser BY <1>1, QueueSegmentsBuffers
<1>7. ReadTxBuffer(s, s.sndNxt, 0) = << >> BY <1>1, <1>3, ReadTxBufferIs
<1>8. g.data = << >> /\ g.seq = s.sndNxt BY <1>7 DEF SegmentOf
<1>9. i.len = 0 /\ i.seq = s.sndNxt OBVIOUS
<1>10. q.sent = s.sent \cup {g} BY <1>5
<1> HIDE DEF q, i, g
<1>11. /\ t.sndNxt = q.sndNxt + 1
       /\ t.iss = q.iss /\ t.sndUna = q.sndUna /\ t.irs = q.irs
       /\ t.rcvNxt = q.rcvNxt /\ t.rcvUser = q.rcvUser /\ t.ooo = q.ooo
       /\ t.txBuf = q.txBuf /\ t.rxBuf = q.rxBuf
       /\ t.rtxQ = q.rtxQ /\ t.sent = q.sent
       /\ t.state = q.state /\ t.type = q.type
       /\ t.closedFlag = q.closedFlag /\ t.resetFlag = q.resetFlag
    BY <1>4 DEF Socket
<1> HIDE DEF t
<1>12. t.iss = s.iss /\ t.sndNxt = s.iss + 1 + w + 1
    BY <1>5, <1>11 DEF SameNumbers
<1>13. Finished(t, w) /\ ~Finished(s, w)
    BY <1>1, <1>3, <1>12 DEF Finished
<1>14. Goes(s, w, t, w) BY <1>1, <1>12, <1>13 DEF Goes
<1>15. Holds(s, w) BY DEF SendsStream
<1>16. ASSUME NEW x \in t.sent, Live(x) PROVE Carries(t, w, p, x)
    <2>1. CASE x \in s.sent
        <3>1. x \in Segment /\ Carries(s, w, p, x)
            BY <1>1, <1>16, <2>1 DEF SendsStream, Socket
        <3>2. p.rcvNxt <= p.rcvNxt BY <1>1, SocketNumbers
        <3> QED BY <1>1, <1>14, <3>1, <3>2, CarriesOn
    <2>2. CASE x = g
        <3>1. Len(g.data) = 0 BY <1>8
        <3> QED BY <1>8, <1>12, <1>13, <2>2, <3>1 DEF Carries
    <2> QED BY <1>10, <1>11, <1>16, <2>1, <2>2
<1>17. ASSUME NEW x \in t.rtxQ PROVE ItemFits(t, w, x)
    <2>1. CASE x \in s.rtxQ
        <3>1. x \in Item /\ ItemFits(s, w, x)
            BY <1>1, <1>15, <2>1 DEF Holds, Socket
        <3> QED BY <1>1, <1>14, <3>1, ItemFitsOn
    <2>2. CASE x = i
        BY <1>9, <1>12, <1>13, <2>2 DEF ItemFits
    <2> QED BY <1>5, <1>11, <1>17, <2>1, <2>2
<1>18. Holds(t, w)
    BY <1>5, <1>6, <1>11, <1>12, <1>15, <1>17
       DEF Holds, SameNumbers, SameBuffers
<1>19. SameControl(s, t) BY <1>4, <1>11 DEF SameControl
<1>20. t.state # "TIME_WAIT" BY <1>19 DEF Over, SameControl
<1>21. SameRx(s, t)
    BY <1>5, <1>6, <1>11, <1>19
       DEF SameRx, SameNumbers, SameBuffers, SameControl, Taking, FinTaken
<1> QED BY <1>2, <1>12, <1>13, <1>16, <1>18, <1>19, <1>20, <1>21 DEF SendsStream

-----------------------------------------------------------------------------
(* Receiving.                                                              *)

\* The numbers of the bytes of g that the window lets in.
Arrived(s, g) ==
    Max(g.seq, s.rcvNxt) .. (Min(g.seq + Len(g.data), s.rcvNxt + s.rcvWnd) - 1)

\* Their places in the receive buffer.
Place(s, n) == (n - s.irs - 1) % RxBufferSize

LEMMA ArrivedInWindow ==
    ASSUME NEW s \in Socket, WindowFits(s), NEW g \in Segment
    PROVE  \A n \in Arrived(s, g) :
              /\ n \in Nat /\ s.rcvNxt <= n /\ n < s.rcvNxt + s.rcvWnd
              /\ g.seq <= n /\ n < g.seq + Len(g.data)
<1>1. s.rcvNxt \in Nat /\ s.rcvWnd \in Nat /\ g.seq \in Nat /\ Len(g.data) \in Nat
    BY SocketNumbers DEF WindowFits, Segment
<1> DEFINE left == Max(g.seq, s.rcvNxt)
           right == Min(g.seq + Len(g.data), s.rcvNxt + s.rcvWnd)
<1>2. /\ left \in Nat /\ right \in Int /\ g.seq <= left /\ s.rcvNxt <= left
      /\ right <= g.seq + Len(g.data) /\ right <= s.rcvNxt + s.rcvWnd
    BY <1>1 DEF Max, Min
<1>3. Arrived(s, g) = left .. (right - 1) BY DEF Arrived
<1> HIDE DEF left, right
<1> QED BY <1>1, <1>2, <1>3

\* Two numbers no further apart than the buffer is long have different places.
LEMMA PlacesApart ==
    ASSUME NEW s \in Socket, NEW m \in Int, NEW n \in Int, m # n,
           m - n < RxBufferSize, n - m < RxBufferSize
    PROVE  Place(s, m) # Place(s, n)
<1> DEFINE a == m - s.irs - 1
           b == n - s.irs - 1
<1>1. s.irs \in Nat BY SocketNumbers
<1>2. a \in Int /\ b \in Int /\ a # b /\ a - b < RxBufferSize /\ b - a < RxBufferSize
    BY <1>1, RxBufferAssumption
<1> HIDE DEF a, b
<1>3. a % RxBufferSize # b % RxBufferSize
    BY <1>2, PlacesDiffer, RxBufferAssumption
<1> QED BY <1>3 DEF Place, a, b

LEMMA PlaceInBuffer ==
    ASSUME NEW s \in Socket, NEW n \in Int
    PROVE  Place(s, n) \in 0 .. RxBufferSize - 1
<1> DEFINE a == n - s.irs - 1
<1>1. a \in Int BY SocketNumbers
<1> HIDE DEF a
<1>2. a % RxBufferSize \in 0 .. RxBufferSize - 1
    BY <1>1, RingOffset, RxBufferAssumption
<1> QED BY <1>2 DEF Place, a

\* tcpProcessSegmentData: where the bytes go, and which count as received.
LEMMA ProcessSegmentDataBuffer ==
    ASSUME NEW s \in Socket, NEW g \in Segment, WindowFits(s), GapsInside(s),
           g.data # << >>
    PROVE  LET t == ProcessSegmentData(s, g) IN
           /\ t.txBuf = s.txBuf
           /\ t.rcvUser = s.rcvUser + (t.rcvNxt - s.rcvNxt)
           /\ \A n \in s.rcvNxt .. (t.rcvNxt - 1) : n \in s.ooo \cup Arrived(s, g)
           /\ t.ooo \subseteq s.ooo \cup Arrived(s, g)
           /\ \A n \in Arrived(s, g) :
                 t.rxBuf[Place(s, n)] = g.data[n - g.seq + 1]
           /\ \A q \in 0 .. RxBufferSize - 1 :
                 (\A n \in Arrived(s, g) : Place(s, n) # q) =>
                    t.rxBuf[q] = s.rxBuf[q]
<1> DEFINE arrived   == Arrived(s, g)
           held      == s.ooo \cup arrived
           nxt       == CHOOSE n \in s.rcvNxt .. (s.rcvNxt + s.rcvWnd) :
                           /\ n \notin held
                           /\ \A m \in s.rcvNxt .. (s.rcvNxt + s.rcvWnd) :
                                 m \notin held => n <= m
           buf       == [p \in 0 .. RxBufferSize - 1 |->
                           IF \E n \in arrived : Place(s, n) = p
                           THEN g.data[(CHOOSE n \in arrived : Place(s, n) = p)
                                           - g.seq + 1]
                           ELSE s.rxBuf[p]]
           gaps      == {n \in held : n > nxt}
           user      == s.rcvUser + (nxt - s.rcvNxt)
           wnd       == s.rcvWnd - (nxt - s.rcvNxt)
           u         == [s EXCEPT !.rxBuf = buf, !.ooo = gaps, !.rcvNxt = nxt,
                                  !.rcvUser = user, !.rcvWnd = wnd]
           a         == [flags |-> {"ACK"}, seq |-> u.sndNxt, ack |-> u.rcvNxt,
                         wnd |-> u.rcvWnd, data |-> << >>]
           t         == [u EXCEPT !.sent = @ \cup {a}]
<1>1. /\ s.rcvNxt \in Nat /\ s.rcvWnd \in Nat /\ s.ooo \in SUBSET Nat
      /\ s.rcvUser \in Nat /\ s.rcvUser + s.rcvWnd <= RxBufferSize
    BY SocketNumbers DEF WindowFits
<1>2. ProcessSegmentData(s, g) = SendAck(u)
    BY DEF ProcessSegmentData, Socket, Arrived, Place
<1>3. \A n \in arrived : n \in Nat /\ s.rcvNxt <= n /\ n < s.rcvNxt + s.rcvWnd
    BY ArrivedInWindow
<1>4. \A m, n \in arrived : Place(s, m) = Place(s, n) => m = n
    <2> SUFFICES ASSUME NEW m \in arrived, NEW n \in arrived, m # n
                 PROVE  Place(s, m) # Place(s, n)
        OBVIOUS
    <2>1. m \in Nat /\ n \in Nat /\ m - n < RxBufferSize /\ n - m < RxBufferSize
        BY <1>1, <1>3, RxBufferAssumption
    <2> QED BY <2>1, PlacesApart
<1>5. \A n \in arrived : Place(s, n) \in 0 .. RxBufferSize - 1
    BY <1>3, PlaceInBuffer
<1> HIDE DEF arrived
<1>6. ASSUME NEW n \in arrived PROVE buf[Place(s, n)] = g.data[n - g.seq + 1]
    <2> DEFINE m == CHOOSE m \in arrived : Place(s, m) = Place(s, n)
    <2>1. m \in arrived /\ Place(s, m) = Place(s, n) OBVIOUS
    <2>2. buf[Place(s, n)] = g.data[m - g.seq + 1] BY <1>5
    <2> HIDE DEF m, buf
    <2>3. m = n BY <1>4, <2>1
    <2> QED BY <2>2, <2>3
<1>7. ASSUME NEW q \in 0 .. RxBufferSize - 1, \A n \in arrived : Place(s, n) # q
      PROVE  buf[q] = s.rxBuf[q]
    BY <1>7
<1>8. \A n \in held : n \in Nat /\ n < s.rcvNxt + s.rcvWnd
    BY <1>1, <1>3 DEF GapsInside
<1> HIDE DEF held
<1>9. /\ nxt \in s.rcvNxt .. (s.rcvNxt + s.rcvWnd)
      /\ \A m \in s.rcvNxt .. (s.rcvNxt + s.rcvWnd) : m \notin held => nxt <= m
    <2>1. s.rcvNxt + s.rcvWnd \notin held /\ s.rcvNxt \in Int BY <1>1, <1>8
    <2>2. \E n \in s.rcvNxt .. (s.rcvNxt + s.rcvWnd) :
             /\ n \notin held
             /\ \A m \in s.rcvNxt .. (s.rcvNxt + s.rcvWnd) : m \notin held => n <= m
        BY <1>1, <2>1, LeastOutside
    <2> QED BY <2>2
<1>10. gaps \subseteq held OBVIOUS
<1> HIDE DEF buf, gaps, nxt
<1>11. ASSUME NEW n \in s.rcvNxt .. (nxt - 1) PROVE n \in held
    <2>1. n \in s.rcvNxt .. (s.rcvNxt + s.rcvWnd) /\ ~(nxt <= n) BY <1>1, <1>9
    <2> QED BY <1>9, <2>1
<1> HIDE DEF user, wnd
<1>12. /\ u.txBuf = s.txBuf /\ u.rxBuf = buf /\ u.ooo = gaps
       /\ u.rcvNxt = nxt /\ u.rcvUser = user
    BY DEF Socket
<1>13. DOMAIN u = DOMAIN s OBVIOUS
<1> HIDE DEF u
<1>14. SendAck(u) = t BY DEF SendAck, SendSegment
<1> HIDE DEF a
<1>15. /\ t.txBuf = u.txBuf /\ t.rxBuf = u.rxBuf /\ t.ooo = u.ooo
       /\ t.rcvNxt = u.rcvNxt /\ t.rcvUser = u.rcvUser
    BY <1>13 DEF Socket
<1> HIDE DEF t
<1>16. /\ t.txBuf = s.txBuf /\ t.rxBuf = buf /\ t.ooo = gaps
       /\ t.rcvNxt = nxt /\ t.rcvUser = s.rcvUser + (t.rcvNxt - s.rcvNxt)
    BY <1>12, <1>15 DEF user
<1>17. ProcessSegmentData(s, g) = t BY <1>2, <1>14
<1> HIDE DEF t
<1> QED BY <1>6, <1>7, <1>10, <1>11, <1>16, <1>17 DEF held, arrived

LEMMA DataStream ==
    ASSUME NEW s \in Socket, NEW p \in Socket, WindowFits(s), GapsInside(s),
           NEW v \in Nat, NEW d \in Seq(Byte), Takes(s, p, v, d),
           NEW g \in Segment,
           g.data # << >> => s.irs = p.iss /\ Carries(p, v, s, g)
    PROVE  LET t == ProcessSegmentData(s, g) IN
           /\ t \in Socket /\ SameControl(s, t) /\ SameTx(s, t)
           /\ t.irs = s.irs /\ Takes(t, p, v, d)
<1> DEFINE t == ProcessSegmentData(s, g)
<1>1. /\ t \in Socket /\ SameControl(s, t)
      /\ WindowFits(t) /\ t.rcvNxt + t.rcvWnd = s.rcvNxt + s.rcvWnd
    BY ProcessSegmentDataType DEF Receives
<1>2. CASE g.data = << >>
    <2>1. t = s BY <1>2 DEF ProcessSegmentData
    <2> HIDE DEF t
    <2>2. Calm(s, t) BY <2>1, CalmSelf
    <2> QED BY <1>1, <2>1, <2>2 DEF Calm, t
<1>3. CASE g.data # << >>
    <2> DEFINE b == p.iss + 1 + v
    <2>1. /\ s.irs = p.iss /\ p.iss < g.seq /\ g.seq + Len(g.data) <= b
          /\ \A i \in 1 .. Len(g.data) :
                g.data[i] = g.seq + i - 1 - p.iss \/ g.seq + i - 1 < s.rcvNxt
        BY <1>3 DEF Carries
    <2>2. /\ s.rcvNxt \in Nat /\ s.rcvUser \in Nat /\ s.rcvWnd \in Nat
          /\ s.irs \in Nat /\ s.ooo \in SUBSET Nat /\ p.iss \in Nat
          /\ g.seq \in Nat /\ Len(g.data) \in Nat /\ Len(d) \in Nat
          /\ t.rcvNxt \in Nat /\ t.rcvUser \in Nat /\ t.ooo \in SUBSET Nat
        <3>1. g.seq \in Nat /\ Len(g.data) \in Nat /\ Len(d) \in Nat BY DEF Segment
        <3>2. s.rcvWnd \in Int /\ s.rcvWnd >= 0 BY DEF WindowFits, Socket
        <3> HIDE DEF t
        <3> QED BY <1>1, <3>1, <3>2, SocketNumbers
    <2>3. b \in Nat BY <2>2
    <2>4. /\ Len(d) + s.rcvUser = s.rcvNxt - s.irs - 1
          /\ Buffered(s, Unread(s, s.rcvNxt) \cup s.ooo)
          /\ s.rcvNxt <= b /\ \A n \in s.ooo : n < b
        BY <2>1 DEF Takes
    <2> HIDE DEF b
    <2>5. /\ t.iss = s.iss /\ t.irs = s.irs /\ t.sndUna = s.sndUna
          /\ t.sndNxt = s.sndNxt
          /\ s.rcvNxt <= t.rcvNxt /\ t.rcvNxt <= b
          /\ \A n \in t.ooo : n < b
          /\ t.rtxQ = s.rtxQ
          /\ \A x \in t.sent : \/ x \in s.sent
                               \/ /\ x.flags = {"ACK"} /\ x.seq = s.sndNxt
                                  /\ x.data = << >> /\ x.ack = t.rcvNxt
        BY <1>3, <2>1, <2>3, <2>4, ProcessSegmentDataFields
    <2>6. /\ t.txBuf = s.txBuf
          /\ t.rcvUser = s.rcvUser + (t.rcvNxt - s.rcvNxt)
          /\ \A n \in s.rcvNxt .. (t.rcvNxt - 1) : n \in s.ooo \cup Arrived(s, g)
          /\ t.ooo \subseteq s.ooo \cup Arrived(s, g)
          /\ \A n \in Arrived(s, g) :
                t.rxBuf[Place(s, n)] = g.data[n - g.seq + 1]
          /\ \A q \in 0 .. RxBufferSize - 1 :
                (\A n \in Arrived(s, g) : Place(s, n) # q) =>
                   t.rxBuf[q] = s.rxBuf[q]
        BY <1>3, ProcessSegmentDataBuffer
    <2> HIDE DEF t
    <2>7. SameTx(s, t)
        <3>1. s.sndUna <= t.sndUna BY <2>5, SocketNumbers
        <3>2. \A x \in t.sent : x \in s.sent \/ Bare(x) BY <2>5 DEF Bare
        <3>3. t.state = s.state BY <1>1 DEF SameControl
        <3> QED BY <2>5, <2>6, <3>1, <3>2, <3>3 DEF SameTx
    <2>8. Len(d) + t.rcvUser = t.rcvNxt - t.irs - 1
        <3>1. t.rcvUser = s.rcvUser + (t.rcvNxt - s.rcvNxt) BY <2>6
        <3>2. t.irs = s.irs BY <2>5
        <3>3. Len(d) + s.rcvUser = s.rcvNxt - s.irs - 1 BY <2>4
        <3>4. /\ Len(d) \in Int /\ s.rcvUser \in Int /\ s.rcvNxt \in Int
              /\ s.irs \in Int /\ t.rcvNxt \in Int
            BY <2>2
        <3>5. Len(d) + (s.rcvUser + (t.rcvNxt - s.rcvNxt)) = t.rcvNxt - s.irs - 1
            BY <3>3, <3>4
        <3> QED BY <3>1, <3>2, <3>5
    <2>9. \A n \in Arrived(s, g) :
             /\ n \in Nat /\ s.rcvNxt <= n /\ n < s.rcvNxt + s.rcvWnd
             /\ g.seq <= n /\ n < g.seq + Len(g.data)
        BY ArrivedInWindow
    <2>10. ASSUME NEW n \in Arrived(s, g) PROVE t.rxBuf[Place(s, n)] = n - s.irs
        <3> DEFINE i == n - g.seq + 1
        <3>1. i \in 1 .. Len(g.data) /\ g.seq + i - 1 = n
            BY SMTT(30), <2>2, <2>9
        <3>2. ~(n < s.rcvNxt) BY <2>2, <2>9
        <3>3. t.rxBuf[Place(s, n)] = g.data[i] BY <2>6
        <3> HIDE DEF i
        <3>4. g.data[i] = g.seq + i - 1 - p.iss \/ g.seq + i - 1 < s.rcvNxt
            BY <2>1, <3>1
        <3>5. g.data[i] = g.seq + i - 1 - p.iss BY <3>1, <3>2, <3>4
        <3>6. g.seq + i - 1 - p.iss = n - p.iss
            <4>1. /\ g.seq \in Int /\ i \in Int /\ n \in Int /\ p.iss \in Int
                  /\ g.seq + i - 1 = n
                BY <2>2, <2>9, <3>1
            <4> QED BY <4>1
        <3> QED BY <2>1, <3>3, <3>5, <3>6
    <2>11. ASSUME NEW n \in Unread(s, s.rcvNxt) \cup s.ooo, n \notin Arrived(s, g)
           PROVE  t.rxBuf[Place(s, n)] = n - s.irs
        <3>1. /\ n \in Int /\ s.rcvNxt - s.rcvUser <= n
              /\ n < s.rcvNxt + s.rcvWnd
            <4>1. CASE n \in s.ooo BY <2>2, <4>1 DEF GapsInside
            <4>2. CASE n \in Unread(s, s.rcvNxt) BY <2>2, <4>2 DEF Unread
            <4> QED BY <2>11, <4>1, <4>2
        <3>2. s.rcvUser + s.rcvWnd <= RxBufferSize BY DEF WindowFits
        <3>3. ASSUME NEW m \in Arrived(s, g) PROVE Place(s, m) # Place(s, n)
            <4>1. m \in Nat /\ s.rcvNxt <= m /\ m < s.rcvNxt + s.rcvWnd
                BY <2>9, <3>3
            <4>2. m # n BY <2>11, <3>3
            <4>3. m - n < RxBufferSize /\ n - m < RxBufferSize
                BY SMTT(30), <2>2, <3>1, <3>2, <4>1, RxBufferAssumption
            <4> QED BY <3>1, <4>1, <4>2, <4>3, PlacesApart
        <3>4. s.rxBuf[Place(s, n)] = n - s.irs
            BY <2>4, <2>11 DEF Buffered, Place
        <3>5. Place(s, n) \in 0 .. RxBufferSize - 1 BY <3>1, PlaceInBuffer
        <3> QED BY <2>6, <3>3, <3>4, <3>5
    <2>12. ASSUME NEW n \in Unread(t, t.rcvNxt) \cup t.ooo
           PROVE  n \in Arrived(s, g) \/ n \in Unread(s, s.rcvNxt) \cup s.ooo
        <3>1. CASE n \in t.ooo BY <2>6, <3>1
        <3>2. CASE n \in Unread(t, t.rcvNxt)
            <4>1. n \in Int /\ t.rcvNxt - t.rcvUser <= n /\ n <= t.rcvNxt - 1
                BY <2>2, <3>2 DEF Unread
            <4>2. s.rcvNxt - s.rcvUser <= n BY <2>2, <2>6, <4>1
            <4>3. n \in s.rcvNxt .. (t.rcvNxt - 1) \/ n \in Unread(s, s.rcvNxt)
                BY <2>2, <4>1, <4>2 DEF Unread
            <4> QED BY <2>6, <4>3
        <3> QED BY <2>12, <3>1, <3>2
    <2>13. \A n \in Unread(t, t.rcvNxt) \cup t.ooo :
              t.rxBuf[Place(s, n)] = n - s.irs
        BY <2>10, <2>11, <2>12
    <2>14. Buffered(t, Unread(t, t.rcvNxt) \cup t.ooo)
        BY <2>5, <2>13 DEF Buffered, Place
    <2>15. Takes(t, p, v, d) BY <2>5, <2>8, <2>14 DEF Takes, b
    <2> QED BY <1>1, <2>5, <2>7, <2>15 DEF t
<1> QED BY <1>2, <1>3

-----------------------------------------------------------------------------
(* The FIN of the peer.                                                    *)

Streams(s, w, p, v, d) == SendsStream(s, w, p) /\ TakesStream(s, p, v, d)

LEMMA TakeFinFields ==
    ASSUME NEW s \in Socket, WindowFits(s)
    PROVE  LET t == TakeFin(s) IN
           /\ t \in Socket /\ SameControl(s, t) /\ SameTx(s, t)
           /\ t.irs = s.irs /\ t.rcvNxt = s.rcvNxt + 1 /\ t.rcvUser = s.rcvUser
           /\ t.rxBuf = s.rxBuf
<1> DEFINE n == s.rcvNxt + 1
           u == [s EXCEPT !.rcvNxt = n]
           t == SendAck(u)
<1>1. TakeFin(s) = t BY DEF TakeFin
<1>2. TakeFin(s) \in Socket /\ SameControl(s, TakeFin(s))
    BY TakeFinType DEF Receives
<1>3. n \in Nat BY SocketNumbers
<1> HIDE DEF n
<1>4. /\ u \in Socket /\ u.iss = s.iss /\ u.sndNxt = s.sndNxt
      /\ u.sndUna = s.sndUna /\ u.txBuf = s.txBuf /\ u.rtxQ = s.rtxQ
      /\ u.sent = s.sent /\ u.state = s.state
      /\ u.irs = s.irs /\ u.rcvNxt = n /\ u.rcvUser = s.rcvUser
      /\ u.rxBuf = s.rxBuf
    BY <1>3 DEF Socket
<1> HIDE DEF u
<1>5. Calm(u, t) BY <1>4, SendAckCalm
<1>6. /\ t.irs = u.irs /\ t.rcvNxt = u.rcvNxt /\ t.rcvUser = u.rcvUser
      /\ t.rxBuf = u.rxBuf
    BY <1>4 DEF SendAck, SendSegment, Socket
<1> HIDE DEF t
<1>7. SameTx(s, t) BY <1>4, <1>5 DEF Calm, SameTx
<1> QED BY <1>1, <1>2, <1>4, <1>6, <1>7 DEF n

LEMMA ChangeStateTx ==
    ASSUME NEW s \in Socket, NEW state \in States, state \notin Over,
           s.state \notin Over
    PROVE  SameTx(s, ChangeState(s, state))
<1> DEFINE t == ChangeState(s, state)
<1>1. /\ t.state = state /\ SameStreams(s, t) /\ SameBuffers(s, t)
      /\ t.rtxQ = s.rtxQ
    BY ChangeStateFields
<1> HIDE DEF t
<1>2. s.sndUna <= t.sndUna BY <1>1, SocketNumbers DEF SameStreams
<1>3. t.state # "TIME_WAIT" BY <1>1 DEF Over
<1> QED BY <1>1, <1>2, <1>3 DEF SameTx, SameStreams, SameBuffers, t

LEMMA TimeWaitTx ==
    ASSUME NEW s \in Socket
    PROVE  SameTx(s, TimeWait(s))
<1> DEFINE t == TimeWait(s)
<1>1. t.state = "TIME_WAIT" /\ SameStreams(s, t) /\ t.rtxQ = {}
    BY TimeWaitFields
<1> HIDE DEF t
<1> QED BY <1>1 DEF SameTx, SameStreams, Over, t

LEMMA FinTakesAll ==
    ASSUME NEW s \in Socket, WindowFits(s), NEW p \in Socket,
           NEW v \in Nat, NEW d \in Seq(Byte), Takes(s, p, v, d),
           NEW g \in Segment, s.irs = p.iss, Carries(p, v, s, g), FinReached(s, g),
           NEW t, t.irs = s.irs, t.rcvNxt = s.rcvNxt + 1, t.rcvUser = s.rcvUser,
           t.rxBuf = s.rxBuf \/ (t.state \in Over /\ t.rxBuf = NoRx)
    PROVE  TookAll(t, p, v, d)
<1>1. /\ s.rcvNxt \in Nat /\ s.rcvUser \in Nat /\ s.irs \in Nat
      /\ p.iss \in Nat /\ p.sndNxt \in Nat /\ Len(d) \in Nat /\ g.seq \in Nat
    BY SocketNumbers DEF Segment
<1>2. /\ g.data = << >> /\ g.seq = p.iss + 1 + v /\ Finished(p, v)
      /\ s.rcvNxt = g.seq + Len(g.data)
    BY DEF FinReached, Carries
<1>3. s.rcvNxt = p.iss + 1 + v
    <2>1. Len(g.data) = 0 BY <1>2
    <2>2. s.rcvNxt = g.seq + 0 BY <1>2, <2>1
    <2>3. g.seq + 0 = g.seq BY <1>1
    <2> QED BY <1>2, <2>2, <2>3
<1>4. t.rcvNxt = p.sndNxt BY <1>1, <1>2, <1>3 DEF Finished
<1>5. Len(d) + t.rcvUser = v
    <2>1. Len(d) + s.rcvUser = s.rcvNxt - p.iss - 1 BY DEF Takes
    <2>2. s.rcvNxt - p.iss - 1 = v BY <1>1, <1>3
    <2> QED BY <2>1, <2>2
<1>6. t.rcvNxt - 1 = s.rcvNxt BY <1>1
<1>7. Buffered(s, Unread(s, s.rcvNxt)) BY DEF Takes, Buffered
<1>8. t.rxBuf = s.rxBuf => Buffered(t, Unread(t, t.rcvNxt - 1))
    BY <1>6, <1>7 DEF Buffered, Unread
<1> QED BY <1>2, <1>4, <1>5, <1>8 DEF TookAll

\* The FIN takes the connection to CLOSE_WAIT or CLOSING, or to TIME_WAIT.
LEMMA TakeFinStream ==
    ASSUME NEW s \in Socket, WindowFits(s), s.state \notin Over,
           NEW p \in Socket, NEW w \in Nat, SendsStream(s, w, p),
           NEW v \in Nat, NEW d \in Seq(Byte), Takes(s, p, v, d),
           NEW g \in Segment, s.irs = p.iss, Carries(p, v, s, g), FinReached(s, g),
           NEW t, \/ t = ChangeState(TakeFin(s), "CLOSE_WAIT")
                  \/ t = ChangeState(TakeFin(s), "CLOSING")
                  \/ t = TimeWait(TakeFin(s))
    PROVE  t \in Socket /\ Streams(t, w, p, v, d)
<1> DEFINE f == TakeFin(s)
<1>1. /\ f \in Socket /\ SameControl(s, f) /\ SameTx(s, f)
      /\ f.irs = s.irs /\ f.rcvNxt = s.rcvNxt + 1 /\ f.rcvUser = s.rcvUser
      /\ f.rxBuf = s.rxBuf
    BY TakeFinFields
<1> HIDE DEF f
<1>2. SendsStream(f, w, p) BY <1>1, SendsKept
<1>3. f.state \notin Over BY <1>1 DEF SameControl
<1>4. ASSUME NEW state \in States, state = "CLOSE_WAIT" \/ state = "CLOSING",
             t = ChangeState(f, state)
      PROVE  t \in Socket /\ Streams(t, w, p, v, d)
    <2>1. /\ t \in Socket /\ t.state = state /\ SameStreams(f, t)
          /\ SameBuffers(f, t)
        BY <1>1, <1>4, ChangeStateFields
    <2>2. state \notin Over BY <1>4 DEF Over
    <2>3. SendsStream(t, w, p) BY <1>1, <1>2, <1>3, <1>4, <2>1, <2>2, ChangeStateTx, SendsKept
    <2>4. TookAll(t, p, v, d)
        BY <1>1, <2>1, FinTakesAll DEF SameStreams, SameBuffers
    <2>5. ~Taking(t) /\ t.state # "SYN_SENT" BY <1>4, <2>1 DEF Taking
    <2> QED BY <2>1, <2>3, <2>4, <2>5 DEF Streams, TakesStream
<1>5. ASSUME t = TimeWait(f) PROVE t \in Socket /\ Streams(t, w, p, v, d)
    <2>1. /\ t \in Socket /\ t.state = "TIME_WAIT" /\ SameStreams(f, t)
          /\ t.rxBuf = NoRx
        BY <1>1, <1>5, TimeWaitFields
    <2>2. SendsStream(t, w, p) BY <1>1, <1>2, <1>5, <2>1, TimeWaitTx, SendsKept
    <2>3. t.state \in Over BY <2>1 DEF Over
    <2>4. TookAll(t, p, v, d)
        BY <1>1, <2>1, <2>3, FinTakesAll DEF SameStreams
    <2>5. ~Taking(t) /\ t.state # "SYN_SENT" BY <2>1 DEF Taking
    <2> QED BY <2>1, <2>2, <2>4, <2>5 DEF Streams, TakesStream
<1>6. "CLOSE_WAIT" \in States /\ "CLOSING" \in States BY DEF States
<1> QED BY <1>4, <1>5, <1>6 DEF f

-----------------------------------------------------------------------------
(* The reads of tcpReceive.                                                *)

LEMMA TakeBytesFields ==
    ASSUME NEW s \in Socket, WindowFits(s), NEW n \in 1 .. s.rcvUser
    PROVE  LET t == TakeBytes(s, n) IN
           /\ t \in Socket /\ SameControl(s, t) /\ SameTx(s, t)
           /\ t.irs = s.irs /\ t.rcvNxt = s.rcvNxt /\ t.rcvUser = s.rcvUser - n
           /\ t.ooo = s.ooo /\ t.rxBuf = s.rxBuf
<1> DEFINE m == s.rcvUser - n
           u == [s EXCEPT !.rcvUser = m]
           reduction == RxBufferSize - u.rcvUser - u.rcvWnd
           wnd == u.rcvWnd + reduction
           o == [u EXCEPT !.rcvWnd = wnd]
           t == TakeBytes(s, n)
           Same(x) == /\ x.iss = s.iss /\ x.sndNxt = s.sndNxt
                      /\ x.sndUna = s.sndUna /\ x.txBuf = s.txBuf
                      /\ x.rtxQ = s.rtxQ /\ x.state = s.state
                      /\ \A g \in x.sent : g \in s.sent \/ (Live(g) => Bare(g))
                      /\ x.irs = s.irs /\ x.rcvNxt = s.rcvNxt /\ x.rcvUser = m
                      /\ x.ooo = s.ooo /\ x.rxBuf = s.rxBuf
<1>1. t \in Socket /\ SameControl(s, t) BY TakeBytesType DEF Receives
<1>2. m \in Nat BY SocketNumbers
<1>3. t = UpdateReceiveWindow(u) BY DEF TakeBytes, Socket
<1> HIDE DEF t, m
<1>4. u \in Socket BY <1>2 DEF Socket
<1>5. Same(u) BY DEF Socket
<1> HIDE DEF u
<1>6. o = [u EXCEPT !.rcvWnd = @ + reduction] BY <1>4 DEF Socket
<1>7. t \in {u, o, SendAck(o)} BY <1>3, <1>6, Zenon DEF UpdateReceiveWindow
<1>8. wnd \in Int BY <1>4, SocketNumbers, RxBufferAssumption
<1> HIDE DEF reduction, wnd
<1>9. o \in Socket BY <1>4, <1>8 DEF Socket
<1>10. /\ o.iss = u.iss /\ o.sndNxt = u.sndNxt /\ o.sndUna = u.sndUna
       /\ o.txBuf = u.txBuf /\ o.rtxQ = u.rtxQ /\ o.state = u.state
       /\ o.sent = u.sent /\ o.irs = u.irs /\ o.rcvNxt = u.rcvNxt
       /\ o.rcvUser = u.rcvUser /\ o.ooo = u.ooo /\ o.rxBuf = u.rxBuf
    BY <1>4 DEF Socket
<1> HIDE DEF o
<1>11. Same(o) BY <1>5, <1>10
<1>12. /\ SendAck(o).txBuf = o.txBuf /\ SendAck(o).rtxQ = o.rtxQ
       /\ SendAck(o).sndUna = o.sndUna /\ SendAck(o).rxBuf = o.rxBuf
       /\ SendAck(o).state = o.state
    BY <1>9 DEF SendAck, SendSegment, Socket
<1>13. Calm(o, SendAck(o)) BY <1>9, SendAckCalm
<1>14. Same(SendAck(o)) BY <1>11, <1>12, <1>13 DEF Calm, SameTx, SameRx
<1>15. Same(t) BY <1>5, <1>7, <1>11, <1>14
<1>16. s.sndUna <= t.sndUna BY <1>15, SocketNumbers
<1>17. SameTx(s, t) BY <1>15, <1>16 DEF SameTx
<1> QED BY <1>1, <1>15, <1>17 DEF t, m

\* What is left to read starts after the bytes read before, and is there.
LEMMA ReadableStream ==
    ASSUME NEW s \in Socket, NEW p \in Socket, NEW v \in Nat, NEW d \in Seq(Byte),
           TakesStream(s, p, v, d), Readable(s),
           Taking(s) => s.irs = p.iss \/ s.rcvNxt = s.irs + 1, s.rcvUser > 0
    PROVE  /\ NextToRead(s) = s.irs + 1 + Len(d)
           /\ Len(d) + s.rcvUser <= v
           /\ \/ Buffered(s, Unread(s, s.irs + 1 + Len(d) + s.rcvUser))
              \/ s.state \in Over /\ s.rxBuf = NoRx
<1> DEFINE b == s.irs + 1 + Len(d) + s.rcvUser
<1>1. /\ s.rcvNxt \in Nat /\ s.rcvUser \in Nat /\ s.irs \in Nat
      /\ p.iss \in Nat /\ p.sndNxt \in Nat /\ Len(d) \in Nat
    BY SocketNumbers
<1>2. CASE Taking(s)
    <2>1. Takes(s, p, v, d) BY <1>2 DEF TakesStream
    <2>2. s.rcvNxt = b
        <3>1. Len(d) + s.rcvUser = s.rcvNxt - s.irs - 1 BY <2>1 DEF Takes
        <3> QED BY <1>1, <3>1
    <2>3. s.irs = p.iss
        <3>1. s.rcvNxt # s.irs + 1 BY <1>1, <2>2
        <3> QED BY <1>2, <3>1
    <2>4. s.rcvNxt <= p.iss + 1 + v BY <2>1, <2>3 DEF Takes
    <2>5. s.state \in {"ESTABLISHED", "FIN_WAIT_1", "FIN_WAIT_2"}
        BY <1>2 DEF Taking, Readable
    <2>6. NextToRead(s) = b - s.rcvUser BY <2>2, <2>5 DEF NextToRead
    <2>7. NextToRead(s) = s.irs + 1 + Len(d) BY <1>1, <2>6
    <2>8. Len(d) + s.rcvUser <= v BY <1>1, <2>2, <2>3, <2>4
    <2>9. Buffered(s, Unread(s, b)) BY <2>1, <2>2 DEF Takes, Buffered
    <2> QED BY <2>7, <2>8, <2>9
<1>3. CASE ~Taking(s)
    <2>1. FinTaken(s) /\ s.state \notin {"ESTABLISHED", "FIN_WAIT_1", "FIN_WAIT_2"}
        BY <1>3 DEF Taking, Readable, FinTaken
    <2>2. TookAll(s, p, v, d) BY <2>1 DEF TakesStream
    <2>3. s.rcvNxt = s.irs + 1 + v + 1 /\ Len(d) + s.rcvUser = v
        BY <2>2 DEF TookAll, Finished
    <2>4. s.rcvNxt - 1 = b BY <1>1, <2>3
    <2>5. NextToRead(s) = s.rcvNxt - 1 - s.rcvUser BY <2>1 DEF NextToRead
    <2>6. s.rcvNxt - 1 - s.rcvUser = b - s.rcvUser BY <2>4
    <2>7. NextToRead(s) = s.irs + 1 + Len(d) BY <1>1, <2>5, <2>6
    <2>8. Len(d) + s.rcvUser <= v BY <1>1, <2>3
    <2>9. Buffered(s, Unread(s, b)) \/ (s.state \in Over /\ s.rxBuf = NoRx)
        BY <2>2, <2>4 DEF TookAll
    <2> QED BY <2>7, <2>8, <2>9
<1> QED BY <1>2, <1>3

\* Read(e) or ReadLost(e) of the byte stream.
LEMMA BytesRead ==
    ASSUME NEW s \in Socket, NEW p \in Socket, NEW v \in Nat, NEW d \in Seq(Byte),
           TakesStream(s, p, v, d), Readable(s),
           Taking(s) => s.irs = p.iss \/ s.rcvNxt = s.irs + 1,
           NEW n \in 1 .. s.rcvUser
    PROVE  /\ n <= v - Len(d)
           /\ \/ ReadRxBuffer(s, n) = [i \in 1 .. n |-> Len(d) + i]
              \/ /\ s.state \in Over
                 /\ ReadRxBuffer(s, n) = [i \in 1 .. n |-> Lost]
<1>1. /\ s.rcvUser \in Nat /\ s.irs \in Nat /\ Len(d) \in Nat /\ n \in Nat
      /\ n >= 1 /\ n <= s.rcvUser /\ s.rcvUser > 0
    BY SocketNumbers
<1>2. /\ NextToRead(s) = s.irs + 1 + Len(d)
      /\ Len(d) + s.rcvUser <= v
      /\ \/ Buffered(s, Unread(s, s.irs + 1 + Len(d) + s.rcvUser))
         \/ s.state \in Over /\ s.rxBuf = NoRx
    BY <1>1, ReadableStream
<1>3. n <= v - Len(d) BY <1>1, <1>2
<1>4. ASSUME NEW i \in 1 .. n
      PROVE  LET q == (NextToRead(s) - s.irs - 1 + i - 1) % RxBufferSize IN
             /\ q \in 0 .. RxBufferSize - 1
             /\ \/ s.rxBuf[q] = Len(d) + i
                \/ s.state \in Over /\ s.rxBuf = NoRx
    <2> DEFINE m == s.irs + Len(d) + i
               b == s.irs + 1 + Len(d) + s.rcvUser
    <2>1. m \in Int /\ b - s.rcvUser <= m /\ m <= b - 1 BY SMTT(30), <1>1
    <2>2. b \in Int BY <1>1
    <2>3. m - s.irs = Len(d) + i BY <1>1
    <2>4. NextToRead(s) - s.irs - 1 + i - 1 = m - s.irs - 1 BY <1>1, <1>2
    <2> HIDE DEF m, b
    <2>5. m \in Unread(s, b) BY <1>1, <2>1, <2>2 DEF Unread
    <2>6. Buffered(s, Unread(s, b)) =>
             s.rxBuf[(m - s.irs - 1) % RxBufferSize] = m - s.irs
        BY <2>5 DEF Buffered
    <2>7. m - s.irs - 1 \in Int BY <1>1, <2>1
    <2>8. (m - s.irs - 1) % RxBufferSize \in 0 .. RxBufferSize - 1
        BY <2>7, RxBufferAssumption, RingOffset
    <2>9. Buffered(s, Unread(s, b)) \/ (s.state \in Over /\ s.rxBuf = NoRx)
        BY <1>2 DEF b
    <2> QED BY <2>3, <2>4, <2>6, <2>8, <2>9
<1>5. CASE s.state \in Over /\ s.rxBuf = NoRx
    BY <1>3, <1>4, <1>5 DEF ReadRxBuffer, NoRx
<1>6. CASE ~(s.state \in Over /\ s.rxBuf = NoRx)
    BY <1>3, <1>4, <1>6 DEF ReadRxBuffer
<1> QED BY <1>5, <1>6

LEMMA ReadStream ==
    ASSUME NEW s \in Socket, NEW p, NEW v, NEW d \in Seq(Byte),
           TakesStream(s, p, v, d), Readable(s), NEW r \in Seq(Byte),
           NEW t, SameControl(s, t), t.irs = s.irs, t.rcvNxt = s.rcvNxt,
           s.rcvUser \in Nat, t.rcvUser = s.rcvUser - Len(r), t.rxBuf = s.rxBuf,
           t.ooo = s.ooo
    PROVE  TakesStream(t, p, v, d \o r)
<1>1. /\ t.state = s.state /\ (Taking(t) <=> Taking(s))
      /\ (FinTaken(t) <=> FinTaken(s)) /\ t.state # "SYN_SENT"
    BY DEF SameControl, Taking, FinTaken, Readable
<1>2. /\ s.rcvNxt \in Nat /\ s.rcvUser \in Nat /\ Len(d) \in Nat /\ Len(r) \in Nat
      /\ Len(d \o r) = Len(d) + Len(r)
    BY SocketNumbers
<1>3. Len(d \o r) + t.rcvUser = Len(d) + s.rcvUser BY <1>2
<1>4. ASSUME NEW n \in Int PROVE Unread(t, n) \subseteq Unread(s, n)
    <2>1. s.rcvUser - Len(r) <= s.rcvUser BY <1>2
    <2> QED BY <1>2, <2>1 DEF Unread
<1>5. ASSUME Takes(s, p, v, d) PROVE Takes(t, p, v, d \o r)
    <2>1. Unread(t, t.rcvNxt) \subseteq Unread(s, s.rcvNxt) BY <1>2, <1>4
    <2>2. Buffered(t, Unread(t, t.rcvNxt) \cup t.ooo)
        BY <1>5, <2>1 DEF Takes, Buffered
    <2> QED BY <1>3, <1>5, <2>2 DEF Takes
<1>6. ASSUME TookAll(s, p, v, d) PROVE TookAll(t, p, v, d \o r)
    <2>1. Unread(t, t.rcvNxt - 1) \subseteq Unread(s, s.rcvNxt - 1) BY <1>2, <1>4
    <2>2. Buffered(s, Unread(s, s.rcvNxt - 1)) => Buffered(t, Unread(t, t.rcvNxt - 1))
        BY <2>1 DEF Buffered
    <2> QED BY <1>1, <1>3, <1>6, <2>2 DEF TookAll
<1> QED BY <1>1, <1>5, <1>6 DEF TakesStream

-----------------------------------------------------------------------------
(* The handlers of a segment of the peer.                                  *)

LEMMA CalmStreams ==
    ASSUME NEW s \in Socket, NEW w \in Nat, NEW p, NEW v, NEW d,
           Streams(s, w, p, v, d), NEW t, Calm(s, t)
    PROVE  t \in Socket /\ Streams(t, w, p, v, d)
BY SendsKept, TakesKept DEF Streams, Calm

\* Data or a FIN is what the peer sent.
Brings(s, p, v, g) ==
    g.data # << >> \/ "FIN" \in g.flags => s.irs = p.iss /\ Carries(p, v, s, g)

LEMMA FromPeer ==
    ASSUME StraysAreOld, NEW e \in Ends, NEW s, NEW p, NEW w, Core(e, s, p, w),
           NEW v, EndOK(Peer(e), p, s, v), SendsStream(p, v, s),
           NEW g \in Segment, g \in p.sent \cup Strays[e],
           Live(g), "ACK" \in g.flags, g.ack <= s.sndNxt, Harmless(s, p, View(s, g))
    PROVE  Brings(s, p, v, View(s, g))
<1> DEFINE u == View(s, g)
<1>1. s \in Socket /\ s.sndNxt \in Nat /\ s.iss \in Nat BY SocketNumbers DEF Core
<1>2. u.data = g.data /\ ("FIN" \in u.flags <=> "FIN" \in g.flags)
      /\ (u = g \/ "SYN" \in g.flags)
    BY <1>1, ViewFields
<1> HIDE DEF u
<1>3. SUFFICES ASSUME g.data # << >> \/ "FIN" \in g.flags
               PROVE  s.irs = p.iss /\ Carries(p, v, s, u)
    BY <1>2 DEF Brings, u
<1>4. g \in p.sent
    <2> SUFFICES ASSUME g \in Strays[e] PROVE FALSE OBVIOUS
    <2>1. g.ack > LastNumber(e) BY <1>3 DEF StraysAreOld, OldSegment
    <2>2. s.sndNxt <= LastNumber(e) BY BelowLast
    <2>3. g.ack \in Nat BY DEF Segment
    <2> QED BY <1>1, <2>1, <2>2, <2>3, LastNumberType
<1>5. SegmentOK(p, g) BY <1>4, SentSegment
<1>6. u = g BY <1>2, <1>3, <1>5 DEF SegmentOK
<1>7. s.irs = p.iss BY <1>2, <1>3 DEF Harmless, Right, u
<1>8. Carries(p, v, s, g) BY <1>4 DEF SendsStream
<1> QED BY <1>6, <1>7, <1>8

\* Data, and the FIN after it, in the states that take them.
LEMMA SegmentStream ==
    ASSUME NEW s, Good(s), NEW p \in Socket, NEW w \in Nat, NEW v \in Nat,
           NEW d \in Seq(Byte), Streams(s, w, p, v, d),
           \/ s.state = "ESTABLISHED" \/ s.state = "FIN_WAIT_1"
           \/ s.state = "FIN_WAIT_2",
           NEW g \in Segment, Brings(s, p, v, g)
    PROVE  LET a == ProcessSegmentData(s, g) IN
           /\ a \in Socket /\ Streams(a, w, p, v, d)
           /\ FinReached(a, g) =>
                 /\ Streams(ChangeState(TakeFin(a), "CLOSE_WAIT"), w, p, v, d)
                 /\ Streams(ChangeState(TakeFin(a), "CLOSING"), w, p, v, d)
                 /\ Streams(TimeWait(TakeFin(a)), w, p, v, d)
<1> DEFINE a == ProcessSegmentData(s, g)
<1>1. /\ s \in Socket /\ Taking(s) /\ s.state \notin Over /\ s.state # "SYN_SENT"
      /\ ~FinTaken(s)
    BY DEF Good, Taking, Over, FinTaken
<1>2. WindowFits(s) /\ GapsInside(s) BY DEF Good, Receiving
<1>3. Takes(s, p, v, d) BY <1>1 DEF Streams, TakesStream
<1>4. /\ a \in Socket /\ SameControl(s, a) /\ SameTx(s, a)
      /\ a.irs = s.irs /\ Takes(a, p, v, d)
    BY <1>1, <1>2, <1>3, DataStream DEF Brings
<1>5. g.data = << >> => a = s BY DEF ProcessSegmentData
<1> HIDE DEF a
<1>6. SendsStream(a, w, p) BY <1>1, <1>4, SendsKept DEF Streams
<1>7. a.state = s.state /\ ~FinTaken(a) /\ a.state # "SYN_SENT"
    BY <1>1, <1>4 DEF SameControl, FinTaken
<1>8. Streams(a, w, p, v, d) BY <1>4, <1>6, <1>7 DEF Streams, TakesStream
<1>9. ASSUME FinReached(a, g)
      PROVE  /\ Streams(ChangeState(TakeFin(a), "CLOSE_WAIT"), w, p, v, d)
             /\ Streams(ChangeState(TakeFin(a), "CLOSING"), w, p, v, d)
             /\ Streams(TimeWait(TakeFin(a)), w, p, v, d)
    <2>1. s.irs = p.iss /\ Carries(p, v, s, g) BY <1>9 DEF FinReached, Brings
    <2>2. a = s BY <1>5, <1>9, <2>1 DEF FinReached, Carries
    <2> QED BY <1>1, <1>2, <1>3, <1>6, <1>9, <2>1, <2>2, TakeFinStream
<1> QED BY <1>4, <1>8, <1>9 DEF a

LEMMA CheckAckStreams ==
    ASSUME NEW s, Good(s), NEW p \in Socket, NEW w \in Nat, NEW v \in Nat,
           NEW d \in Seq(Byte), Streams(s, w, p, v, d),
           NEW g \in Segment, Brings(s, p, v, g)
    PROVE  LET a == CheckAck(s, g) IN
           /\ Good(a) /\ a.type = s.type /\ a.state = s.state
           /\ Streams(a, w, p, v, d) /\ Brings(a, p, v, g)
<1> DEFINE a == CheckAck(s, g)
<1>1. s \in Socket BY DEF Good
<1>2. Good(a) /\ a.type = s.type /\ a.state = s.state BY CheckAckGood DEF Evolves
<1>3. Calm(s, a) BY <1>1, CheckAckCalm
<1> HIDE DEF a
<1>4. Streams(a, w, p, v, d) BY <1>1, <1>3, CalmStreams
<1>5. a.irs = s.irs /\ a.rcvNxt = s.rcvNxt BY <1>3 DEF Calm, SameRx
<1>6. Brings(a, p, v, g) BY <1>5 DEF Brings, Carries
<1> QED BY <1>2, <1>4, <1>6 DEF a

\* tcpNagleAlgo sends after the segment was taken.
LEMMA NagleStreams ==
    ASSUME NEW e, NEW s, NEW p, NEW w, Core(e, s, p, w), Phase(s, w),
           s.state = "ESTABLISHED" \/ s.state = "CLOSE_WAIT",
           NEW v, NEW d, Streams(s, w, p, v, d), NEW flag
    PROVE  /\ Streams(NagleAlgo(s, flag), w, p, v, d)
           /\ NagleAlgo(s, flag).state = s.state
<1>1. s.state \notin Over BY DEF Over
<1>2. s.sndNxt + s.sndUser = s.iss + 1 + w BY DEF Phase
<1> DEFINE t == NagleAlgo(s, flag)
<1>3. SendsStream(t, w, p) /\ SameRx(s, t) /\ SameControl(s, t)
    BY <1>1, <1>2, NagleStream DEF Streams
<1> HIDE DEF t
<1>4. TakesStream(t, p, v, d) BY <1>3, TakesKept DEF Streams
<1>5. t.state = s.state BY <1>3 DEF SameControl
<1> QED BY <1>3, <1>4, <1>5 DEF Streams, t

LEMMA EstablishedHandlerStreams ==
    ASSUME NEW e, NEW s, NEW p, NEW w, Core(e, s, p, w), Phase(s, w), Good(s),
           s.state = "ESTABLISHED", NEW g, Worthy(s, p, g),
           NEW v \in Nat, NEW d \in Seq(Byte), Streams(s, w, p, v, d),
           Brings(s, p, v, g)
    PROVE  /\ Streams(EstablishedHandler(s, g), w, p, v, d)
           /\ EstablishedHandler(s, g).state \notin Over
<1> DEFINE a == CheckAck(s, g)
           b == ProcessSegmentData(a, g)
           c == ChangeState(TakeFin(b), "CLOSE_WAIT")
           h == EstablishedTakes(s, g)
<1>1. h = IF FinReached(b, g) THEN c ELSE b BY DEF EstablishedTakes, AfterData
<1>2. EstablishedHandler(s, g) = NagleAlgo(h, "NONE")
    BY DEF EstablishedHandler, EstablishedTakes
<1>3. Core(e, h, p, w) /\ Phase(h, w) BY EstablishedTakesSettles DEF Settles
<1> HIDE DEF h
<1>4. p \in Socket /\ w \in Nat /\ g \in Segment BY DEF Core, Worthy
<1>5. /\ Good(a) /\ a.state = "ESTABLISHED" /\ a.type = s.type
      /\ Streams(a, w, p, v, d) /\ Brings(a, p, v, g)
    BY <1>4, CheckAckStreams
<1> HIDE DEF a
<1>6. /\ b \in Socket /\ Streams(b, w, p, v, d)
      /\ FinReached(b, g) => Streams(c, w, p, v, d)
    BY <1>4, <1>5, SegmentStream
<1>7. b.state = "ESTABLISHED"
    <2>1. a.type = "STREAM" /\ a.state \in Receiving \ {"SYN_SENT"}
        BY <1>5, GoodStream DEF Receiving
    <2> QED BY <1>4, <1>5, <2>1, AfterDataGood
<1>8. FinReached(b, g) => c.state = "CLOSE_WAIT"
    <2>1. WindowFits(b)
        <3>1. WindowFits(a) /\ GapsInside(a) /\ a \in Socket
            BY <1>5 DEF Good, Receiving
        <3> QED BY <1>4, <3>1, ProcessSegmentDataType
    <2>2. TakeFin(b) \in Socket BY <1>6, <2>1, TakeFinFields
    <2>3. "CLOSE_WAIT" \in States BY DEF States
    <2> QED BY <2>2, <2>3, ChangeStateFields
<1> HIDE DEF b, c
<1>9. Streams(h, w, p, v, d) /\ (h.state = "ESTABLISHED" \/ h.state = "CLOSE_WAIT")
    BY <1>1, <1>6, <1>7, <1>8
<1>10. /\ Streams(NagleAlgo(h, "NONE"), w, p, v, d)
       /\ NagleAlgo(h, "NONE").state = h.state
    BY <1>3, <1>9, NagleStreams
<1> QED BY <1>2, <1>9, <1>10 DEF Over

LEMMA CloseWaitHandlerStreams ==
    ASSUME NEW e, NEW s, NEW p, NEW w, Core(e, s, p, w), Phase(s, w), Good(s),
           s.state = "CLOSE_WAIT", NEW g, Worthy(s, p, g),
           NEW v \in Nat, NEW d \in Seq(Byte), Streams(s, w, p, v, d),
           Brings(s, p, v, g)
    PROVE  /\ Streams(CloseWaitHandler(s, g), w, p, v, d)
           /\ CloseWaitHandler(s, g).state \notin Over
<1> DEFINE a == CheckAck(s, g)
<1>1. p \in Socket /\ w \in Nat /\ g \in Segment BY DEF Core, Worthy
<1>2. a.state = "CLOSE_WAIT" /\ Streams(a, w, p, v, d) BY <1>1, CheckAckStreams
<1>3. Core(e, a, p, w) /\ Phase(a, w)
    BY <1>1, CheckAckSettles DEF Worthy, Settles
<1>4. CloseWaitHandler(s, g) = NagleAlgo(a, "NONE") BY DEF CloseWaitHandler
<1> HIDE DEF a
<1>5. /\ Streams(NagleAlgo(a, "NONE"), w, p, v, d)
      /\ NagleAlgo(a, "NONE").state = a.state
    BY <1>2, <1>3, NagleStreams
<1> QED BY <1>2, <1>4, <1>5 DEF Over

LEMMA FinWait1HandlerStreams ==
    ASSUME NEW s, Good(s), s.state = "FIN_WAIT_1", NEW p \in Socket, NEW w \in Nat,
           NEW g \in Segment, NEW v \in Nat, NEW d \in Seq(Byte),
           Streams(s, w, p, v, d), Brings(s, p, v, g)
    PROVE  Streams(FinWait1Handler(s, g), w, p, v, d)
<1> DEFINE a == CheckAck(s, g)
           acked == g.ack = a.sndNxt
           c == ChangeState(a, "FIN_WAIT_2")
           b == IF acked THEN c ELSE a
           t == ProcessSegmentData(b, g)
<1>1. /\ Good(a) /\ a.state = "FIN_WAIT_1" /\ a.type = s.type
      /\ Streams(a, w, p, v, d) /\ Brings(a, p, v, g)
    BY CheckAckStreams
<1>2. FinWait1Handler(s, g) = IF ~FinReached(t, g) THEN t
                              ELSE IF acked THEN TimeWait(TakeFin(t))
                              ELSE ChangeState(TakeFin(t), "CLOSING")
    BY DEF FinWait1Handler
<1> HIDE DEF a, acked
<1>3. /\ a \in Socket /\ a.type = "STREAM" /\ Taking(a) /\ a.state \in Receiving
      /\ "FIN_WAIT_2" \in States
    BY <1>1, GoodStream DEF Good, Taking, Receiving, States
<1>4. Calm(a, c) /\ c.state = "FIN_WAIT_2" BY <1>3, WaitsCalm, ChangeStateFields
<1>5. Good(c) BY <1>1, <1>3, ReceivingStateGood DEF Evolves
<1> HIDE DEF c
<1>6. Streams(c, w, p, v, d) BY <1>1, <1>3, <1>4, CalmStreams
<1>7. Brings(c, p, v, g) BY <1>1, <1>4 DEF Brings, Carries, Calm, SameRx
<1>8. /\ Good(b) /\ Streams(b, w, p, v, d) /\ Brings(b, p, v, g)
      /\ b.state = "FIN_WAIT_1" \/ b.state = "FIN_WAIT_2"
    BY <1>1, <1>4, <1>5, <1>6, <1>7
<1> HIDE DEF b
<1>9. /\ Streams(t, w, p, v, d)
      /\ FinReached(t, g) =>
            /\ Streams(ChangeState(TakeFin(t), "CLOSING"), w, p, v, d)
            /\ Streams(TimeWait(TakeFin(t)), w, p, v, d)
    BY <1>8, SegmentStream
<1> HIDE DEF t
<1> QED BY <1>2, <1>9

LEMMA FinWait2HandlerStreams ==
    ASSUME NEW s, Good(s), s.state = "FIN_WAIT_2", NEW p \in Socket, NEW w \in Nat,
           NEW g \in Segment, NEW v \in Nat, NEW d \in Seq(Byte),
           Streams(s, w, p, v, d), Brings(s, p, v, g)
    PROVE  Streams(FinWait2Handler(s, g), w, p, v, d)
<1> DEFINE a == CheckAck(s, g)
           t == ProcessSegmentData(a, g)
<1>1. /\ Good(a) /\ a.state = "FIN_WAIT_2"
      /\ Streams(a, w, p, v, d) /\ Brings(a, p, v, g)
    BY CheckAckStreams
<1>2. FinWait2Handler(s, g) = IF FinReached(t, g) THEN TimeWait(TakeFin(t)) ELSE t
    BY DEF FinWait2Handler, AfterData
<1> HIDE DEF a
<1>3. /\ Streams(t, w, p, v, d)
      /\ FinReached(t, g) => Streams(TimeWait(TakeFin(t)), w, p, v, d)
    BY <1>1, SegmentStream
<1> HIDE DEF t
<1> QED BY <1>2, <1>3

LEMMA ClosingHandlerStreams ==
    ASSUME NEW s, Good(s), s.state = "CLOSING", NEW p \in Socket, NEW w \in Nat,
           NEW g \in Segment, NEW v \in Nat, NEW d \in Seq(Byte),
           Streams(s, w, p, v, d), Brings(s, p, v, g)
    PROVE  Streams(ClosingHandler(s, g), w, p, v, d)
<1> DEFINE a == CheckAck(s, g)
<1>1. a.state = "CLOSING" /\ Good(a) /\ Streams(a, w, p, v, d)
    BY CheckAckStreams
<1>2. ClosingHandler(s, g) = IF g.ack = a.sndNxt THEN TimeWait(a) ELSE a
    BY DEF ClosingHandler
<1> HIDE DEF a
<1>3. a \in Socket BY <1>1 DEF Good
<1>4. Streams(TimeWait(a), w, p, v, d) BY <1>1, <1>3, TimeWaitCalm, CalmStreams
<1> QED BY <1>1, <1>2, <1>4

-----------------------------------------------------------------------------
(* The steps.  Each is a step of the byte stream, or changes nothing of it.*)

StreamNext == [Stream!Next]_(Stream!vars)

LEMMA PeerStream ==
    ASSUME NEW p \in Socket, NEW s \in Socket, NEW v \in Nat, NEW w \in Nat, NEW d,
           EndStream(p, s, v, w, d),
           NEW t \in Socket, NEW n \in Nat, Goes(s, w, t, n), s.rcvNxt <= t.rcvNxt
    PROVE  EndStream(p, t, v, n, d)
<1>1. /\ p.rcvNxt \in Nat /\ s.iss \in Nat /\ s.sndNxt \in Nat
      /\ t.iss = s.iss /\ w <= n
    BY SocketNumbers DEF Goes
<1>2. SendsStream(p, v, t)
    <2>1. ASSUME NEW g \in p.sent, Live(g) PROVE Carries(p, v, t, g)
        <3>1. Carries(p, v, s, g) /\ g \in Segment
            BY <2>1 DEF EndStream, SendsStream, Socket
        <3>2. Goes(p, v, p, v) BY DEF Goes
        <3> QED BY <3>1, <3>2, CarriesOn
    <2> QED BY <2>1 DEF EndStream, SendsStream, Holds, ItemFits
<1>3. Takes(p, s, w, d) => Takes(p, t, n, d)
    <2>1. s.iss + 1 + w <= s.iss + 1 + n BY <1>1
    <2>2. ASSUME p.rcvNxt <= s.iss + 1 + w PROVE p.rcvNxt <= t.iss + 1 + n
        BY <1>1, <2>2
    <2>3. ASSUME NEW m \in p.ooo, m < s.iss + 1 + w PROVE m < t.iss + 1 + n
        <3>1. m \in Nat BY SocketNumbers
        <3> QED BY <1>1, <2>3, <3>1
    <2> QED BY <1>1, <2>2, <2>3 DEF Takes
<1>4. TookAll(p, s, w, d) => TookAll(p, t, n, d)
    <2>1. ASSUME Finished(s, w) PROVE n = w /\ Finished(t, n) /\ t.sndNxt = s.sndNxt
        <3>1. n = w /\ Finished(t, n) BY <2>1 DEF Goes
        <3> QED BY <1>1, <2>1, <3>1 DEF Finished
    <2> QED BY <1>1, <2>1 DEF TookAll
<1> QED BY <1>2, <1>3, <1>4 DEF EndStream, TakesStream

\* One end moves.
LEMMA StreamStep ==
    ASSUME IInv, BInv, NEW e \in Ends, NEW t \in Socket, NEW n \in Nat, NEW d,
           Goes(sock[e], written[e], t, n), sock[e].rcvNxt <= t.rcvNxt,
           EndStream(t, sock[Peer(e)], n, written[Peer(e)], d),
           sock' = [sock EXCEPT ![e] = t],
           written' = [written EXCEPT ![e] = n],
           delivered' = [delivered EXCEPT ![e] = d]
    PROVE  BInv'
<1> DEFINE x == Peer(e)
<1>1. x \in Ends /\ x # e /\ Peer(x) = e /\ Ends = {e, x} BY PeerOfPeer
<1>2. /\ sock \in [Ends -> Socket] /\ written \in [Ends -> Nat]
      /\ delivered \in [Ends -> Seq(Byte)]
    BY DEF IInv, TypeOK
<1>3. /\ sock'[e] = t /\ sock'[x] = sock[x]
      /\ written'[e] = n /\ written'[x] = written[x]
      /\ delivered'[e] = d /\ delivered'[x] = delivered[x]
    BY <1>1, <1>2
<1>4. EndStream(sock[x], sock[e], written[x], written[e], delivered[x])
    BY <1>1 DEF BInv
<1>5. EndStream(sock[x], t, written[x], n, delivered[x])
    BY <1>1, <1>2, <1>4, PeerStream
<1>6. EndStream(sock'[e], sock'[Peer(e)], written'[e], written'[Peer(e)], delivered'[e])
    BY <1>3
<1>7. EndStream(sock'[x], sock'[Peer(x)], written'[x], written'[Peer(x)], delivered'[x])
    BY <1>1, <1>3, <1>5
<1> HIDE DEF x
<1>8. \A y \in Ends :
         EndStream(sock'[y], sock'[Peer(y)], written'[y], written'[Peer(y)],
                   delivered'[y])
    BY <1>1, <1>6, <1>7
<1> QED BY <1>8 DEF BInv

\* The users saw nothing: a connection ended or took its FIN, or neither.
LEMMA MoveRefines ==
    ASSUME IInv, NEW e \in Ends, NEW t,
           Goes(sock[e], written[e], t, written[e]),
           t.state \notin Over => sock[e].state \notin Over,
           Finished(t, written[e]) => Finished(sock[e], written[e]) \/ t.state \notin Over,
           Becomes(e, t)
    PROVE  StreamNext
<1> DEFINE fin == {x \in Ends : sock[x].sndNxt = sock[x].iss + 1 + written[x] + 1}
           over == {x \in Ends : sock[x].state \in {"CLOSED", "TIME_WAIT"}}
<1>1. /\ sock' = [sock EXCEPT ![e] = t] /\ UNCHANGED <<written, delivered, eos>>
      /\ sock \in [Ends -> Socket]
    BY DEF Becomes, app, IInv, TypeOK
<1>2. sock'[e] = t /\ \A x \in Ends : x # e => sock'[x] = sock[x] BY <1>1
<1>3. fin' = IF Finished(t, written[e]) THEN fin \cup {e} ELSE fin
    BY <1>1, <1>2 DEF Goes, Finished
<1>4. over' = IF t.state \in Over THEN over \cup {e} ELSE over
    BY <1>1, <1>2 DEF Over
<1>5. CASE fin' = fin /\ over' = over
    BY <1>1, <1>5 DEF StreamNext, Stream!vars
<1>6. CASE fin' = fin /\ over' = over \cup {e}
    BY <1>1, <1>6 DEF StreamNext, Stream!Next, Stream!Leave
<1>7. CASE fin' = fin \cup {e} /\ over' = over /\ t.state \notin Over
    <2>1. e \notin over BY <1>7 DEF Over
    <2> QED BY <1>1, <1>7, <2>1 DEF StreamNext, Stream!Next, Stream!Finish
<1>8. Finished(sock[e], written[e]) <=> e \in fin BY DEF Finished
<1>9. fin' = fin \/ (fin' = fin \cup {e} /\ t.state \notin Over)
    BY <1>3, <1>8
<1> QED BY <1>4, <1>5, <1>6, <1>7, <1>9

\* A step without reads and writes of the user.
LEMMA MoveStep ==
    ASSUME IInv, BInv, NEW e \in Ends, NEW t \in Socket,
           Goes(sock[e], written[e], t, written[e]), sock[e].rcvNxt <= t.rcvNxt,
           Unopened(t) => Unopened(sock[e]),
           Streams(t, written[e], sock[Peer(e)], written[Peer(e)], delivered[e]),
           t.state \notin Over => sock[e].state \notin Over,
           Finished(t, written[e]) => Finished(sock[e], written[e]) \/ t.state \notin Over,
           Becomes(e, t)
    PROVE  BInv' /\ StreamNext
<1> DEFINE n == written[e]
           d == delivered[e]
<1>1. EndStream(t, sock[Peer(e)], n, written[Peer(e)], d)
    BY DEF BInv, EndStream, Streams
<1>2. /\ sock' = [sock EXCEPT ![e] = t] /\ UNCHANGED <<written, delivered>>
      /\ written \in [Ends -> Nat] /\ delivered \in [Ends -> Seq(Byte)]
    BY DEF Becomes, app, IInv, TypeOK
<1>3. /\ written' = [written EXCEPT ![e] = n]
      /\ delivered' = [delivered EXCEPT ![e] = d]
      /\ n \in Nat
    BY <1>2
<1>4. Goes(sock[e], written[e], t, n) OBVIOUS
<1>5. StreamNext BY MoveRefines
<1> HIDE DEF n, d
<1>6. BInv' BY <1>1, <1>2, <1>3, <1>4, StreamStep
<1> QED BY <1>5, <1>6

\* The streams of an end, from the invariants.
LEMMA EndStreams ==
    ASSUME IInv, BInv, NEW e \in Ends
    PROVE  /\ Streams(sock[e], written[e], sock[Peer(e)], written[Peer(e)], delivered[e])
           /\ Unopened(sock[e]) => delivered[e] = << >>
           /\ sock[e] \in Socket /\ Good(sock[e]) /\ sock[Peer(e)] \in Socket
           /\ written[e] \in Nat /\ written[Peer(e)] \in Nat
           /\ delivered[e] \in Seq(Byte) /\ Peer(e) \in Ends
BY PeerInEnds DEF BInv, EndStream, Streams, IInv, TypeOK, Good

\* An end that was opened stays so.
LEMMA StaysOpen ==
    ASSUME IInv, AInv, AInv', NEW e \in Ends, NEW t, sock'[e] = t,
           t.sndNxt = sock[e].sndNxt
    PROVE  Unopened(t) => Unopened(sock[e])
<1> SUFFICES ASSUME Unopened(t), ~Unopened(sock[e]) PROVE FALSE OBVIOUS
<1>1. Core(e, sock[e], sock[Peer(e)], written[e]) BY OpenEnd
<1>2. sock[e].sndNxt > 0 BY <1>1, SocketNumbers DEF Core, Numbers
<1>3. t.sndNxt = 0 BY DEF AInv, EndOK, Blank
<1> QED BY <1>2, <1>3

LEMMA CalmStep ==
    ASSUME IInv, AInv, AInv', BInv, NEW e \in Ends, NEW t, Calm(sock[e], t), Becomes(e, t)
    PROVE  BInv' /\ StreamNext
<1> DEFINE s == sock[e]
<1>1. /\ t \in Socket /\ SameTx(s, t) /\ SameRx(s, t) BY DEF Calm
<1>2. /\ Streams(s, written[e], sock[Peer(e)], written[Peer(e)], delivered[e])
      /\ s \in Socket /\ written[e] \in Nat
    BY EndStreams
<1>3. Streams(t, written[e], sock[Peer(e)], written[Peer(e)], delivered[e])
    BY <1>2, CalmStreams
<1>4. /\ t.iss = s.iss /\ t.sndNxt = s.sndNxt /\ t.rcvNxt = s.rcvNxt
    BY <1>1 DEF SameTx, SameRx
<1>5. Goes(s, written[e], t, written[e]) BY <1>2, <1>4 DEF Goes, Finished
<1>6. s.rcvNxt <= t.rcvNxt BY <1>2, <1>4, SocketNumbers
<1>7. sock'[e] = t BY DEF Becomes, IInv, TypeOK
<1>8. Unopened(t) => Unopened(s) BY <1>4, <1>7, StaysOpen
<1>9. t.state \notin Over => s.state \notin Over BY <1>1 DEF SameRx
<1>10. Finished(t, written[e]) => Finished(s, written[e]) BY <1>4 DEF Finished
<1> QED BY <1>1, <1>3, <1>5, <1>6, <1>8, <1>9, <1>10, MoveStep

\* An end sends, and receives nothing.
LEMMA SendingStep ==
    ASSUME IInv, BInv, NEW e \in Ends, NEW t \in Socket,
           SendsStream(t, written[e], sock[Peer(e)]), SameRx(sock[e], t),
           SameControl(sock[e], t), Goes(sock[e], written[e], t, written[e]),
           Finished(t, written[e]) => Finished(sock[e], written[e]),
           Becomes(e, t)
    PROVE  BInv' /\ StreamNext
<1> DEFINE s == sock[e]
<1>1. /\ Streams(s, written[e], sock[Peer(e)], written[Peer(e)], delivered[e])
      /\ s \in Socket
    BY EndStreams
<1>2. TakesStream(t, sock[Peer(e)], written[Peer(e)], delivered[e])
    BY <1>1, TakesKept DEF Streams
<1>3. s.rcvNxt <= t.rcvNxt BY <1>1, SocketNumbers DEF SameRx
<1>4. t.state = s.state /\ (Unopened(t) <=> Unopened(s))
    BY DEF SameControl, Unopened
<1> QED BY <1>2, <1>3, <1>4, MoveStep DEF Streams

\* A handler took a segment.
LEMMA HandlerStep ==
    ASSUME IInv, BInv, NEW e \in Ends, NEW t,
           Core(e, sock[e], sock[Peer(e)], written[e]), ~Unopened(sock[e]), Heard(sock[e]),
           Settles(e, sock[e], sock[Peer(e)], written[e], t),
           Streams(t, written[e], sock[Peer(e)], written[Peer(e)], delivered[e]),
           sock[e].state \notin Over,
           Finished(sock[e], written[e]) \/ t.state \notin Over,
           Becomes(e, t)
    PROVE  BInv' /\ StreamNext
<1> DEFINE s == sock[e]
           w == written[e]
<1>1. /\ s \in Socket /\ w \in Nat /\ Core(e, t, sock[Peer(e)], w)
      /\ Advances(s, t) /\ t \in Socket
    BY DEF Settles, Core
<1>2. /\ s.iss \in Nat /\ s.sndNxt \in Nat /\ t.sndNxt \in Nat /\ t.sndUser \in Nat
      /\ t.iss = s.iss /\ t.sndNxt >= s.sndNxt
    BY <1>1, SocketNumbers DEF Advances
<1>3. t.sndNxt + t.sndUser <= t.iss + 1 + w + FinNumber(e)
    BY <1>1 DEF Core, Numbers
<1>4. FinNumber(e) = 0 \/ FinNumber(e) = 1 BY DEF FinNumber
<1>5. Finished(s, w) => Finished(t, w)
    <2> SUFFICES ASSUME s.sndNxt = s.iss + 1 + w + 1 PROVE t.sndNxt = t.iss + 1 + w + 1
        BY DEF Finished
    <2> QED BY <1>1, <1>2, <1>3, <1>4
<1>6. w <= w BY <1>1
<1>7. Goes(s, w, t, w) BY <1>2, <1>5, <1>6 DEF Goes
<1>8. s.rcvNxt <= t.rcvNxt BY <1>1, SocketNumbers DEF Advances
<1>9. ~Unopened(t) BY <1>1 DEF Advances
<1> QED BY <1>1, <1>7, <1>8, <1>9, MoveStep

\* The calm calls: a connection that is aborted.
LEMMA AbortStream ==
    ASSUME IInv, AInv, AInv', BInv, NEW e \in Ends, Abort(e)
    PROVE  BInv' /\ StreamNext
<1> DEFINE s == sock[e]
           reset == SendResetSegment(s, s.sndNxt)
           r == IF s.state = "SYN_SENT" THEN s ELSE reset
           c == ChangeState(r, "CLOSED")
           left == [s EXCEPT !.owned = FALSE]
           t == IF s.state = "TIME_WAIT" THEN left ELSE Freed(c)
<1>1. Becomes(e, t) BY DEF Abort, Freed
<1>2. s \in Socket BY EndStreams
<1>3. Calm(s, left)
    <2> DEFINE b == s.rtxTimer
               n == s.rtxCount
               m == s.probeCount
               u == [s EXCEPT !.rtxTimer = b, !.rtxCount = n, !.probeCount = m,
                              !.owned = FALSE]
    <2>1. left = u BY <1>2 DEF Socket
    <2>2. b \in BOOLEAN /\ n \in Nat /\ m \in Nat /\ FALSE \in BOOLEAN
        BY <1>2 DEF Socket
    <2> HIDE DEF b, n, m
    <2>3. Calm(s, u) BY <1>2, <2>2, TimersCalm
    <2> QED BY <2>1, <2>3
<1>4. Calm(s, reset) BY <1>2, SocketNumbers, SendResetSegmentCalm
<1>5. Calm(s, s) BY <1>2, CalmSelf
<1> HIDE DEF reset, left
<1>6. Calm(s, r) BY <1>4, <1>5
<1> HIDE DEF r
<1>7. r \in Socket /\ "CLOSED" \in States BY <1>6 DEF Calm, States
<1>8. Calm(r, c) /\ c.state = "CLOSED" BY <1>7, ClosedCalm, ChangeStateFields
<1> HIDE DEF c
<1>9. Calm(c, Freed(c)) BY <1>8, FreedCalm DEF Calm
<1>10. Calm(s, c) BY <1>2, <1>6, <1>8, CalmTransitive
<1>11. Calm(s, Freed(c)) BY <1>2, <1>9, <1>10, CalmTransitive
<1>12. Calm(s, t) BY <1>3, <1>11
<1> HIDE DEF t
<1> QED BY <1>1, <1>12, CalmStep

LEMMA ShutdownFlushStream ==
    ASSUME IInv, AInv, BInv, NEW e \in Ends, ShutdownFlush(e)
    PROVE  BInv' /\ StreamNext
<1> DEFINE s == sock[e]
           p == sock[Peer(e)]
           w == written[e]
           t == NagleAlgo(s, "NO_DELAY")
<1>1. /\ s.type = "STREAM" /\ s.sndUser > 0 /\ Becomes(e, t)
      /\ \/ s.state = "SYN_RECEIVED" \/ s.state = "ESTABLISHED"
         \/ s.state = "CLOSE_WAIT"
    BY DEF ShutdownFlush, Usable
<1>2. Core(e, s, p, w) /\ Phase(s, w) BY <1>1, OpenSocket
<1>3. s.sndNxt + s.sndUser = s.iss + 1 + w BY <1>1, <1>2 DEF Phase
<1>4. s.state \notin Over BY <1>1 DEF Over
<1>5. /\ t \in Socket /\ SendsStream(t, w, p) /\ SameRx(s, t)
      /\ SameControl(s, t) /\ ~Finished(s, w) /\ ~Finished(t, w)
    BY <1>2, <1>3, <1>4, EndStreams, NagleStream DEF Streams
<1>6. Goes(s, w, t, w)
    <2>1. t.iss = s.iss
        BY <1>2, NagleAlgoType DEF Core, Transmits, Onward
    <2>2. w <= w BY <1>2 DEF Core
    <2> QED BY <1>5, <2>1, <2>2 DEF Goes
<1> HIDE DEF t
<1> QED BY <1>1, <1>5, <1>6, SendingStep

LEMMA RetransmitStep ==
    ASSUME IInv, AInv, BInv, NEW e \in Ends, Retransmit(e)
    PROVE  BInv' /\ StreamNext
<1> DEFINE s == sock[e]
           p == sock[Peer(e)]
           w == written[e]
           r == RetransmitSegment(s)
           b == r.rtxTimer
           n == r.rtxCount + 1
           m == r.probeCount
           o == r.owned
           t == [r EXCEPT !.rtxTimer = b, !.rtxCount = n, !.probeCount = m,
                          !.owned = o]
           u == [r EXCEPT !.rtxCount = @ + 1]
<1>1. s.state # "CLOSED" /\ s.rtxQ # {} /\ Becomes(e, u)
    BY DEF Retransmit, RetransmitDue
<1>2. Core(e, s, p, w) /\ s \in Socket BY <1>1, OpenSocket
<1>3. Streams(s, w, p, written[Peer(e)], delivered[e]) /\ w \in Nat BY EndStreams
<1>4. /\ r \in Socket /\ SendsStream(r, w, p) /\ SameRx(s, r)
      /\ SameControl(s, r) /\ r.iss = s.iss /\ r.sndNxt = s.sndNxt
    BY <1>1, <1>2, <1>3, RetransmitStream DEF Streams
<1> HIDE DEF r
<1>5. u = t BY <1>4 DEF Socket
<1>6. b \in BOOLEAN /\ n \in Nat /\ m \in Nat /\ o \in BOOLEAN BY <1>4 DEF Socket
<1>7. SameControl(r, t) BY <1>4 DEF SameControl, Socket
<1> HIDE DEF b, n, m, o, u
<1>8. Calm(r, t) BY <1>4, <1>6, TimersCalm
<1> HIDE DEF t
<1>9. t \in Socket /\ SendsStream(t, w, p) BY <1>3, <1>4, <1>8, SendsKept DEF Calm
<1>10. SameControl(s, t) BY <1>4, <1>7 DEF SameControl
<1>11. SameRx(s, t) BY <1>4, <1>8 DEF Calm, SameRx
<1>12. t.iss = s.iss /\ t.sndNxt = s.sndNxt BY <1>4, <1>8 DEF Calm, SameTx
<1>13. w <= w BY <1>3
<1>14. Goes(s, w, t, w) BY <1>12, <1>13 DEF Goes, Finished
<1>15. Finished(t, w) => Finished(s, w) BY <1>12 DEF Finished
<1> QED BY <1>1, <1>5, <1>9, <1>10, <1>11, <1>14, <1>15, SendingStep

LEMMA OverrideStep ==
    ASSUME IInv, AInv, BInv, NEW e \in Ends, Override(e)
    PROVE  BInv' /\ StreamNext
<1> DEFINE s == sock[e]
           p == sock[Peer(e)]
           w == written[e]
           t == OverrideSend(s)
<1>1. /\ s.state = "ESTABLISHED" \/ s.state = "CLOSE_WAIT"
      /\ Becomes(e, t)
    BY DEF Override
<1>2. Core(e, s, p, w) /\ Phase(s, w) BY <1>1, OpenSocket
<1>3. s.sndNxt + s.sndUser = s.iss + 1 + w BY <1>1, <1>2 DEF Phase
<1>4. s.state \notin Over BY <1>1 DEF Over
<1>5. /\ t \in Socket /\ SendsStream(t, w, p) /\ SameRx(s, t)
      /\ SameControl(s, t) /\ ~Finished(s, w) /\ ~Finished(t, w)
    BY <1>2, <1>3, <1>4, EndStreams, OverrideStream DEF Streams
<1>6. Goes(s, w, t, w)
    <2>1. t.iss = s.iss
        BY <1>2, OverrideSendType DEF Core, Transmits, Onward
    <2>2. w <= w BY <1>2 DEF Core
    <2> QED BY <1>5, <2>1, <2>2 DEF Goes
<1> HIDE DEF t
<1> QED BY <1>1, <1>5, <1>6, SendingStep

LEMMA ClosedStreams ==
    ASSUME IInv, AInv, AInv', BInv, NEW e \in Ends, NEW r, Calm(sock[e], r),
           Becomes(e, ChangeState(r, "CLOSED"))
    PROVE  BInv' /\ StreamNext
<1> DEFINE t == ChangeState(r, "CLOSED")
<1>1. sock[e] \in Socket /\ r \in Socket BY EndStreams DEF Calm
<1>2. Calm(r, t) BY <1>1, ClosedCalm
<1>3. Calm(sock[e], t) BY <1>1, <1>2, CalmTransitive
<1>4. Becomes(e, t) OBVIOUS
<1> HIDE DEF t
<1> QED BY <1>3, <1>4, CalmStep

LEMMA GiveUpStreams ==
    ASSUME IInv, AInv, AInv', BInv, NEW e \in Ends, GiveUp(e)
    PROVE  BInv' /\ StreamNext
<1> DEFINE s == sock[e]
           r == SendResetSegment(s, s.sndNxt)
           b == FALSE
           n == r.rtxCount
           m == r.probeCount
           o == r.owned
           f == [r EXCEPT !.rtxTimer = b, !.rtxCount = n, !.probeCount = m,
                          !.owned = o]
           u == [r EXCEPT !.rtxTimer = FALSE]
<1>1. Becomes(e, ChangeState(u, "CLOSED")) BY DEF GiveUp
<1>2. s \in Socket BY EndStreams
<1>3. Calm(s, r) BY <1>2, SocketNumbers, SendResetSegmentCalm
<1> HIDE DEF r
<1>4. r \in Socket BY <1>3 DEF Calm
<1>5. u = f BY <1>4 DEF Socket
<1>6. b \in BOOLEAN /\ n \in Nat /\ m \in Nat /\ o \in BOOLEAN BY <1>4 DEF Socket
<1> HIDE DEF b, n, m, o, u
<1>7. Calm(r, f) BY <1>4, <1>6, TimersCalm
<1> HIDE DEF f
<1>8. Calm(s, u) BY <1>2, <1>3, <1>5, <1>7, CalmTransitive
<1> QED BY <1>1, <1>8, ClosedStreams

LEMMA ProbeStreams ==
    ASSUME IInv, AInv, AInv', BInv, NEW e \in Ends, Probe(e)
    PROVE  BInv' /\ StreamNext
<1> DEFINE s == sock[e]
           flags == {"ACK"}
           seq == s.sndUna - 1
           r == SendSegment(s, flags, seq, s.rcvNxt)
           b == r.rtxTimer
           n == r.rtxCount
           m == r.probeCount + 1
           o == r.owned
           t == [r EXCEPT !.rtxTimer = b, !.rtxCount = n, !.probeCount = m,
                          !.owned = o]
           u == [r EXCEPT !.probeCount = @ + 1]
<1>1. s.state # "CLOSED" /\ Becomes(e, u) BY DEF Probe, ProbeDue
<1>2. /\ s \in Socket /\ Core(e, s, sock[Peer(e)], written[e]) /\ s.iss >= 1
    BY <1>1, OpenSocket DEF Good, Numbered
<1>3. seq \in Nat /\ s.rcvNxt \in Nat
    BY <1>2, SocketNumbers DEF Core, Numbers
<1>4. flags \in SUBSET Flags /\ "FIN" \notin flags BY DEF Flags
<1> HIDE DEF flags, seq
<1>5. Calm(s, r) BY <1>2, <1>3, <1>4, SendSegmentCalm
<1> HIDE DEF r
<1>6. r \in Socket BY <1>5 DEF Calm
<1>7. u = t BY <1>6 DEF Socket
<1>8. b \in BOOLEAN /\ n \in Nat /\ m \in Nat /\ o \in BOOLEAN BY <1>6 DEF Socket
<1> HIDE DEF b, n, m, o, u
<1>9. Calm(r, t) BY <1>6, <1>8, TimersCalm
<1> HIDE DEF t
<1>10. Calm(s, t) BY <1>2, <1>5, <1>9, CalmTransitive
<1> QED BY <1>1, <1>7, <1>10, CalmStep DEF u, r, flags, seq

LEMMA TimeWaitTimeoutStreams ==
    ASSUME IInv, AInv, AInv', BInv, NEW e \in Ends, TimeWaitTimeout(e)
    PROVE  BInv' /\ StreamNext
<1> DEFINE s == sock[e]
           c == ChangeState(s, "CLOSED")
           t == IF c.owned THEN c ELSE Freed(c)
<1>1. Becomes(e, t) BY DEF TimeWaitTimeout, Freed
<1>2. s \in Socket /\ "CLOSED" \in States BY EndStreams DEF States
<1>3. Calm(s, c) /\ c.state = "CLOSED" BY <1>2, ClosedCalm, ChangeStateFields
<1> HIDE DEF c
<1>4. Calm(c, Freed(c)) BY <1>3, FreedCalm DEF Calm
<1>5. Calm(s, Freed(c)) BY <1>2, <1>3, <1>4, CalmTransitive
<1>6. Calm(s, t) BY <1>3, <1>5
<1> HIDE DEF t
<1> QED BY <1>1, <1>6, CalmStep

LEMMA TimerStreams ==
    ASSUME IInv, AInv, AInv', BInv, NEW e \in Ends, Timer(e)
    PROVE  BInv' /\ StreamNext
<1>1. sock[e] \in Socket /\ Calm(sock[e], sock[e]) BY EndStreams, CalmSelf
<1>2. CASE ProbeGiveUp(e)
    <2> DEFINE r == SendResetSegment(sock[e], sock[e].sndNxt)
    <2>1. Calm(sock[e], r) BY <1>1, SocketNumbers, SendResetSegmentCalm
    <2>2. Becomes(e, ChangeState(r, "CLOSED")) BY <1>2 DEF ProbeGiveUp
    <2> HIDE DEF r
    <2> QED BY <2>1, <2>2, ClosedStreams
<1>3. CASE FinWait2Timeout(e) BY <1>1, <1>3, ClosedStreams DEF FinWait2Timeout
<1> QED BY <1>2, <1>3, RetransmitStep, GiveUpStreams, ProbeStreams, OverrideStep,
           TimeWaitTimeoutStreams DEF Timer

-----------------------------------------------------------------------------
(* What the network delivers.                                              *)

\* The connection goes on as it was.
LEMMA StillStreams ==
    ASSUME BInv, UNCHANGED <<sock, written, delivered>>
    PROVE  BInv'
BY DEF BInv

LEMMA StutterRefines ==
    ASSUME UNCHANGED <<sock, app>>
    PROVE  StreamNext
BY DEF StreamNext, Stream!vars, app

\* Segments that bring nothing.
LEMMA CalmNetwork ==
    ASSUME IInv, AInv, AInv', BInv, NEW e \in Ends, NEW g \in Segment,
           \/ Reject(e, g) \/ SynSentBadAck(e, g) \/ SynSentReset(e, g)
           \/ SynReceivedDuplicateSyn(e, g) \/ SynReceivedBadAck(e, g)
           \/ Unacceptable(e, g) \/ ResetByPeer(e, g) \/ UnexpectedSyn(e, g)
           \/ AckOfUnsent(e, g) \/ LastAckSegment(e, g) \/ TimeWaitSegment(e, g)
    PROVE  BInv' /\ StreamNext
<1> DEFINE s == sock[e]
           n == View(s, g).seq + Len(g.data) + 1
           synAck == {"SYN", "ACK"}
           rstAck == {"RST", "ACK"}
           o == SendSegment(s, synAck, s.iss, s.rcvNxt)
           q == SendSegment(s, rstAck, 0, n)
           r == SendResetSegment(s, g.ack)
           a == SendAck(s)
           c == ChangeState(s, "CLOSED")
           j == RejectSegment(s, g)
<1>1. s \in Socket BY EndStreams
<1>2. g.ack \in Nat /\ Len(g.data) \in Nat /\ n \in Nat
    BY <1>1, ViewType DEF Segment
<1>3. /\ synAck \in SUBSET Flags /\ "FIN" \notin synAck
      /\ rstAck \in SUBSET Flags /\ "FIN" \notin rstAck
    BY DEF Flags
<1>4. s.iss \in Nat /\ s.rcvNxt \in Nat /\ 0 \in Nat BY <1>1, SocketNumbers
<1> HIDE DEF synAck, rstAck, n
<1>5. Calm(s, o) BY <1>1, <1>3, <1>4, SendSegmentCalm
<1>6. Calm(s, q) BY <1>1, <1>2, <1>3, <1>4, SendSegmentCalm
<1>7. Calm(s, r) BY <1>1, <1>2, SendResetSegmentCalm
<1>8. Calm(s, a) BY <1>1, SendAckCalm
<1>9. Calm(s, c) BY <1>1, ClosedCalm
<1>10. Calm(s, j) BY <1>1, RejectSegmentCalm
<1>11. Calm(s, s) BY <1>1, CalmSelf
<1>12. \/ Becomes(e, o) \/ Becomes(e, q) \/ Becomes(e, r) \/ Becomes(e, a)
       \/ Becomes(e, c) \/ Becomes(e, j) \/ Becomes(e, s)
    BY DEF Reject, SynSentBadAck, SynSentReset, SynReceivedDuplicateSyn,
           SynReceivedBadAck, Unacceptable, ResetByPeer, UnexpectedSyn,
           AckOfUnsent, LastAckSegment, TimeWaitSegment, synAck, rstAck, n
<1> HIDE DEF o, q, r, a, c, j
<1> QED BY <1>5, <1>6, <1>7, <1>8, <1>9, <1>10, <1>11, <1>12, CalmStep

\* Nothing was received but the SYN of the peer.
LEMMA EmptyTakes ==
    ASSUME NEW s \in Socket, NEW p \in Socket, NEW v \in Nat,
           s.rcvNxt = s.irs + 1, s.rcvUser = 0, s.ooo = {}
    PROVE  Takes(s, p, v, << >>)
<1>1. s.irs \in Nat /\ s.rcvNxt \in Nat /\ p.iss \in Nat BY SocketNumbers
<1>2. Len(<< >>) + s.rcvUser = s.rcvNxt - s.irs - 1 BY <1>1
<1>3. Unread(s, s.rcvNxt) \cup s.ooo = {} BY <1>1 DEF Unread
<1>4. Buffered(s, Unread(s, s.rcvNxt) \cup s.ooo) BY <1>3 DEF Buffered
<1>5. s.irs = p.iss => s.rcvNxt <= p.iss + 1 + v BY <1>1
<1> QED BY <1>2, <1>4, <1>5 DEF Takes

\* The connection learns where the stream of its peer starts.
LEMMA SynTakenStreams ==
    ASSUME IInv, AInv, BInv, NEW e \in Ends, sock[e].state = "SYN_SENT",
           NEW g \in Segment, NEW una \in Nat, sock[e].sndUna <= una,
           NEW a, Calm(SynTaken(sock[e], g, una), a),
           SameControl(SynTaken(sock[e], g, una), a),
           NEW state, state = "ESTABLISHED" \/ state = "SYN_RECEIVED",
           Becomes(e, ChangeState(a, state))
    PROVE  BInv' /\ StreamNext
<1> DEFINE s == sock[e]
           p == sock[Peer(e)]
           w == written[e]
           v == written[Peer(e)]
           d == delivered[e]
           o == SynTaken(s, g, una)
           t == ChangeState(a, state)
<1>1. /\ Streams(s, w, p, v, d) /\ s \in Socket /\ p \in Socket /\ Good(s)
      /\ w \in Nat /\ v \in Nat
    BY EndStreams
<1>2. /\ Phase(s, w) /\ Core(e, s, p, w) /\ s.type = "STREAM"
    BY OpenSocket, GoodStream
<1>3. s.iss >= 1 /\ s.iss <= s.sndUna BY <1>1, <1>2 DEF Good, Numbered, Core, Numbers
<1>4. una >= 1 BY <1>1, <1>3, SocketNumbers
<1>5. s.rcvNxt = 0 /\ s.sndNxt = s.iss + 1 /\ w = 0 BY <1>2 DEF Phase
<1>6. d = << >> /\ s.rcvUser = 0 BY <1>1 DEF Streams, TakesStream
<1>7. /\ o \in Socket /\ o.state = "SYN_SENT" /\ o.ooo = {} /\ o.type = "STREAM"
      /\ o.rcvNxt = g.seq + 1 /\ o.iss = s.iss
    BY <1>1, <1>4, SynTakenGood
<1>8. /\ o.irs = g.seq /\ o.sndNxt = s.sndNxt /\ o.sndUna = una
      /\ o.rcvUser = s.rcvUser /\ o.txBuf = s.txBuf /\ o.rtxQ = s.rtxQ
      /\ o.sent = s.sent
    BY <1>1 DEF SynTaken, Socket
<1> HIDE DEF o
<1>9. SameTx(s, o) BY <1>7, <1>8 DEF SameTx, Over
<1>10. SendsStream(o, w, p) BY <1>1, <1>7, <1>9, SendsKept DEF Streams
<1>11. /\ a \in Socket /\ SameTx(o, a) /\ SameRx(o, a) BY DEF Calm, o
<1>12. a.state = "SYN_SENT" /\ a.type = "STREAM" BY <1>7 DEF SameControl, o
<1>13. SendsStream(a, w, p) BY <1>1, <1>7, <1>10, <1>11, SendsKept
<1>14. state \in States /\ state \notin Over /\ a.state \notin Over
    BY <1>12 DEF States, Over
<1>15. SameTx(a, t) BY <1>11, <1>14, ChangeStateTx
<1>16. /\ t \in Socket /\ t.state = state /\ t.type = "STREAM" /\ SameStreams(a, t)
    BY <1>11, <1>12, <1>14, ChangeStateFields
<1> HIDE DEF t
<1>17. SendsStream(t, w, p) BY <1>1, <1>11, <1>13, <1>15, <1>16, SendsKept
<1>18. /\ t.rcvNxt = t.irs + 1 /\ t.rcvUser = 0 /\ t.ooo = {}
       /\ t.iss = s.iss /\ t.sndNxt = s.sndNxt
    BY <1>6, <1>7, <1>8, <1>11, <1>16 DEF SameStreams, SameRx, SameTx
<1>19. Takes(t, p, v, d) BY <1>1, <1>6, <1>16, <1>18, EmptyTakes
<1>20. TakesStream(t, p, v, d)
    BY <1>16, <1>19 DEF TakesStream, FinTaken
<1>21. s.rcvNxt <= t.rcvNxt BY <1>5, <1>16, SocketNumbers
<1>22. ~Finished(s, w) /\ ~Finished(t, w)
    <2>1. s.iss \in Nat /\ w \in Nat BY <1>1, SocketNumbers
    <2>2. s.iss + 1 # s.iss + 1 + 0 + 1 BY <2>1
    <2> QED BY <1>5, <1>18, <2>2 DEF Finished
<1>23. w <= w BY <1>1
<1>24. Goes(s, w, t, w) BY <1>18, <1>22, <1>23 DEF Goes
<1>25. ~Unopened(t) BY <1>16 DEF Unopened
<1>26. s.state \notin Over BY DEF Over
<1>27. Becomes(e, t) BY DEF t
<1> QED BY <1>16, <1>17, <1>20, <1>21, <1>22, <1>24, <1>25, <1>26, <1>27, MoveStep
        DEF Streams

LEMMA NewWindowCalm ==
    ASSUME NEW s \in Socket, NEW g \in Segment
    PROVE  LET t == [s EXCEPT !.sndWnd = g.wnd, !.sndWl1 = g.seq,
                              !.sndWl2 = g.ack, !.maxSndWnd = g.wnd] IN
           t \in Socket /\ Calm(s, t) /\ SameControl(s, t)
<1> DEFINE t == [s EXCEPT !.sndWnd = g.wnd, !.sndWl1 = g.seq,
                          !.sndWl2 = g.ack, !.maxSndWnd = g.wnd]
<1>1. g.ack \in Nat /\ g.seq \in Int /\ g.wnd \in Int BY DEF Segment
<1>2. Transmits(s, t) /\ Quiet(s, t) /\ SameControl(s, t) /\ t \in Socket
    BY <1>1, NewWindow, NewWindowQuiet
<1>3. SameBuffers(s, t) BY DEF SameBuffers, Socket
<1> HIDE DEF t
<1>4. Calm(s, t) BY <1>2, <1>3, QuietCalm
<1> QED BY <1>2, <1>4 DEF t

LEMMA SynSentSynAckStreams ==
    ASSUME IInv, AInv, BInv, NEW e \in Ends, NEW g \in Segment, SynSentSynAck(e, g)
    PROVE  BInv' /\ StreamNext
<1> DEFINE s == sock[e]
           o == SynTaken(s, g, g.ack)
           u == UpdateRetransmitQueue(o)
           w == [u EXCEPT !.sndWnd = g.wnd, !.sndWl1 = g.seq,
                          !.sndWl2 = g.ack, !.maxSndWnd = g.wnd]
           a == SendAck(w)
<1>1. /\ s.state = "SYN_SENT" /\ g.ack = s.sndNxt
      /\ Becomes(e, ChangeState(a, "ESTABLISHED"))
    BY DEF SynSentSynAck, SynTaken
<1>2. /\ s \in Socket /\ Good(s) /\ s.sndUna <= s.sndNxt /\ s.iss >= 1
      /\ s.iss <= s.sndUna
    BY <1>1, OpenSocket DEF Core, Numbers, Good, Numbered
<1>3. g.ack \in Nat /\ g.ack >= 1 /\ s.sndUna <= g.ack
    BY <1>1, <1>2, SocketNumbers
<1>4. o \in Socket BY <1>1, <1>2, <1>3, SynTakenGood
<1> HIDE DEF o
<1>5. Calm(o, u) /\ SameControl(o, u)
    BY <1>4, UpdateRetransmitQueueCalm, UpdateRetransmitQueueType DEF Transmits
<1> HIDE DEF u
<1>6. u \in Socket BY <1>5 DEF Calm
<1>7. Calm(u, w) /\ SameControl(u, w) /\ w \in Socket BY <1>6, NewWindowCalm
<1> HIDE DEF w
<1>8. Calm(w, a) /\ SameControl(w, a)
    BY <1>7, SendAckCalm, SendAckType DEF Transmits
<1> HIDE DEF a
<1>9. Calm(o, w) BY <1>4, <1>5, <1>7, CalmTransitive
<1>10. Calm(o, a) BY <1>4, <1>8, <1>9, CalmTransitive
<1>11. SameControl(o, a) BY <1>5, <1>7, <1>8 DEF SameControl
<1> QED BY <1>1, <1>3, <1>10, <1>11, SynTakenStreams DEF o

LEMMA SynSentSynStreams ==
    ASSUME IInv, AInv, BInv, NEW e \in Ends, NEW g \in Segment, SynSentSyn(e, g)
    PROVE  BInv' /\ StreamNext
<1> DEFINE s == sock[e]
           una == s.sndUna
           flags == {"SYN", "ACK"}
           o == SynTaken(s, g, una)
           u == UpdateRetransmitQueue(o)
           a == QueueControl(u, flags, u.iss)
<1>1. /\ s.state = "SYN_SENT" BY DEF SynSentSyn
<1>2. /\ s \in Socket /\ Good(s) /\ s.iss >= 1 /\ s.iss <= s.sndUna
    BY <1>1, OpenSocket DEF Core, Numbers, Good, Numbered
<1>3. una \in Nat /\ una >= 1 /\ s.sndUna <= una
    BY <1>1, <1>2, SocketNumbers
<1>4. Becomes(e, ChangeState(a, "SYN_RECEIVED"))
    <2>1. o = [s EXCEPT !.irs = g.seq, !.rcvNxt = g.seq + 1]
        BY <1>2 DEF Socket, SynTaken
    <2> QED BY <2>1 DEF SynSentSyn
<1> HIDE DEF una
<1>5. o \in Socket /\ o.state = "SYN_SENT" BY <1>1, <1>2, <1>3, SynTakenGood
<1> HIDE DEF o
<1>6. Calm(o, u) /\ SameControl(o, u)
    BY <1>5, UpdateRetransmitQueueCalm, UpdateRetransmitQueueType DEF Transmits
<1> HIDE DEF u
<1>7. u \in Socket /\ u.state = "SYN_SENT" BY <1>5, <1>6 DEF Calm, SameControl
<1>8. u.iss \in Nat /\ flags \in SUBSET Flags /\ "FIN" \notin flags
    BY <1>7, SocketNumbers DEF Flags
<1> HIDE DEF flags
<1>9. Calm(u, a) /\ SameControl(u, a)
    BY <1>7, <1>8, QueueControlCalm, QueueControlType DEF Transmits
<1> HIDE DEF a
<1>10. Calm(o, a) BY <1>5, <1>6, <1>9, CalmTransitive
<1>11. SameControl(o, a) BY <1>6, <1>9 DEF SameControl
<1>12. Becomes(e, ChangeState(a, "SYN_RECEIVED")) BY <1>4
<1> QED BY <1>1, <1>3, <1>10, <1>11, <1>12, SynTakenStreams DEF o

\* What a segment that passes the tests brings to an end.
LEMMA TakenBrings ==
    ASSUME StraysAreOld, IInv, AInv, BInv, NEW e \in Ends, NEW g \in Segment,
           g \in Incoming(e), sock[e].state # "CLOSED",
           Passes(sock[e], View(sock[e], g)), g.ack <= sock[e].sndNxt,
           Harmless(sock[e], sock[Peer(e)], View(sock[e], g))
    PROVE  Brings(sock[e], sock[Peer(e)], written[Peer(e)], View(sock[e], g))
<1> DEFINE s == sock[e]
           p == sock[Peer(e)]
           v == written[Peer(e)]
           u == View(s, g)
<1>1. Core(e, s, p, written[e]) /\ s \in Socket BY OpenSocket
<1>2. EndOK(Peer(e), p, s, v) BY PeerEnd
<1>3. SendsStream(p, v, s)
    <2> DEFINE x == Peer(e)
    <2>1. x \in Ends /\ Peer(x) = e BY PeerOfPeer
    <2>2. SendsStream(sock[x], written[x], sock[Peer(x)])
        BY <2>1 DEF BInv, EndStream
    <2> QED BY <2>1, <2>2
<1>4. "ACK" \in u.flags /\ "RST" \notin u.flags BY DEF Passes
<1>5. "ACK" \in g.flags /\ Live(g) BY <1>1, <1>4, ViewFields DEF Live
<1>6. g \in p.sent \cup Strays[e] BY DEF Incoming
<1> HIDE DEF v
<1>7. Brings(s, p, v, u) BY <1>1, <1>2, <1>3, <1>5, <1>6, FromPeer
<1> QED BY <1>7 DEF v

\* The handlers of the states after the handshake.
LEMMA TakenStreams ==
    ASSUME StraysAreOld, IInv, AInv, BInv, NEW e \in Ends, NEW g \in Segment,
           g \in Incoming(e),
           \/ EstablishedSegment(e, g) \/ CloseWaitSegment(e, g)
           \/ FinWait1Segment(e, g) \/ FinWait2Segment(e, g)
           \/ ClosingSegment(e, g)
    PROVE  BInv' /\ StreamNext
<1> DEFINE s == sock[e]
           p == sock[Peer(e)]
           w == written[e]
           v == written[Peer(e)]
           d == delivered[e]
<1>1. /\ \/ s.state = "ESTABLISHED" \/ s.state = "CLOSE_WAIT"
         \/ s.state = "FIN_WAIT_1" \/ s.state = "FIN_WAIT_2"
         \/ s.state = "CLOSING"
      /\ Passes(s, g) /\ g.ack <= s.sndNxt
    BY DEF EstablishedSegment, CloseWaitSegment, FinWait1Segment, FinWait2Segment,
           ClosingSegment, Taken
<1>2. /\ Core(e, s, p, w) /\ Phase(s, w) /\ Heard(s) /\ ~Unopened(s) /\ Good(s)
      /\ s.state \notin Over
    BY <1>1, OpenSocket DEF Over
<1>3. Worthy(s, p, g) BY <1>1, TakenWorthy
<1>4. View(s, g) = g BY <1>1 DEF View
<1>5. Brings(s, p, v, g) BY <1>1, <1>3, <1>4, TakenBrings DEF Worthy
<1>6. /\ Streams(s, w, p, v, d) /\ p \in Socket /\ w \in Nat /\ v \in Nat
      /\ d \in Seq(Byte)
    BY EndStreams
<1>7. s.state \in Finishing => Finished(s, w)
    <2>1. s.iss \in Nat BY <1>2, SocketNumbers DEF Core
    <2>2. s.iss + w + 2 = s.iss + 1 + w + 1 BY <1>6, <2>1
    <2> QED BY <1>2, <2>2 DEF Phase, Finished
<1> HIDE DEF v, d
<1>8. CASE EstablishedSegment(e, g)
    <2> DEFINE t == EstablishedHandler(s, g)
    <2>1. s.state = "ESTABLISHED" /\ Becomes(e, t)
        BY <1>8 DEF EstablishedSegment, Taken
    <2>2. Streams(t, w, p, v, d) /\ t.state \notin Over
        BY <1>2, <1>3, <1>5, <1>6, <2>1, EstablishedHandlerStreams
    <2>3. Settles(e, s, p, w, t) BY <1>2, <1>3, <2>1, EstablishedHandlerSettles
    <2> HIDE DEF t
    <2> QED BY <1>2, <2>1, <2>2, <2>3, HandlerStep DEF v, d
<1>9. CASE CloseWaitSegment(e, g)
    <2> DEFINE t == CloseWaitHandler(s, g)
    <2>1. s.state = "CLOSE_WAIT" /\ Becomes(e, t)
        BY <1>9 DEF CloseWaitSegment, Taken
    <2>2. Streams(t, w, p, v, d) /\ t.state \notin Over
        BY <1>2, <1>3, <1>5, <1>6, <2>1, CloseWaitHandlerStreams
    <2>3. Settles(e, s, p, w, t) BY <1>2, <1>3, <2>1, CloseWaitHandlerSettles
    <2> HIDE DEF t
    <2> QED BY <1>2, <2>1, <2>2, <2>3, HandlerStep DEF v, d
<1>10. CASE FinWait1Segment(e, g)
    <2> DEFINE t == FinWait1Handler(s, g)
    <2>1. s.state = "FIN_WAIT_1" /\ Becomes(e, t)
        BY <1>10 DEF FinWait1Segment, Taken
    <2>2. Streams(t, w, p, v, d)
        BY <1>2, <1>5, <1>6, <2>1, FinWait1HandlerStreams
    <2>3. Settles(e, s, p, w, t) BY <1>2, <1>3, <2>1, FinWait1HandlerSettles
    <2>4. Finished(s, w) BY <1>7, <2>1 DEF Finishing
    <2> HIDE DEF t
    <2> QED BY <1>2, <2>1, <2>2, <2>3, <2>4, HandlerStep DEF v, d
<1>11. CASE FinWait2Segment(e, g)
    <2> DEFINE t == FinWait2Handler(s, g)
    <2>1. s.state = "FIN_WAIT_2" /\ Becomes(e, t)
        BY <1>11 DEF FinWait2Segment, Taken
    <2>2. Streams(t, w, p, v, d)
        BY <1>2, <1>5, <1>6, <2>1, FinWait2HandlerStreams
    <2>3. Settles(e, s, p, w, t) BY <1>2, <1>3, <2>1, FinWait2HandlerSettles
    <2>4. Finished(s, w) BY <1>7, <2>1 DEF Finishing
    <2> HIDE DEF t
    <2> QED BY <1>2, <2>1, <2>2, <2>3, <2>4, HandlerStep DEF v, d
<1>12. CASE ClosingSegment(e, g)
    <2> DEFINE t == ClosingHandler(s, g)
    <2>1. s.state = "CLOSING" /\ Becomes(e, t)
        BY <1>12 DEF ClosingSegment, Taken
    <2>2. Streams(t, w, p, v, d)
        BY <1>2, <1>5, <1>6, <2>1, ClosingHandlerStreams
    <2>3. Settles(e, s, p, w, t) BY <1>2, <1>3, <2>1, ClosingHandlerSettles
    <2>4. Finished(s, w) BY <1>7, <2>1 DEF Finishing
    <2> HIDE DEF t
    <2> QED BY <1>2, <2>1, <2>2, <2>3, <2>4, HandlerStep DEF v, d
<1> QED BY <1>8, <1>9, <1>10, <1>11, <1>12

\* The acknowledgment of the SYN/ACK opens the connection, and the segment that
\* carries it may bring data or the FIN.
LEMMA SynReceivedAckStreams ==
    ASSUME StraysAreOld, IInv, AInv, BInv, NEW e \in Ends, NEW g \in Segment,
           g \in Incoming(e), SynReceivedAck(e, g)
    PROVE  BInv' /\ StreamNext
<1> DEFINE s == sock[e]
           p == sock[Peer(e)]
           w == written[e]
           x == written[Peer(e)]
           d == delivered[e]
           v == View(s, g)
           o == [s EXCEPT !.sndWnd = g.wnd, !.sndWl1 = g.seq,
                          !.sndWl2 = g.ack, !.maxSndWnd = g.wnd]
           c == ChangeState(o, "ESTABLISHED")
           t == EstablishedHandler(c, v)
<1>1. /\ s.state = "SYN_RECEIVED" /\ Becomes(e, t)
      /\ Passes(s, v) /\ g.ack = s.sndNxt
    BY DEF SynReceivedAck
<1>2. /\ ~Unopened(s) /\ s \in Socket /\ Good(s)
      /\ Core(e, s, p, w) /\ Phase(s, w) /\ s.rcvNxt > 0 /\ Heard(s)
    BY <1>1, OpenSocket
<1>3. v \in Segment /\ v.ack = g.ack BY <1>2, ViewType, ViewFields
<1>4. g.ack <= s.sndNxt /\ g.ack \in Nat BY <1>1, <1>2, SocketNumbers
<1>5. Harmless(s, p, v)
    <2>1. WindowFits(s) BY <1>2 DEF Good
    <2>2. g \in p.sent \cup Strays[e] BY DEF Incoming
    <2> QED BY <1>1, <1>2, <1>4, <2>1, <2>2, PeerEnd, PassesHarmless
<1>6. Brings(s, p, x, v) BY <1>1, <1>4, <1>5, TakenBrings
<1> HIDE DEF v
<1>7. /\ Streams(s, w, p, x, d) /\ p \in Socket /\ w \in Nat /\ x \in Nat
      /\ d \in Seq(Byte)
    BY EndStreams
<1> HIDE DEF x, d
<1>8. /\ o \in Socket /\ Calm(s, o) /\ SameControl(s, o) BY <1>2, NewWindowCalm
<1>9. Quiet(s, o) /\ Transmits(s, o)
    <2>1. g.seq \in Int /\ g.wnd \in Int BY DEF Segment
    <2> QED BY <1>2, <1>4, <2>1, NewWindowQuiet, NewWindow
<1> HIDE DEF o
<1>10. /\ Taking(o) /\ o.state = "SYN_RECEIVED"
    BY <1>1, <1>8 DEF Taking, SameControl
<1>11. Calm(o, c)
    <2> DEFINE state == "ESTABLISHED"
    <2>1. state \in {"ESTABLISHED", "FIN_WAIT_1", "FIN_WAIT_2"} OBVIOUS
    <2> HIDE DEF state
    <2>2. Calm(o, ChangeState(o, state)) BY <1>8, <1>10, <2>1, WaitsCalm
    <2> QED BY <2>2 DEF state
<1>12. Calm(s, c) BY <1>2, <1>8, <1>11, CalmTransitive
<1>13. Streams(c, w, p, x, d) BY <1>2, <1>7, <1>12, CalmStreams
<1>14. Core(e, o, p, w) /\ Advances(s, o)
    BY <1>2, <1>8, <1>9, QuietCore DEF SameControl, Unopened
<1>15. o.sndNxt + o.sndUser = o.iss + 1 + w
    <2>1. o.sndNxt = o.iss + 1 /\ o.sndUser = 0 /\ w = 0
        BY <1>1, <1>2, <1>9 DEF Phase, Quiet, SameNumbers
    <2> QED BY <1>8, <2>1, SocketNumbers
<1>16. "ESTABLISHED" \in States /\ "ESTABLISHED" \notin Finishing
    BY DEF States, Finishing
<1>17. Settles(e, s, p, w, c) BY <1>2, <1>14, <1>15, <1>16, EntersCore
<1>18. SameNumbers(o, c) /\ c.state = "ESTABLISHED"
    BY <1>14, <1>16, ChangeStateCore
<1>19. Good(c)
    <2>1. Good(o) /\ o.type = "STREAM"
        BY <1>2, <1>9, <1>10, TransmitsGood, GoodStream DEF Evolves
    <2>2. o.state \in Receiving BY <1>10 DEF Receiving
    <2> QED BY <1>16, <2>1, <2>2, ReceivingStateGood DEF Evolves
<1> HIDE DEF c
<1>20. SameNumbers(s, c) BY <1>9, <1>18 DEF Quiet, SameNumbers
<1>21. Worthy(c, p, v)
    <2>1. Harmless(c, p, v)
        BY <1>5, <1>20 DEF Harmless, SameNumbers, Right, Heard
    <2>2. v.ack <= c.sndNxt BY <1>3, <1>4, <1>20 DEF SameNumbers
    <2> QED BY <1>3, <2>1, <2>2 DEF Worthy
<1>22. Brings(c, p, x, v) BY <1>6, <1>20 DEF Brings, SameNumbers, Carries
<1>23. Settles(e, c, p, w, t)
    BY <1>17, <1>18, <1>19, <1>21, EstablishedHandlerSettles DEF Settles
<1>24. Streams(t, w, p, x, d) /\ t.state \notin Over
    BY <1>7, <1>13, <1>17, <1>18, <1>19, <1>21, <1>22, EstablishedHandlerStreams
    DEF Settles
<1> HIDE DEF t
<1>25. Advances(s, t) BY <1>2, <1>17, <1>23, AdvancesTransitive DEF Settles
<1>26. Settles(e, s, p, w, t) BY <1>23, <1>25 DEF Settles
<1>27. s.state \notin Over BY <1>1 DEF Over
<1> QED BY <1>1, <1>2, <1>24, <1>26, <1>27, HandlerStep DEF x, d

LEMMA NetworkStreams ==
    ASSUME StraysAreOld, IInv, AInv, AInv', BInv, NEW e \in Ends,
           NEW g \in Incoming(e), Network(e, g)
    PROVE  BInv' /\ StreamNext
<1>1. g \in Segment BY IncomingType
<1>2. CASE ListenSyn(e, g)
    <2>1. UNCHANGED <<sock, app>> BY <1>2 DEF ListenSyn
    <2> QED BY <2>1, StillStreams, StutterRefines DEF app
<1> QED BY <1>1, <1>2, CalmNetwork, SynSentSynAckStreams, SynSentSynStreams,
           SynReceivedAckStreams, TakenStreams DEF Network

-----------------------------------------------------------------------------
(* The calls that start a connection.                                      *)

\* Nothing but SYNs and resets was ever sent.
Fresh(s) == /\ s \in Socket /\ s.sndUna = s.iss
            /\ \A g \in s.sent : Live(g) => Bare(g)
            /\ \A i \in s.rtxQ : BareItem(i)

LEMMA FreshSends ==
    ASSUME NEW s, Fresh(s), s.state # "TIME_WAIT", NEW p
    PROVE  SendsStream(s, 0, p)
<1>1. \A g \in s.sent : Live(g) => Carries(s, 0, p, g)
    BY DEF Fresh, Bare, Carries
<1>2. \A i \in s.rtxQ : ItemFits(s, 0, i) BY DEF Fresh, BareItem, ItemFits
<1>3. s.iss \in Nat BY SocketNumbers DEF Fresh
<1>4. s.iss + 0 + 1 - s.sndUna <= TxBufferSize
    BY <1>3, TxBufferAssumption DEF Fresh
<1>5. Holds(s, 0) BY <1>2, <1>4 DEF Holds
<1> QED BY <1>1, <1>5 DEF SendsStream

LEMMA FreshQueue ==
    ASSUME NEW s, Fresh(s), NEW flags \in SUBSET Flags, "FIN" \notin flags,
           NEW seq \in Nat
    PROVE  LET t == QueueControl(s, flags, seq) IN
           /\ Fresh(t) /\ SameNumbers(s, t) /\ SameControl(s, t)
           /\ t.rcvUser = s.rcvUser
<1> DEFINE i == [seq |-> seq, len |-> 0, flags |-> flags]
           t == QueueSegments(s, {i})
           g == SegmentOf(s, i)
<1>1. QueueControl(s, flags, seq) = t /\ s \in Socket BY DEF QueueControl, Fresh
<1>2. /\ t \in Socket /\ SameControl(s, t)
    BY <1>1, QueueControlType DEF Transmits
<1>3. /\ SameNumbers(s, t) /\ t.rtxQ = s.rtxQ \cup {i}
      /\ t.sent = s.sent \cup {SegmentOf(s, x) : x \in {i}}
    BY <1>1, QueueSegmentsFields
<1>4. t.rcvUser = s.rcvUser BY <1>1, QueueSegmentsBuffers
<1>5. ReadTxBuffer(s, seq, 0) = << >> BY <1>1, ReadTxBufferIs
<1>6. Bare(g) BY <1>5 DEF Bare, SegmentOf
<1>7. BareItem(i) BY DEF BareItem
<1>8. t.sent = s.sent \cup {g} BY <1>3
<1> HIDE DEF t, i, g
<1>9. Fresh(t) BY <1>2, <1>3, <1>6, <1>7, <1>8 DEF Fresh, SameNumbers
<1> QED BY <1>1, <1>2, <1>3, <1>4, <1>9

LEMMA FreshState ==
    ASSUME NEW s, Fresh(s), NEW state \in States
    PROVE  LET t == ChangeState(s, state) IN
           /\ Fresh(t) /\ t.state = state /\ t.type = s.type
           /\ SameStreams(s, t)
BY ChangeStateFields DEF Fresh, SameStreams

LEMMA OpenedFresh ==
    ASSUME NEW e, NEW s, Good(s), Unopened(s), Blank(e, s, 0),
           NEW irs \in Nat, NEW nxt \in Nat
    PROVE  LET t == Opened(s, irs, nxt) IN
           /\ Fresh(t) /\ t.type = "STREAM" /\ t.iss = s.iss
           /\ t.sndNxt = s.iss + 1 /\ t.irs = irs /\ t.rcvNxt = nxt
           /\ t.rcvUser = 0 /\ t.ooo = {}
<1> DEFINE t == Opened(s, irs, nxt)
           n == s.iss + 1
           b == RxBufferSize
           c == 0
           u == [s EXCEPT !.type = "STREAM", !.owned = TRUE, !.irs = irs,
                          !.sndUna = s.iss, !.sndNxt = n,
                          !.rcvNxt = nxt, !.rcvUser = c, !.rcvWnd = b]
<1>1. s \in Socket BY DEF Good
<1>2. /\ t \in Socket /\ t.type = "STREAM" /\ t.ooo = {} BY OpenedGood
<1>3. t = u BY DEF Opened
<1>4. n = s.iss + 1 /\ c = 0 OBVIOUS
<1> HIDE DEF t, n, b, c
<1>5. /\ u.iss = s.iss /\ u.irs = irs /\ u.sndUna = s.iss /\ u.sndNxt = n
      /\ u.rcvNxt = nxt /\ u.rcvUser = c /\ u.rtxQ = s.rtxQ /\ u.sent = s.sent
    BY <1>1 DEF Socket
<1> HIDE DEF u
<1>6. Fresh(t) BY <1>2, <1>3, <1>5 DEF Fresh, Blank
<1> QED BY <1>2, <1>3, <1>4, <1>5, <1>6 DEF t

LEMMA BeginStep ==
    ASSUME IInv, AInv, BInv, NEW e \in Ends, Unopened(sock[e]),
           NEW t, Fresh(t), t.type = "STREAM", t.iss = sock[e].iss,
           t.sndNxt = t.iss + 1, t.rcvUser = 0, t.ooo = {},
           \/ t.state = "SYN_SENT"
           \/ t.state = "SYN_RECEIVED" /\ t.rcvNxt = t.irs + 1,
           sock' = [sock EXCEPT ![e] = t], UNCHANGED app
    PROVE  BInv' /\ StreamNext
<1> DEFINE s == sock[e]
           p == sock[Peer(e)]
           v == written[Peer(e)]
           d == delivered[e]
           fin == {x \in Ends : sock[x].sndNxt = sock[x].iss + 1 + written[x] + 1}
           over == {x \in Ends : sock[x].state \in {"CLOSED", "TIME_WAIT"}}
<1>1. Blank(e, s, 0) /\ written[e] = 0 BY DEF AInv, EndOK, Blank
<1>2. /\ s \in Socket /\ p \in Socket /\ v \in Nat /\ d = << >> /\ t \in Socket
      /\ 0 \in Nat
    BY EndStreams DEF Fresh
<1>3. /\ s.rcvNxt = 0 /\ s.sndNxt = 0 /\ s.iss \in Nat /\ t.rcvNxt \in Nat
    BY <1>1, <1>2, SocketNumbers DEF Blank
<1>4. ~Finished(s, 0) /\ ~Finished(t, 0)
    <2>1. 0 # s.iss + 1 + 0 + 1 /\ s.iss + 1 # s.iss + 1 + 0 + 1 BY <1>3
    <2> QED BY <1>3, <2>1 DEF Finished
<1>5. Goes(s, 0, t, 0) BY <1>4 DEF Goes
<1>6. s.rcvNxt <= t.rcvNxt BY <1>3
<1>7. SendsStream(t, 0, p) BY FreshSends
<1>8. TakesStream(t, p, v, d)
    <2>1. Taking(t) => Takes(t, p, v, d)
        <3> SUFFICES ASSUME Taking(t) PROVE Takes(t, p, v, d) OBVIOUS
        <3>1. t.rcvNxt = t.irs + 1 BY DEF Taking
        <3> QED BY <1>2, <3>1, EmptyTakes
    <2>2. ~FinTaken(t) BY DEF FinTaken
    <2> QED BY <1>2, <2>1, <2>2 DEF TakesStream
<1>9. EndStream(t, p, 0, v, d) BY <1>2, <1>7, <1>8 DEF EndStream
<1>10. /\ written' = [written EXCEPT ![e] = 0]
       /\ delivered' = [delivered EXCEPT ![e] = d]
    BY <1>1 DEF app, IInv, TypeOK
<1>11. UNCHANGED <<written, delivered, eos>> /\ sock \in [Ends -> Socket]
    BY DEF app, IInv, TypeOK
<1>12. sock'[e] = t /\ \A x \in Ends : x # e => sock'[x] = sock[x] BY <1>11
<1>13. fin' = fin BY <1>1, <1>4, <1>11, <1>12 DEF Finished
<1>14. over' = over \ {e} BY <1>12
<1>15. StreamNext
    BY <1>1, <1>2, <1>11, <1>13, <1>14 DEF StreamNext, Stream!Next, Stream!Begin
<1> HIDE DEF d, v
<1>16. BInv' BY <1>1, <1>2, <1>5, <1>6, <1>9, <1>10, StreamStep DEF v
<1> QED BY <1>15, <1>16

LEMMA ConnectStreams ==
    ASSUME IInv, AInv, BInv, NEW e \in Ends, Connect(e)
    PROVE  BInv' /\ StreamNext
<1> DEFINE s == sock[e]
           n == 0
           o == Opened(s, n, n)
           flags == {"SYN"}
           q == QueueControl(o, flags, s.iss)
           t == ChangeState(q, "SYN_SENT")
<1>1. Good(s) /\ Unopened(s) /\ s \in Socket /\ Becomes(e, t)
    BY DEF Connect, IInv, Good
<1>2. Blank(e, s, 0) BY <1>1 DEF AInv, EndOK, Blank
<1>3. n \in Nat OBVIOUS
<1>4. Becomes(e, t) BY <1>1
<1> HIDE DEF n
<1>5. /\ Fresh(o) /\ o.type = "STREAM" /\ o.iss = s.iss
      /\ o.sndNxt = s.iss + 1 /\ o.rcvUser = 0 /\ o.ooo = {}
    BY <1>1, <1>2, <1>3, OpenedFresh
<1> HIDE DEF o
<1>6. flags \in SUBSET Flags /\ "FIN" \notin flags /\ s.iss \in Nat
    BY <1>1, SocketNumbers DEF Flags
<1> HIDE DEF flags
<1>7. /\ Fresh(q) /\ SameNumbers(o, q) /\ SameControl(o, q)
      /\ q.rcvUser = o.rcvUser
    BY <1>5, <1>6, FreshQueue
<1> HIDE DEF q
<1>8. "SYN_SENT" \in States BY DEF States
<1>9. /\ Fresh(t) /\ t.state = "SYN_SENT" /\ t.type = q.type /\ SameStreams(q, t)
    BY <1>7, <1>8, FreshState
<1> HIDE DEF t
<1>10. /\ t.type = "STREAM" /\ t.iss = s.iss /\ t.sndNxt = t.iss + 1
       /\ t.rcvUser = 0 /\ t.ooo = {}
    BY <1>5, <1>7, <1>9 DEF SameNumbers, SameControl, SameStreams
<1> QED BY <1>1, <1>4, <1>9, <1>10, BeginStep DEF Becomes

LEMMA AcceptStreams ==
    ASSUME IInv, AInv, BInv, NEW e \in Ends, Accept(e)
    PROVE  BInv' /\ StreamNext
<1>1. PICK isn \in synQueue[e] :
        LET s == ChangeState(Opened(sock[e], isn, isn + 1), "SYN_RECEIVED") IN
        /\ Unopened(sock[e])
        /\ sock' = [sock EXCEPT ![e] = QueueControl(s, {"SYN", "ACK"}, s.iss)]
        /\ UNCHANGED app
    BY DEF Accept
<1> DEFINE s == sock[e]
           n == isn + 1
           o == Opened(s, isn, n)
           c == ChangeState(o, "SYN_RECEIVED")
           flags == {"SYN", "ACK"}
           t == QueueControl(c, flags, c.iss)
<1>2. Good(s) /\ Unopened(s) /\ s \in Socket BY <1>1 DEF IInv, Good
<1>3. Blank(e, s, 0) BY <1>2 DEF AInv, EndOK, Blank
<1>4. isn \in Nat /\ n \in Nat /\ n = isn + 1 BY DEF IInv, TypeOK
<1>5. sock' = [sock EXCEPT ![e] = t] BY <1>1
<1> HIDE DEF n
<1>6. /\ Fresh(o) /\ o.type = "STREAM" /\ o.iss = s.iss
      /\ o.sndNxt = s.iss + 1 /\ o.irs = isn /\ o.rcvNxt = n
      /\ o.rcvUser = 0 /\ o.ooo = {}
    BY <1>2, <1>3, <1>4, OpenedFresh
<1> HIDE DEF o
<1>7. "SYN_RECEIVED" \in States BY DEF States
<1>8. /\ Fresh(c) /\ c.state = "SYN_RECEIVED" /\ c.type = o.type /\ SameStreams(o, c)
    BY <1>6, <1>7, FreshState
<1> HIDE DEF c
<1>9. flags \in SUBSET Flags /\ "FIN" \notin flags /\ c.iss \in Nat
    BY <1>8, SocketNumbers DEF Flags, Fresh
<1> HIDE DEF flags
<1>10. /\ Fresh(t) /\ SameNumbers(c, t) /\ SameControl(c, t)
       /\ t.rcvUser = c.rcvUser
    BY <1>8, <1>9, FreshQueue
<1> HIDE DEF t
<1>11. /\ t.type = "STREAM" /\ t.iss = s.iss /\ t.sndNxt = t.iss + 1
       /\ t.rcvUser = 0 /\ t.ooo = {} /\ t.state = "SYN_RECEIVED"
       /\ t.rcvNxt = t.irs + 1
    BY <1>4, <1>6, <1>8, <1>10 DEF SameNumbers, SameControl, SameStreams
<1> QED BY <1>1, <1>2, <1>5, <1>10, <1>11, BeginStep

-----------------------------------------------------------------------------
(* The calls that write and read.                                          *)

LEMMA SendStreams ==
    ASSUME IInv, AInv, BInv, NEW e \in Ends, Send(e)
    PROVE  BInv' /\ StreamNext
<1> DEFINE s == sock[e]
           p == sock[Peer(e)]
           w == written[e]
           v == written[Peer(e)]
           d == delivered[e]
<1>1. PICK n \in 0 .. (WriteLimit[e] - written[e]),
           flag \in {"NONE", "NO_DELAY", "DELAY"} :
        LET data == [i \in 1 .. n |-> written[e] + i] IN
        /\ Usable(sock[e]) /\ sock[e].state \in {"ESTABLISHED", "CLOSE_WAIT"}
        /\ n <= TxRoom(sock[e])
        /\ sock' = [sock EXCEPT ![e] = NagleAlgo(WriteTxBuffer(sock[e], data), flag)]
        /\ written' = [written EXCEPT ![e] = @ + n]
        /\ UNCHANGED <<listener, delivered, eos>>
    BY DEF Send
<1> DEFINE data == [i \in 1 .. n |-> w + i]
           b == WriteTxBuffer(s, data)
           t == NagleAlgo(b, flag)
           x == w + n
           fin == {y \in Ends : sock[y].sndNxt = sock[y].iss + 1 + written[y] + 1}
           over == {y \in Ends : sock[y].state \in {"CLOSED", "TIME_WAIT"}}
<1>2. /\ written \in [Ends -> Nat] /\ WriteLimit \in [Ends -> Nat]
      /\ sock \in [Ends -> Socket] /\ delivered \in [Ends -> Seq(Byte)]
    BY WriteAssumption DEF IInv, TypeOK
<1>3. /\ Good(s) /\ s \in Socket /\ p \in Socket /\ v \in Nat
      /\ Streams(s, w, p, v, d)
    BY EndStreams
<1>4. /\ n \in Nat /\ w \in Nat /\ x \in Nat /\ x <= WriteLimit[e] /\ w <= x
      /\ n > 0 => w < x
    BY <1>2
<1>5. data \in Seq(Byte) /\ Len(data) = n /\ \A i \in 1 .. n : data[i] = w + i
    <2>1. data \in [1 .. n -> Byte] BY <1>4 DEF Byte
    <2>2. \A i \in 1 .. n : data[i] = w + i OBVIOUS
    <2> HIDE DEF data
    <2> QED BY <1>4, <2>1, <2>2
<1>6. ~Unopened(s) /\ s.type = "STREAM" BY <1>1, <1>3, NotClosedIsOpen DEF Usable
<1>7. Core(e, s, p, w) /\ Phase(s, w) BY <1>6, OpenEnd
<1>8. s.state = "ESTABLISHED" \/ s.state = "CLOSE_WAIT" BY <1>1
<1>9. s.sndNxt + s.sndUser = s.iss + 1 + w BY <1>7, <1>8 DEF Phase
<1>10. s.state \notin Over BY <1>8 DEF Over
<1>11. sock' = [sock EXCEPT ![e] = t] BY <1>1
<1>12. n <= TxRoom(s) BY <1>1
<1> HIDE DEF data
<1>13. /\ b \in Socket /\ SendsStream(b, x, p) /\ SameRx(s, b) /\ SameControl(s, b)
    BY <1>3, <1>4, <1>5, <1>7, <1>9, <1>10, <1>12, WriteStream DEF Streams
<1>14. /\ Core(e, b, p, x) /\ b.sndUser = s.sndUser + n /\ b.sndNxt = s.sndNxt
       /\ b.iss = s.iss
    BY <1>4, <1>5, <1>7, WriteTxBufferCore
<1> HIDE DEF b
<1>15. /\ s.sndNxt \in Nat /\ s.sndUser \in Nat /\ s.iss \in Nat
    BY <1>3, SocketNumbers
<1>16. b.sndNxt + b.sndUser = b.iss + 1 + x BY <1>4, <1>9, <1>14, <1>15
<1>17. b.state \notin Over BY <1>10, <1>13 DEF SameControl
<1>18. /\ t \in Socket /\ SendsStream(t, x, p) /\ SameRx(b, t) /\ SameControl(b, t)
       /\ ~Finished(t, x)
    BY <1>13, <1>14, <1>16, <1>17, NagleStream
<1>19. t.iss = s.iss
    BY <1>13, <1>14, NagleAlgoType DEF Transmits, Onward
<1> HIDE DEF t
<1>20. ~Finished(s, w)
    <2> SUFFICES ASSUME s.sndNxt = s.iss + 1 + w + 1 PROVE FALSE BY DEF Finished
    <2> QED BY <1>4, <1>9, <1>15
<1>21. Goes(s, w, t, x) BY <1>4, <1>19, <1>20 DEF Goes
<1>22. TakesStream(t, p, v, d) BY <1>3, <1>13, <1>18, TakesKept DEF Streams
<1>23. s.rcvNxt <= t.rcvNxt
    BY <1>3, <1>13, <1>18, SocketNumbers DEF SameRx
<1>24. t.state = s.state /\ t.type = "STREAM"
    BY <1>6, <1>13, <1>18 DEF SameControl
<1>25. EndStream(t, p, x, v, d)
    BY <1>18, <1>22, <1>24 DEF EndStream, Unopened
<1>26. /\ written' = [written EXCEPT ![e] = x]
       /\ delivered' = [delivered EXCEPT ![e] = d]
       /\ UNCHANGED <<delivered, eos>>
    BY <1>1, <1>2
<1>27. /\ sock'[e] = t /\ \A y \in Ends : y # e => sock'[y] = sock[y]
       /\ written'[e] = x /\ \A y \in Ends : y # e => written'[y] = written[y]
    BY <1>2, <1>11, <1>26
<1>28. fin' = fin /\ e \notin fin
    BY <1>18, <1>20, <1>27 DEF Finished
<1>29. over' = over /\ e \notin over BY <1>10, <1>24, <1>27 DEF Over
<1>30. StreamNext
    <2>1. CASE n = 0
        <3>1. written' = written BY <1>2, <1>4, <1>26, <2>1
        <3> QED BY <1>26, <1>28, <1>29, <3>1 DEF StreamNext, Stream!vars
    <2>2. CASE n > 0
        <3>1. /\ written'[e] > written[e]
              /\ written' = [written EXCEPT ![e] = written'[e]]
            BY <1>4, <1>26, <1>27, <2>2
        <3> HIDE DEF fin, over
        <3>2. e \notin fin \cup over BY <1>28, <1>29
        <3> QED BY <1>26, <1>28, <1>29, <3>1, <3>2
                DEF StreamNext, Stream!Next, Stream!Write, fin, over
    <2> QED BY <1>4, <2>1, <2>2
<1> HIDE DEF x, d, v
<1>31. BInv' BY <1>4, <1>11, <1>18, <1>21, <1>23, <1>25, <1>26, StreamStep DEF v
<1> QED BY <1>30, <1>31

LEMMA ShutdownFinStreams ==
    ASSUME IInv, AInv, BInv, NEW e \in Ends, ShutdownFin(e)
    PROVE  BInv' /\ StreamNext
<1> DEFINE s == sock[e]
           p == sock[Peer(e)]
           w == written[e]
           v == written[Peer(e)]
           d == delivered[e]
           f == FinSent(s)
           next == IF s.state = "CLOSE_WAIT" THEN "LAST_ACK" ELSE "FIN_WAIT_1"
           t == ChangeState(f, next)
<1>1. /\ e \in Shutters /\ s.sndUser = 0 /\ s.type = "STREAM"
      /\ \/ s.state = "SYN_RECEIVED" \/ s.state = "ESTABLISHED"
         \/ s.state = "CLOSE_WAIT"
      /\ Becomes(e, t)
    BY DEF ShutdownFin, ShutsDown, Usable, FinSent
<1>2. /\ Core(e, s, p, w) /\ Phase(s, w) /\ s \in Socket /\ Heard(s)
    BY <1>1, OpenSocket
<1>3. /\ Streams(s, w, p, v, d) /\ w \in Nat BY EndStreams
<1>4. s.sndNxt = s.iss + 1 + w
    <2>1. s.sndNxt + s.sndUser = s.iss + 1 + w \/ (s.sndNxt = s.iss + 1 /\ w = 0)
        BY <1>1, <1>2 DEF Phase
    <2> QED BY <1>1, <1>2, <1>3, <2>1, SocketNumbers
<1>5. s.state \notin Over BY <1>1 DEF Over
<1>6. f \in Socket BY <1>1, <1>2, <1>4, FinCore DEF Core, FinSent
<1>7. /\ SendsStream(f, w, p) /\ SameRx(s, f) /\ SameControl(s, f)
      /\ f.iss = s.iss /\ Finished(f, w)
    BY <1>2, <1>3, <1>4, <1>5, <1>6, FinStream DEF Streams
<1> HIDE DEF f
<1>8. Streams(f, w, p, v, d) BY <1>3, <1>7, TakesKept DEF Streams
<1>9. \/ Taking(f) /\ next \in {"ESTABLISHED", "FIN_WAIT_1", "FIN_WAIT_2"}
      \/ f.state = "CLOSE_WAIT" /\ next = "LAST_ACK"
    BY <1>1, <1>7 DEF SameControl, Taking
<1>10. next \in States /\ next \notin Over BY DEF States, Over
<1> HIDE DEF next
<1>11. Calm(f, t) BY <1>6, <1>9, WaitsCalm
<1>12. t \in Socket /\ Streams(t, w, p, v, d) BY <1>3, <1>6, <1>8, <1>11, CalmStreams
<1>13. t.state = next /\ t.type = "STREAM"
    BY <1>1, <1>6, <1>7, <1>10, ChangeStateFields DEF SameControl
<1>14. t.iss = s.iss /\ t.sndNxt = f.sndNxt /\ t.rcvNxt = s.rcvNxt
    BY <1>7, <1>11 DEF Calm, SameTx, SameRx
<1> HIDE DEF t
<1>15. Finished(t, w) BY <1>7, <1>14 DEF Finished
<1>16. w <= w /\ s.rcvNxt <= t.rcvNxt BY <1>2, <1>3, <1>14, SocketNumbers
<1>17. Goes(s, w, t, w) BY <1>14, <1>15, <1>16 DEF Goes
<1>18. ~Unopened(t) BY <1>13 DEF Unopened
<1>19. t.state \notin Over BY <1>10, <1>13
<1> QED BY <1>1, <1>5, <1>12, <1>16, <1>17, <1>18, <1>19, MoveStep

LEMMA ReceiveStreams ==
    ASSUME IInv, AInv, BInv, NEW e \in Ends, Receive(e)
    PROVE  BInv' /\ StreamNext
<1> DEFINE s == sock[e]
           p == sock[Peer(e)]
           w == written[e]
           v == written[Peer(e)]
           d == delivered[e]
<1>1. PICK n \in 1 .. sock[e].rcvUser :
        /\ Usable(sock[e]) /\ Readable(sock[e])
        /\ sock' = [sock EXCEPT ![e] = TakeBytes(@, n)]
        /\ delivered' = [delivered EXCEPT ![e] = @ \o ReadRxBuffer(sock[e], n)]
        /\ UNCHANGED <<listener, written, eos>>
    BY DEF Receive
<1> DEFINE r == ReadRxBuffer(s, n)
           t == TakeBytes(s, n)
           z == d \o r
           fin == {y \in Ends : sock[y].sndNxt = sock[y].iss + 1 + written[y] + 1}
           over == {y \in Ends : sock[y].state \in {"CLOSED", "TIME_WAIT"}}
<1>2. /\ Good(s) /\ s \in Socket /\ p \in Socket /\ v \in Nat /\ w \in Nat
      /\ Streams(s, w, p, v, d) /\ d \in Seq(Byte)
    BY EndStreams
<1>3. /\ sock \in [Ends -> Socket] /\ delivered \in [Ends -> Seq(Byte)]
      /\ written \in [Ends -> Nat]
    BY DEF IInv, TypeOK
<1>4. n \in Nat /\ s.rcvUser \in Nat BY <1>2, SocketNumbers
<1>5. Readable(s) /\ s.type = "STREAM" BY <1>1 DEF Usable
<1>6. ~Unopened(s) BY <1>2, <1>5, NotClosedIsOpen
<1>7. Core(e, s, p, w) /\ Phase(s, w) BY <1>6, OpenEnd
<1>8. Taking(s) => s.irs = p.iss \/ s.rcvNxt = s.irs + 1
    <2> SUFFICES ASSUME Taking(s) PROVE s.irs = p.iss \/ s.rcvNxt = s.irs + 1
        OBVIOUS
    <2>1. s.rcvNxt > 0 BY OpenSocket DEF Taking
    <2> QED BY <1>7, <2>1 DEF Core, Agrees, Deaf, Right, Mistaken
<1>9. /\ n <= v - Len(d)
      /\ \/ r = [i \in 1 .. n |-> Len(d) + i]
         \/ s.state \in Over /\ r = [i \in 1 .. n |-> Lost]
    <2>1. TakesStream(s, p, v, d) BY <1>2 DEF Streams
    <2>2. n \in 1 .. s.rcvUser OBVIOUS
    <2>3. s \in Socket /\ p \in Socket /\ v \in Nat /\ d \in Seq(Byte) BY <1>2
    <2> HIDE DEF d, v, s, p, r
    <2>4. /\ n <= v - Len(d)
          /\ \/ ReadRxBuffer(s, n) = [i \in 1 .. n |-> Len(d) + i]
             \/ /\ s.state \in Over
                /\ ReadRxBuffer(s, n) = [i \in 1 .. n |-> Lost]
        BY <1>5, <1>8, <2>1, <2>2, <2>3, BytesRead
    <2> QED BY <2>4 DEF r
<1>10. r \in Seq(Byte) BY <1>2, <1>4, ReadRxBufferType
<1>11. Len(r) = n BY <1>4, <1>9
<1>12. /\ t \in Socket /\ SameControl(s, t) /\ SameTx(s, t)
       /\ t.irs = s.irs /\ t.rcvNxt = s.rcvNxt /\ t.rcvUser = s.rcvUser - n
       /\ t.ooo = s.ooo /\ t.rxBuf = s.rxBuf
    BY <1>2, TakeBytesFields DEF Good
<1>13. sock' = [sock EXCEPT ![e] = t] BY <1>1, <1>3
<1>14. delivered' = [delivered EXCEPT ![e] = z] BY <1>1, <1>3
<1> HIDE DEF t, r
<1>15. TakesStream(t, p, v, z)
    BY <1>2, <1>4, <1>5, <1>10, <1>11, <1>12, ReadStream DEF Streams
<1>16. SendsStream(t, w, p) BY <1>2, <1>12, SendsKept DEF Streams
<1>17. t.state = s.state /\ t.type = "STREAM" BY <1>5, <1>12 DEF SameControl
<1>18. EndStream(t, p, w, v, z) BY <1>15, <1>16, <1>17 DEF EndStream, Unopened
<1>19. t.iss = s.iss /\ t.sndNxt = s.sndNxt BY <1>12 DEF SameTx
<1>20. w <= w /\ s.rcvNxt <= t.rcvNxt BY <1>2, <1>12, SocketNumbers
<1>21. Goes(s, w, t, w) BY <1>19, <1>20 DEF Goes, Finished
<1>22. written' = [written EXCEPT ![e] = w] /\ UNCHANGED <<written, eos>>
    BY <1>1, <1>3
<1>23. sock'[e] = t /\ \A y \in Ends : y # e => sock'[y] = sock[y]
    BY <1>3, <1>13
<1>24. fin' = fin BY <1>19, <1>22, <1>23
<1>25. over' = over BY <1>17, <1>23
<1>26. n \in 1 .. v - Len(d) BY <1>2, <1>4, <1>9
<1>27. StreamNext
    <2>1. CASE r = [i \in 1 .. n |-> Len(d) + i]
        <3>1. delivered' = [delivered EXCEPT ![e] = @ \o [i \in 1 .. n |-> Len(@) + i]]
            BY <1>3, <1>14, <2>1
        <3> HIDE DEF d, fin, over
        <3>2. Stream!Read(e)
            BY <1>22, <1>24, <1>25, <1>26, <3>1
               DEF Stream!Read, Stream!Peer, Peer, d, fin, over
        <3> QED BY <3>2 DEF StreamNext, Stream!Next
    <2>2. CASE s.state \in Over /\ r = [i \in 1 .. n |-> Lost]
        <3>1. delivered' = [delivered EXCEPT ![e] = @ \o [i \in 1 .. n |-> Lost]]
            BY <1>3, <1>14, <2>2
        <3>2. e \in over BY <2>2 DEF Over
        <3> HIDE DEF d, fin, over
        <3>3. Stream!ReadLost(e)
            BY <1>22, <1>24, <1>25, <1>26, <3>1, <3>2
               DEF Stream!ReadLost, Stream!Peer, Peer, d, fin, over
        <3> QED BY <3>3 DEF StreamNext, Stream!Next
    <2> QED BY <1>9, <2>1, <2>2
<1> HIDE DEF w, v, z
<1>28. BInv'
    BY <1>2, <1>12, <1>13, <1>14, <1>18, <1>20, <1>21, <1>22, StreamStep DEF v, w
<1> QED BY <1>27, <1>28

LEMMA EndOfStreamStreams ==
    ASSUME IInv, AInv, BInv, NEW e \in Ends, ReceiveEndOfStream(e)
    PROVE  BInv' /\ StreamNext
<1> DEFINE s == sock[e]
           p == sock[Peer(e)]
           v == written[Peer(e)]
           d == delivered[e]
           fin == {y \in Ends : sock[y].sndNxt = sock[y].iss + 1 + written[y] + 1}
           over == {y \in Ends : sock[y].state \in {"CLOSED", "TIME_WAIT"}}
<1>1. /\ Readable(s) /\ s.rcvUser = 0
      /\ s.state \notin {"ESTABLISHED", "FIN_WAIT_1", "FIN_WAIT_2"}
      /\ eos' = eos \cup {e}
      /\ UNCHANGED <<sock, written, delivered>>
    BY DEF ReceiveEndOfStream
<1>2. FinTaken(s) BY <1>1 DEF Readable, FinTaken
<1>3. /\ Streams(s, written[e], p, v, d) /\ d \in Seq(Byte) /\ Peer(e) \in Ends
    BY EndStreams
<1>4. Finished(p, v) /\ Len(d) + s.rcvUser = v
    BY <1>2, <1>3 DEF Streams, TakesStream, TookAll
<1>5. Len(d) = v BY <1>1, <1>3, <1>4
<1>6. Peer(e) \in fin BY <1>3, <1>4 DEF Finished
<1>7. fin' = fin /\ over' = over BY <1>1
<1> HIDE DEF fin, over
<1>8. Stream!EndOfStream(e)
    BY <1>1, <1>5, <1>6, <1>7 DEF Stream!EndOfStream, Stream!Peer, Peer, fin, over
<1>9. StreamNext BY <1>8 DEF StreamNext, Stream!Next
<1>10. BInv' BY <1>1, StillStreams
<1> QED BY <1>9, <1>10

LEMMA ListenerStreams ==
    ASSUME BInv, NEW e \in Ends, Listen(e) \/ StopListening(e)
    PROVE  BInv' /\ StreamNext
<1>1. UNCHANGED <<sock, app>> BY DEF Listen, StopListening
<1>2. StreamNext BY <1>1, StutterRefines
<1>3. UNCHANGED <<sock, written, delivered>> BY <1>1 DEF app
<1> QED BY <1>2, <1>3, StillStreams

LEMMA UserStreams ==
    ASSUME IInv, AInv, AInv', BInv, NEW e \in Ends, User(e)
    PROVE  BInv' /\ StreamNext
BY ListenerStreams, ConnectStreams, AcceptStreams, SendStreams, ReceiveStreams,
   EndOfStreamStreams, ShutdownFlushStream, ShutdownFinStreams, AbortStream
   DEF User

-----------------------------------------------------------------------------
(* The theorem.                                                            *)

LEMMA InitBInv ==
    Init => BInv /\ Stream!Init
<1> SUFFICES ASSUME Init PROVE BInv /\ Stream!Init OBVIOUS
<1>1. ASSUME NEW e \in Ends
      PROVE  /\ sock[e].iss = Iss[e] /\ sock[e].state = "CLOSED"
             /\ sock[e].sent = {} /\ sock[e].sndNxt = 0 /\ ~sock[e].closedFlag
             /\ written[e] = 0 /\ delivered[e] = << >>
    BY DEF Init, FreshSocket
<1>2. ASSUME NEW e \in Ends
      PROVE  EndStream(sock[e], sock[Peer(e)], written[e], written[Peer(e)],
                       delivered[e])
    <2> DEFINE s == sock[e]
    <2>1. s.state = "CLOSED" /\ s.sent = {} /\ ~s.closedFlag /\ delivered[e] = << >>
        BY <1>1
    <2> HIDE DEF s
    <2>2. SendsStream(s, written[e], sock[Peer(e)])
        BY <2>1 DEF SendsStream, Over
    <2>3. TakesStream(s, sock[Peer(e)], written[Peer(e)], delivered[e])
        BY <2>1 DEF TakesStream, Taking, FinTaken
    <2> QED BY <2>1, <2>2, <2>3 DEF EndStream, s
<1>3. BInv BY <1>2 DEF BInv
<1>4. ASSUME NEW e \in Ends
      PROVE  sock[e].sndNxt # sock[e].iss + 1 + written[e] + 1
    <2>1. Iss[e] \in Nat BY IssAssumption
    <2> QED BY <1>1, <2>1
<1>5. Stream!Init BY <1>4 DEF Init, Stream!Init
<1> QED BY <1>3, <1>5

LEMMA EstablishedBInv ==
    EstablishedInit => BInv /\ Stream!Init
<1> SUFFICES ASSUME EstablishedInit PROVE BInv /\ Stream!Init OBVIOUS
<1>1. IInv BY EstablishedIInv
<1>2. ASSUME NEW e \in Ends
      PROVE  /\ sock[e] \in Socket /\ sock[e].type = "STREAM"
             /\ sock[e].state = "ESTABLISHED"
             /\ sock[e].iss = Iss[e] /\ sock[e].irs = Iss[Peer(e)]
             /\ sock[e].sndUna = Iss[e] + 1 /\ sock[e].sndNxt = Iss[e] + 1
             /\ sock[e].rcvUser = 0 /\ sock[e].rcvNxt = Iss[Peer(e)] + 1
             /\ sock[e].ooo = {} /\ sock[e].rtxQ = {} /\ sock[e].sent = {}
             /\ written[e] = 0 /\ delivered[e] = << >> /\ Iss[e] \in Nat
    <2>1. sock[e] \in Socket BY <1>1 DEF IInv, Good
    <2>2. Iss[e] \in Nat BY IssAssumption
    <2> QED BY <2>1, <2>2 DEF EstablishedInit, FreshSocket
<1>3. ASSUME NEW e \in Ends
      PROVE  EndStream(sock[e], sock[Peer(e)], written[e], written[Peer(e)],
                       delivered[e])
    <2> DEFINE s == sock[e]
               p == sock[Peer(e)]
               v == written[Peer(e)]
               i == Iss[e]
               j == Iss[Peer(e)]
    <2>1. Peer(e) \in Ends BY PeerOfPeer
    <2>2. /\ s \in Socket /\ s.type = "STREAM" /\ s.state = "ESTABLISHED"
          /\ s.iss = i /\ s.irs = j /\ s.sndUna = i + 1 /\ s.rcvUser = 0
          /\ s.rcvNxt = j + 1 /\ s.ooo = {} /\ s.rtxQ = {} /\ s.sent = {}
          /\ written[e] = 0 /\ delivered[e] = << >> /\ i \in Nat
        BY <1>2
    <2>3. p \in Socket /\ v = 0 /\ v \in Nat /\ j \in Nat BY <1>2, <2>1
    <2> HIDE DEF s, p, v, i, j
    <2>4. s.iss + 0 + 1 - s.sndUna = 0 BY <2>2
    <2>5. 0 <= TxBufferSize BY TxBufferAssumption
    <2>6. Holds(s, 0) BY <2>2, <2>4, <2>5 DEF Holds
    <2>7. SendsStream(s, 0, p) BY <2>2, <2>6 DEF SendsStream
    <2>8. s.rcvNxt = s.irs + 1 BY <2>2
    <2>9. Takes(s, p, v, << >>) BY <2>2, <2>3, <2>8, EmptyTakes
    <2>10. TakesStream(s, p, v, << >>) BY <2>2, <2>9 DEF TakesStream, Taking, FinTaken
    <2>11. ~Unopened(s) BY <2>2 DEF Unopened
    <2>12. EndStream(s, p, 0, v, << >>) BY <2>7, <2>10, <2>11 DEF EndStream
    <2> QED BY <2>2, <2>12 DEF s, p, v
<1>4. BInv BY <1>3 DEF BInv
<1>5. ASSUME NEW e \in Ends
      PROVE  sock[e].sndNxt # sock[e].iss + 1 + written[e] + 1
    BY <1>2
<1>6. Stream!Init BY <1>5 DEF EstablishedInit, Stream!Init
<1> QED BY <1>4, <1>6

LEMMA NextBInv ==
    ASSUME StraysAreOld
    PROVE  IInv /\ AInv /\ AInv' /\ BInv /\ [Next]_vars => BInv' /\ StreamNext
<1> SUFFICES ASSUME IInv, AInv, AInv', BInv, [Next]_vars PROVE BInv' /\ StreamNext
    OBVIOUS
<1>1. CASE Next
    <2>1. PICK e \in Ends : \/ User(e) \/ Timer(e)
                            \/ \E g \in Incoming(e) : Network(e, g)
        BY <1>1 DEF Next
    <2> QED BY <2>1, UserStreams, TimerStreams, NetworkStreams
<1>2. CASE UNCHANGED vars
    <2>1. UNCHANGED <<sock, app>> /\ UNCHANGED <<sock, written, delivered>>
        BY <1>2 DEF vars, app
    <2> QED BY <2>1, StillStreams, StutterRefines
<1> QED BY <1>1, <1>2

\* The two sockets, with every handler of tcpProcessSegment, the timers of
\* tcpTick and the user's calls, implement the byte stream of ByteStream over a
\* network that loses, repeats and reorders what the ends sent and mixes in
\* segments of older connections: what tcpReceive copies to one user is what the
\* other gave tcpSend, byte by byte, and ERROR_END_OF_STREAM comes after the
\* last byte.  Only a user who reads after his connection is over can get
\* something else.
THEOREM StreamImplemented ==
    ASSUME StraysAreOld
    PROVE  /\ Spec => ImplementsByteStream
           /\ EstablishedSpec => ImplementsByteStream
<1>1. IInv /\ [Next]_vars => IInv' BY NextIInv
<1>2. IInv /\ AInv /\ [Next]_vars => AInv' BY NextAInv
<1>3. IInv /\ AInv /\ AInv' /\ BInv /\ [Next]_vars => BInv' /\ StreamNext
    BY NextBInv
<1>4. Spec => ImplementsByteStream
    BY <1>1, <1>2, <1>3, InitIInv, InitAInv, InitBInv, PTL
       DEF Spec, ImplementsByteStream, Stream!Spec, StreamNext
<1>5. EstablishedSpec => ImplementsByteStream
    BY <1>1, <1>2, <1>3, EstablishedIInv, EstablishedAInv, EstablishedBInv, PTL
       DEF EstablishedSpec, ImplementsByteStream, Stream!Spec, StreamNext
<1> QED BY <1>4, <1>5
=============================================================================
