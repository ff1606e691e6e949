---------------------------- MODULE TcpPairProofs ----------------------------
(***************************************************************************)
(* What holds of a connection for every number of bytes, size of segments  *)
(* and buffers, and every behaviour of the network and of the users: the   *)
(* variables have their types, the receive buffer is never overbooked, an  *)
(* offered window is never taken back, and nothing sent is forgotten.      *)
(***************************************************************************)
EXTENDS TcpPair, TLAPS, WellFoundedInduction

-----------------------------------------------------------------------------
(* The functions of TcpSocket: what they do to the type of a socket and to *)
(* its receive side.                                                       *)

\* What the receive side of a socket is made of.
SameReceive(s, t) ==
    /\ t.rcvNxt = s.rcvNxt /\ t.rcvUser = s.rcvUser /\ t.rcvWnd = s.rcvWnd
    /\ t.ooo = s.ooo

\* What decides which handler and which user's call applies to a socket.
SameControl(s, t) ==
    /\ t.type = s.type /\ t.state = s.state
    /\ t.closedFlag = s.closedFlag /\ t.resetFlag = s.resetFlag

\* What was sent and what was acknowledged do not go back.
Onward(s, t) == t.iss = s.iss /\ t.sndUna >= s.sndUna /\ t.sndNxt >= s.sndNxt

\* t is a socket and differs from s on the transmit side only.
Transmits(s, t) == /\ t \in Socket
                   /\ SameReceive(s, t) /\ SameControl(s, t) /\ Onward(s, t)

LEMMA SocketNumbers ==
    ASSUME NEW s \in Socket
    PROVE  /\ s.iss \in Nat /\ s.irs \in Nat
           /\ s.sndUna \in Nat /\ s.sndNxt \in Nat /\ s.sndUser \in Nat
           /\ s.sndWnd \in Int /\ s.sndWl1 \in Int /\ s.sndWl2 \in Nat
           /\ s.maxSndWnd \in Int
           /\ s.rcvNxt \in Nat /\ s.rcvUser \in Nat /\ s.rcvWnd \in Int
           /\ s.ooo \in SUBSET Nat /\ s.rtxCount \in Nat /\ s.probeCount \in Nat
BY DEF Socket

LEMMA SameTransmits ==
    ASSUME NEW s \in Socket
    PROVE  Transmits(s, s)
<1>1. Onward(s, s) BY SocketNumbers DEF Onward
<1> QED BY <1>1 DEF Transmits, SameReceive, SameControl

LEMMA TransmitsTransitive ==
    ASSUME NEW s \in Socket, NEW t, NEW u, Transmits(s, t), Transmits(t, u)
    PROVE  Transmits(s, u)
<1>1. t \in Socket /\ u \in Socket BY DEF Transmits
<1>2. Onward(s, u) BY <1>1, SocketNumbers DEF Transmits, Onward
<1> QED BY <1>1, <1>2 DEF Transmits, SameReceive, SameControl

-----------------------------------------------------------------------------
(* Sending.                                                                *)

\* A set of segments more or less in sent (and no other change) is harmless.
LEMMA MoreSent ==
    ASSUME NEW s \in Socket, NEW G \in SUBSET Segment
    PROVE  Transmits(s, [s EXCEPT !.sent = @ \cup G])
<1> DEFINE S == s.sent \cup G
<1>1. S \in SUBSET Segment BY DEF Socket
<1> HIDE DEF S
<1>2. [s EXCEPT !.sent = S] \in Socket BY <1>1 DEF Socket
<1>3. Transmits(s, [s EXCEPT !.sent = S])
    <2> DEFINE t == [s EXCEPT !.sent = S]
    <2>1. SameReceive(s, t) BY DEF SameReceive, Socket
    <2>2. SameControl(s, t) BY DEF SameControl, Socket
    <2>3. t.iss = s.iss /\ t.sndUna = s.sndUna /\ t.sndNxt = s.sndNxt BY DEF Socket
    <2>4. Onward(s, t) BY <2>3, SocketNumbers DEF Onward
    <2> QED BY <1>2, <2>1, <2>2, <2>4 DEF Transmits
<1> QED BY <1>3 DEF S

LEMMA SendSegmentType ==
    ASSUME NEW s \in Socket, NEW flags \in SUBSET Flags, NEW seq \in Nat,
           NEW ack \in Nat
    PROVE  Transmits(s, SendSegment(s, flags, seq, ack))
<1> DEFINE g == [flags |-> flags, seq |-> seq,
                 ack |-> IF "ACK" \in flags THEN ack ELSE 0,
                 wnd |-> s.rcvWnd, data |-> << >>]
<1>1. << >> \in Seq(Byte) BY DEF Byte
<1>2. s.rcvWnd \in Int BY DEF Socket
<1>3. g \in Segment BY <1>1, <1>2 DEF Segment
<1> HIDE DEF g
<1>4. {g} \in SUBSET Segment BY <1>3
<1>5. Transmits(s, [s EXCEPT !.sent = @ \cup {g}]) BY <1>4, MoreSent
<1> QED BY <1>5 DEF SendSegment, g

LEMMA SendAckType ==
    ASSUME NEW s \in Socket
    PROVE  Transmits(s, SendAck(s))
<1>1. s.sndNxt \in Nat /\ s.rcvNxt \in Nat /\ {"ACK"} \in SUBSET Flags
    BY DEF Socket, Flags
<1> QED BY <1>1, SendSegmentType DEF SendAck

LEMMA SendResetSegmentType ==
    ASSUME NEW s \in Socket, NEW seq \in Nat
    PROVE  Transmits(s, SendResetSegment(s, seq))
<1>1. {"RST"} \in SUBSET Flags /\ 0 \in Nat BY DEF Flags
<1>2. Transmits(s, SendSegment(s, {"RST"}, seq, 0)) BY <1>1, SendSegmentType
<1> QED BY <1>2, SameTransmits DEF SendResetSegment

LEMMA RejectSegmentType ==
    ASSUME NEW s \in Socket, NEW g \in Segment
    PROVE  Transmits(s, RejectSegment(s, g))
<1> DEFINE syn == IF "SYN" \in g.flags THEN 1 ELSE 0
           fin == IF "FIN" \in g.flags THEN 1 ELSE 0
           occupied == Len(g.data) + syn + fin
           refused == [flags |-> {"RST"}, seq |-> g.ack, ack |-> 0,
                       wnd |-> 0, data |-> << >>]
           answered == [flags |-> {"RST", "ACK"}, seq |-> 0,
                        ack |-> g.seq + occupied, wnd |-> 0, data |-> << >>]
           reset == IF "ACK" \in g.flags THEN refused ELSE answered
<1>1. g.seq \in Nat /\ g.ack \in Nat /\ g.data \in Seq(Byte) BY DEF Segment
<1>2. Len(g.data) \in Nat BY <1>1
<1>3. syn \in Nat /\ fin \in Nat OBVIOUS
<1> HIDE DEF syn, fin
<1>0. occupied \in Nat BY <1>2, <1>3
<1> HIDE DEF occupied
<1>4. << >> \in Seq(Byte) /\ {"RST"} \in SUBSET Flags /\ {"RST", "ACK"} \in SUBSET Flags
    BY DEF Byte, Flags
<1>5. refused \in Segment BY <1>1, <1>4 DEF Segment
<1>6. answered \in Segment BY <1>0, <1>1, <1>4 DEF Segment
<1>7. {reset} \in SUBSET Segment BY <1>5, <1>6
<1> HIDE DEF refused, answered, reset
<1>8. Transmits(s, [s EXCEPT !.sent = @ \cup {reset}]) BY <1>7, MoreSent
<1>9. RejectSegment(s, g) = IF "RST" \in g.flags THEN s
                            ELSE [s EXCEPT !.sent = @ \cup {reset}]
    BY DEF RejectSegment, reset, refused, answered, occupied, syn, fin
<1> QED BY <1>8, <1>9, SameTransmits

\* An offset in a ring buffer.
LEMMA RingOffset ==
    ASSUME NEW a \in Int, NEW size \in Nat \ {0}
    PROVE  a % size \in 0 .. size - 1
OBVIOUS

\* What is read from a ring buffer is a sequence of bytes.
LEMMA ReadTxBufferType ==
    ASSUME NEW s \in Socket, NEW seq \in Int, NEW n \in Nat
    PROVE  ReadTxBuffer(s, seq, n) \in Seq(Byte)
<1>1. \A i \in 1 .. n :
         s.txBuf[(seq - s.iss - 1 + i - 1) % TxBufferSize] \in Byte
    <2> TAKE i \in 1 .. n
    <2>1. s.iss \in Nat /\ s.txBuf \in [0 .. TxBufferSize - 1 -> Byte] BY DEF Socket
    <2>2. seq - s.iss - 1 + i - 1 \in Int BY <2>1
    <2>3. (seq - s.iss - 1 + i - 1) % TxBufferSize \in 0 .. TxBufferSize - 1
        BY <2>2, TxBufferAssumption, RingOffset
    <2> QED BY <2>1, <2>3
<1>2. ReadTxBuffer(s, seq, n) \in [1 .. n -> Byte] BY <1>1 DEF ReadTxBuffer
<1> QED BY <1>2

LEMMA SegmentOfType ==
    ASSUME NEW s \in Socket, NEW i \in Item
    PROVE  SegmentOf(s, i) \in Segment
<1>1. i.flags \in SUBSET Flags /\ i.seq \in Nat /\ i.len \in Nat BY DEF Item
<1>2. s.rcvNxt \in Nat /\ s.rcvWnd \in Int BY DEF Socket
<1>3. ReadTxBuffer(s, i.seq, i.len) \in Seq(Byte) BY <1>1, ReadTxBufferType
<1> QED BY <1>1, <1>2, <1>3 DEF SegmentOf, Segment

\* Queued segments change the transmit side only.
LEMMA QueueSegmentsType ==
    ASSUME NEW s \in Socket, NEW items \in SUBSET Item
    PROVE  Transmits(s, QueueSegments(s, items))
<1> DEFINE S == s.sent \cup {SegmentOf(s, i) : i \in items}
           Q == s.rtxQ \cup items
           C == IF s.rtxTimer THEN s.rtxCount ELSE 0
           q == [s EXCEPT !.sent = S, !.rtxQ = Q, !.rtxTimer = TRUE, !.rtxCount = C]
<1>1. S \in SUBSET Segment BY SegmentOfType DEF Socket
<1>2. Q \in SUBSET Item BY DEF Socket
<1>3. C \in Nat BY DEF Socket
<1>4. QueueSegments(s, items) = q BY DEF QueueSegments, Socket
<1> HIDE DEF S, Q, C
<1>5. q \in Socket BY <1>1, <1>2, <1>3 DEF Socket
<1>6. SameReceive(s, q) /\ SameControl(s, q)
    BY DEF Socket, SameReceive, SameControl
<1>7. q.iss = s.iss /\ q.sndUna = s.sndUna /\ q.sndNxt = s.sndNxt BY DEF Socket
<1>8. Onward(s, q) BY <1>7, SocketNumbers DEF Onward
<1> QED BY <1>4, <1>5, <1>6, <1>8 DEF Transmits

LEMMA QueueControlType ==
    ASSUME NEW s \in Socket, NEW flags \in SUBSET Flags, NEW seq \in Nat
    PROVE  Transmits(s, QueueControl(s, flags, seq))
<1>1. {[seq |-> seq, len |-> 0, flags |-> flags]} \in SUBSET Item BY DEF Item
<1> QED BY <1>1, QueueSegmentsType DEF QueueControl

LEMMA RetransmitSegmentType ==
    ASSUME NEW s \in Socket
    PROVE  Transmits(s, RetransmitSegment(s))
<1> DEFINE burst == {i \in s.rtxQ :
                       \A h \in s.rtxQ : i.seq + i.len - h.seq <= Mss}
<1>1. burst \in SUBSET Item BY DEF Socket
<1> HIDE DEF burst
<1>2. {SegmentOf(s, i) : i \in burst} \in SUBSET Segment BY <1>1, SegmentOfType
<1>3. Transmits(s, [s EXCEPT !.sent = @ \cup {SegmentOf(s, i) : i \in burst}])
    BY <1>2, MoreSent
<1> QED BY <1>3 DEF RetransmitSegment, burst

-----------------------------------------------------------------------------
(* Transmit side.                                                          *)

\* A socket whose numbers of the transmit side become others.
LEMMA NewNumbers ==
    ASSUME NEW s \in Socket, NEW una \in Nat, NEW nxt \in Nat, NEW user \in Nat,
           una >= s.sndUna, nxt >= s.sndNxt
    PROVE  Transmits(s, [s EXCEPT !.sndUna = una, !.sndNxt = nxt, !.sndUser = user])
<1> DEFINE t == [s EXCEPT !.sndUna = una, !.sndNxt = nxt, !.sndUser = user]
<1>1. t \in Socket BY DEF Socket
<1>2. SameReceive(s, t) /\ SameControl(s, t) BY DEF SameReceive, SameControl, Socket
<1>3. t.iss = s.iss /\ t.sndUna = una /\ t.sndNxt = nxt BY DEF Socket
<1>4. Onward(s, t) BY <1>3, SocketNumbers DEF Onward
<1> QED BY <1>1, <1>2, <1>4 DEF Transmits

LEMMA WriteTxBufferType ==
    ASSUME NEW s \in Socket, NEW data \in Seq(Byte)
    PROVE  Transmits(s, WriteTxBuffer(s, data))
<1> DEFINE offset(i) == (s.sndNxt + s.sndUser - s.iss - 1 + i - 1) % TxBufferSize
           buf == [p \in 0 .. TxBufferSize - 1 |->
                     IF \E i \in 1 .. Len(data) : offset(i) = p
                     THEN data[CHOOSE i \in 1 .. Len(data) : offset(i) = p]
                     ELSE s.txBuf[p]]
           user == s.sndUser + Len(data)
           t == [s EXCEPT !.txBuf = buf, !.sndUser = user]
<1>1. s.txBuf \in [0 .. TxBufferSize - 1 -> Byte] /\ s.sndUser \in Nat BY DEF Socket
<1> HIDE DEF offset
<1>2. buf \in [0 .. TxBufferSize - 1 -> Byte]
    <2>1. ASSUME NEW p \in 0 .. TxBufferSize - 1
          PROVE  (IF \E i \in 1 .. Len(data) : offset(i) = p
                  THEN data[CHOOSE i \in 1 .. Len(data) : offset(i) = p]
                  ELSE s.txBuf[p]) \in Byte
        <3>1. CASE \E i \in 1 .. Len(data) : offset(i) = p
            <4> DEFINE c == CHOOSE i \in 1 .. Len(data) : offset(i) = p
            <4>1. c \in 1 .. Len(data) BY <3>1
            <4> HIDE DEF c
            <4>2. data[c] \in Byte BY <4>1
            <4> QED BY <3>1, <4>2 DEF c
        <3>2. CASE ~\E i \in 1 .. Len(data) : offset(i) = p BY <1>1, <3>2
        <3> QED BY <3>1, <3>2
    <2> QED BY <2>1
<1>3. user \in Nat BY <1>1
<1>4. WriteTxBuffer(s, data) = t BY DEF WriteTxBuffer, Socket, offset
<1> HIDE DEF buf, user
<1>5. t \in Socket BY <1>2, <1>3 DEF Socket
<1>6. SameReceive(s, t) /\ SameControl(s, t) BY DEF SameReceive, SameControl, Socket
<1>7. t.iss = s.iss /\ t.sndUna = s.sndUna /\ t.sndNxt = s.sndNxt BY DEF Socket
<1>8. Onward(s, t) BY <1>7, SocketNumbers DEF Onward
<1> QED BY <1>4, <1>5, <1>6, <1>8 DEF Transmits

\* The chunks that n bytes are cut in start before the n bytes end.
LEMMA ChunkStarts ==
    ASSUME NEW n \in Nat \ {0}, NEW k \in 0 .. (n - 1) \div Mss
    PROVE  k * Mss \in Nat /\ k * Mss <= n
<1>1. Mss \in Nat \ {0} BY MssAssumption
<1> DEFINE q == (n - 1) \div Mss
<1>2. q \in Nat /\ Mss * q <= n - 1 BY <1>1
<1> HIDE DEF q
<1>3. k \in Nat /\ k <= q BY <1>2 DEF q
<1>4. Mss * k <= Mss * q BY <1>1, <1>2, <1>3
<1>5. Mss * k = k * Mss /\ k * Mss \in Nat BY <1>1, <1>3
<1>6. Mss * q \in Nat BY <1>1, <1>2
<1> QED BY <1>2, <1>4, <1>5, <1>6

\* Data that the user wrote are sent: at most all of them.
LEMMA SendDataType ==
    ASSUME NEW s \in Socket, NEW n \in Int, n <= s.sndUser
    PROVE  Transmits(s, SendData(s, n))
<1>1. CASE n <= 0 BY <1>1, SameTransmits DEF SendData
<1>2. CASE n > 0
    <2> DEFINE chunk(k) == [seq |-> s.sndNxt + k * Mss,
                            len |-> Min(Mss, n - k * Mss), flags |-> {"ACK"}]
               items == {chunk(k) : k \in 0 .. (n - 1) \div Mss}
               q == QueueSegments(s, items)
    <2>1. n \in Nat \ {0} /\ s.sndUser \in Nat /\ s.sndNxt \in Nat
        BY <1>2, SocketNumbers
    <2>2. \A k \in 0 .. (n - 1) \div Mss : chunk(k) \in Item
        <3> TAKE k \in 0 .. (n - 1) \div Mss
        <3>1. k * Mss \in Nat /\ k * Mss <= n BY <2>1, ChunkStarts
        <3>2. s.sndNxt + k * Mss \in Nat BY <2>1, <3>1
        <3>3. Min(Mss, n - k * Mss) \in Nat BY <2>1, <3>1, MssAssumption DEF Min
        <3>4. {"ACK"} \in SUBSET Flags BY DEF Flags
        <3> QED BY <3>2, <3>3, <3>4 DEF Item
    <2>3. items \in SUBSET Item BY <2>2
    <2> HIDE DEF items
    <2>4. Transmits(s, q) BY <2>3, QueueSegmentsType
    <2>5. q \in Socket BY <2>4 DEF Transmits
    <2>6. q.sndNxt = s.sndNxt /\ q.sndUser = s.sndUser /\ q.sndUna = s.sndUna
        BY DEF QueueSegments, Socket
    <2> HIDE DEF q
    <2>7. q.sndNxt + n \in Nat /\ q.sndUser - n \in Nat /\ q.sndNxt + n >= q.sndNxt
        BY <2>1, <2>6
    <2>8. q.sndUna \in Nat /\ q.sndUna >= q.sndUna BY <2>5, SocketNumbers
    <2>9. Transmits(q, [q EXCEPT !.sndUna = q.sndUna, !.sndNxt = q.sndNxt + n,
                                 !.sndUser = q.sndUser - n])
        BY <2>5, <2>7, <2>8, NewNumbers
    <2>10. [q EXCEPT !.sndUna = q.sndUna, !.sndNxt = q.sndNxt + n,
                     !.sndUser = q.sndUser - n]
           = [q EXCEPT !.sndNxt = @ + n, !.sndUser = @ - n]
        BY <2>5 DEF Socket
    <2>11. SendData(s, n) = [q EXCEPT !.sndNxt = @ + n, !.sndUser = @ - n]
        BY <1>2 DEF SendData, items, q
    <2> QED BY <2>4, <2>9, <2>10, <2>11, TransmitsTransitive
<1> QED BY <1>1, <1>2

LEMMA NagleAmountBound ==
    ASSUME NEW s \in Socket, NEW flag
    PROVE  NagleAmount(s, flag) \in Int /\ NagleAmount(s, flag) <= s.sndUser
<1> DEFINE sendable  == Max(0, Min(s.sndUser, UsableWindow(s)))
           remainder == sendable % Mss
<1>1. s.sndUser \in Nat /\ s.sndWnd \in Int /\ s.sndNxt \in Nat /\ s.sndUna \in Nat
    BY SocketNumbers
<1>2. UsableWindow(s) \in Int BY <1>1, TxBufferAssumption DEF UsableWindow, Min
<1>3. sendable \in Nat /\ sendable <= s.sndUser BY <1>1, <1>2 DEF Min, Max
<1> HIDE DEF sendable
<1>4. remainder \in Nat BY <1>3, MssAssumption
<1> HIDE DEF remainder
<1>5. NagleAmount(s, flag) \in {sendable, sendable - remainder}
    BY DEF NagleAmount, sendable, remainder
<1> QED BY <1>1, <1>3, <1>4, <1>5

LEMMA NagleAlgoType ==
    ASSUME NEW s \in Socket, NEW flag
    PROVE  Transmits(s, NagleAlgo(s, flag))
BY NagleAmountBound, SendDataType DEF NagleAlgo

LEMMA OverrideSendType ==
    ASSUME NEW s \in Socket
    PROVE  Transmits(s, OverrideSend(s))
<1>1. s.sndUser \in Nat /\ s.sndWnd \in Int /\ s.sndNxt \in Nat /\ s.sndUna \in Nat
    BY SocketNumbers
<1>2. UsableWindow(s) \in Int BY <1>1, TxBufferAssumption DEF UsableWindow, Min
<1> DEFINE n == Max(0, Min(s.sndUser, UsableWindow(s)))
<1>3. n \in Int /\ n <= s.sndUser BY <1>1, <1>2 DEF Min, Max
<1> HIDE DEF n
<1>4. Transmits(s, SendData(s, n)) BY <1>3, SendDataType
<1> QED BY <1>4 DEF OverrideSend, n

LEMMA UpdateRetransmitQueueType ==
    ASSUME NEW s \in Socket
    PROVE  Transmits(s, UpdateRetransmitQueue(s))
<1> DEFINE left == {i \in s.rtxQ : ItemEnd(i) > s.sndUna}
           timer == left # {} /\ (left # s.rtxQ \/ s.rtxTimer)
           count == IF left # s.rtxQ THEN 0 ELSE s.rtxCount
           t == [s EXCEPT !.rtxQ = left, !.rtxTimer = timer, !.rtxCount = count]
<1>1. left \in SUBSET Item BY DEF Socket
<1> HIDE DEF left
<1>2. timer \in BOOLEAN OBVIOUS
<1>3. count \in Nat BY SocketNumbers
<1>4. UpdateRetransmitQueue(s) = t BY DEF UpdateRetransmitQueue, Socket, left
<1> HIDE DEF timer, count
<1>5. t \in Socket BY <1>1, <1>2, <1>3 DEF Socket
<1>6. SameReceive(s, t) /\ SameControl(s, t) BY DEF SameReceive, SameControl, Socket
<1>7. t.iss = s.iss /\ t.sndUna = s.sndUna /\ t.sndNxt = s.sndNxt BY DEF Socket
<1>8. Onward(s, t) BY <1>7, SocketNumbers DEF Onward
<1> QED BY <1>4, <1>5, <1>6, <1>8 DEF Transmits

\* A socket whose view of the peer's window becomes another.
LEMMA NewWindow ==
    ASSUME NEW s \in Socket, NEW wnd \in Int, NEW wl1 \in Int, NEW wl2 \in Nat,
           NEW most \in Int
    PROVE  Transmits(s, [s EXCEPT !.sndWnd = wnd, !.sndWl1 = wl1, !.sndWl2 = wl2,
                                  !.maxSndWnd = most])
<1> DEFINE t == [s EXCEPT !.sndWnd = wnd, !.sndWl1 = wl1, !.sndWl2 = wl2,
                          !.maxSndWnd = most]
<1>1. t \in Socket BY DEF Socket
<1>2. SameReceive(s, t) /\ SameControl(s, t) BY DEF SameReceive, SameControl, Socket
<1>3. t.iss = s.iss /\ t.sndUna = s.sndUna /\ t.sndNxt = s.sndNxt BY DEF Socket
<1>4. Onward(s, t) BY <1>3, SocketNumbers DEF Onward
<1> QED BY <1>1, <1>2, <1>4 DEF Transmits

\* A socket whose persist timer is set.
LEMMA NewProbing ==
    ASSUME NEW s \in Socket, NEW b \in BOOLEAN, NEW n \in Nat
    PROVE  Transmits(s, [s EXCEPT !.probing = b, !.probeCount = n])
<1> DEFINE t == [s EXCEPT !.probing = b, !.probeCount = n]
<1>1. t \in Socket BY DEF Socket
<1>2. SameReceive(s, t) /\ SameControl(s, t) BY DEF SameReceive, SameControl, Socket
<1>3. t.iss = s.iss /\ t.sndUna = s.sndUna /\ t.sndNxt = s.sndNxt BY DEF Socket
<1>4. Onward(s, t) BY <1>3, SocketNumbers DEF Onward
<1> QED BY <1>1, <1>2, <1>4 DEF Transmits

\* A socket whose retransmission timer is set.
LEMMA NewTimer ==
    ASSUME NEW s \in Socket, NEW b \in BOOLEAN, NEW n \in Nat
    PROVE  Transmits(s, [s EXCEPT !.rtxTimer = b, !.rtxCount = n])
<1> DEFINE t == [s EXCEPT !.rtxTimer = b, !.rtxCount = n]
<1>1. t \in Socket BY DEF Socket
<1>2. SameReceive(s, t) /\ SameControl(s, t) BY DEF SameReceive, SameControl, Socket
<1>3. t.iss = s.iss /\ t.sndUna = s.sndUna /\ t.sndNxt = s.sndNxt BY DEF Socket
<1>4. Onward(s, t) BY <1>3, SocketNumbers DEF Onward
<1> QED BY <1>1, <1>2, <1>4 DEF Transmits

LEMMA UpdateSendWindowType ==
    ASSUME NEW s \in Socket, NEW g \in Segment
    PROVE  /\ Transmits(s, UpdateSendWindow(s, g))
           /\ UpdateSendWindow(s, g).sndUna = s.sndUna
<1> DEFINE most == Max(s.maxSndWnd, g.wnd)
           taken == [s EXCEPT !.sndWnd = g.wnd, !.sndWl1 = g.seq,
                              !.sndWl2 = g.ack, !.maxSndWnd = most]
           closes == g.wnd = 0 /\ s.sndWnd # 0
           b == taken.probing \/ closes
           n == IF closes THEN 0 ELSE taken.probeCount
           probed == [taken EXCEPT !.probing = b, !.probeCount = n]
<1>1. g.wnd \in Int /\ g.seq \in Int /\ g.ack \in Nat BY DEF Segment
<1>2. most \in Int BY <1>1, SocketNumbers DEF Max
<1> HIDE DEF most
<1>3. Transmits(s, taken) BY <1>1, <1>2, NewWindow
<1>4. taken \in Socket /\ taken.sndUna = s.sndUna BY <1>3 DEF Transmits, Socket
<1> HIDE DEF taken
<1>5. taken.probing \in BOOLEAN BY <1>4 DEF Socket
<1>6. b \in BOOLEAN BY <1>5
<1>7. n \in Nat BY <1>4, SocketNumbers
<1> HIDE DEF b, n
<1>8. Transmits(taken, probed) BY <1>4, <1>6, <1>7, NewProbing
<1>9. probed.sndUna = taken.sndUna BY <1>4 DEF Socket
<1>10. probed = [taken EXCEPT !.probing = @ \/ closes,
                              !.probeCount = IF closes THEN 0 ELSE @]
    BY <1>4 DEF Socket, b, n
<1> HIDE DEF probed
<1>11. Transmits(s, probed) BY <1>3, <1>8, TransmitsTransitive
<1>12. taken = [s EXCEPT !.sndWnd = g.wnd, !.sndWl1 = g.seq,
                         !.sndWl2 = g.ack, !.maxSndWnd = Max(@, g.wnd)]
    BY DEF taken, most, Socket
<1>13. UpdateSendWindow(s, g) \in {s, taken, probed}
    BY <1>10, <1>12, ZenonT(30) DEF UpdateSendWindow
<1> QED BY <1>3, <1>4, <1>9, <1>11, <1>13, SameTransmits

LEMMA CheckAckType ==
    ASSUME NEW s \in Socket, NEW g \in Segment
    PROVE  Transmits(s, CheckAck(s, g))
<1> DEFINE w == UpdateSendWindow(s, g)
           t == [w EXCEPT !.sndUna = g.ack, !.sndNxt = w.sndNxt, !.sndUser = w.sndUser]
<1>1. Transmits(s, w) /\ w.sndUna = s.sndUna BY UpdateSendWindowType
<1> HIDE DEF w
<1>2. w \in Socket BY <1>1 DEF Transmits
<1>3. CASE g.ack < s.sndUna BY <1>3, SameTransmits DEF CheckAck
<1>4. CASE ~(g.ack < s.sndUna) /\ ~(g.ack > s.sndUna)
    BY <1>1, <1>4 DEF CheckAck, w
<1>5. CASE g.ack > s.sndUna
    <2>1. g.ack \in Nat /\ s.sndUna \in Nat BY SocketNumbers DEF Segment
    <2>2. g.ack >= w.sndUna /\ ~(g.ack < s.sndUna) BY <1>1, <1>5, <2>1
    <2>3. w.sndNxt \in Nat /\ w.sndUser \in Nat /\ w.sndNxt >= w.sndNxt
        BY <1>2, SocketNumbers
    <2>4. Transmits(w, t) BY <1>2, <2>1, <2>2, <2>3, NewNumbers
    <2>5. t = [w EXCEPT !.sndUna = g.ack] BY <1>2 DEF Socket
    <2> HIDE DEF t
    <2>6. t \in Socket BY <2>4 DEF Transmits
    <2>7. Transmits(t, UpdateRetransmitQueue(t)) BY <2>6, UpdateRetransmitQueueType
    <2>8. Transmits(s, UpdateRetransmitQueue(t))
        BY <1>1, <1>2, <2>4, <2>6, <2>7, TransmitsTransitive
    <2>9. CheckAck(s, g) = UpdateRetransmitQueue(t)
        BY <1>5, <2>2, <2>5 DEF CheckAck, w
    <2> QED BY <2>8, <2>9
<1>6. g.ack \in Nat /\ s.sndUna \in Nat BY SocketNumbers DEF Segment
<1> QED BY <1>3, <1>4, <1>5, <1>6

-----------------------------------------------------------------------------
(* State changes.                                                          *)

\* A connection that enters CLOSED is marked as closed or as reset.
LEMMA ChangeStateType ==
    ASSUME NEW s \in Socket, NEW state \in States
    PROVE  LET t == ChangeState(s, state) IN
           /\ t \in Socket /\ SameReceive(s, t) /\ Onward(s, t)
           /\ t.type = s.type /\ t.state = state
           /\ state = "CLOSED" => t.closedFlag \/ t.resetFlag
<1> DEFINE ended == state = "CLOSED"
           mild == s.state \in {"LAST_ACK", "TIME_WAIT"}
           c == s.closedFlag \/ (ended /\ mild)
           r == s.resetFlag \/ (ended /\ ~mild)
           t == [s EXCEPT !.state = state, !.closedFlag = c, !.resetFlag = r]
<1>1. ChangeState(s, state) = t BY DEF ChangeState, Socket
<1>2. c \in BOOLEAN /\ r \in BOOLEAN
    <2>1. s.closedFlag \in BOOLEAN /\ s.resetFlag \in BOOLEAN BY DEF Socket
    <2> QED BY <2>1
<1>3. ended => c \/ r OBVIOUS
<1> HIDE DEF c, r
<1>4. t \in Socket BY <1>2 DEF Socket
<1>5. SameReceive(s, t) BY DEF SameReceive, Socket
<1>6. t.iss = s.iss /\ t.sndUna = s.sndUna /\ t.sndNxt = s.sndNxt BY DEF Socket
<1>7. Onward(s, t) BY <1>6, SocketNumbers DEF Onward
<1>8. t.type = s.type /\ t.state = state /\ t.closedFlag = c /\ t.resetFlag = r
    BY DEF Socket
<1> HIDE DEF t
<1>9. state = "CLOSED" => t.closedFlag \/ t.resetFlag BY <1>3, <1>8, Zenon
<1> QED BY <1>1, <1>4, <1>5, <1>7, <1>8, <1>9, Zenon

LEMMA DeleteControlBlockType ==
    ASSUME NEW s \in Socket
    PROVE  Transmits(s, DeleteControlBlock(s))
<1> DEFINE t == DeleteControlBlock(s)
<1>1. NoTx \in [0 .. TxBufferSize - 1 -> Byte] BY DEF NoTx, Lost, Byte
<1>2. NoRx \in [0 .. RxBufferSize - 1 -> Byte] BY DEF NoRx, Lost, Byte
<1>3. t \in Socket BY <1>1, <1>2 DEF DeleteControlBlock, Socket
<1>4. SameReceive(s, t) /\ SameControl(s, t)
    BY DEF DeleteControlBlock, SameReceive, SameControl, Socket
<1>5. t.iss = s.iss /\ t.sndUna = s.sndUna /\ t.sndNxt = s.sndNxt
    BY DEF DeleteControlBlock, Socket
<1>6. Onward(s, t) BY <1>5, SocketNumbers DEF Onward
<1> QED BY <1>3, <1>4, <1>6 DEF Transmits

-----------------------------------------------------------------------------
(* Receive side.                                                           *)

\* What is unread and what is offered fit in the receive buffer together.
WindowFits(s) == /\ 0 <= s.rcvUser /\ 0 <= s.rcvWnd
                 /\ s.rcvUser + s.rcvWnd <= RxBufferSize

\* What was received past a gap lies inside the window.
GapsInside(s) == \A n \in s.ooo : s.rcvNxt < n /\ n < s.rcvNxt + s.rcvWnd

\* t is a socket and differs from s in neither its state nor its past.
Receives(s, t) == t \in Socket /\ SameControl(s, t) /\ Onward(s, t)

\* An interval that ends outside H has a least element outside H.
LEMMA LeastOutside ==
    ASSUME NEW a \in Int, NEW b \in Nat, NEW H, a + b \notin H
    PROVE  \E n \in a .. (a + b) :
              /\ n \notin H
              /\ \A m \in a .. (a + b) : m \notin H => n <= m
<1> DEFINE T == {d \in Nat : d <= b /\ a + d \notin H}
           R == OpToRel(<, Nat)
<1>1. IsWellFoundedOn(R, Nat) BY NatLessThanWellFounded
<1>2. T \subseteq Nat /\ b \in T OBVIOUS
<1>3. PICK d \in T : \A y \in T : ~(<<y, d>> \in R)
    <2> HIDE DEF T, R
    <2> QED BY <1>1, <1>2, WFMin
<1>4. \A y \in T : ~(y < d) BY <1>3 DEF OpToRel
<1>5. \A m \in a .. (a + b) : m \notin H => a + d <= m
    <2> TAKE m \in a .. (a + b)
    <2> HAVE m \notin H
    <2>1. m - a \in T OBVIOUS
    <2> QED BY <1>4, <2>1
<1> QED BY <1>5

\* The data of a segment leave the right edge of the window where it was.
LEMMA ProcessSegmentDataType ==
    ASSUME NEW s \in Socket, NEW g \in Segment, WindowFits(s), GapsInside(s)
    PROVE  LET t == ProcessSegmentData(s, g) IN
           /\ Receives(s, t) /\ WindowFits(t) /\ GapsInside(t)
           /\ t.rcvNxt + t.rcvWnd = s.rcvNxt + s.rcvWnd
<1> DEFINE edge      == s.rcvNxt + s.rcvWnd
           leftEdge  == Max(g.seq, s.rcvNxt)
           rightEdge == Min(g.seq + Len(g.data), s.rcvNxt + s.rcvWnd)
           arrived   == leftEdge .. (rightEdge - 1)
           held      == s.ooo \cup arrived
           nxt       == CHOOSE n \in s.rcvNxt .. (s.rcvNxt + s.rcvWnd) :
                           /\ n \notin held
                           /\ \A m \in s.rcvNxt .. (s.rcvNxt + s.rcvWnd) :
                                 m \notin held => n <= m
           slot(n)   == (n - s.irs - 1) % RxBufferSize
           buf       == [p \in 0 .. RxBufferSize - 1 |->
                           IF \E n \in arrived : slot(n) = p
                           THEN g.data[(CHOOSE n \in arrived : slot(n) = p)
                                           - g.seq + 1]
                           ELSE s.rxBuf[p]]
           gaps      == {n \in held : n > nxt}
           user      == s.rcvUser + (nxt - s.rcvNxt)
           wnd       == s.rcvWnd - (nxt - s.rcvNxt)
           t         == [s EXCEPT !.rxBuf = buf, !.ooo = gaps, !.rcvNxt = nxt,
                                  !.rcvUser = user, !.rcvWnd = wnd]
<1>1. CASE g.data = << >>
    <2>1. ProcessSegmentData(s, g) = s BY <1>1 DEF ProcessSegmentData
    <2>2. Receives(s, s) BY SameTransmits DEF Receives, Transmits
    <2> QED BY <2>1, <2>2
<1>2. CASE g.data # << >>
    <2>1. /\ s.rcvNxt \in Nat /\ s.rcvWnd \in Nat /\ s.rcvUser \in Nat
          /\ s.ooo \in SUBSET Nat
        BY SocketNumbers DEF WindowFits
    <2>2. g.seq \in Nat /\ g.data \in Seq(Byte) /\ Len(g.data) \in Nat
        BY DEF Segment
    <2>3. /\ leftEdge \in Nat /\ rightEdge \in Int
          /\ leftEdge >= g.seq /\ leftEdge >= s.rcvNxt
          /\ rightEdge <= g.seq + Len(g.data) /\ rightEdge <= edge
        BY <2>1, <2>2 DEF Min, Max
    <2> HIDE DEF leftEdge, rightEdge
    <2>4. edge \notin held
        <3>1. edge \notin s.ooo BY <2>1 DEF GapsInside
        <3>2. edge \notin arrived BY <2>1, <2>3
        <3> QED BY <3>1, <3>2
    <2>5. held \in SUBSET Nat
        <3>1. arrived \in SUBSET Nat BY <2>3
        <3> QED BY <2>1, <3>1
    <2>6. /\ nxt \in s.rcvNxt .. (s.rcvNxt + s.rcvWnd)
          /\ nxt \notin held
        <3> HIDE DEF held
        <3>1. \E n \in s.rcvNxt .. (s.rcvNxt + s.rcvWnd) :
                 /\ n \notin held
                 /\ \A m \in s.rcvNxt .. (s.rcvNxt + s.rcvWnd) :
                       m \notin held => n <= m
            BY <2>1, <2>4, LeastOutside
        <3> QED BY <3>1
    <2>7. buf \in [0 .. RxBufferSize - 1 -> Byte]
        <3>1. s.rxBuf \in [0 .. RxBufferSize - 1 -> Byte] BY DEF Socket
        <3>2. ASSUME NEW p \in 0 .. RxBufferSize - 1
              PROVE  (IF \E n \in arrived : slot(n) = p
                      THEN g.data[(CHOOSE n \in arrived : slot(n) = p) - g.seq + 1]
                      ELSE s.rxBuf[p]) \in Byte
            <4> HIDE DEF slot
            <4>1. CASE \E n \in arrived : slot(n) = p
                <5> DEFINE c == CHOOSE n \in arrived : slot(n) = p
                <5>1. c \in arrived BY <4>1
                <5> HIDE DEF c
                <5>2. c - g.seq + 1 \in 1 .. Len(g.data) BY <2>2, <2>3, <5>1
                <5>3. g.data[c - g.seq + 1] \in Byte BY <2>2, <5>2
                <5> QED BY <4>1, <5>3 DEF c
            <4>2. CASE ~\E n \in arrived : slot(n) = p BY <3>1, <4>2
            <4> QED BY <4>1, <4>2
        <3> QED BY <3>2
    <2>8. ProcessSegmentData(s, g) = SendAck(t)
        BY <1>2 DEF ProcessSegmentData, Socket, leftEdge, rightEdge
    <2>9. gaps \in SUBSET Nat BY <2>5
    <2>10. \A n \in gaps : nxt < n /\ n < edge
        <3> TAKE n \in gaps
        <3>1. n \in Nat /\ n > nxt BY <2>5
        <3>2. CASE n \in s.ooo BY <2>1, <2>6, <3>1, <3>2 DEF GapsInside
        <3>3. CASE n \in arrived BY <2>1, <2>3, <2>6, <3>1, <3>3
        <3> QED BY <3>2, <3>3, <3>1, <2>6, <2>1
    <2> HIDE DEF buf, gaps, held, arrived, nxt
    <2>11. /\ nxt \in Nat /\ user \in Nat /\ wnd \in Int
           /\ 0 <= wnd /\ user + wnd = s.rcvUser + s.rcvWnd
           /\ nxt + wnd = edge
        BY <2>1, <2>6
    <2> HIDE DEF user, wnd
    <2>12. /\ Receives(s, t)
           /\ t.rcvNxt = nxt /\ t.rcvUser = user /\ t.rcvWnd = wnd /\ t.ooo = gaps
        <3>1. t \in Socket BY <2>7, <2>9, <2>11 DEF Socket
        <3>2. SameControl(s, t) BY DEF SameControl, Socket
        <3>3. /\ t.iss = s.iss /\ t.sndUna = s.sndUna /\ t.sndNxt = s.sndNxt
              /\ t.rcvNxt = nxt /\ t.rcvUser = user /\ t.rcvWnd = wnd /\ t.ooo = gaps
            BY DEF Socket
        <3>4. Onward(s, t) BY <3>3, SocketNumbers DEF Onward
        <3> QED BY <3>1, <3>2, <3>3, <3>4 DEF Receives
    <2> HIDE DEF t
    <2>13. t \in Socket BY <2>12 DEF Receives
    <2>14. Transmits(t, SendAck(t)) BY <2>13, SendAckType
    <2>15. Receives(s, SendAck(t))
        <3>1. Onward(s, SendAck(t))
            BY <2>12, <2>13, <2>14, SocketNumbers DEF Receives, Transmits, Onward
        <3> QED BY <2>12, <2>14, <3>1 DEF Receives, Transmits, SameControl
    <2>16. /\ SendAck(t).rcvNxt = nxt /\ SendAck(t).rcvUser = user
           /\ SendAck(t).rcvWnd = wnd /\ SendAck(t).ooo = gaps
        BY <2>12, <2>14 DEF Transmits, SameReceive
    <2>17. WindowFits(SendAck(t)) BY <2>1, <2>11, <2>16 DEF WindowFits
    <2>18. GapsInside(SendAck(t)) BY <2>10, <2>11, <2>16 DEF GapsInside
    <2> QED BY <2>8, <2>11, <2>15, <2>16, <2>17, <2>18
<1> QED BY <1>1, <1>2

\* The FIN takes the sequence number after the last byte; the edge moves right.
LEMMA TakeFinType ==
    ASSUME NEW s \in Socket, WindowFits(s)
    PROVE  LET t == TakeFin(s) IN
           /\ Receives(s, t) /\ WindowFits(t)
           /\ t.rcvNxt + t.rcvWnd = s.rcvNxt + s.rcvWnd + 1
<1> DEFINE n == s.rcvNxt + 1
           t == [s EXCEPT !.rcvNxt = n]
<1>1. n \in Nat /\ s.rcvWnd \in Int BY SocketNumbers
<1>2. TakeFin(s) = SendAck(t) BY DEF TakeFin, Socket
<1> HIDE DEF n
<1>3. t \in Socket BY <1>1 DEF Socket
<1>4. SameControl(s, t) BY DEF SameControl, Socket
<1>5. /\ t.iss = s.iss /\ t.sndUna = s.sndUna /\ t.sndNxt = s.sndNxt
      /\ t.rcvNxt = n /\ t.rcvUser = s.rcvUser /\ t.rcvWnd = s.rcvWnd
    BY DEF Socket
<1> HIDE DEF t
<1>6. Transmits(t, SendAck(t)) BY <1>3, SendAckType
<1>7. Onward(s, SendAck(t)) BY <1>5, <1>6, SocketNumbers DEF Transmits, Onward
<1>8. Receives(s, SendAck(t)) BY <1>4, <1>6, <1>7 DEF Receives, Transmits, SameControl
<1>9. /\ SendAck(t).rcvNxt = s.rcvNxt + 1 /\ SendAck(t).rcvUser = s.rcvUser
      /\ SendAck(t).rcvWnd = s.rcvWnd
    BY <1>5, <1>6 DEF Transmits, SameReceive, n
<1>10. WindowFits(SendAck(t)) BY <1>9 DEF WindowFits
<1>11. s.rcvNxt \in Nat BY SocketNumbers
<1>12. SendAck(t).rcvNxt + SendAck(t).rcvWnd = s.rcvNxt + s.rcvWnd + 1
    BY <1>1, <1>9, <1>11
<1> QED BY <1>2, <1>8, <1>10, <1>12

\* tcpUpdateReceiveWindow moves the right edge to the right or not at all.
LEMMA UpdateReceiveWindowType ==
    ASSUME NEW s \in Socket, WindowFits(s)
    PROVE  LET t == UpdateReceiveWindow(s) IN
           /\ Receives(s, t) /\ WindowFits(t)
           /\ t.rcvNxt = s.rcvNxt /\ t.rcvWnd >= s.rcvWnd /\ t.ooo = s.ooo
<1> DEFINE w == s.rcvWnd + (RxBufferSize - s.rcvUser - s.rcvWnd)
           t == [s EXCEPT !.rcvWnd = w]
<1>1. /\ s.rcvNxt \in Nat /\ s.rcvUser \in Nat /\ s.rcvWnd \in Int
      /\ RxBufferSize \in Nat
    BY SocketNumbers, RxBufferAssumption
<1>2. w \in Int /\ w >= s.rcvWnd /\ s.rcvUser + w <= RxBufferSize /\ 0 <= w
    BY <1>1 DEF WindowFits
<1>3. t = [s EXCEPT !.rcvWnd = @ + (RxBufferSize - s.rcvUser - s.rcvWnd)]
    BY DEF Socket
<1>4. UpdateReceiveWindow(s) \in {s, t, SendAck(t)}
    BY <1>3, Zenon DEF UpdateReceiveWindow
<1> HIDE DEF w
<1>5. t \in Socket BY <1>2 DEF Socket
<1>6. SameControl(s, t) BY DEF SameControl, Socket
<1>7. /\ t.iss = s.iss /\ t.sndUna = s.sndUna /\ t.sndNxt = s.sndNxt
      /\ t.rcvNxt = s.rcvNxt /\ t.rcvUser = s.rcvUser /\ t.rcvWnd = w
      /\ t.ooo = s.ooo
    BY DEF Socket
<1> HIDE DEF t
<1>8. Onward(s, t) BY <1>7, SocketNumbers DEF Onward
<1>9. Transmits(t, SendAck(t)) BY <1>5, SendAckType
<1>10. Onward(s, SendAck(t)) BY <1>7, <1>9, SocketNumbers DEF Transmits, Onward
<1>11. WindowFits(t) BY <1>1, <1>2, <1>7 DEF WindowFits
<1>12. WindowFits(SendAck(t)) BY <1>9, <1>11 DEF WindowFits, Transmits, SameReceive
<1>13. Receives(s, SendAck(t))
    BY <1>6, <1>9, <1>10 DEF Receives, Transmits, SameControl
<1>14. Receives(s, t) BY <1>5, <1>6, <1>8 DEF Receives
<1>15. Receives(s, s) BY SameTransmits DEF Receives, Transmits
<1>16. t.rcvWnd >= s.rcvWnd /\ s.rcvWnd >= s.rcvWnd BY <1>1, <1>2, <1>7
<1>17. /\ SendAck(t).rcvNxt = s.rcvNxt /\ SendAck(t).rcvWnd = t.rcvWnd
       /\ SendAck(t).ooo = s.ooo
    BY <1>7, <1>9 DEF Transmits, SameReceive
<1>18. CASE UpdateReceiveWindow(s) = s BY <1>15, <1>16, <1>18
<1>19. CASE UpdateReceiveWindow(s) = t BY <1>7, <1>11, <1>14, <1>16, <1>19
<1>20. CASE UpdateReceiveWindow(s) = SendAck(t)
    BY <1>12, <1>13, <1>16, <1>17, <1>20
<1> QED BY <1>4, <1>18, <1>19, <1>20

LEMMA TakeBytesType ==
    ASSUME NEW s \in Socket, WindowFits(s), NEW n \in 1 .. s.rcvUser
    PROVE  LET t == TakeBytes(s, n) IN
           /\ Receives(s, t) /\ WindowFits(t)
           /\ t.rcvNxt = s.rcvNxt /\ t.rcvWnd >= s.rcvWnd /\ t.ooo = s.ooo
<1> DEFINE m == s.rcvUser - n
           t == [s EXCEPT !.rcvUser = m]
<1>1. s.rcvUser \in Nat /\ s.rcvWnd \in Int BY SocketNumbers
<1>2. m \in Nat /\ m <= s.rcvUser BY <1>1
<1>3. TakeBytes(s, n) = UpdateReceiveWindow(t) BY DEF TakeBytes, Socket
<1> HIDE DEF m
<1>4. t \in Socket BY <1>2 DEF Socket
<1>5. SameControl(s, t) BY DEF SameControl, Socket
<1>6. /\ t.iss = s.iss /\ t.sndUna = s.sndUna /\ t.sndNxt = s.sndNxt
      /\ t.rcvNxt = s.rcvNxt /\ t.rcvUser = m /\ t.rcvWnd = s.rcvWnd
      /\ t.ooo = s.ooo
    BY DEF Socket
<1> HIDE DEF t
<1>7. WindowFits(t) BY <1>1, <1>2, <1>6, RxBufferAssumption DEF WindowFits
<1> DEFINE u == UpdateReceiveWindow(t)
<1>8. /\ Receives(t, u) /\ WindowFits(u)
      /\ u.rcvNxt = t.rcvNxt /\ u.rcvWnd >= t.rcvWnd /\ u.ooo = t.ooo
    BY <1>4, <1>7, UpdateReceiveWindowType
<1> HIDE DEF u
<1>9. Onward(s, u) BY <1>6, <1>8, SocketNumbers DEF Receives, Onward
<1>10. Receives(s, u) BY <1>5, <1>8, <1>9 DEF Receives, SameControl
<1> QED BY <1>3, <1>6, <1>8, <1>10 DEF u

LEMMA ReadRxBufferType ==
    ASSUME NEW s \in Socket, NEW n \in Nat
    PROVE  ReadRxBuffer(s, n) \in Seq(Byte)
<1>1. s.irs \in Nat /\ s.rcvNxt \in Nat /\ s.rcvUser \in Nat BY SocketNumbers
<1>2. s.rxBuf \in [0 .. RxBufferSize - 1 -> Byte] BY DEF Socket
<1>3. NextToRead(s) \in Int BY <1>1 DEF NextToRead
<1>4. \A i \in 1 .. n :
         s.rxBuf[(NextToRead(s) - s.irs - 1 + i - 1) % RxBufferSize] \in Byte
    <2> TAKE i \in 1 .. n
    <2>1. NextToRead(s) - s.irs - 1 + i - 1 \in Int BY <1>1, <1>3
    <2>2. (NextToRead(s) - s.irs - 1 + i - 1) % RxBufferSize \in 0 .. RxBufferSize - 1
        BY <2>1, RxBufferAssumption, RingOffset
    <2> QED BY <1>2, <2>2
<1>5. ReadRxBuffer(s, n) \in [1 .. n -> Byte] BY <1>4 DEF ReadRxBuffer
<1> QED BY <1>5

-----------------------------------------------------------------------------
(* The pair.                                                               *)

\* The sequence numbers an end sends are positive: a window probe, one before
\* the first unacknowledged number, has a number too.
Numbered(s) ==
    s.iss >= 1 /\ (s.type = "STREAM" => s.sndUna >= 1 /\ s.sndNxt >= 1)

\* The inductive invariant of a socket: an unused table entry is closed, and
\* nothing is held past a gap before the numbers of the peer are known.
Good(s) ==
    /\ s \in Socket
    /\ WindowFits(s)
    /\ s.state \in Receiving => GapsInside(s)
    /\ s.type = "UNUSED" => s.state = "CLOSED"
    /\ Unopened(s) \/ s.state = "SYN_SENT" => s.ooo = {}
    /\ Numbered(s)

\* What is left of it in the middle of a handler that takes a FIN.
Sound(s) ==
    /\ s \in Socket /\ s.type = "STREAM" /\ WindowFits(s) /\ Numbered(s)

\* A change of a socket that holds the invariant and its window.
Evolves(s, t) == Good(t) /\ t.type = s.type /\ RightEdge(t) >= RightEdge(s)

\* The same, when nothing is asked before the window is offered.
Stays(s, t) ==
    Good(t) /\ (s.state \in Synchronized => RightEdge(t) >= RightEdge(s))

IInv == TypeOK /\ \A e \in Ends : Good(sock[e])

EdgesHold ==
    \A e \in Ends : sock[e].state \in Synchronized =>
        RightEdge(sock[e]') >= RightEdge(sock[e])

-----------------------------------------------------------------------------
LEMMA EdgeType ==
    ASSUME NEW s \in Socket
    PROVE  RightEdge(s) \in Int
BY SocketNumbers DEF RightEdge

LEMMA PeerInEnds ==
    ASSUME NEW e \in Ends
    PROVE  Peer(e) \in Ends
BY EndsAssumption DEF Peer

LEMMA IncomingType ==
    ASSUME IInv, NEW e \in Ends, NEW g \in Incoming(e)
    PROVE  g \in Segment
<1>1. sock[Peer(e)] \in Socket BY PeerInEnds DEF IInv, Good
<1>2. sock[Peer(e)].sent \in SUBSET Segment BY <1>1 DEF Socket
<1>3. Strays[e] \in SUBSET Segment BY StraysAssumption
<1> QED BY <1>2, <1>3 DEF Incoming

LEMMA ViewType ==
    ASSUME NEW s \in Socket, NEW g \in Segment
    PROVE  View(s, g) \in Segment
<1> DEFINE f == g.flags \ {"SYN"}
           n == g.seq + 1
           v == [g EXCEPT !.flags = f, !.seq = n]
<1>1. f \in SUBSET Flags /\ n \in Nat BY DEF Segment
<1>2. View(s, g) \in {g, v} BY DEF View
<1> HIDE DEF f, n
<1>3. v \in Segment BY <1>1 DEF Segment
<1> QED BY <1>2, <1>3

LEMMA GoodStream ==
    ASSUME NEW s, Good(s), s.state # "CLOSED"
    PROVE  s.type = "STREAM" /\ Sound(s)
<1>1. s.type \in {"STREAM", "UNUSED"} BY DEF Good, Socket
<1> QED BY <1>1 DEF Good, Sound

LEMMA OnwardNumbered ==
    ASSUME NEW s \in Socket, NEW t \in Socket, Numbered(s), Onward(s, t),
           t.type = "STREAM" => s.type = "STREAM"
    PROVE  Numbered(t)
BY SocketNumbers DEF Numbered, Onward

\* The transmit side does not matter.
LEMMA TransmitsGood ==
    ASSUME NEW s, Good(s), NEW t, Transmits(s, t)
    PROVE  Evolves(s, t)
<1>1. s \in Socket /\ t \in Socket BY DEF Good, Transmits
<1>2. /\ t.rcvNxt = s.rcvNxt /\ t.rcvUser = s.rcvUser /\ t.rcvWnd = s.rcvWnd
      /\ t.ooo = s.ooo /\ t.type = s.type /\ t.state = s.state
      /\ t.closedFlag = s.closedFlag /\ t.resetFlag = s.resetFlag
    BY DEF Transmits, SameReceive, SameControl
<1>3. WindowFits(t) BY <1>2 DEF Good, WindowFits
<1>4. t.state \in Receiving => GapsInside(t) BY <1>2 DEF Good, GapsInside
<1>5. t.type = "UNUSED" => t.state = "CLOSED" BY <1>2 DEF Good
<1>6. Unopened(t) \/ t.state = "SYN_SENT" => t.ooo = {} BY <1>2 DEF Good, Unopened
<1>7. Numbered(t) BY <1>1, <1>2, OnwardNumbered DEF Good, Transmits
<1>8. RightEdge(t) >= RightEdge(s) BY <1>1, <1>2, EdgeType DEF RightEdge
<1> QED BY <1>1, <1>2, <1>3, <1>4, <1>5, <1>6, <1>7, <1>8 DEF Good, Evolves

LEMMA EvolvesTransitive ==
    ASSUME NEW s, Good(s), NEW t, NEW u, Evolves(s, t), Evolves(t, u)
    PROVE  Evolves(s, u)
BY EdgeType DEF Evolves, Good

LEMMA EvolvesStays ==
    ASSUME NEW s, NEW t, Evolves(s, t)
    PROVE  Stays(s, t)
BY DEF Evolves, Stays

\* A state in which nothing is received any more.
LEMMA FinalStateGood ==
    ASSUME NEW s, Sound(s), NEW state \in States \ Receiving
    PROVE  LET t == ChangeState(s, state) IN
           Good(t) /\ t.type = s.type /\ RightEdge(t) = RightEdge(s)
<1> DEFINE t == ChangeState(s, state)
<1>1. s \in Socket BY DEF Sound
<1>2. /\ t \in Socket /\ SameReceive(s, t) /\ Onward(s, t)
      /\ t.type = s.type /\ t.state = state
    BY <1>1, ChangeStateType
<1> HIDE DEF t
<1>3. WindowFits(t) BY <1>2 DEF Sound, WindowFits, SameReceive
<1>4. Numbered(t) BY <1>1, <1>2, OnwardNumbered DEF Sound
<1>5. t.type = "STREAM" /\ t.state \notin Receiving BY <1>2 DEF Sound
<1>6. t.state # "SYN_SENT" /\ ~Unopened(t) BY <1>5 DEF Receiving, Unopened
<1>7. Good(t) BY <1>2, <1>3, <1>4, <1>5, <1>6 DEF Good
<1>8. RightEdge(t) = RightEdge(s) BY <1>2 DEF SameReceive, RightEdge
<1> QED BY <1>2, <1>7, <1>8 DEF t

\* From one receiving state to another.
LEMMA ReceivingStateGood ==
    ASSUME NEW s, Good(s), s.type = "STREAM", s.state \in Receiving,
           NEW state \in States, state # "SYN_SENT"
    PROVE  Evolves(s, ChangeState(s, state))
<1> DEFINE t == ChangeState(s, state)
<1>1. s \in Socket BY DEF Good
<1>2. /\ t \in Socket /\ SameReceive(s, t) /\ Onward(s, t)
      /\ t.type = s.type /\ t.state = state
    BY <1>1, ChangeStateType
<1> HIDE DEF t
<1>3. WindowFits(t) BY <1>2 DEF Good, WindowFits, SameReceive
<1>4. Numbered(t) BY <1>1, <1>2, OnwardNumbered DEF Good
<1>5. GapsInside(t) BY <1>2 DEF Good, GapsInside, SameReceive
<1>6. t.type = "STREAM" /\ ~Unopened(t) BY <1>2 DEF Unopened
<1>7. Good(t) BY <1>2, <1>3, <1>4, <1>5, <1>6 DEF Good
<1>8. RightEdge(t) = RightEdge(s) BY <1>2 DEF SameReceive, RightEdge
<1> QED BY <1>1, <1>2, <1>7, <1>8, EdgeType DEF t, Evolves

\* The connection ends and its table entry is free.
LEMMA FreedGood ==
    ASSUME NEW s, Sound(s)
    PROVE  LET t == [DeleteControlBlock(ChangeState(s, "CLOSED"))
                       EXCEPT !.type = "UNUSED"] IN
           Good(t) /\ RightEdge(t) = RightEdge(s)
<1> DEFINE c == ChangeState(s, "CLOSED")
           d == DeleteControlBlock(c)
           t == [d EXCEPT !.type = "UNUSED"]
<1>1. s \in Socket /\ "CLOSED" \in States BY DEF Sound, States
<1>2. /\ c \in Socket /\ SameReceive(s, c) /\ Onward(s, c)
      /\ c.state = "CLOSED" /\ (c.closedFlag \/ c.resetFlag)
    BY <1>1, ChangeStateType
<1> HIDE DEF c
<1>3. Transmits(c, d) BY <1>2, DeleteControlBlockType
<1> HIDE DEF d
<1>4. d \in Socket BY <1>3 DEF Transmits
<1>5. t \in Socket BY <1>4 DEF Socket
<1>6. /\ t.type = "UNUSED" /\ t.state = d.state
      /\ t.closedFlag = d.closedFlag /\ t.resetFlag = d.resetFlag
      /\ t.iss = d.iss
      /\ t.rcvNxt = d.rcvNxt /\ t.rcvUser = d.rcvUser /\ t.rcvWnd = d.rcvWnd
    BY <1>4 DEF Socket
<1> HIDE DEF t
<1>7. t.state = "CLOSED" /\ (t.closedFlag \/ t.resetFlag)
    BY <1>2, <1>3, <1>6 DEF Transmits, SameControl
<1>8. t.rcvNxt = s.rcvNxt /\ t.rcvUser = s.rcvUser /\ t.rcvWnd = s.rcvWnd
    BY <1>2, <1>3, <1>6 DEF Transmits, SameReceive
<1>9. t.iss = s.iss BY <1>2, <1>3, <1>6 DEF Transmits, Onward
<1>10. WindowFits(t) BY <1>8 DEF Sound, WindowFits
<1>11. Numbered(t) BY <1>6, <1>9 DEF Sound, Numbered
<1>12. ~Unopened(t) /\ t.state \notin Receiving BY <1>7 DEF Unopened, Receiving
<1>13. Good(t) BY <1>5, <1>7, <1>10, <1>11, <1>12 DEF Good
<1> QED BY <1>8, <1>13 DEF t, d, c, RightEdge

-----------------------------------------------------------------------------
(* The handlers.                                                           *)

\* Data are processed in a receiving state.
LEMMA AfterDataGood ==
    ASSUME NEW s, Good(s), s.type = "STREAM", s.state \in Receiving \ {"SYN_SENT"},
           NEW g \in Segment
    PROVE  LET t == ProcessSegmentData(s, g) IN
           Evolves(s, t) /\ t.state = s.state
<1> DEFINE t == ProcessSegmentData(s, g)
<1>1. s \in Socket /\ WindowFits(s) /\ GapsInside(s) BY DEF Good
<1>2. /\ Receives(s, t) /\ WindowFits(t) /\ GapsInside(t)
      /\ t.rcvNxt + t.rcvWnd = s.rcvNxt + s.rcvWnd
    BY <1>1, ProcessSegmentDataType
<1> HIDE DEF t
<1>3. t \in Socket /\ t.type = "STREAM" /\ t.state = s.state
    BY <1>2 DEF Receives, SameControl
<1>4. Numbered(t) BY <1>1, <1>2, <1>3, OnwardNumbered DEF Good, Receives
<1>5. ~Unopened(t) BY <1>3 DEF Unopened
<1>6. Good(t) BY <1>2, <1>3, <1>4, <1>5 DEF Good
<1>7. RightEdge(t) >= RightEdge(s) BY <1>1, <1>2, EdgeType DEF RightEdge
<1> QED BY <1>3, <1>6, <1>7 DEF t, Evolves

\* The FIN is taken and a state follows in which nothing is received.
LEMMA TakeFinSound ==
    ASSUME NEW s, Good(s), s.type = "STREAM"
    PROVE  LET t == TakeFin(s) IN
           Sound(t) /\ t.type = s.type /\ RightEdge(t) >= RightEdge(s)
<1> DEFINE t == TakeFin(s)
<1>1. s \in Socket /\ WindowFits(s) BY DEF Good
<1>2. /\ Receives(s, t) /\ WindowFits(t)
      /\ t.rcvNxt + t.rcvWnd = s.rcvNxt + s.rcvWnd + 1
    BY <1>1, TakeFinType
<1> HIDE DEF t
<1>3. t \in Socket /\ t.type = s.type BY <1>2 DEF Receives, SameControl
<1>4. Numbered(t) BY <1>1, <1>2, <1>3, OnwardNumbered DEF Good, Receives
<1>5. RightEdge(t) = RightEdge(s) + 1 BY <1>2 DEF RightEdge
<1>6. RightEdge(t) >= RightEdge(s) BY <1>1, <1>5, EdgeType
<1> QED BY <1>2, <1>3, <1>4, <1>6 DEF t, Sound

LEMMA TakeFinGood ==
    ASSUME NEW s, Good(s), s.type = "STREAM", NEW state \in States \ Receiving
    PROVE  Evolves(s, ChangeState(TakeFin(s), state))
<1> DEFINE f == TakeFin(s)
<1>1. Sound(f) /\ f.type = s.type /\ RightEdge(f) >= RightEdge(s) BY TakeFinSound
<1> HIDE DEF f
<1>2. LET t == ChangeState(f, state) IN
      Good(t) /\ t.type = f.type /\ RightEdge(t) = RightEdge(f)
    BY <1>1, FinalStateGood
<1> QED BY <1>1, <1>2 DEF f, Evolves

LEMMA TimeWaitGood ==
    ASSUME NEW s, Sound(s)
    PROVE  LET t == TimeWait(s) IN
           Good(t) /\ t.type = s.type /\ RightEdge(t) = RightEdge(s)
<1> DEFINE d == DeleteControlBlock(s)
<1>1. s \in Socket BY DEF Sound
<1>2. Transmits(s, d) BY <1>1, DeleteControlBlockType
<1> HIDE DEF d
<1>3. d \in Socket /\ d.type = s.type BY <1>2 DEF Transmits, SameControl
<1>4. WindowFits(d) BY <1>2 DEF Sound, Transmits, SameReceive, WindowFits
<1>5. Numbered(d) BY <1>1, <1>2, <1>3, OnwardNumbered DEF Sound, Transmits
<1>6. Sound(d) BY <1>3, <1>4, <1>5 DEF Sound
<1>7. "TIME_WAIT" \in States \ Receiving BY DEF States, Receiving
<1>8. LET t == ChangeState(d, "TIME_WAIT") IN
      Good(t) /\ t.type = d.type /\ RightEdge(t) = RightEdge(d)
    BY <1>6, <1>7, FinalStateGood
<1>9. RightEdge(d) = RightEdge(s) BY <1>2 DEF Transmits, SameReceive, RightEdge
<1> QED BY <1>3, <1>8, <1>9 DEF TimeWait, d

LEMMA TimeWaitAfterFinGood ==
    ASSUME NEW s, Good(s), s.type = "STREAM"
    PROVE  Evolves(s, TimeWait(TakeFin(s)))
<1> DEFINE f == TakeFin(s)
<1>1. Sound(f) /\ f.type = s.type /\ RightEdge(f) >= RightEdge(s) BY TakeFinSound
<1> HIDE DEF f
<1>2. LET t == TimeWait(f) IN
      Good(t) /\ t.type = f.type /\ RightEdge(t) = RightEdge(f)
    BY <1>1, TimeWaitGood
<1> QED BY <1>1, <1>2 DEF f, Evolves

LEMMA CheckAckGood ==
    ASSUME NEW s, Good(s), NEW g \in Segment
    PROVE  Evolves(s, CheckAck(s, g)) /\ CheckAck(s, g).state = s.state
<1>1. Transmits(s, CheckAck(s, g)) BY CheckAckType DEF Good
<1> QED BY <1>1, TransmitsGood DEF Transmits, SameControl

LEMMA NagleGood ==
    ASSUME NEW s, Good(s), NEW flag
    PROVE  Evolves(s, NagleAlgo(s, flag))
<1>1. Transmits(s, NagleAlgo(s, flag)) BY NagleAlgoType DEF Good
<1> QED BY <1>1, TransmitsGood

LEMMA EstablishedHandlerGood ==
    ASSUME NEW s, Good(s), s.type = "STREAM", s.state = "ESTABLISHED",
           NEW g \in Segment
    PROVE  Evolves(s, EstablishedHandler(s, g))
<1> DEFINE a == CheckAck(s, g)
           d == ProcessSegmentData(a, g)
           f == IF FinReached(d, g) THEN ChangeState(TakeFin(d), "CLOSE_WAIT") ELSE d
<1>1. Evolves(s, a) /\ a.state = "ESTABLISHED" BY CheckAckGood
<1> HIDE DEF a
<1>2. Good(a) /\ a.type = "STREAM" /\ a.state \in Receiving \ {"SYN_SENT"}
    BY <1>1 DEF Evolves, Receiving
<1>3. Evolves(a, d) BY <1>2, AfterDataGood
<1> HIDE DEF d
<1>4. Good(d) /\ d.type = "STREAM" BY <1>2, <1>3 DEF Evolves
<1>5. "CLOSE_WAIT" \in States \ Receiving BY DEF States, Receiving
<1>6. Evolves(d, ChangeState(TakeFin(d), "CLOSE_WAIT")) BY <1>4, <1>5, TakeFinGood
<1>7. Evolves(s, d) BY <1>1, <1>3, EvolvesTransitive
<1>8. Evolves(s, f) BY <1>6, <1>7, EvolvesTransitive
<1> HIDE DEF f
<1>9. Evolves(f, NagleAlgo(f, "NONE")) BY <1>8, NagleGood DEF Evolves
<1>10. Evolves(s, NagleAlgo(f, "NONE")) BY <1>8, <1>9, EvolvesTransitive
<1> QED BY <1>10 DEF EstablishedHandler, AfterData, a, d, f

LEMMA CloseWaitHandlerGood ==
    ASSUME NEW s, Good(s), NEW g \in Segment
    PROVE  Evolves(s, CloseWaitHandler(s, g))
<1>1. Evolves(s, CheckAck(s, g)) BY CheckAckGood
<1>2. Good(CheckAck(s, g)) BY <1>1 DEF Evolves
<1>3. Evolves(CheckAck(s, g), NagleAlgo(CheckAck(s, g), "NONE")) BY <1>2, NagleGood
<1> QED BY <1>1, <1>3, EvolvesTransitive DEF CloseWaitHandler

LEMMA FinWait1HandlerGood ==
    ASSUME NEW s, Good(s), s.type = "STREAM", s.state = "FIN_WAIT_1",
           NEW g \in Segment
    PROVE  Evolves(s, FinWait1Handler(s, g))
<1> DEFINE a == CheckAck(s, g)
           acked == g.ack = a.sndNxt
           b == IF acked THEN ChangeState(a, "FIN_WAIT_2") ELSE a
           d == ProcessSegmentData(b, g)
<1>1. Evolves(s, a) /\ a.state = "FIN_WAIT_1" BY CheckAckGood
<1>2. FinWait1Handler(s, g) = IF ~FinReached(d, g) THEN d
                              ELSE IF acked THEN TimeWait(TakeFin(d))
                              ELSE ChangeState(TakeFin(d), "CLOSING")
    BY DEF FinWait1Handler
<1> HIDE DEF a, acked
<1>3. Good(a) /\ a.type = "STREAM" BY <1>1 DEF Evolves
<1>4. a.state \in Receiving /\ "FIN_WAIT_2" \in States BY <1>1 DEF Receiving, States
<1>5. Evolves(a, ChangeState(a, "FIN_WAIT_2")) BY <1>3, <1>4, ReceivingStateGood
<1>6. ChangeState(a, "FIN_WAIT_2").state = "FIN_WAIT_2"
    BY <1>3, <1>4, ChangeStateType DEF Good
<1>7. Evolves(s, b) /\ b.state \in {"FIN_WAIT_1", "FIN_WAIT_2"}
    BY <1>1, <1>5, <1>6, EvolvesTransitive
<1> HIDE DEF b
<1>8. Good(b) /\ b.type = "STREAM" /\ b.state \in Receiving \ {"SYN_SENT"}
    BY <1>7 DEF Evolves, Receiving
<1>9. Evolves(b, d) BY <1>8, AfterDataGood
<1> HIDE DEF d
<1>10. Evolves(s, d) BY <1>7, <1>9, EvolvesTransitive
<1>11. Good(d) /\ d.type = "STREAM" BY <1>10 DEF Evolves
<1>12. "CLOSING" \in States \ Receiving BY DEF States, Receiving
<1>13. Evolves(d, ChangeState(TakeFin(d), "CLOSING")) BY <1>11, <1>12, TakeFinGood
<1>14. Evolves(d, TimeWait(TakeFin(d))) BY <1>11, TimeWaitAfterFinGood
<1> QED BY <1>2, <1>10, <1>13, <1>14, EvolvesTransitive

LEMMA FinWait2HandlerGood ==
    ASSUME NEW s, Good(s), s.type = "STREAM", s.state = "FIN_WAIT_2",
           NEW g \in Segment
    PROVE  Evolves(s, FinWait2Handler(s, g))
<1> DEFINE a == CheckAck(s, g)
           d == ProcessSegmentData(a, g)
<1>1. Evolves(s, a) /\ a.state = "FIN_WAIT_2" BY CheckAckGood
<1>2. FinWait2Handler(s, g) = IF FinReached(d, g) THEN TimeWait(TakeFin(d)) ELSE d
    BY DEF FinWait2Handler, AfterData
<1> HIDE DEF a
<1>3. Good(a) /\ a.type = "STREAM" /\ a.state \in Receiving \ {"SYN_SENT"}
    BY <1>1 DEF Evolves, Receiving
<1>4. Evolves(a, d) BY <1>3, AfterDataGood
<1> HIDE DEF d
<1>5. Evolves(s, d) BY <1>1, <1>4, EvolvesTransitive
<1>6. Good(d) /\ d.type = "STREAM" BY <1>5 DEF Evolves
<1>7. Evolves(d, TimeWait(TakeFin(d))) BY <1>6, TimeWaitAfterFinGood
<1> QED BY <1>2, <1>5, <1>7, EvolvesTransitive

LEMMA ClosingHandlerGood ==
    ASSUME NEW s, Good(s), s.type = "STREAM", NEW g \in Segment
    PROVE  Evolves(s, ClosingHandler(s, g))
<1> DEFINE a == CheckAck(s, g)
<1>1. Evolves(s, a) BY CheckAckGood
<1>2. ClosingHandler(s, g) = IF g.ack = a.sndNxt THEN TimeWait(a) ELSE a
    BY DEF ClosingHandler
<1> HIDE DEF a
<1>3. Sound(a) BY <1>1 DEF Evolves, Good, Sound
<1>4. Good(TimeWait(a)) /\ TimeWait(a).type = a.type
      /\ RightEdge(TimeWait(a)) = RightEdge(a)
    BY <1>3, TimeWaitGood
<1>5. Evolves(s, TimeWait(a)) BY <1>1, <1>4 DEF Evolves
<1> QED BY <1>1, <1>2, <1>5

-----------------------------------------------------------------------------
(* The steps.                                                              *)

\* A step that changes the socket of one end, and the rest of the types.
LEMMA SocketStep ==
    ASSUME IInv, NEW e \in Ends, NEW s, Stays(sock[e], s),
           sock' = [sock EXCEPT ![e] = s],
           listening' \subseteq Passive,
           synQueue' \in [Ends -> SUBSET Nat],
           written' \in [Ends -> Nat],
           delivered' \in [Ends -> Seq(Byte)],
           eos' \subseteq Ends
    PROVE  IInv' /\ EdgesHold
<1>1. sock \in [Ends -> Socket] BY DEF IInv, TypeOK
<1>2. s \in Socket BY DEF Stays, Good
<1>3. sock' \in [Ends -> Socket] BY <1>1, <1>2
<1>4. sock'[e] = s /\ \A x \in Ends \ {e} : sock'[x] = sock[x] BY <1>1
<1>5. \A x \in Ends : Good(sock'[x]) BY <1>4 DEF IInv, Stays
<1>6. ASSUME NEW x \in Ends, sock[x].state \in Synchronized
      PROVE  RightEdge(sock'[x]) >= RightEdge(sock[x])
    <2>1. CASE x = e BY <1>4, <1>6, <2>1 DEF Stays
    <2>2. CASE x # e
        <3>1. sock'[x] = sock[x] /\ sock[x] \in Socket BY <1>1, <1>4, <2>2
        <3> QED BY <3>1, EdgeType
    <2> QED BY <2>1, <2>2
<1>7. EdgesHold BY <1>6 DEF EdgesHold
<1>8. TypeOK' BY <1>3 DEF TypeOK
<1> QED BY <1>5, <1>7, <1>8 DEF IInv

LEMMA BecomesStep ==
    ASSUME IInv, NEW e \in Ends, NEW s, Stays(sock[e], s), Becomes(e, s)
    PROVE  IInv' /\ EdgesHold
BY SocketStep DEF Becomes, listener, app, IInv, TypeOK

\* A step that changes no socket.
LEMMA QuietStep ==
    ASSUME IInv, UNCHANGED sock,
           listening' \subseteq Passive,
           synQueue' \in [Ends -> SUBSET Nat],
           UNCHANGED <<written, delivered>>,
           eos' \subseteq Ends
    PROVE  IInv' /\ EdgesHold
<1>1. IInv' BY DEF IInv, TypeOK
<1>2. \A x \in Ends : sock[x] \in Socket BY DEF IInv, Good
<1>3. EdgesHold BY <1>2, EdgeType DEF EdgesHold
<1> QED BY <1>1, <1>3

\* tcpConnect and tcpAccept: an unused entry becomes a connection.
LEMMA OpenedGood ==
    ASSUME NEW s, Good(s), Unopened(s), NEW irs \in Nat, NEW nxt \in Nat
    PROVE  LET t == Opened(s, irs, nxt) IN
           /\ t \in Socket /\ t.type = "STREAM" /\ t.ooo = {}
           /\ WindowFits(t) /\ Numbered(t)
<1> DEFINE t == Opened(s, irs, nxt)
           n == s.iss + 1
<1>1. s \in Socket /\ s.iss \in Nat /\ s.iss >= 1 /\ s.ooo = {}
    BY SocketNumbers DEF Good, Numbered
<1>2. n \in Nat /\ n >= 1 /\ RxBufferSize \in Nat BY <1>1, RxBufferAssumption
<1> DEFINE u == [s EXCEPT !.type = "STREAM", !.owned = TRUE]
           v == [u EXCEPT !.irs = irs, !.sndUna = s.iss, !.sndNxt = n]
           w == [v EXCEPT !.rcvNxt = nxt, !.rcvUser = 0, !.rcvWnd = RxBufferSize]
<1>3. t = w BY <1>1 DEF Opened, Socket
<1>4. t \in Socket
    <2>1. u \in Socket BY <1>1 DEF Socket
    <2> HIDE DEF u, n, t
    <2>2. v \in Socket BY <1>1, <1>2, <2>1 DEF Socket
    <2> HIDE DEF v
    <2>3. 0 \in Nat /\ RxBufferSize \in Int BY <1>2
    <2>4. w \in Socket BY <2>2, <2>3 DEF Socket
    <2> QED BY <1>3, <2>4
<1>5. /\ t.type = "STREAM" /\ t.ooo = {} /\ t.iss = s.iss /\ t.sndUna = s.iss
      /\ t.sndNxt = n /\ t.rcvUser = 0 /\ t.rcvWnd = RxBufferSize
    BY <1>1 DEF Opened, Socket
<1> HIDE DEF t, n
<1>6. WindowFits(t) BY <1>2, <1>5 DEF WindowFits
<1>7. Numbered(t) BY <1>1, <1>2, <1>5 DEF Numbered
<1> QED BY <1>4, <1>5, <1>6, <1>7 DEF t

\* A connection that opens holds nothing past a gap.
LEMMA EmptyGood ==
    ASSUME NEW s \in Socket, s.type = "STREAM", s.ooo = {},
           WindowFits(s), Numbered(s)
    PROVE  Good(s)
BY DEF Good, GapsInside, Unopened

LEMMA EmptyTransmits ==
    ASSUME NEW s, Good(s), s.type = "STREAM", s.ooo = {}, NEW t, Transmits(s, t)
    PROVE  Good(t) /\ t.type = "STREAM" /\ t.ooo = {} /\ t.state = s.state
BY TransmitsGood DEF Transmits, SameControl, SameReceive, Evolves

LEMMA EmptyChangeState ==
    ASSUME NEW s, Good(s), s.type = "STREAM", s.ooo = {}, NEW state \in States
    PROVE  Good(ChangeState(s, state))
<1> DEFINE t == ChangeState(s, state)
<1>1. s \in Socket BY DEF Good
<1>2. /\ t \in Socket /\ SameReceive(s, t) /\ Onward(s, t)
      /\ t.type = s.type /\ t.state = state
    BY <1>1, ChangeStateType
<1> HIDE DEF t
<1>3. WindowFits(t) BY <1>2 DEF Good, WindowFits, SameReceive
<1>4. Numbered(t) BY <1>1, <1>2, OnwardNumbered DEF Good
<1>5. t.ooo = {} /\ t.type = "STREAM" BY <1>2 DEF SameReceive
<1> QED BY <1>2, <1>3, <1>4, <1>5, EmptyGood DEF t

LEMMA ConnectStep ==
    ASSUME IInv, NEW e \in Ends, Connect(e)
    PROVE  IInv' /\ EdgesHold
<1> DEFINE s == sock[e]
           o == Opened(s, 0, 0)
           q == QueueControl(o, {"SYN"}, s.iss)
           t == ChangeState(q, "SYN_SENT")
<1>1. Good(s) /\ Unopened(s) /\ Becomes(e, t) BY DEF Connect, IInv
<1>2. s.iss \in Nat /\ s.state \notin Synchronized
    BY <1>1, SocketNumbers DEF Good, Unopened, Synchronized
<1>3. Good(o) /\ o.type = "STREAM" /\ o.ooo = {} /\ o \in Socket
    BY <1>1, OpenedGood, EmptyGood
<1> HIDE DEF o
<1>4. Transmits(o, q) BY <1>2, <1>3, QueueControlType DEF Flags
<1> HIDE DEF q
<1>5. Good(q) /\ q.type = "STREAM" /\ q.ooo = {} BY <1>3, <1>4, EmptyTransmits
<1>6. Good(t) BY <1>5, EmptyChangeState DEF States
<1>7. Stays(s, t) BY <1>2, <1>6 DEF Stays
<1> HIDE DEF t
<1> QED BY <1>1, <1>7, BecomesStep

LEMMA AcceptStep ==
    ASSUME IInv, NEW e \in Ends, Accept(e)
    PROVE  IInv' /\ EdgesHold
<1>1. PICK isn \in synQueue[e] :
        LET s == ChangeState(Opened(sock[e], isn, isn + 1), "SYN_RECEIVED") IN
        /\ e \in listening /\ Unopened(sock[e])
        /\ sock' = [sock EXCEPT ![e] = QueueControl(s, {"SYN", "ACK"}, s.iss)]
        /\ synQueue' = [synQueue EXCEPT ![e] = @ \ {isn}]
        /\ UNCHANGED <<listening, app>>
    BY DEF Accept
<1> DEFINE o == Opened(sock[e], isn, isn + 1)
           c == ChangeState(o, "SYN_RECEIVED")
           t == QueueControl(c, {"SYN", "ACK"}, c.iss)
<1>2. Good(sock[e]) /\ synQueue \in [Ends -> SUBSET Nat] BY DEF IInv, TypeOK
<1>3. isn \in Nat /\ isn + 1 \in Nat BY <1>2
<1>4. sock[e].state \notin Synchronized
    BY <1>1, <1>2 DEF Good, Unopened, Synchronized
<1>5. Good(o) /\ o.type = "STREAM" /\ o.ooo = {}
    BY <1>1, <1>2, <1>3, OpenedGood, EmptyGood
<1> HIDE DEF o
<1>6. Good(c) BY <1>5, EmptyChangeState DEF States
<1> HIDE DEF c
<1>7. c \in Socket /\ c.iss \in Nat BY <1>6, SocketNumbers DEF Good
<1>8. Transmits(c, t) BY <1>7, QueueControlType DEF Flags
<1>9. Good(t) BY <1>6, <1>8, TransmitsGood DEF Evolves
<1>10. Stays(sock[e], t) BY <1>4, <1>9 DEF Stays
<1>11. sock' = [sock EXCEPT ![e] = t] BY <1>1 DEF t, c, o
<1>12. synQueue' \in [Ends -> SUBSET Nat] BY <1>1, <1>2
<1> HIDE DEF t
<1> QED BY <1>1, <1>10, <1>11, <1>12, SocketStep DEF app, IInv, TypeOK

LEMMA SendStep ==
    ASSUME IInv, NEW e \in Ends, Send(e)
    PROVE  IInv' /\ EdgesHold
<1>1. PICK n \in 0 .. (WriteLimit[e] - written[e]),
           flag \in {"NONE", "NO_DELAY", "DELAY"} :
        LET data == [i \in 1 .. n |-> written[e] + i] IN
        /\ sock' = [sock EXCEPT ![e] = NagleAlgo(WriteTxBuffer(sock[e], data), flag)]
        /\ written' = [written EXCEPT ![e] = @ + n]
        /\ UNCHANGED <<listener, delivered, eos>>
    BY DEF Send
<1> DEFINE data == [i \in 1 .. n |-> written[e] + i]
           w == WriteTxBuffer(sock[e], data)
           t == NagleAlgo(w, flag)
<1>2. /\ written \in [Ends -> Nat] /\ WriteLimit \in [Ends -> Nat]
      /\ Good(sock[e]) /\ sock[e] \in Socket
    BY WriteAssumption DEF IInv, TypeOK, Good
<1>3. n \in Nat BY <1>2
<1>4. data \in [1 .. n -> Byte] BY <1>2, <1>3 DEF Byte
<1>5. data \in Seq(Byte) BY <1>3, <1>4
<1> HIDE DEF data
<1>6. Evolves(sock[e], w) BY <1>2, <1>5, WriteTxBufferType, TransmitsGood
<1> HIDE DEF w
<1>7. Evolves(w, t) BY <1>6, NagleGood DEF Evolves
<1>8. Stays(sock[e], t) BY <1>2, <1>6, <1>7, EvolvesTransitive, EvolvesStays
<1>9. written' \in [Ends -> Nat] BY <1>1, <1>2, <1>3
<1>10. sock' = [sock EXCEPT ![e] = t] BY <1>1 DEF t, w, data
<1> HIDE DEF t
<1> QED BY <1>1, <1>8, <1>9, <1>10, SocketStep DEF listener, IInv, TypeOK

LEMMA ReceiveStep ==
    ASSUME IInv, NEW e \in Ends, Receive(e)
    PROVE  IInv' /\ EdgesHold
<1>1. PICK n \in 1 .. sock[e].rcvUser :
        /\ Usable(sock[e])
        /\ sock' = [sock EXCEPT ![e] = TakeBytes(@, n)]
        /\ delivered' = [delivered EXCEPT ![e] = @ \o ReadRxBuffer(sock[e], n)]
        /\ UNCHANGED <<listener, written, eos>>
    BY DEF Receive
<1> DEFINE s == sock[e]
           t == TakeBytes(s, n)
<1>2. Good(s) /\ s \in Socket /\ WindowFits(s) /\ s.type = "STREAM"
    BY <1>1 DEF IInv, Good, Usable
<1>3. n \in Nat BY <1>2, SocketNumbers
<1>4. /\ Receives(s, t) /\ WindowFits(t)
      /\ t.rcvNxt = s.rcvNxt /\ t.rcvWnd >= s.rcvWnd /\ t.ooo = s.ooo
    BY <1>2, TakeBytesType
<1>5. sock' = [sock EXCEPT ![e] = t] BY <1>1 DEF IInv, TypeOK
<1> HIDE DEF t
<1>6. t \in Socket /\ t.type = "STREAM" /\ t.state = s.state
    BY <1>2, <1>4 DEF Receives, SameControl
<1>7. Numbered(t) BY <1>2, <1>4, <1>6, OnwardNumbered DEF Good, Receives
<1>8. GapsInside(s) => GapsInside(t)
    BY <1>2, <1>4, <1>6, SocketNumbers DEF GapsInside
<1>9. Good(t) BY <1>2, <1>4, <1>6, <1>7, <1>8 DEF Good, Unopened
<1>10. RightEdge(t) >= RightEdge(s) BY <1>2, <1>4, <1>6, SocketNumbers DEF RightEdge
<1>11. Stays(s, t) BY <1>9, <1>10 DEF Stays
<1>12. delivered \in [Ends -> Seq(Byte)] BY DEF IInv, TypeOK
<1>13. ReadRxBuffer(s, n) \in Seq(Byte) BY <1>2, <1>3, ReadRxBufferType
<1>14. delivered[e] \o ReadRxBuffer(s, n) \in Seq(Byte) BY <1>12, <1>13
<1>15. delivered' \in [Ends -> Seq(Byte)] BY <1>1, <1>12, <1>14
<1> QED BY <1>1, <1>5, <1>11, <1>15, SocketStep DEF listener, IInv, TypeOK

LEMMA ShutdownFinStep ==
    ASSUME IInv, NEW e \in Ends, ShutdownFin(e)
    PROVE  IInv' /\ EdgesHold
<1> DEFINE s == sock[e]
           q == QueueControl(s, {"FIN", "ACK"}, s.sndNxt)
           n == q.sndNxt + 1
           f == [q EXCEPT !.sndUna = q.sndUna, !.sndNxt = n, !.sndUser = q.sndUser]
           next == IF s.state = "CLOSE_WAIT" THEN "LAST_ACK" ELSE "FIN_WAIT_1"
           t == ChangeState(f, next)
<1>1. /\ Good(s) /\ s \in Socket /\ s.type = "STREAM"
      /\ s.state \in {"SYN_RECEIVED", "ESTABLISHED", "CLOSE_WAIT"}
    BY DEF ShutdownFin, Usable, IInv, Good
<1>2. Becomes(e, ChangeState([q EXCEPT !.sndNxt = @ + 1], next)) BY DEF ShutdownFin
<1>3. Transmits(s, q)
    <2>1. s.sndNxt \in Nat /\ {"FIN", "ACK"} \in SUBSET Flags
        BY <1>1, SocketNumbers DEF Flags
    <2> QED BY <1>1, <2>1, QueueControlType
<1> HIDE DEF q
<1>4. q \in Socket BY <1>3 DEF Transmits
<1>5. f = [q EXCEPT !.sndNxt = @ + 1] BY <1>4 DEF Socket
<1>6. n \in Nat /\ n >= q.sndNxt /\ q.sndUna \in Nat /\ q.sndUna >= q.sndUna
      /\ q.sndUser \in Nat
    BY <1>4, SocketNumbers
<1> HIDE DEF n
<1>7. Transmits(q, f) BY <1>4, <1>6, NewNumbers
<1> HIDE DEF f
<1>8. Transmits(s, f) BY <1>1, <1>3, <1>4, <1>7, TransmitsTransitive
<1>9. Evolves(s, f) BY <1>1, <1>8, TransmitsGood
<1>10. Good(f) /\ f.type = "STREAM" /\ f.state = s.state
    BY <1>1, <1>8, <1>9 DEF Evolves, Transmits, SameControl
<1>11. CASE s.state = "CLOSE_WAIT"
    <2>1. "LAST_ACK" \in States \ Receiving BY DEF States, Receiving
    <2>2. Sound(f) BY <1>10 DEF Good, Sound
    <2>3. LET u == ChangeState(f, "LAST_ACK") IN
          Good(u) /\ u.type = f.type /\ RightEdge(u) = RightEdge(f)
        BY <2>1, <2>2, FinalStateGood
    <2>4. Stays(s, ChangeState(f, "LAST_ACK")) BY <1>9, <2>3 DEF Evolves, Stays
    <2> QED BY <1>2, <1>5, <1>11, <2>4, BecomesStep
<1>12. CASE s.state # "CLOSE_WAIT"
    <2>1. f.state \in Receiving /\ "FIN_WAIT_1" \in States
        BY <1>1, <1>10, <1>12 DEF Receiving, States
    <2>2. Evolves(f, ChangeState(f, "FIN_WAIT_1")) BY <1>10, <2>1, ReceivingStateGood
    <2>3. Stays(s, ChangeState(f, "FIN_WAIT_1"))
        BY <1>1, <1>9, <2>2, EvolvesTransitive, EvolvesStays
    <2> QED BY <1>2, <1>5, <1>12, <2>3, BecomesStep
<1> QED BY <1>11, <1>12

LEMMA AbortStep ==
    ASSUME IInv, NEW e \in Ends, Abort(e)
    PROVE  IInv' /\ EdgesHold
<1> DEFINE s == sock[e]
           reset == SendResetSegment(s, s.sndNxt)
           before == IF s.state = "SYN_SENT" THEN s ELSE reset
           closed == [DeleteControlBlock(ChangeState(before, "CLOSED"))
                        EXCEPT !.type = "UNUSED"]
           left == [s EXCEPT !.owned = FALSE]
<1>1. /\ Good(s) /\ s \in Socket /\ s.type = "STREAM"
      /\ Becomes(e, IF s.state = "TIME_WAIT" THEN left ELSE closed)
    BY DEF Abort, Usable, IInv, Good
<1>2. Transmits(s, reset) BY <1>1, SocketNumbers, SendResetSegmentType
<1>3. Evolves(s, before) BY <1>1, <1>2, TransmitsGood, SameTransmits
<1> HIDE DEF before
<1>4. Sound(before) BY <1>1, <1>3 DEF Evolves, Good, Sound
<1>5. Good(closed) /\ RightEdge(closed) = RightEdge(before) BY <1>4, FreedGood
<1> HIDE DEF closed
<1>6. Stays(s, closed) BY <1>3, <1>5 DEF Evolves, Stays
<1>7. Transmits(s, left)
    <2>1. left \in Socket BY <1>1 DEF Socket
    <2>2. SameReceive(s, left) /\ SameControl(s, left)
        BY <1>1 DEF SameReceive, SameControl, Socket
    <2>3. left.iss = s.iss /\ left.sndUna = s.sndUna /\ left.sndNxt = s.sndNxt
        BY <1>1 DEF Socket
    <2>4. Onward(s, left) BY <1>1, <2>3, SocketNumbers DEF Onward
    <2> QED BY <2>1, <2>2, <2>4 DEF Transmits
<1> HIDE DEF left
<1>8. Stays(s, left) BY <1>1, <1>7, TransmitsGood, EvolvesStays
<1> QED BY <1>1, <1>6, <1>8, BecomesStep

LEMMA UserStep ==
    ASSUME IInv, NEW e \in Ends, User(e)
    PROVE  IInv' /\ EdgesHold
<1>1. CASE Listen(e)
    <2>1. listening' \subseteq Passive BY <1>1 DEF Listen, IInv, TypeOK
    <2> QED BY <1>1, <2>1, QuietStep DEF Listen, app, IInv, TypeOK
<1>2. CASE StopListening(e)
    <2>1. listening' \subseteq Passive /\ synQueue' \in [Ends -> SUBSET Nat]
        BY <1>2 DEF StopListening, IInv, TypeOK
    <2> QED BY <1>2, <2>1, QuietStep DEF StopListening, app, IInv, TypeOK
<1>3. CASE ReceiveEndOfStream(e)
    BY <1>3, QuietStep DEF ReceiveEndOfStream, listener, IInv, TypeOK
<1>4. CASE ShutdownFlush(e)
    <2>1. Good(sock[e]) /\ Becomes(e, NagleAlgo(sock[e], "NO_DELAY"))
        BY <1>4 DEF ShutdownFlush, IInv
    <2>2. Stays(sock[e], NagleAlgo(sock[e], "NO_DELAY"))
        BY <2>1, NagleGood, EvolvesStays
    <2> QED BY <2>1, <2>2, BecomesStep
<1> QED BY <1>1, <1>2, <1>3, <1>4, ConnectStep, AcceptStep, SendStep, ReceiveStep,
           ShutdownFinStep, AbortStep DEF User

LEMMA ClosedStays ==
    ASSUME NEW s, Good(s), s.type = "STREAM", NEW t, Transmits(s, t)
    PROVE  Stays(s, ChangeState(t, "CLOSED"))
<1>1. Evolves(s, t) BY TransmitsGood
<1>2. Sound(t) BY <1>1 DEF Evolves, Good, Sound
<1>3. "CLOSED" \in States \ Receiving BY DEF States, Receiving
<1>4. LET u == ChangeState(t, "CLOSED") IN
      Good(u) /\ u.type = t.type /\ RightEdge(u) = RightEdge(t)
    BY <1>2, <1>3, FinalStateGood
<1> QED BY <1>1, <1>4 DEF Evolves, Stays

LEMMA TimerStep ==
    ASSUME IInv, NEW e \in Ends, Timer(e)
    PROVE  IInv' /\ EdgesHold
<1> DEFINE s == sock[e]
<1>1. Good(s) /\ s \in Socket BY DEF IInv, Good
<1>2. /\ s.sndNxt \in Nat /\ s.sndUna \in Nat /\ s.rcvNxt \in Nat
      /\ s.rtxCount \in Nat /\ s.probeCount \in Nat
    BY <1>1, SocketNumbers
<1>3. CASE Retransmit(e)
    <2> DEFINE r == RetransmitSegment(s)
               t == [r EXCEPT !.rtxTimer = r.rtxTimer, !.rtxCount = r.rtxCount + 1]
    <2>1. Becomes(e, [r EXCEPT !.rtxCount = @ + 1]) BY <1>3 DEF Retransmit
    <2>2. Transmits(s, r) BY <1>1, RetransmitSegmentType
    <2> HIDE DEF r
    <2>3. r \in Socket BY <2>2 DEF Transmits
    <2>4. r.rtxTimer \in BOOLEAN BY <2>3 DEF Socket
    <2>5. r.rtxCount + 1 \in Nat BY <2>3, SocketNumbers
    <2>6. Transmits(r, t) BY <2>3, <2>4, <2>5, NewTimer
    <2>7. t = [r EXCEPT !.rtxCount = @ + 1] BY <2>3 DEF Socket
    <2> HIDE DEF t
    <2>8. Transmits(s, t) BY <1>1, <2>2, <2>6, TransmitsTransitive
    <2>9. Stays(s, t) BY <1>1, <2>8, TransmitsGood, EvolvesStays
    <2> QED BY <2>1, <2>7, <2>9, BecomesStep
<1>4. CASE GiveUp(e)
    <2> DEFINE r == SendResetSegment(s, s.sndNxt)
               t == [r EXCEPT !.rtxTimer = FALSE, !.rtxCount = r.rtxCount]
    <2>1. /\ s.state # "CLOSED"
          /\ Becomes(e, ChangeState([r EXCEPT !.rtxTimer = FALSE], "CLOSED"))
        BY <1>4 DEF GiveUp, RetransmitDue
    <2>2. Transmits(s, r) BY <1>1, <1>2, SendResetSegmentType
    <2> HIDE DEF r
    <2>3. r \in Socket /\ r.rtxCount \in Nat BY <2>2, SocketNumbers DEF Transmits
    <2>4. Transmits(r, t) BY <2>3, NewTimer
    <2>5. t = [r EXCEPT !.rtxTimer = FALSE] BY <2>3 DEF Socket
    <2> HIDE DEF t
    <2>6. Transmits(s, t) BY <1>1, <2>2, <2>4, TransmitsTransitive
    <2>7. Stays(s, ChangeState(t, "CLOSED"))
        BY <1>1, <2>1, <2>6, GoodStream, ClosedStays
    <2> QED BY <2>1, <2>5, <2>7, BecomesStep
<1>5. CASE Probe(e)
    <2> DEFINE r == SendSegment(s, {"ACK"}, s.sndUna - 1, s.rcvNxt)
               t == [r EXCEPT !.probing = r.probing, !.probeCount = r.probeCount + 1]
    <2>1. /\ s.state # "CLOSED"
          /\ Becomes(e, [r EXCEPT !.probeCount = @ + 1])
        BY <1>5 DEF Probe, ProbeDue
    <2>2. s.sndUna - 1 \in Nat BY <1>1, <1>2, <2>1, GoodStream DEF Good, Numbered
    <2>3. Transmits(s, r) BY <1>1, <1>2, <2>2, SendSegmentType DEF Flags
    <2> HIDE DEF r
    <2>4. r \in Socket BY <2>3 DEF Transmits
    <2>5. r.probing \in BOOLEAN BY <2>4 DEF Socket
    <2>6. r.probeCount + 1 \in Nat BY <2>4, SocketNumbers
    <2>7. Transmits(r, t) BY <2>4, <2>5, <2>6, NewProbing
    <2>8. t = [r EXCEPT !.probeCount = @ + 1] BY <2>4 DEF Socket
    <2> HIDE DEF t
    <2>9. Transmits(s, t) BY <1>1, <2>3, <2>7, TransmitsTransitive
    <2>10. Stays(s, t) BY <1>1, <2>9, TransmitsGood, EvolvesStays
    <2> QED BY <2>1, <2>8, <2>10, BecomesStep
<1>6. CASE ProbeGiveUp(e)
    <2>1. /\ s.state # "CLOSED"
          /\ Becomes(e, ChangeState(SendResetSegment(s, s.sndNxt), "CLOSED"))
        BY <1>6 DEF ProbeGiveUp, ProbeDue
    <2>2. Transmits(s, SendResetSegment(s, s.sndNxt))
        BY <1>1, <1>2, SendResetSegmentType
    <2>3. Stays(s, ChangeState(SendResetSegment(s, s.sndNxt), "CLOSED"))
        BY <1>1, <2>1, <2>2, GoodStream, ClosedStays
    <2> QED BY <2>1, <2>3, BecomesStep
<1>7. CASE Override(e)
    <2>1. Becomes(e, OverrideSend(s)) BY <1>7 DEF Override
    <2>2. Transmits(s, OverrideSend(s)) BY <1>1, OverrideSendType
    <2>3. Stays(s, OverrideSend(s)) BY <1>1, <2>2, TransmitsGood, EvolvesStays
    <2> QED BY <2>1, <2>3, BecomesStep
<1>8. CASE FinWait2Timeout(e)
    <2>1. s.state # "CLOSED" /\ Becomes(e, ChangeState(s, "CLOSED"))
        BY <1>8 DEF FinWait2Timeout
    <2>2. Stays(s, ChangeState(s, "CLOSED"))
        BY <1>1, <2>1, SameTransmits, GoodStream, ClosedStays
    <2> QED BY <2>1, <2>2, BecomesStep
<1>9. CASE TimeWaitTimeout(e)
    <2> DEFINE c == ChangeState(s, "CLOSED")
               freed == [DeleteControlBlock(c) EXCEPT !.type = "UNUSED"]
    <2>1. /\ s.state # "CLOSED"
          /\ Becomes(e, IF c.owned THEN c ELSE freed)
        BY <1>9 DEF TimeWaitTimeout
    <2>2. Sound(s) /\ s.type = "STREAM" BY <1>1, <2>1, GoodStream
    <2>3. Stays(s, c) BY <1>1, <2>2, SameTransmits, ClosedStays
    <2>4. Good(freed) /\ RightEdge(freed) = RightEdge(s) BY <2>2, FreedGood
    <2>5. Stays(s, freed) BY <1>1, <2>4, EdgeType DEF Stays
    <2> HIDE DEF c, freed
    <2> QED BY <2>1, <2>3, <2>5, BecomesStep
<1> QED BY <1>3, <1>4, <1>5, <1>6, <1>7, <1>8, <1>9 DEF Timer

\* A SYN of the peer opens a connection: its sequence number is taken.
SynTaken(s, g, una) ==
    [s EXCEPT !.irs = g.seq, !.rcvNxt = g.seq + 1, !.sndUna = una]

LEMMA SynTakenGood ==
    ASSUME NEW s, Good(s), s.state = "SYN_SENT", NEW g \in Segment,
           NEW una \in Nat, una >= 1
    PROVE  LET t == SynTaken(s, g, una) IN
           Good(t) /\ t \in Socket /\ t.type = "STREAM" /\ t.ooo = {}
           /\ t.state = "SYN_SENT" /\ t.iss = s.iss /\ t.rcvNxt = g.seq + 1
<1> DEFINE n == g.seq + 1
           t == [s EXCEPT !.irs = g.seq, !.rcvNxt = n, !.sndUna = una]
<1>1. s \in Socket /\ s.type = "STREAM" /\ s.ooo = {} BY GoodStream DEF Good
<1>2. n \in Nat /\ g.seq \in Nat BY DEF Segment
<1> HIDE DEF n
<1>3. t \in Socket BY <1>1, <1>2 DEF Socket
<1>4. /\ t.type = "STREAM" /\ t.ooo = {} /\ t.state = "SYN_SENT" /\ t.iss = s.iss
      /\ t.rcvNxt = n /\ t.rcvUser = s.rcvUser /\ t.rcvWnd = s.rcvWnd
      /\ t.sndUna = una /\ t.sndNxt = s.sndNxt
    BY <1>1 DEF Socket
<1> HIDE DEF t
<1>5. WindowFits(t) BY <1>4 DEF Good, WindowFits
<1>6. Numbered(t) BY <1>1, <1>4 DEF Good, Numbered
<1>7. Good(t) BY <1>3, <1>4, <1>5, <1>6, EmptyGood
<1> QED BY <1>3, <1>4, <1>7 DEF t, n, SynTaken

LEMMA SynSentSynAckStep ==
    ASSUME IInv, NEW e \in Ends, NEW g \in Segment, SynSentSynAck(e, g)
    PROVE  IInv' /\ EdgesHold
<1> DEFINE s == sock[e]
           o == SynTaken(s, g, g.ack)
           u == UpdateRetransmitQueue(o)
           w == [u EXCEPT !.sndWnd = g.wnd, !.sndWl1 = g.seq,
                          !.sndWl2 = g.ack, !.maxSndWnd = g.wnd]
           t == ChangeState(SendAck(w), "ESTABLISHED")
<1>1. /\ Good(s) /\ s.state = "SYN_SENT" /\ g.ack = s.sndNxt /\ Becomes(e, t)
    BY DEF SynSentSynAck, SynTaken, IInv
<1>2. g.ack \in Nat /\ g.ack >= 1 /\ g.seq \in Int /\ g.wnd \in Int
    BY <1>1, GoodStream DEF Segment, Good, Numbered
<1>3. Good(o) /\ o \in Socket /\ o.type = "STREAM" /\ o.ooo = {}
    BY <1>1, <1>2, SynTakenGood
<1> HIDE DEF o
<1>4. Transmits(o, u) BY <1>3, UpdateRetransmitQueueType
<1> HIDE DEF u
<1>5. Good(u) /\ u.type = "STREAM" /\ u.ooo = {} BY <1>3, <1>4, EmptyTransmits
<1>6. Transmits(u, w) BY <1>2, <1>5, NewWindow DEF Good
<1> HIDE DEF w
<1>7. Good(w) /\ w.type = "STREAM" /\ w.ooo = {} BY <1>5, <1>6, EmptyTransmits
<1>8. Transmits(w, SendAck(w)) BY <1>7, SendAckType DEF Good
<1>9. Good(SendAck(w)) /\ SendAck(w).type = "STREAM" /\ SendAck(w).ooo = {}
    BY <1>7, <1>8, EmptyTransmits
<1>10. Good(t) BY <1>9, EmptyChangeState DEF States
<1>11. Stays(s, t) BY <1>1, <1>10 DEF Stays, Synchronized
<1> HIDE DEF t
<1> QED BY <1>1, <1>11, BecomesStep

LEMMA SynSentSynStep ==
    ASSUME IInv, NEW e \in Ends, NEW g \in Segment, SynSentSyn(e, g)
    PROVE  IInv' /\ EdgesHold
<1> DEFINE s == sock[e]
           o == SynTaken(s, g, s.sndUna)
           u == UpdateRetransmitQueue(o)
           q == QueueControl(u, {"SYN", "ACK"}, u.iss)
           t == ChangeState(q, "SYN_RECEIVED")
<1>1. Good(s) /\ s.state = "SYN_SENT" /\ s \in Socket BY DEF SynSentSyn, IInv, Good
<1>2. s.sndUna \in Nat /\ s.sndUna >= 1
    BY <1>1, GoodStream, SocketNumbers DEF Good, Numbered
<1>3. Good(o) /\ o \in Socket /\ o.type = "STREAM" /\ o.ooo = {}
    BY <1>1, <1>2, SynTakenGood
<1>4. o = [s EXCEPT !.irs = g.seq, !.rcvNxt = g.seq + 1] BY <1>1 DEF Socket, SynTaken
<1>5. Becomes(e, t) BY <1>4 DEF SynSentSyn
<1> HIDE DEF o
<1>6. Transmits(o, u) BY <1>3, UpdateRetransmitQueueType
<1> HIDE DEF u
<1>7. Good(u) /\ u.type = "STREAM" /\ u.ooo = {} BY <1>3, <1>6, EmptyTransmits
<1>8. u \in Socket /\ u.iss \in Nat BY <1>7, SocketNumbers DEF Good
<1>9. Transmits(u, q) BY <1>8, QueueControlType DEF Flags
<1> HIDE DEF q
<1>10. Good(q) /\ q.type = "STREAM" /\ q.ooo = {} BY <1>7, <1>9, EmptyTransmits
<1>11. Good(t) BY <1>10, EmptyChangeState DEF States
<1>12. Stays(s, t) BY <1>1, <1>11 DEF Stays, Synchronized
<1> HIDE DEF t
<1> QED BY <1>5, <1>12, BecomesStep

LEMMA SynReceivedAckStep ==
    ASSUME IInv, NEW e \in Ends, NEW g \in Segment, SynReceivedAck(e, g)
    PROVE  IInv' /\ EdgesHold
<1> DEFINE s == sock[e]
           v == View(s, g)
           w == [s EXCEPT !.sndWnd = g.wnd, !.sndWl1 = g.seq,
                          !.sndWl2 = g.ack, !.maxSndWnd = g.wnd]
           c == ChangeState(w, "ESTABLISHED")
           t == EstablishedHandler(c, v)
<1>1. /\ Good(s) /\ s \in Socket /\ s.state = "SYN_RECEIVED" /\ Becomes(e, t)
    BY DEF SynReceivedAck, IInv, Good
<1>2. v \in Segment BY <1>1, ViewType
<1>3. g.ack \in Nat /\ g.seq \in Int /\ g.wnd \in Int BY DEF Segment
<1> HIDE DEF v
<1>4. Transmits(s, w) BY <1>1, <1>3, NewWindow
<1> HIDE DEF w
<1>5. Evolves(s, w) /\ w.state = "SYN_RECEIVED"
    BY <1>1, <1>4, TransmitsGood DEF Transmits, SameControl
<1>6. Good(w) /\ w.type = "STREAM" BY <1>1, <1>5, GoodStream DEF Evolves
<1>7. w.state \in Receiving /\ "ESTABLISHED" \in States
    BY <1>5 DEF Receiving, States
<1>8. Evolves(w, c) BY <1>6, <1>7, ReceivingStateGood
<1>9. c.state = "ESTABLISHED" BY <1>6, <1>7, ChangeStateType DEF Good
<1> HIDE DEF c
<1>10. Good(c) /\ c.type = "STREAM" BY <1>6, <1>8 DEF Evolves
<1>11. Evolves(c, t) BY <1>2, <1>9, <1>10, EstablishedHandlerGood
<1> HIDE DEF t
<1>12. Evolves(s, t) BY <1>1, <1>5, <1>8, <1>11, EvolvesTransitive
<1> QED BY <1>1, <1>12, EvolvesStays, BecomesStep

\* A handler that changes the transmit side only.
LEMMA AnswerStep ==
    ASSUME IInv, NEW e \in Ends, NEW t, Transmits(sock[e], t), Becomes(e, t)
    PROVE  IInv' /\ EdgesHold
<1>1. Good(sock[e]) BY DEF IInv
<1>2. Stays(sock[e], t) BY <1>1, TransmitsGood, EvolvesStays
<1> QED BY <1>2, BecomesStep

\* The peer or the network ends the connection.
LEMMA ClosedStep ==
    ASSUME IInv, NEW e \in Ends, sock[e].state # "CLOSED",
           Becomes(e, ChangeState(sock[e], "CLOSED"))
    PROVE  IInv' /\ EdgesHold
<1>1. Good(sock[e]) /\ sock[e] \in Socket BY DEF IInv, Good
<1>2. Stays(sock[e], ChangeState(sock[e], "CLOSED"))
    BY <1>1, SameTransmits, GoodStream, ClosedStays
<1> QED BY <1>2, BecomesStep

LEMMA NetworkStep ==
    ASSUME IInv, NEW e \in Ends, NEW g \in Segment, Network(e, g)
    PROVE  IInv' /\ EdgesHold
<1> DEFINE s == sock[e]
<1>1. Good(s) /\ s \in Socket BY DEF IInv, Good
<1>2. /\ s.sndNxt \in Nat /\ s.rcvNxt \in Nat /\ s.iss \in Nat
      /\ g.ack \in Nat /\ g.seq \in Nat /\ g.data \in Seq(Byte)
    BY <1>1, SocketNumbers DEF Segment
<1>3. CASE Reject(e, g)
    BY <1>1, <1>3, RejectSegmentType, AnswerStep DEF Reject
<1>4. CASE ListenSyn(e, g)
    <2>1. synQueue' \in [Ends -> SUBSET Nat]
        BY <1>2, <1>4 DEF ListenSyn, IInv, TypeOK
    <2> QED BY <1>4, <2>1, QuietStep DEF ListenSyn, app, IInv, TypeOK
<1>5. CASE SynSentBadAck(e, g)
    BY <1>1, <1>2, <1>5, SendResetSegmentType, AnswerStep DEF SynSentBadAck
<1>6. CASE SynSentReset(e, g) BY <1>6, ClosedStep DEF SynSentReset
<1>7. CASE SynReceivedDuplicateSyn(e, g)
    <2>1. Transmits(s, SendSegment(s, {"SYN", "ACK"}, s.iss, s.rcvNxt))
        BY <1>1, <1>2, SendSegmentType DEF Flags
    <2> QED BY <1>7, <2>1, AnswerStep DEF SynReceivedDuplicateSyn
<1>8. CASE SynReceivedBadAck(e, g)
    BY <1>1, <1>2, <1>8, SendResetSegmentType, AnswerStep DEF SynReceivedBadAck
<1>9. CASE Unacceptable(e, g)
    BY <1>1, <1>9, SendAckType, AnswerStep DEF Unacceptable
<1>10. CASE ResetByPeer(e, g)
    BY <1>10, ClosedStep DEF ResetByPeer, Examined, Synchronized
<1>11. CASE UnexpectedSyn(e, g)
    <2> DEFINE n == View(s, g).seq + Len(g.data) + 1
    <2>1. View(s, g).seq \in Nat BY <1>1, ViewType DEF Segment
    <2>2. n \in Nat BY <1>2, <2>1
    <2> HIDE DEF n
    <2>3. Transmits(s, SendSegment(s, {"RST", "ACK"}, 0, n))
        BY <1>1, <2>2, SendSegmentType DEF Flags
    <2>4. Transmits(s, SendResetSegment(s, g.ack)) BY <1>1, <1>2, SendResetSegmentType
    <2>5. Becomes(e, IF "ACK" \in g.flags THEN SendResetSegment(s, g.ack)
                     ELSE SendSegment(s, {"RST", "ACK"}, 0, n))
        BY <1>11 DEF UnexpectedSyn, n
    <2> QED BY <2>3, <2>4, <2>5, AnswerStep
<1>12. CASE AckOfUnsent(e, g)
    BY <1>1, <1>12, SendAckType, AnswerStep DEF AckOfUnsent
<1>13. CASE EstablishedSegment(e, g)
    BY <1>1, <1>13, GoodStream, EstablishedHandlerGood, EvolvesStays, BecomesStep
       DEF EstablishedSegment, Taken
<1>14. CASE CloseWaitSegment(e, g)
    BY <1>1, <1>14, CloseWaitHandlerGood, EvolvesStays, BecomesStep
       DEF CloseWaitSegment
<1>15. CASE FinWait1Segment(e, g)
    BY <1>1, <1>15, GoodStream, FinWait1HandlerGood, EvolvesStays, BecomesStep
       DEF FinWait1Segment, Taken
<1>16. CASE FinWait2Segment(e, g)
    BY <1>1, <1>16, GoodStream, FinWait2HandlerGood, EvolvesStays, BecomesStep
       DEF FinWait2Segment, Taken
<1>17. CASE ClosingSegment(e, g)
    BY <1>1, <1>17, GoodStream, ClosingHandlerGood, EvolvesStays, BecomesStep
       DEF ClosingSegment, Taken
<1>18. CASE LastAckSegment(e, g)
    <2>1. CASE g.ack = s.sndNxt
        BY <1>18, <2>1, ClosedStep DEF LastAckSegment
    <2>2. CASE g.ack # s.sndNxt
        BY <1>1, <1>18, <2>2, SameTransmits, AnswerStep DEF LastAckSegment
    <2> QED BY <2>1, <2>2
<1>19. CASE TimeWaitSegment(e, g)
    <2>1. CASE "FIN" \in g.flags
        BY <1>1, <1>19, <2>1, SendAckType, AnswerStep DEF TimeWaitSegment
    <2>2. CASE "FIN" \notin g.flags
        BY <1>1, <1>19, <2>2, SameTransmits, AnswerStep DEF TimeWaitSegment
    <2> QED BY <2>1, <2>2
<1> QED BY <1>3, <1>4, <1>5, <1>6, <1>7, <1>8, <1>9, <1>10, <1>11, <1>12, <1>13,
           <1>14, <1>15, <1>16, <1>17, <1>18, <1>19, SynSentSynAckStep,
           SynSentSynStep, SynReceivedAckStep DEF Network

-----------------------------------------------------------------------------
(* The theorems.                                                           *)

LEMMA InitIInv ==
    Init => IInv
<1> SUFFICES ASSUME Init PROVE IInv OBVIOUS
<1>1. ASSUME NEW e \in Ends PROVE Good(sock[e])
    <2> DEFINE s == FreshSocket("UNUSED", Iss[e])
    <2>1. sock[e] = s BY DEF Init
    <2>2. Iss[e] \in Nat /\ Iss[e] >= 1 BY IssAssumption
    <2>3. NoTx \in [0 .. TxBufferSize - 1 -> Byte] BY DEF NoTx, Lost, Byte
    <2>4. NoRx \in [0 .. RxBufferSize - 1 -> Byte] BY DEF NoRx, Lost, Byte
    <2>5. s \in Socket BY <2>2, <2>3, <2>4 DEF FreshSocket, Socket, States
    <2>6. /\ s.type = "UNUSED" /\ s.state = "CLOSED" /\ s.ooo = {} /\ s.iss = Iss[e]
          /\ s.rcvUser = 0 /\ s.rcvWnd = 0
        BY DEF FreshSocket
    <2> HIDE DEF s
    <2>7. WindowFits(s) BY <2>6, RxBufferAssumption DEF WindowFits
    <2>8. Numbered(s) BY <2>2, <2>6 DEF Numbered
    <2>9. Good(s) BY <2>5, <2>6, <2>7, <2>8 DEF Good, GapsInside
    <2> QED BY <2>1, <2>9
<1>2. sock \in [Ends -> Socket] BY <1>1 DEF Init, Good
<1>3. << >> \in Seq(Byte) OBVIOUS
<1>4. TypeOK BY <1>2, <1>3 DEF Init, TypeOK
<1> QED BY <1>1, <1>4 DEF IInv

LEMMA EstablishedIInv ==
    EstablishedInit => IInv
<1> SUFFICES ASSUME EstablishedInit PROVE IInv OBVIOUS
<1>1. ASSUME NEW e \in Ends PROVE Good(sock[e])
    <2> DEFINE f == FreshSocket("STREAM", Iss[e])
               irs == Iss[Peer(e)]
               wl1 == IF e \in Passive THEN irs + 1 ELSE irs
               nxt == Iss[e] + 1
               rcv == irs + 1
               wnd == RxBufferSize
               s == [f EXCEPT
                       !.state = "ESTABLISHED", !.owned = TRUE, !.irs = irs,
                       !.sndUna = nxt, !.sndNxt = nxt,
                       !.sndWnd = wnd, !.maxSndWnd = wnd,
                       !.sndWl1 = wl1, !.sndWl2 = nxt,
                       !.rcvNxt = rcv, !.rcvWnd = wnd]
    <2>1. sock[e] = s BY DEF EstablishedInit
    <2>2. /\ Iss[e] \in Nat /\ Iss[e] >= 1 /\ irs \in Nat
          /\ wl1 \in Int /\ nxt \in Nat /\ nxt >= 1
          /\ rcv \in Nat /\ wnd \in Int /\ wnd = RxBufferSize
        BY IssAssumption, PeerInEnds, RxBufferAssumption
    <2>3. NoTx \in [0 .. TxBufferSize - 1 -> Byte] BY DEF NoTx, Lost, Byte
    <2>4. NoRx \in [0 .. RxBufferSize - 1 -> Byte] BY DEF NoRx, Lost, Byte
    <2>5. f \in Socket BY <2>2, <2>3, <2>4 DEF FreshSocket, Socket, States
    <2>6. f.type = "STREAM" /\ f.ooo = {} /\ f.iss = Iss[e] /\ f.rcvUser = 0
        BY DEF FreshSocket
    <2> HIDE DEF f, irs, wl1, nxt, rcv, wnd
    <2>7. s \in Socket BY ZenonT(30), <2>2, <2>5 DEF Socket, States
    <2>8. /\ s.type = "STREAM" /\ s.ooo = {} /\ s.iss = Iss[e] /\ s.rcvUser = 0
          /\ s.rcvWnd = wnd /\ s.sndUna = nxt /\ s.sndNxt = nxt
        BY <2>5, <2>6 DEF Socket
    <2> HIDE DEF s
    <2>9. WindowFits(s) BY <2>2, <2>8, RxBufferAssumption DEF WindowFits
    <2>10. Numbered(s) BY <2>2, <2>8 DEF Numbered
    <2> QED BY <2>1, <2>7, <2>8, <2>9, <2>10 DEF Good, GapsInside
<1>2. sock \in [Ends -> Socket] BY <1>1 DEF EstablishedInit, Good
<1>3. << >> \in Seq(Byte) OBVIOUS
<1>4. TypeOK BY <1>2, <1>3, OpenAssumption DEF EstablishedInit, TypeOK
<1> QED BY <1>1, <1>4 DEF IInv

LEMMA NextIInv ==
    IInv /\ [Next]_vars => IInv' /\ EdgesHold
<1> SUFFICES ASSUME IInv, [Next]_vars PROVE IInv' /\ EdgesHold OBVIOUS
<1>1. CASE Next
    <2>1. PICK e \in Ends : \/ User(e) \/ Timer(e)
                            \/ \E g \in Incoming(e) : Network(e, g)
        BY <1>1 DEF Next
    <2> QED BY <2>1, UserStep, TimerStep, NetworkStep, IncomingType
<1>2. CASE UNCHANGED vars
    BY <1>2, QuietStep DEF vars, IInv, TypeOK
<1> QED BY <1>1, <1>2

LEMMA AlwaysIInv ==
    Spec => []IInv
<1>1. IInv /\ [Next]_vars => IInv' BY NextIInv
<1> QED BY <1>1, InitIInv, PTL DEF Spec

\* Every variable of a pair has its type in every reachable state.
THEOREM TypeCorrect == Spec => []TypeOK
<1>1. IInv => TypeOK BY DEF IInv
<1> QED BY <1>1, AlwaysIInv, PTL

\* Unread bytes and offered window fit in the receive buffer together, and
\* what is held past a gap lies inside the window, whatever arrives and however
\* the user reads: the unsigned arithmetic of tcpUpdateReceiveWindow is safe.
THEOREM ReceiveAccounted == Spec => []ReceiveAccounting
<1>1. IInv => ReceiveAccounting
    BY DEF IInv, Good, WindowFits, GapsInside, ReceiveAccounting
<1> QED BY <1>1, AlwaysIInv, PTL

\* No step moves the right edge of an offered window to the left.
THEOREM WindowKept == Spec => WindowNeverShrinks
<1>1. IInv /\ [Next]_vars => [EdgesHold]_vars BY NextIInv
<1>2. Spec => [][EdgesHold]_vars BY <1>1, AlwaysIInv, PTL DEF Spec
<1> QED BY <1>2, PTL DEF WindowNeverShrinks, EdgesHold

\* The same of a pair whose connection is established to begin with.
THEOREM EstablishedSafe ==
    EstablishedSpec => [](TypeOK /\ ReceiveAccounting) /\ WindowNeverShrinks
<1>1. IInv => TypeOK /\ ReceiveAccounting
    BY DEF IInv, Good, WindowFits, GapsInside, ReceiveAccounting
<1>2. IInv /\ [Next]_vars => IInv' /\ [EdgesHold]_vars BY NextIInv
<1>3. EstablishedSpec => [](TypeOK /\ ReceiveAccounting) /\ [][EdgesHold]_vars
    BY <1>1, <1>2, EstablishedIInv, PTL DEF EstablishedSpec
<1> QED BY <1>3, PTL DEF WindowNeverShrinks, EdgesHold
-----------------------------------------------------------------------------
(* Nothing that was sent is forgotten: whatever the sizes and the network, *)
(* every sequence number in flight belongs to an item of the queue of      *)
(* retransmissions, and the timer runs exactly while there is one.         *)

\* The property of a socket, whatever its state.
Kept(s) == /\ Flight(s) \subseteq Covered(s)
           /\ s.rtxTimer <=> s.rtxQ # {}

\* The inductive invariant: nothing is asked of a connection that is over.
Queued(s) == s.state \notin {"CLOSED", "TIME_WAIT"} => Kept(s)

\* What the property is about.
SameQueue(s, t) == /\ t.sndUna = s.sndUna /\ t.sndNxt = s.sndNxt
                   /\ t.rtxQ = s.rtxQ /\ t.rtxTimer = s.rtxTimer

LEMMA KeptSame ==
    ASSUME NEW s, NEW t, Kept(s), SameQueue(s, t)
    PROVE  Kept(t)
BY DEF Kept, SameQueue, Flight, Covered

LEMMA QueuedSame ==
    ASSUME NEW s, NEW t, Queued(s), SameQueue(s, t), t.state = s.state
    PROVE  Queued(t)
BY KeptSame DEF Queued

-----------------------------------------------------------------------------
(* The functions of the socket.                                            *)

LEMMA SendSegmentQueue ==
    ASSUME NEW s \in Socket, NEW flags, NEW seq, NEW ack
    PROVE  SameQueue(s, SendSegment(s, flags, seq, ack))
BY DEF SendSegment, SameQueue, Socket

LEMMA SendAckQueue ==
    ASSUME NEW s \in Socket
    PROVE  SameQueue(s, SendAck(s))
BY SendSegmentQueue DEF SendAck

LEMMA SendResetSegmentQueue ==
    ASSUME NEW s \in Socket, NEW seq
    PROVE  SameQueue(s, SendResetSegment(s, seq))
BY SendSegmentQueue DEF SendResetSegment, SameQueue

LEMMA RejectSegmentQueue ==
    ASSUME NEW s \in Socket, NEW g
    PROVE  SameQueue(s, RejectSegment(s, g))
<1> DEFINE reset == IF "ACK" \in g.flags
                    THEN [flags |-> {"RST"}, seq |-> g.ack, ack |-> 0,
                          wnd |-> 0, data |-> << >>]
                    ELSE [flags |-> {"RST", "ACK"}, seq |-> 0,
                          ack |-> g.seq + (Len(g.data)
                                     + (IF "SYN" \in g.flags THEN 1 ELSE 0)
                                     + (IF "FIN" \in g.flags THEN 1 ELSE 0)),
                          wnd |-> 0, data |-> << >>]
           t == [s EXCEPT !.sent = @ \cup {reset}]
<1>1. RejectSegment(s, g) \in {s, t} BY DEF RejectSegment
<1> HIDE DEF reset
<1>2. SameQueue(s, t) BY DEF SameQueue, Socket
<1> QED BY <1>1, <1>2 DEF SameQueue

LEMMA RetransmitSegmentQueue ==
    ASSUME NEW s \in Socket
    PROVE  SameQueue(s, RetransmitSegment(s))
<1> DEFINE S == s.sent \cup
                  {SegmentOf(s, i) : i \in {i \in s.rtxQ :
                     \A h \in s.rtxQ : i.seq + i.len - h.seq <= Mss}}
<1>1. RetransmitSegment(s) = [s EXCEPT !.sent = S] BY DEF RetransmitSegment, Socket
<1> HIDE DEF S
<1> QED BY <1>1 DEF SameQueue, Socket

LEMMA ChangeStateQueue ==
    ASSUME NEW s \in Socket, NEW state
    PROVE  SameQueue(s, ChangeState(s, state)) /\ ChangeState(s, state).state = state
<1> DEFINE c == s.closedFlag \/ (state = "CLOSED"
                                   /\ s.state \in {"LAST_ACK", "TIME_WAIT"})
           r == s.resetFlag \/ (state = "CLOSED"
                                   /\ s.state \notin {"LAST_ACK", "TIME_WAIT"})
<1>1. ChangeState(s, state) = [s EXCEPT !.state = state, !.closedFlag = c,
                                        !.resetFlag = r]
    BY DEF ChangeState, Socket
<1> HIDE DEF c, r
<1> QED BY <1>1 DEF SameQueue, Socket

LEMMA WriteTxBufferQueue ==
    ASSUME NEW s \in Socket, NEW data
    PROVE  SameQueue(s, WriteTxBuffer(s, data)) /\ WriteTxBuffer(s, data).state = s.state
<1> DEFINE buf == WriteTxBuffer(s, data).txBuf
           user == s.sndUser + Len(data)
<1>1. WriteTxBuffer(s, data) = [s EXCEPT !.txBuf = buf, !.sndUser = user]
    BY DEF WriteTxBuffer, Socket
<1> HIDE DEF buf, user
<1> QED BY <1>1 DEF SameQueue, Socket

LEMMA UpdateSendWindowQueue ==
    ASSUME NEW s \in Socket, NEW g
    PROVE  SameQueue(s, UpdateSendWindow(s, g))
<1> DEFINE most == Max(s.maxSndWnd, g.wnd)
           taken == [s EXCEPT !.sndWnd = g.wnd, !.sndWl1 = g.seq,
                              !.sndWl2 = g.ack, !.maxSndWnd = most]
           closes == g.wnd = 0 /\ s.sndWnd # 0
           probed == [taken EXCEPT !.probing = @ \/ closes,
                                   !.probeCount = IF closes THEN 0 ELSE @]
<1>1. UpdateSendWindow(s, g) \in {s, taken, probed}
    BY Zenon DEF UpdateSendWindow, taken, most, probed, closes
<1> HIDE DEF most, closes
<1>2. SameQueue(s, taken) /\ SameQueue(s, probed) BY DEF SameQueue, Socket
<1> QED BY <1>1, <1>2 DEF SameQueue

LEMMA ProcessSegmentDataQueue ==
    ASSUME NEW s \in Socket, NEW g
    PROVE  SameQueue(s, ProcessSegmentData(s, g))
<1>1. CASE g.data = << >> BY <1>1 DEF ProcessSegmentData, SameQueue
<1>2. CASE g.data # << >>
    <2> DEFINE p == ProcessSegmentData(s, g)
               t == [s EXCEPT !.rxBuf = p.rxBuf, !.ooo = p.ooo, !.rcvNxt = p.rcvNxt,
                              !.rcvUser = p.rcvUser, !.rcvWnd = p.rcvWnd,
                              !.sent = p.sent]
    <2>1. p = t BY <1>2 DEF ProcessSegmentData, SendAck, SendSegment, Socket
    <2> HIDE DEF p
    <2>2. SameQueue(s, t) BY DEF SameQueue, Socket
    <2> QED BY <2>1, <2>2 DEF p
<1> QED BY <1>1, <1>2

LEMMA TakeFinQueue ==
    ASSUME NEW s \in Socket
    PROVE  SameQueue(s, TakeFin(s))
<1> DEFINE n == s.rcvNxt + 1
           t == [s EXCEPT !.rcvNxt = n]
<1>1. n \in Nat BY SocketNumbers
<1>2. TakeFin(s) = SendAck(t) BY DEF TakeFin, Socket
<1> HIDE DEF n
<1>3. t \in Socket BY <1>1 DEF Socket
<1>4. SameQueue(s, t) BY DEF SameQueue, Socket
<1> HIDE DEF t
<1>5. SameQueue(t, SendAck(t)) BY <1>3, SendAckQueue
<1> QED BY <1>2, <1>4, <1>5 DEF SameQueue

-----------------------------------------------------------------------------
(* The functions that queue and drop items.                                *)

LEMMA ItemEndType ==
    ASSUME NEW i \in Item
    PROVE  i.seq \in Nat /\ i.len \in Nat /\ ItemEnd(i) \in Nat
BY DEF Item, ItemEnd

\* Acknowledged numbers are not in flight, and their items may go.
LEMMA UpdateRetransmitQueueKept ==
    ASSUME NEW s \in Socket, Kept(s)
    PROVE  Kept(UpdateRetransmitQueue(s))
<1> DEFINE left == {i \in s.rtxQ : ItemEnd(i) > s.sndUna}
           timer == left # {} /\ (left # s.rtxQ \/ s.rtxTimer)
           count == IF left # s.rtxQ THEN 0 ELSE s.rtxCount
           t == [s EXCEPT !.rtxQ = left, !.rtxTimer = timer, !.rtxCount = count]
<1>1. UpdateRetransmitQueue(s) = t BY DEF UpdateRetransmitQueue, Socket
<1> HIDE DEF timer, count
<1>2. /\ t.rtxQ = left /\ t.rtxTimer = timer
      /\ t.sndUna = s.sndUna /\ t.sndNxt = s.sndNxt
    BY DEF Socket
<1> HIDE DEF t
<1>3. ASSUME NEW n \in Flight(s)
      PROVE  \E i \in left : n \in i.seq .. (ItemEnd(i) - 1)
    <2>1. PICK i \in s.rtxQ : n \in i.seq .. (ItemEnd(i) - 1) BY DEF Kept, Covered
    <2>2. i \in Item BY DEF Socket
    <2>3. n \in Int /\ s.sndUna <= n BY SocketNumbers DEF Flight
    <2>4. ItemEnd(i) > s.sndUna BY <2>1, <2>2, <2>3, ItemEndType, SocketNumbers
    <2> QED BY <2>1, <2>4
<1>4. Flight(t) = Flight(s) BY <1>2 DEF Flight
<1>5. Flight(t) \subseteq Covered(t) BY <1>2, <1>3, <1>4 DEF Covered
<1>6. timer <=> left # {}
    <2>1. s.rtxTimer <=> s.rtxQ # {} BY DEF Kept
    <2>2. CASE left = s.rtxQ BY <2>1, <2>2, Zenon DEF timer
    <2>3. CASE left # s.rtxQ BY <2>3, Zenon DEF timer
    <2> QED BY <2>2, <2>3
<1>7. t.rtxTimer <=> t.rtxQ # {} BY <1>2, <1>6, Zenon
<1> QED BY <1>1, <1>5, <1>7 DEF Kept

LEMMA CheckAckKept ==
    ASSUME NEW s \in Socket, Kept(s), NEW g \in Segment
    PROVE  Kept(CheckAck(s, g))
<1> DEFINE w == UpdateSendWindow(s, g)
           t == [w EXCEPT !.sndUna = g.ack]
<1>1. w \in Socket BY UpdateSendWindowType DEF Transmits
<1>2. SameQueue(s, w) /\ Kept(w) BY UpdateSendWindowQueue, KeptSame
<1>3. CheckAck(s, g) = IF g.ack < s.sndUna THEN s
                       ELSE IF g.ack > s.sndUna THEN UpdateRetransmitQueue(t) ELSE w
    BY DEF CheckAck
<1> HIDE DEF w
<1>4. g.ack \in Nat BY DEF Segment
<1>5. t \in Socket BY <1>1, <1>4 DEF Socket
<1>6. /\ t.sndUna = g.ack /\ t.sndNxt = w.sndNxt
      /\ t.rtxQ = w.rtxQ /\ t.rtxTimer = w.rtxTimer
    BY <1>1 DEF Socket
<1> HIDE DEF t
<1>7. ASSUME g.ack > s.sndUna PROVE Kept(t)
    <2>1. Flight(t) \subseteq Flight(w)
        BY <1>1, <1>2, <1>4, <1>6, <1>7, SocketNumbers DEF Flight, SameQueue
    <2> QED BY <1>2, <1>6, <2>1 DEF Kept, Covered
<1> QED BY <1>2, <1>3, <1>5, <1>7, UpdateRetransmitQueueKept

\* A number sent is covered by the item queued for it.
LEMMA ChunkCovers ==
    ASSUME NEW n \in Nat \ {0}, NEW m \in 0 .. n - 1
    PROVE  LET k == m \div Mss IN
           /\ k \in 0 .. (n - 1) \div Mss
           /\ k * Mss <= m /\ m < k * Mss + Min(Mss, n - k * Mss)
           /\ k * Mss \in Nat
<1> DEFINE k == m \div Mss
           q == (n - 1) \div Mss
<1>1. Mss \in Nat \ {0} BY MssAssumption
<1>2. m \in Nat /\ m <= n - 1 OBVIOUS
<1>3. k \in Nat /\ Mss * k <= m /\ m < Mss * k + Mss BY <1>1, <1>2
<1>4. q \in Nat /\ Mss * q <= n - 1 /\ n - 1 < Mss * q + Mss BY <1>1
<1> HIDE DEF k, q
<1>5. k <= q
    <2> SUFFICES ASSUME k >= q + 1 PROVE FALSE BY <1>3, <1>4
    <2>1. Mss * (q + 1) <= Mss * k BY <1>1, <1>3, <1>4
    <2>2. Mss * (q + 1) = Mss * q + Mss BY <1>1, <1>4
    <2>3. Mss * k \in Nat /\ Mss * q \in Nat BY <1>1, <1>3, <1>4
    <2> QED BY <1>1, <1>2, <1>3, <1>4, <2>1, <2>2, <2>3
<1>6. Mss * k = k * Mss /\ k * Mss \in Nat BY <1>1, <1>3
<1>7. m < k * Mss + Min(Mss, n - k * Mss) BY <1>1, <1>2, <1>3, <1>6 DEF Min
<1> QED BY <1>3, <1>4, <1>5, <1>6, <1>7 DEF k, q

LEMMA SendDataKept ==
    ASSUME NEW s \in Socket, Kept(s), NEW n \in Int, n <= s.sndUser
    PROVE  Kept(SendData(s, n))
<1>1. CASE n <= 0 BY <1>1 DEF SendData
<1>2. CASE n > 0
    <2> DEFINE chunk(k) == [seq |-> s.sndNxt + k * Mss,
                            len |-> Min(Mss, n - k * Mss), flags |-> {"ACK"}]
               items == {chunk(k) : k \in 0 .. (n - 1) \div Mss}
               t == SendData(s, n)
    <2>1. n \in Nat \ {0} /\ s.sndNxt \in Nat /\ s.sndUna \in Nat
        BY <1>2, SocketNumbers
    <2>2. /\ t.sndUna = s.sndUna /\ t.sndNxt = s.sndNxt + n
          /\ t.rtxQ = s.rtxQ \cup items /\ t.rtxTimer = TRUE
        BY <1>2, SMTT(30) DEF SendData, QueueSegments, Socket
    <2> HIDE DEF t
    <2>3. ASSUME NEW x \in Flight(t)
          PROVE  \E i \in t.rtxQ : x \in i.seq .. (ItemEnd(i) - 1)
        <3>1. x \in Int /\ s.sndUna <= x /\ x < s.sndNxt + n
            BY <2>1, <2>2 DEF Flight
        <3>2. CASE x < s.sndNxt
            <4>1. x \in Flight(s) BY <2>1, <3>1, <3>2 DEF Flight
            <4> QED BY <2>2, <4>1 DEF Kept, Covered
        <3>3. CASE x >= s.sndNxt
            <4> DEFINE m == x - s.sndNxt
                       k == m \div Mss
                       i == chunk(k)
            <4>1. m \in 0 .. n - 1 BY <2>1, <3>1, <3>3
            <4>2. /\ k \in 0 .. (n - 1) \div Mss
                  /\ k * Mss <= m /\ m < k * Mss + Min(Mss, n - k * Mss)
                  /\ k * Mss \in Nat
                BY <2>1, <4>1, ChunkCovers
            <4> HIDE DEF k
            <4>3. i \in items BY <4>2
            <4>4. i.seq = s.sndNxt + k * Mss /\ ItemEnd(i) = i.seq + Min(Mss, n - k * Mss)
                BY <2>1, <4>2, MssAssumption DEF ItemEnd, Min
            <4>5. x \in i.seq .. (ItemEnd(i) - 1)
                BY <2>1, <3>1, <4>1, <4>2, <4>4, MssAssumption DEF Min
            <4> QED BY <2>2, <4>3, <4>5
        <3> QED BY <2>1, <3>1, <3>2, <3>3
    <2>4. t.rtxQ # {}
        <3>1. 0 \in 0 .. (n - 1) \div Mss
            BY <2>1, MssAssumption
        <3>2. chunk(0) \in items BY <3>1
        <3> QED BY <2>2, <3>2
    <2>5. Kept(t) BY <2>2, <2>3, <2>4 DEF Kept, Covered
    <2> QED BY <2>5 DEF t
<1> QED BY <1>1, <1>2

LEMMA NagleAlgoKept ==
    ASSUME NEW s \in Socket, Kept(s), NEW flag
    PROVE  Kept(NagleAlgo(s, flag))
BY NagleAmountBound, SendDataKept DEF NagleAlgo

LEMMA OverrideSendKept ==
    ASSUME NEW s \in Socket, Kept(s)
    PROVE  Kept(OverrideSend(s))
<1> DEFINE n == Max(0, Min(s.sndUser, UsableWindow(s)))
<1>1. UsableWindow(s) \in Int BY SocketNumbers, TxBufferAssumption DEF UsableWindow, Min
<1>2. n \in Int /\ n <= s.sndUser BY <1>1, SocketNumbers DEF Min, Max
<1> HIDE DEF n
<1> QED BY <1>2, SendDataKept DEF OverrideSend, n

-----------------------------------------------------------------------------
(* The handlers.                                                           *)

\* The retransmission queue after the acknowledgment and the data of a segment.
LEMMA AfterDataKept ==
    ASSUME NEW s, Good(s), s.type = "STREAM", s.state \in Receiving \ {"SYN_SENT"},
           Kept(s), NEW g \in Segment
    PROVE  LET t == ProcessSegmentData(s, g) IN
           t \in Socket /\ Good(t) /\ t.type = "STREAM" /\ t.state = s.state /\ Kept(t)
<1> DEFINE t == ProcessSegmentData(s, g)
<1>1. Evolves(s, t) /\ t.state = s.state BY AfterDataGood
<1>2. SameQueue(s, t) BY ProcessSegmentDataQueue DEF Good
<1> HIDE DEF t
<1>3. Kept(t) BY <1>2, KeptSame
<1> QED BY <1>1, <1>3 DEF Evolves, Good, t

LEMMA TakeFinKept ==
    ASSUME NEW s, Good(s), s.type = "STREAM", Kept(s), NEW state \in States \ Receiving
    PROVE  LET t == ChangeState(TakeFin(s), state) IN t \in Socket /\ Kept(t)
<1> DEFINE f == TakeFin(s)
           t == ChangeState(f, state)
<1>1. Good(t) BY TakeFinGood DEF Evolves
<1>2. SameQueue(s, f) BY TakeFinQueue DEF Good
<1>3. f \in Socket BY TakeFinSound DEF Sound
<1> HIDE DEF f
<1>4. SameQueue(f, t) BY <1>3, ChangeStateQueue
<1> HIDE DEF t
<1>5. Kept(t) BY <1>2, <1>4, KeptSame
<1> QED BY <1>1, <1>5 DEF Good, t, f

LEMMA TimeWaitQueued ==
    ASSUME NEW s \in Socket
    PROVE  Queued(TimeWait(s))
<1>1. DeleteControlBlock(s) \in Socket BY DeleteControlBlockType DEF Transmits
<1>2. TimeWait(s).state = "TIME_WAIT" BY <1>1, ChangeStateQueue DEF TimeWait
<1> QED BY <1>2 DEF Queued

LEMMA CheckAckStays ==
    ASSUME NEW s, Good(s), Kept(s), NEW g \in Segment
    PROVE  LET a == CheckAck(s, g) IN
           Good(a) /\ a.type = s.type /\ a.state = s.state /\ Kept(a)
BY CheckAckGood, CheckAckKept DEF Good, Evolves

LEMMA EstablishedHandlerQueued ==
    ASSUME NEW s, Good(s), s.type = "STREAM", s.state = "ESTABLISHED", Kept(s),
           NEW g \in Segment
    PROVE  Queued(EstablishedHandler(s, g))
<1> DEFINE a == CheckAck(s, g)
           d == ProcessSegmentData(a, g)
           f == IF FinReached(d, g) THEN ChangeState(TakeFin(d), "CLOSE_WAIT") ELSE d
<1>1. Good(a) /\ a.type = "STREAM" /\ a.state = "ESTABLISHED" /\ Kept(a)
    BY CheckAckStays
<1> HIDE DEF a
<1>2. d \in Socket /\ Good(d) /\ d.type = "STREAM" /\ Kept(d)
    BY <1>1, AfterDataKept DEF Receiving
<1> HIDE DEF d
<1>3. f \in Socket /\ Kept(f) BY <1>2, TakeFinKept DEF States, Receiving
<1> HIDE DEF f
<1>4. Kept(NagleAlgo(f, "NONE")) BY <1>3, NagleAlgoKept
<1> QED BY <1>4 DEF EstablishedHandler, AfterData, Queued, a, d, f

LEMMA CloseWaitHandlerQueued ==
    ASSUME NEW s, Good(s), Kept(s), NEW g \in Segment
    PROVE  Queued(CloseWaitHandler(s, g))
<1>1. CheckAck(s, g) \in Socket /\ Kept(CheckAck(s, g)) BY CheckAckStays DEF Good
<1> QED BY <1>1, NagleAlgoKept DEF CloseWaitHandler, Queued

LEMMA FinWait1HandlerQueued ==
    ASSUME NEW s, Good(s), s.type = "STREAM", s.state = "FIN_WAIT_1", Kept(s),
           NEW g \in Segment
    PROVE  Queued(FinWait1Handler(s, g))
<1> DEFINE a == CheckAck(s, g)
           acked == g.ack = a.sndNxt
           b == IF acked THEN ChangeState(a, "FIN_WAIT_2") ELSE a
           d == ProcessSegmentData(b, g)
<1>1. Good(a) /\ a.type = "STREAM" /\ a.state = "FIN_WAIT_1" /\ Kept(a)
    BY CheckAckStays
<1>2. FinWait1Handler(s, g) = IF ~FinReached(d, g) THEN d
                              ELSE IF acked THEN TimeWait(TakeFin(d))
                              ELSE ChangeState(TakeFin(d), "CLOSING")
    BY DEF FinWait1Handler
<1> HIDE DEF a, acked
<1>3. /\ Good(b) /\ b.type = "STREAM" /\ b.state \in Receiving \ {"SYN_SENT"}
      /\ Kept(b)
    <2> DEFINE c == ChangeState(a, "FIN_WAIT_2")
    <2>1. Evolves(a, c) BY <1>1, ReceivingStateGood DEF Receiving, States
    <2>2. SameQueue(a, c) /\ c.state = "FIN_WAIT_2" BY <1>1, ChangeStateQueue DEF Good
    <2> HIDE DEF c
    <2>3. Kept(c) BY <1>1, <2>2, KeptSame
    <2> QED BY <1>1, <2>1, <2>2, <2>3 DEF Evolves, Receiving, c
<1> HIDE DEF b
<1>4. d \in Socket /\ Good(d) /\ d.type = "STREAM" /\ Kept(d) BY <1>3, AfterDataKept
<1> HIDE DEF d
<1>5. Kept(ChangeState(TakeFin(d), "CLOSING"))
    BY <1>4, TakeFinKept DEF States, Receiving
<1>6. TakeFin(d) \in Socket BY <1>4, TakeFinSound DEF Sound
<1>7. Queued(TimeWait(TakeFin(d))) BY <1>6, TimeWaitQueued
<1> QED BY <1>2, <1>4, <1>5, <1>7 DEF Queued

LEMMA FinWait2HandlerQueued ==
    ASSUME NEW s, Good(s), s.type = "STREAM", s.state = "FIN_WAIT_2", Kept(s),
           NEW g \in Segment
    PROVE  Queued(FinWait2Handler(s, g))
<1> DEFINE a == CheckAck(s, g)
           d == ProcessSegmentData(a, g)
<1>1. Good(a) /\ a.type = "STREAM" /\ a.state = "FIN_WAIT_2" /\ Kept(a)
    BY CheckAckStays
<1>2. FinWait2Handler(s, g) = IF FinReached(d, g) THEN TimeWait(TakeFin(d)) ELSE d
    BY DEF FinWait2Handler, AfterData
<1> HIDE DEF a
<1>3. d \in Socket /\ Good(d) /\ d.type = "STREAM" /\ Kept(d)
    BY <1>1, AfterDataKept DEF Receiving
<1> HIDE DEF d
<1>4. TakeFin(d) \in Socket BY <1>3, TakeFinSound DEF Sound
<1>5. Queued(TimeWait(TakeFin(d))) BY <1>4, TimeWaitQueued
<1> QED BY <1>2, <1>3, <1>5 DEF Queued

LEMMA ClosingHandlerQueued ==
    ASSUME NEW s, Good(s), Kept(s), NEW g \in Segment
    PROVE  Queued(ClosingHandler(s, g))
<1> DEFINE a == CheckAck(s, g)
<1>1. a \in Socket /\ Kept(a) BY CheckAckStays DEF Good
<1>2. Queued(TimeWait(a)) BY <1>1, TimeWaitQueued
<1> QED BY <1>1, <1>2 DEF ClosingHandler, Queued

-----------------------------------------------------------------------------
(* The steps.                                                              *)

QInv == \A e \in Ends : Queued(sock[e])

LEMMA QueuedStep ==
    ASSUME IInv, QInv, NEW e \in Ends, NEW s, Queued(s), sock' = [sock EXCEPT ![e] = s]
    PROVE  QInv'
<1>1. sock \in [Ends -> Socket] BY DEF IInv, TypeOK
<1>2. sock'[e] = s /\ \A x \in Ends \ {e} : sock'[x] = sock[x] BY <1>1
<1> QED BY <1>2 DEF QInv

\* A step that leaves the state and what the property is about.
LEMMA SameQueueStep ==
    ASSUME IInv, QInv, NEW e \in Ends, NEW s, SameQueue(sock[e], s),
           s.state = sock[e].state, sock' = [sock EXCEPT ![e] = s]
    PROVE  QInv'
<1>1. Queued(s) BY QueuedSame DEF QInv
<1> QED BY <1>1, QueuedStep

\* A connection that ends has nothing to keep.
LEMMA EndQueued ==
    ASSUME IInv, QInv, NEW e \in Ends, NEW s, s.state = "CLOSED" \/ s.state = "TIME_WAIT",
           sock' = [sock EXCEPT ![e] = s]
    PROVE  QInv'
<1>1. Queued(s) BY DEF Queued
<1> QED BY <1>1, QueuedStep

\* A connection that opens has its SYN in flight, queued under its number.
LEMMA OpenKept ==
    ASSUME NEW s \in Socket, s.sndUna = s.iss, s.sndNxt = s.iss + 1,
           NEW flags, "SYN" \in flags
    PROVE  Kept(QueueControl(s, flags, s.iss))
<1> DEFINE i == [seq |-> s.iss, len |-> 0, flags |-> flags]
           t == QueueControl(s, flags, s.iss)
<1>1. /\ t.sndUna = s.sndUna /\ t.sndNxt = s.sndNxt
      /\ t.rtxQ = s.rtxQ \cup {i} /\ t.rtxTimer = TRUE
    BY DEF QueueControl, QueueSegments, Socket
<1> HIDE DEF t
<1>2. s.iss \in Nat BY SocketNumbers
<1>3. i.seq = s.iss /\ ItemEnd(i) = s.iss + 1 BY <1>2 DEF ItemEnd
<1>4. Flight(t) \subseteq i.seq .. (ItemEnd(i) - 1) BY <1>1, <1>2, <1>3 DEF Flight
<1>5. i \in t.rtxQ BY <1>1
<1> HIDE DEF i
<1>6. Flight(t) \subseteq Covered(t) BY <1>4, <1>5 DEF Covered
<1>7. t.rtxQ # {} BY <1>5
<1>8. Kept(t) BY <1>1, <1>6, <1>7 DEF Kept
<1> QED BY <1>8 DEF t

\* The fields of a socket that tcpConnect and tcpAccept open.
LEMMA OpenedNumbers ==
    ASSUME NEW s, Good(s), Unopened(s), NEW irs \in Nat, NEW nxt \in Nat
    PROVE  LET t == Opened(s, irs, nxt) IN
           t \in Socket /\ t.iss = s.iss /\ t.sndUna = t.iss /\ t.sndNxt = t.iss + 1
<1>1. Opened(s, irs, nxt) \in Socket BY OpenedGood
<1>2. s \in Socket BY DEF Good
<1> QED BY <1>1, <1>2 DEF Opened, Socket

LEMMA UserQueued ==
    ASSUME IInv, QInv, NEW e \in Ends, User(e)
    PROVE  QInv'
<1> DEFINE s == sock[e]
<1>1. Good(s) /\ s \in Socket /\ Queued(s) BY DEF IInv, QInv, Good
<1>2. s.iss \in Nat /\ s.sndNxt \in Nat /\ s.sndUna \in Nat BY <1>1, SocketNumbers
<1>3. CASE Connect(e)
    <2> DEFINE o == Opened(s, 0, 0)
               q == QueueControl(o, {"SYN"}, s.iss)
               t == ChangeState(q, "SYN_SENT")
    <2>1. Unopened(s) /\ sock' = [sock EXCEPT ![e] = t] BY <1>3 DEF Connect, Becomes
    <2>2. o \in Socket /\ o.iss = s.iss /\ o.sndUna = o.iss /\ o.sndNxt = o.iss + 1
        BY <1>1, <2>1, OpenedNumbers
    <2> HIDE DEF o
    <2>3. Kept(q) BY <2>2, OpenKept
    <2>4. q \in Socket
        BY <1>2, <2>2, QueueControlType DEF Flags, Transmits
    <2> HIDE DEF q
    <2>5. Queued(t) BY <2>3, <2>4, ChangeStateQueue, KeptSame DEF Queued
    <2> HIDE DEF t
    <2> QED BY <2>1, <2>5, QueuedStep
<1>4. CASE Accept(e)
    <2>1. PICK isn \in synQueue[e] :
            LET c == ChangeState(Opened(s, isn, isn + 1), "SYN_RECEIVED") IN
            /\ Unopened(s)
            /\ sock' = [sock EXCEPT ![e] = QueueControl(c, {"SYN", "ACK"}, c.iss)]
        BY <1>4 DEF Accept
    <2> DEFINE o == Opened(s, isn, isn + 1)
               c == ChangeState(o, "SYN_RECEIVED")
               t == QueueControl(c, {"SYN", "ACK"}, c.iss)
    <2>2. isn \in Nat /\ isn + 1 \in Nat BY DEF IInv, TypeOK
    <2>3. o \in Socket /\ o.iss = s.iss /\ o.sndUna = o.iss /\ o.sndNxt = o.iss + 1
        BY <1>1, <2>1, <2>2, OpenedNumbers
    <2>4. sock' = [sock EXCEPT ![e] = t] BY <2>1
    <2> HIDE DEF o
    <2>5. c \in Socket /\ Onward(o, c) BY <2>3, ChangeStateType DEF States
    <2>6. SameQueue(o, c) BY <2>3, ChangeStateQueue
    <2> HIDE DEF c
    <2>7. c.iss = o.iss /\ c.sndUna = c.iss /\ c.sndNxt = c.iss + 1
        BY <2>3, <2>5, <2>6 DEF Onward, SameQueue
    <2>8. Kept(t) BY <2>5, <2>7, OpenKept
    <2> HIDE DEF t
    <2> QED BY <2>4, <2>8, QueuedStep DEF Queued
<1>5. CASE Send(e)
    <2>1. PICK n \in 0 .. (WriteLimit[e] - written[e]),
               flag \in {"NONE", "NO_DELAY", "DELAY"} :
            LET data == [i \in 1 .. n |-> written[e] + i] IN
            /\ s.state \in {"ESTABLISHED", "CLOSE_WAIT"}
            /\ sock' = [sock EXCEPT ![e] = NagleAlgo(WriteTxBuffer(s, data), flag)]
        BY <1>5 DEF Send
    <2> DEFINE data == [i \in 1 .. n |-> written[e] + i]
               w == WriteTxBuffer(s, data)
               t == NagleAlgo(w, flag)
    <2>2. written \in [Ends -> Nat] /\ WriteLimit \in [Ends -> Nat]
        BY WriteAssumption DEF IInv, TypeOK
    <2>3. n \in Nat BY <2>2
    <2>4. data \in [1 .. n -> Byte] BY <2>2, <2>3 DEF Byte
    <2>5. data \in Seq(Byte) BY <2>3, <2>4
    <2>6. sock' = [sock EXCEPT ![e] = t] BY <2>1
    <2> HIDE DEF data
    <2>7. w \in Socket BY <1>1, <2>5, WriteTxBufferType DEF Transmits
    <2>8. SameQueue(s, w) BY <1>1, WriteTxBufferQueue
    <2> HIDE DEF w
    <2>9. Kept(s) BY <1>1, <2>1 DEF Queued
    <2>10. Kept(t) BY <2>7, <2>8, <2>9, KeptSame, NagleAlgoKept
    <2> HIDE DEF t
    <2> QED BY <2>6, <2>10, QueuedStep DEF Queued
<1>6. CASE Receive(e)
    <2>1. PICK n \in 1 .. s.rcvUser :
            s.type = "STREAM" /\ sock' = [sock EXCEPT ![e] = TakeBytes(s, n)]
        BY <1>6 DEF Receive, Usable, IInv, TypeOK
    <2> DEFINE r == [s EXCEPT !.rcvUser = @ - n]
               w == RxBufferSize - r.rcvUser - r.rcvWnd
               o == [r EXCEPT !.rcvWnd = @ + w]
               t == TakeBytes(s, n)
    <2>2. t \in {r, o, SendAck(o)} BY Zenon DEF TakeBytes, UpdateReceiveWindow
    <2>3. SameQueue(s, r) /\ r.state = s.state /\ SameQueue(s, o) /\ o.state = s.state
        BY <1>1 DEF SameQueue, Socket
    <2>4. SameQueue(s, SendAck(o)) /\ SendAck(o).state = s.state
        BY <1>1 DEF SendAck, SendSegment, SameQueue, Socket
    <2>5. SameQueue(s, t) /\ t.state = s.state BY <2>2, <2>3, <2>4
    <2> HIDE DEF t
    <2> QED BY <2>1, <2>5, SameQueueStep DEF t
<1>7. CASE ShutdownFlush(e)
    <2> DEFINE t == NagleAlgo(s, "NO_DELAY")
    <2>1. /\ s.state \in {"SYN_RECEIVED", "ESTABLISHED", "CLOSE_WAIT"}
          /\ sock' = [sock EXCEPT ![e] = t]
        BY <1>7 DEF ShutdownFlush, Becomes
    <2>2. Kept(t) BY <1>1, <2>1, NagleAlgoKept DEF Queued
    <2> HIDE DEF t
    <2> QED BY <2>1, <2>2, QueuedStep DEF Queued
<1>8. CASE ShutdownFin(e)
    <2> DEFINE i == [seq |-> s.sndNxt, len |-> 0, flags |-> {"FIN", "ACK"}]
               q == QueueControl(s, {"FIN", "ACK"}, s.sndNxt)
               f == [q EXCEPT !.sndNxt = @ + 1]
               next == IF s.state = "CLOSE_WAIT" THEN "LAST_ACK" ELSE "FIN_WAIT_1"
               t == ChangeState(f, next)
    <2>1. /\ s.state \in {"SYN_RECEIVED", "ESTABLISHED", "CLOSE_WAIT"}
          /\ sock' = [sock EXCEPT ![e] = t]
        BY <1>8 DEF ShutdownFin, Becomes
    <2>2. q \in Socket BY <1>1, <1>2, QueueControlType DEF Flags, Transmits
    <2>3. /\ q.sndUna = s.sndUna /\ q.sndNxt = s.sndNxt
          /\ q.rtxQ = s.rtxQ \cup {i} /\ q.rtxTimer = TRUE
        BY <1>1 DEF QueueControl, QueueSegments, Socket
    <2> HIDE DEF q
    <2>4. /\ f.sndUna = q.sndUna /\ f.sndNxt = q.sndNxt + 1
          /\ f.rtxQ = q.rtxQ /\ f.rtxTimer = q.rtxTimer
        BY <2>2 DEF Socket
    <2>12. f \in Socket
        <3>1. q.sndNxt + 1 \in Nat BY <2>2, SocketNumbers
        <3> QED BY <2>2, <3>1 DEF Socket
    <2> HIDE DEF f
    <2>5. i.seq = s.sndNxt /\ ItemEnd(i) = s.sndNxt + 1 BY <1>2 DEF ItemEnd
    <2> HIDE DEF i
    <2>6. Kept(s) BY <1>1, <2>1 DEF Queued
    <2>7. Flight(f) \subseteq Flight(s) \cup (i.seq .. (ItemEnd(i) - 1))
        BY <1>2, <2>3, <2>4, <2>5 DEF Flight
    <2>8. Flight(f) \subseteq Covered(f) BY <2>3, <2>4, <2>6, <2>7 DEF Kept, Covered
    <2>9. f.rtxQ # {} BY <2>3, <2>4
    <2>10. Kept(f) BY <2>3, <2>4, <2>8, <2>9 DEF Kept
    <2>11. Kept(t) BY <2>12, <2>10, ChangeStateQueue, KeptSame
    <2> HIDE DEF t
    <2> QED BY <2>1, <2>11, QueuedStep DEF Queued
<1>9. CASE Abort(e)
    <2> DEFINE b == IF s.state = "SYN_SENT" THEN s ELSE SendResetSegment(s, s.sndNxt)
               c == ChangeState(b, "CLOSED")
               d == [DeleteControlBlock(c) EXCEPT !.type = "UNUSED"]
               l == [s EXCEPT !.owned = FALSE]
    <2>1. sock' = [sock EXCEPT ![e] = IF s.state = "TIME_WAIT" THEN l ELSE d]
        BY <1>9 DEF Abort, Becomes
    <2>2. b \in Socket BY <1>1, <1>2, SendResetSegmentType DEF Transmits
    <2> HIDE DEF b
    <2>3. c \in Socket /\ c.state = "CLOSED" BY <2>2, ChangeStateType DEF States
    <2> HIDE DEF c
    <2>4. d.state = "CLOSED" BY <2>3 DEF DeleteControlBlock, Socket
    <2>5. s.state = "TIME_WAIT" => l.state = "TIME_WAIT" BY <1>1 DEF Socket
    <2> HIDE DEF d, l
    <2> QED BY <2>1, <2>4, <2>5, EndQueued
<1>10. CASE Listen(e) \/ StopListening(e) \/ ReceiveEndOfStream(e)
    BY <1>10 DEF Listen, StopListening, ReceiveEndOfStream, QInv
<1> QED BY <1>3, <1>4, <1>5, <1>6, <1>7, <1>8, <1>9, <1>10 DEF User

LEMMA TimerQueued ==
    ASSUME IInv, QInv, NEW e \in Ends, Timer(e)
    PROVE  QInv'
<1> DEFINE s == sock[e]
<1>1. Good(s) /\ s \in Socket /\ Queued(s) BY DEF IInv, QInv, Good
<1>2. s.iss \in Nat /\ s.sndNxt \in Nat /\ s.sndUna \in Nat BY <1>1, SocketNumbers
<1>3. CASE Retransmit(e)
    <2> DEFINE r == RetransmitSegment(s)
               t == [r EXCEPT !.rtxCount = @ + 1]
    <2>1. sock' = [sock EXCEPT ![e] = t] BY <1>3 DEF Retransmit, Becomes
    <2>2. r \in Socket /\ SameQueue(s, r) /\ r.state = s.state
        BY <1>1, RetransmitSegmentType, RetransmitSegmentQueue DEF Transmits, SameControl
    <2> HIDE DEF r
    <2>3. SameQueue(s, t) /\ t.state = s.state BY <2>2 DEF SameQueue, Socket
    <2> HIDE DEF t
    <2> QED BY <2>1, <2>3, SameQueueStep
<1>4. CASE GiveUp(e)
    <2> DEFINE r == SendResetSegment(s, s.sndNxt)
               c == [r EXCEPT !.rtxTimer = FALSE]
               t == ChangeState(c, "CLOSED")
    <2>1. sock' = [sock EXCEPT ![e] = t] BY <1>4 DEF GiveUp, Becomes
    <2>2. r \in Socket BY <1>1, <1>2, SendResetSegmentType DEF Transmits
    <2> HIDE DEF r
    <2>3. c \in Socket BY <2>2 DEF Socket
    <2> HIDE DEF c
    <2>4. t.state = "CLOSED" BY <2>3, ChangeStateQueue
    <2> HIDE DEF t
    <2> QED BY <2>1, <2>4, EndQueued
<1>5. CASE Probe(e)
    <2> DEFINE r == SendSegment(s, {"ACK"}, s.sndUna - 1, s.rcvNxt)
               t == [r EXCEPT !.probeCount = @ + 1]
    <2>1. sock' = [sock EXCEPT ![e] = t] BY <1>5 DEF Probe, Becomes
    <2>2. SameQueue(s, t) /\ t.state = s.state
        BY <1>1 DEF SendSegment, SameQueue, Socket
    <2> HIDE DEF t
    <2> QED BY <2>1, <2>2, SameQueueStep
<1>6. CASE ProbeGiveUp(e)
    <2> DEFINE r == SendResetSegment(s, s.sndNxt)
               t == ChangeState(r, "CLOSED")
    <2>1. sock' = [sock EXCEPT ![e] = t] BY <1>6 DEF ProbeGiveUp, Becomes
    <2>2. r \in Socket BY <1>1, <1>2, SendResetSegmentType DEF Transmits
    <2> HIDE DEF r
    <2>3. t.state = "CLOSED" BY <2>2, ChangeStateQueue
    <2> HIDE DEF t
    <2> QED BY <2>1, <2>3, EndQueued
<1>7. CASE Override(e)
    <2> DEFINE t == OverrideSend(s)
    <2>1. s.state \in {"ESTABLISHED", "CLOSE_WAIT"} /\ sock' = [sock EXCEPT ![e] = t]
        BY <1>7 DEF Override, Becomes
    <2>2. Kept(t) BY <1>1, <2>1, OverrideSendKept DEF Queued
    <2> HIDE DEF t
    <2> QED BY <2>1, <2>2, QueuedStep DEF Queued
<1>8. CASE FinWait2Timeout(e)
    <2>1. sock' = [sock EXCEPT ![e] = ChangeState(s, "CLOSED")]
        BY <1>8 DEF FinWait2Timeout, Becomes
    <2> QED BY <1>1, <2>1, ChangeStateQueue, EndQueued
<1>9. CASE TimeWaitTimeout(e)
    <2> DEFINE c == ChangeState(s, "CLOSED")
               d == [DeleteControlBlock(c) EXCEPT !.type = "UNUSED"]
    <2>1. sock' = [sock EXCEPT ![e] = IF c.owned THEN c ELSE d]
        BY <1>9 DEF TimeWaitTimeout, Becomes
    <2>2. c \in Socket /\ c.state = "CLOSED" BY <1>1, ChangeStateType DEF States
    <2> HIDE DEF c
    <2>3. d.state = "CLOSED" BY <2>2 DEF DeleteControlBlock, Socket
    <2> HIDE DEF d
    <2> QED BY <2>1, <2>2, <2>3, EndQueued
<1> QED BY <1>3, <1>4, <1>5, <1>6, <1>7, <1>8, <1>9 DEF Timer

LEMMA SynSentSynAckQueued ==
    ASSUME IInv, QInv, NEW e \in Ends, NEW g \in Segment, SynSentSynAck(e, g)
    PROVE  QInv'
<1> DEFINE s == sock[e]
           o == SynTaken(s, g, g.ack)
           u == UpdateRetransmitQueue(o)
           w == [u EXCEPT !.sndWnd = g.wnd, !.sndWl1 = g.seq,
                          !.sndWl2 = g.ack, !.maxSndWnd = g.wnd]
           t == ChangeState(SendAck(w), "ESTABLISHED")
<1>1. /\ Good(s) /\ s.state = "SYN_SENT" /\ g.ack = s.sndNxt /\ Queued(s)
      /\ sock' = [sock EXCEPT ![e] = t]
    BY DEF SynSentSynAck, SynTaken, IInv, QInv, Becomes
<1>2. g.ack \in Nat /\ g.ack >= 1 /\ g.seq \in Int /\ g.wnd \in Int
    BY <1>1, GoodStream DEF Segment, Good, Numbered
<1>3. o \in Socket BY <1>1, <1>2, SynTakenGood
<1>4. Kept(o)
    <2>1. /\ o.sndUna = s.sndNxt /\ o.sndNxt = s.sndNxt
          /\ o.rtxQ = s.rtxQ /\ o.rtxTimer = s.rtxTimer
        BY <1>1 DEF SynTaken, Good, Socket
    <2>2. Flight(o) = {} BY <1>1, <1>2, <2>1 DEF Flight
    <2> QED BY <1>1, <2>1, <2>2 DEF Kept, Queued
<1> HIDE DEF o
<1>5. u \in Socket /\ Kept(u)
    BY <1>3, <1>4, UpdateRetransmitQueueType, UpdateRetransmitQueueKept DEF Transmits
<1> HIDE DEF u
<1>6. w \in Socket BY <1>2, <1>5, NewWindow DEF Transmits
<1>7. SameQueue(u, w) BY <1>5 DEF SameQueue, Socket
<1> HIDE DEF w
<1>8. SendAck(w) \in Socket BY <1>6, SendAckType DEF Transmits
<1>9. Kept(t) BY <1>5, <1>6, <1>7, <1>8, SendAckQueue, ChangeStateQueue, KeptSame
<1> HIDE DEF t
<1> QED BY <1>1, <1>9, QueuedStep DEF Queued

LEMMA SynSentSynQueued ==
    ASSUME IInv, QInv, NEW e \in Ends, NEW g \in Segment, SynSentSyn(e, g)
    PROVE  QInv'
<1> DEFINE s == sock[e]
           o == SynTaken(s, g, s.sndUna)
           u == UpdateRetransmitQueue(o)
           i == [seq |-> u.iss, len |-> 0, flags |-> {"SYN", "ACK"}]
           q == QueueControl(u, {"SYN", "ACK"}, u.iss)
           t == ChangeState(q, "SYN_RECEIVED")
<1>1. Good(s) /\ s.state = "SYN_SENT" /\ s \in Socket /\ Queued(s)
    BY DEF SynSentSyn, IInv, Good, QInv
<1>2. s.sndUna \in Nat /\ s.sndUna >= 1
    BY <1>1, GoodStream, SocketNumbers DEF Good, Numbered
<1>3. o \in Socket BY <1>1, <1>2, SynTakenGood
<1>4. o = [s EXCEPT !.irs = g.seq, !.rcvNxt = g.seq + 1] BY <1>1 DEF Socket, SynTaken
<1>5. sock' = [sock EXCEPT ![e] = t] BY <1>4 DEF SynSentSyn, Becomes
<1>6. SameQueue(s, o) BY <1>1 DEF SynTaken, SameQueue, Socket
<1> HIDE DEF o
<1>7. Kept(o) BY <1>1, <1>6, KeptSame DEF Queued
<1>8. u \in Socket /\ Kept(u)
    BY <1>3, <1>7, UpdateRetransmitQueueType, UpdateRetransmitQueueKept DEF Transmits
<1> HIDE DEF u
<1>9. q \in Socket BY <1>8, SocketNumbers, QueueControlType DEF Flags, Transmits
<1>10. Kept(q)
    <2>1. /\ q.sndUna = u.sndUna /\ q.sndNxt = u.sndNxt
          /\ q.rtxQ = u.rtxQ \cup {i} /\ q.rtxTimer = TRUE
        BY <1>8 DEF QueueControl, QueueSegments, Socket
    <2> HIDE DEF q, i
    <2>2. Flight(q) \subseteq Covered(q) BY <1>8, <2>1 DEF Kept, Flight, Covered
    <2>3. q.rtxQ # {} BY <2>1
    <2> QED BY <2>1, <2>2, <2>3 DEF Kept
<1> HIDE DEF q
<1>11. Kept(t) BY <1>9, <1>10, ChangeStateQueue, KeptSame
<1> HIDE DEF t
<1> QED BY <1>5, <1>11, QueuedStep DEF Queued

LEMMA SynReceivedAckQueued ==
    ASSUME IInv, QInv, NEW e \in Ends, NEW g \in Segment, SynReceivedAck(e, g)
    PROVE  QInv'
<1> DEFINE s == sock[e]
           v == View(s, g)
           w == [s EXCEPT !.sndWnd = g.wnd, !.sndWl1 = g.seq,
                          !.sndWl2 = g.ack, !.maxSndWnd = g.wnd]
           c == ChangeState(w, "ESTABLISHED")
           t == EstablishedHandler(c, v)
<1>1. /\ Good(s) /\ s \in Socket /\ s.state = "SYN_RECEIVED" /\ Queued(s)
      /\ sock' = [sock EXCEPT ![e] = t]
    BY DEF SynReceivedAck, IInv, Good, QInv, Becomes
<1>2. v \in Segment BY <1>1, ViewType
<1>3. g.ack \in Nat /\ g.seq \in Int /\ g.wnd \in Int BY DEF Segment
<1> HIDE DEF v
<1>4. Transmits(s, w) BY <1>1, <1>3, NewWindow
<1>5. SameQueue(s, w) BY <1>1 DEF SameQueue, Socket
<1> HIDE DEF w
<1>6. Good(w) /\ w.state = "SYN_RECEIVED" /\ w.type = "STREAM"
    BY <1>1, <1>4, TransmitsGood, GoodStream DEF Transmits, SameControl, Evolves
<1>7. Kept(w) BY <1>1, <1>5, KeptSame DEF Queued
<1>8. Evolves(w, c) BY <1>6, ReceivingStateGood DEF Receiving, States
<1>9. SameQueue(w, c) /\ c.state = "ESTABLISHED" BY <1>6, ChangeStateQueue DEF Good
<1> HIDE DEF c
<1>10. Good(c) /\ c.type = "STREAM" /\ Kept(c) BY <1>6, <1>7, <1>8, <1>9, KeptSame DEF Evolves
<1>11. Queued(t) BY <1>2, <1>9, <1>10, EstablishedHandlerQueued
<1> HIDE DEF t
<1> QED BY <1>1, <1>11, QueuedStep

LEMMA NetworkQueued ==
    ASSUME IInv, QInv, NEW e \in Ends, NEW g \in Segment, Network(e, g)
    PROVE  QInv'
<1> DEFINE s == sock[e]
<1>1. Good(s) /\ s \in Socket /\ Queued(s) BY DEF IInv, QInv, Good
<1>2. s.state \notin {"CLOSED", "TIME_WAIT"} => Kept(s) BY <1>1 DEF Queued
<1>3. ASSUME NEW t, Becomes(e, t), SameQueue(s, t), t.state = s.state
      PROVE  QInv'
    BY <1>3, SameQueueStep DEF Becomes
<1>4. \A flags, seq, ack : SendSegment(s, flags, seq, ack).state = s.state
    BY <1>1 DEF SendSegment, Socket
<1>5. SendAck(s).state = s.state /\ SameQueue(s, SendAck(s))
    BY <1>1, <1>4, SendAckQueue DEF SendAck
<1>6. \A n : /\ SendResetSegment(s, n).state = s.state
             /\ SameQueue(s, SendResetSegment(s, n))
    BY <1>1, <1>4, SendResetSegmentQueue DEF SendResetSegment
<1>7. ASSUME Becomes(e, ChangeState(s, "CLOSED")) PROVE QInv'
    BY <1>1, <1>7, ChangeStateQueue, EndQueued DEF Becomes
<1>8. CASE Reject(e, g)
    <2>1. SameQueue(s, RejectSegment(s, g)) /\ RejectSegment(s, g).state = s.state
        BY <1>1, RejectSegmentQueue, RejectSegmentType DEF Transmits, SameControl
    <2> QED BY <1>3, <1>8, <2>1 DEF Reject
<1>9. CASE ListenSyn(e, g) BY <1>9 DEF ListenSyn, QInv
<1>10. CASE SynSentBadAck(e, g) BY <1>3, <1>6, <1>10 DEF SynSentBadAck
<1>11. CASE SynSentReset(e, g) BY <1>7, <1>11 DEF SynSentReset
<1>12. CASE SynReceivedDuplicateSyn(e, g)
    BY <1>1, <1>3, <1>4, <1>12, SendSegmentQueue DEF SynReceivedDuplicateSyn
<1>13. CASE SynReceivedBadAck(e, g) BY <1>3, <1>6, <1>13 DEF SynReceivedBadAck
<1>14. CASE Unacceptable(e, g) BY <1>3, <1>5, <1>14 DEF Unacceptable
<1>15. CASE ResetByPeer(e, g) BY <1>7, <1>15 DEF ResetByPeer
<1>16. CASE UnexpectedSyn(e, g)
    <2> DEFINE n == View(s, g).seq + Len(g.data) + 1
               t == IF "ACK" \in g.flags THEN SendResetSegment(s, g.ack)
                    ELSE SendSegment(s, {"RST", "ACK"}, 0, n)
    <2>1. Becomes(e, t) BY <1>16 DEF UnexpectedSyn
    <2>2. SameQueue(s, t) /\ t.state = s.state
        BY <1>1, <1>4, <1>6, SendSegmentQueue
    <2> HIDE DEF t
    <2> QED BY <1>3, <2>1, <2>2
<1>17. CASE AckOfUnsent(e, g) BY <1>3, <1>5, <1>17 DEF AckOfUnsent
<1>18. CASE EstablishedSegment(e, g)
    BY <1>1, <1>2, <1>18, GoodStream, EstablishedHandlerQueued, QueuedStep
       DEF EstablishedSegment, Taken, Becomes
<1>19. CASE CloseWaitSegment(e, g)
    BY <1>1, <1>2, <1>19, CloseWaitHandlerQueued, QueuedStep
       DEF CloseWaitSegment, Taken, Becomes
<1>20. CASE FinWait1Segment(e, g)
    BY <1>1, <1>2, <1>20, GoodStream, FinWait1HandlerQueued, QueuedStep
       DEF FinWait1Segment, Taken, Becomes
<1>21. CASE FinWait2Segment(e, g)
    BY <1>1, <1>2, <1>21, GoodStream, FinWait2HandlerQueued, QueuedStep
       DEF FinWait2Segment, Taken, Becomes
<1>22. CASE ClosingSegment(e, g)
    BY <1>1, <1>2, <1>22, ClosingHandlerQueued, QueuedStep
       DEF ClosingSegment, Taken, Becomes
<1>23. CASE LastAckSegment(e, g)
    <2>1. SameQueue(s, s) BY DEF SameQueue
    <2>2. CASE g.ack = s.sndNxt BY <1>7, <1>23, <2>2 DEF LastAckSegment
    <2>3. CASE g.ack # s.sndNxt BY <1>3, <1>23, <2>1, <2>3 DEF LastAckSegment
    <2> QED BY <2>2, <2>3
<1>24. CASE TimeWaitSegment(e, g)
    <2>1. SameQueue(s, s) BY DEF SameQueue
    <2>2. CASE "FIN" \in g.flags BY <1>3, <1>5, <1>24, <2>2 DEF TimeWaitSegment
    <2>3. CASE "FIN" \notin g.flags BY <1>3, <1>24, <2>1, <2>3 DEF TimeWaitSegment
    <2> QED BY <2>2, <2>3
<1> QED BY <1>8, <1>9, <1>10, <1>11, <1>12, <1>13, <1>14, <1>15, <1>16, <1>17, <1>18,
           <1>19, <1>20, <1>21, <1>22, <1>23, <1>24, SynSentSynAckQueued,
           SynSentSynQueued, SynReceivedAckQueued DEF Network

-----------------------------------------------------------------------------
(* The theorem.                                                            *)

LEMMA NextQInv ==
    IInv /\ QInv /\ [Next]_vars => QInv'
<1> SUFFICES ASSUME IInv, QInv, [Next]_vars PROVE QInv' OBVIOUS
<1>1. CASE Next
    <2>1. PICK e \in Ends : \/ User(e) \/ Timer(e)
                            \/ \E g \in Incoming(e) : Network(e, g)
        BY <1>1 DEF Next
    <2> QED BY <2>1, UserQueued, TimerQueued, NetworkQueued, IncomingType
<1>2. CASE UNCHANGED vars BY <1>2 DEF vars, QInv
<1> QED BY <1>1, <1>2

LEMMA InitQInv ==
    Init => QInv
BY DEF Init, QInv, Queued, FreshSocket

LEMMA EstablishedQInv ==
    EstablishedInit => QInv
<1> SUFFICES ASSUME EstablishedInit, NEW e \in Ends PROVE Queued(sock[e])
    BY DEF QInv
<1>1. /\ sock[e].sndUna = Iss[e] + 1 /\ sock[e].sndNxt = Iss[e] + 1
      /\ sock[e].rtxQ = {} /\ sock[e].rtxTimer = FALSE
    BY DEF EstablishedInit, FreshSocket
<1>2. Iss[e] \in Nat BY IssAssumption
<1>3. Flight(sock[e]) = {} BY <1>1, <1>2 DEF Flight
<1> QED BY <1>1, <1>3 DEF Queued, Kept

LEMMA QueuedIsTheProperty ==
    QInv => FlightIsQueued
BY DEF QInv, Queued, Kept, FlightIsQueued

\* Every number sent and not acknowledged belongs to an item of the queue of
\* retransmissions (tcpSendSegment, tcpUpdateRetransmitQueue), and the timer
\* that tcpTick examines runs exactly while the queue holds one.
THEOREM NothingForgotten ==
    (Spec => []FlightIsQueued) /\ (EstablishedSpec => []FlightIsQueued)
<1>1. IInv /\ [Next]_vars => IInv' BY NextIInv
<1>2. Spec => []FlightIsQueued
    BY <1>1, InitIInv, InitQInv, NextQInv, QueuedIsTheProperty, PTL DEF Spec
<1>3. EstablishedSpec => []FlightIsQueued
    BY <1>1, EstablishedIInv, EstablishedQInv, NextQInv, QueuedIsTheProperty, PTL
       DEF EstablishedSpec
<1> QED BY <1>2, <1>3
=============================================================================
