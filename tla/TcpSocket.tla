------------------------------ MODULE TcpSocket ------------------------------
(***************************************************************************)
(* One CycloneTCP TCP socket: the fields of the control block and the      *)
(* functions of core/tcp_misc.c that change them.  A function that the C   *)
(* code applies to a socket is here an operator from a socket record to a  *)
(* socket record, so that a handler is the composition of the functions it *)
(* calls, in the order in which it calls them.                             *)
(*                                                                         *)
(* Build options: congestion control, keep-alive, window scaling and the   *)
(* SACK option are disabled (the list of out-of-order blocks is kept by    *)
(* the code in every build).  Memory allocation succeeds.  Sequence        *)
(* numbers are the naturals, far from wrap-around; the module TcpSeq is    *)
(* about the 32-bit comparisons.                                           *)
(***************************************************************************)
EXTENDS Integers, Sequences

CONSTANTS
    Mss,            \* largest segment, smss and rmss of both peers
    TxBufferSize,   \* bytes of the transmit ring buffer
    RxBufferSize,   \* bytes of the receive ring buffer
    MaxRetries      \* TCP_MAX_RETRIES, of segments and of window probes

ASSUME MssAssumption == Mss \in Nat \ {0}
ASSUME TxBufferAssumption == TxBufferSize \in Nat \ {0}
ASSUME RxBufferAssumption == RxBufferSize \in Nat \ {0}
ASSUME RetriesAssumption == MaxRetries \in Nat \ {0}

Min(a, b) == IF a <= b THEN a ELSE b
Max(a, b) == IF a >= b THEN a ELSE b

Flags == {"SYN", "ACK", "FIN", "RST"}

States == {"CLOSED", "LISTEN", "SYN_SENT", "SYN_RECEIVED", "ESTABLISHED",
           "CLOSE_WAIT", "LAST_ACK", "FIN_WAIT_1", "FIN_WAIT_2", "CLOSING",
           "TIME_WAIT"}

\* A byte of the stream is the position at which its sender wrote it; Lost is
\* what memory holds that no byte of the stream was copied to.
Lost == 0

Byte == Nat

Segment == [flags : SUBSET Flags, seq : Nat, ack : Nat, wnd : Int,
            data : Seq(Byte)]

\* An item of the retransmission queue.  The queue is a set: its order is
\* that of the sequence numbers.
Item == [seq : Nat, len : Nat, flags : SUBSET Flags]

Socket == [
    type       : {"STREAM", "UNUSED"},
    state      : States,
    owned      : BOOLEAN,          \* ownedFlag
    closedFlag : BOOLEAN,
    resetFlag  : BOOLEAN,
    iss        : Nat,
    irs        : Nat,
    sndUna     : Nat,
    sndNxt     : Nat,
    sndUser    : Nat,              \* bytes buffered and not yet sent
    sndWnd     : Int,
    sndWl1     : Int,
    sndWl2     : Nat,
    maxSndWnd  : Int,
    rcvNxt     : Nat,
    rcvUser    : Nat,              \* bytes received and not yet read
    rcvWnd     : Int,
    ooo        : SUBSET Nat,       \* sackBlock: bytes received past a gap
    rtxQ       : SUBSET Item,      \* retransmitQueue
    rtxTimer   : BOOLEAN,          \* retransmitTimer.running
    rtxCount   : Nat,
    probing    : BOOLEAN,          \* wndProbeInterval # 0
    probeCount : Nat,
    txBuf      : [0 .. TxBufferSize - 1 -> Byte],
    rxBuf      : [0 .. RxBufferSize - 1 -> Byte],
    sent       : SUBSET Segment]   \* every segment this end ever sent

\* The content of a ring buffer that was allocated or freed.
NoTx == [i \in 0 .. TxBufferSize - 1 |-> Lost]
NoRx == [i \in 0 .. RxBufferSize - 1 |-> Lost]

\* A table entry before its first connection (or after socketAllocate).
FreshSocket(type, iss) ==
    [type |-> type, state |-> "CLOSED", owned |-> FALSE,
     closedFlag |-> FALSE, resetFlag |-> FALSE,
     iss |-> iss, irs |-> 0,
     sndUna |-> 0, sndNxt |-> 0, sndUser |-> 0,
     sndWnd |-> 0, sndWl1 |-> 0, sndWl2 |-> 0, maxSndWnd |-> 0,
     rcvNxt |-> 0, rcvUser |-> 0, rcvWnd |-> 0, ooo |-> {},
     rtxQ |-> {}, rtxTimer |-> FALSE, rtxCount |-> 0,
     probing |-> FALSE, probeCount |-> 0,
     txBuf |-> NoTx, rxBuf |-> NoRx, sent |-> {}]

-----------------------------------------------------------------------------
(* Sending.                                                                *)

\* tcpSendSegment with addToQueue = FALSE and no data.
SendSegment(s, flags, seq, ack) ==
    [s EXCEPT !.sent = @ \cup
        {[flags |-> flags, seq |-> seq,
          ack |-> IF "ACK" \in flags THEN ack ELSE 0,
          wnd |-> s.rcvWnd, data |-> << >>]}]

SendAck(s) == SendSegment(s, {"ACK"}, s.sndNxt, s.rcvNxt)

\* tcpSendResetSegment sends nothing in the other states.
ResetStates == {"SYN_SENT", "SYN_RECEIVED", "ESTABLISHED", "FIN_WAIT_1",
                "FIN_WAIT_2", "CLOSE_WAIT"}

SendResetSegment(s, seq) ==
    IF s.state \in ResetStates THEN SendSegment(s, {"RST"}, seq, 0) ELSE s

\* tcpRejectSegment: the host answers a segment that no connection takes.
RejectSegment(s, g) ==
    LET occupied == Len(g.data) + (IF "SYN" \in g.flags THEN 1 ELSE 0)
                                + (IF "FIN" \in g.flags THEN 1 ELSE 0)
        reset == IF "ACK" \in g.flags
                 THEN [flags |-> {"RST"}, seq |-> g.ack, ack |-> 0,
                       wnd |-> 0, data |-> << >>]
                 ELSE [flags |-> {"RST", "ACK"}, seq |-> 0,
                       ack |-> g.seq + occupied, wnd |-> 0, data |-> << >>]
    IN  IF "RST" \in g.flags THEN s ELSE [s EXCEPT !.sent = @ \cup {reset}]

\* tcpReadTxBuffer: n bytes of the transmit ring buffer from seq on.
ReadTxBuffer(s, seq, n) ==
    [i \in 1 .. n |-> s.txBuf[(seq - s.iss - 1 + i - 1) % TxBufferSize]]

\* What goes on the wire for a queued item: its header as it was queued, its
\* data as the ring buffer holds it now, the current ACK number and window.
SegmentOf(s, item) ==
    [flags |-> item.flags, seq |-> item.seq,
     ack |-> IF "ACK" \in item.flags THEN s.rcvNxt ELSE 0,
     wnd |-> s.rcvWnd, data |-> ReadTxBuffer(s, item.seq, item.len)]

\* tcpSendSegment with addToQueue = TRUE, for each of the items.
QueueSegments(s, items) ==
    [s EXCEPT !.sent = @ \cup {SegmentOf(s, i) : i \in items},
              !.rtxQ = @ \cup items,
              !.rtxTimer = TRUE,
              !.rtxCount = IF s.rtxTimer THEN @ ELSE 0]

QueueControl(s, flags, seq) ==
    QueueSegments(s, {[seq |-> seq, len |-> 0, flags |-> flags]})

\* tcpRetransmitSegment sends items from the head of the queue as long as
\* their data fit in one segment.  The items of the queue are contiguous, so
\* that the data up to an item are those from the head to its last byte.
RetransmitSegment(s) ==
    LET burst == {i \in s.rtxQ :
                    \A h \in s.rtxQ : i.seq + i.len - h.seq <= Mss}
    IN  [s EXCEPT !.sent = @ \cup {SegmentOf(s, i) : i \in burst}]

-----------------------------------------------------------------------------
(* State changes.                                                          *)

\* tcpChangeState: a connection that ends is "closed" or "reset".
ChangeState(s, state) ==
    [s EXCEPT
        !.state = state,
        !.closedFlag = @ \/ (state = "CLOSED"
                               /\ s.state \in {"LAST_ACK", "TIME_WAIT"}),
        !.resetFlag = @ \/ (state = "CLOSED"
                               /\ s.state \notin {"LAST_ACK", "TIME_WAIT"})]

\* tcpDeleteControlBlock: empty queues and buffers of length zero.
DeleteControlBlock(s) ==
    [s EXCEPT !.rtxQ = {}, !.rtxTimer = FALSE, !.txBuf = NoTx, !.rxBuf = NoRx]

-----------------------------------------------------------------------------
(* Transmit side.                                                          *)

\* Mutant of TxRoom: what was sent and not acknowledged is not counted.
TxRoomOfUnsent(s) == TxBufferSize - s.sndUser

\* The room tcpSend finds in the transmit buffer.
TxRoom(s) == TxBufferSize - (s.sndUser + s.sndNxt - s.sndUna)

\* tcpWriteTxBuffer and the accounting of tcpSend: the bytes data are put
\* after those that wait already.
WriteTxBuffer(s, data) ==
    LET offset(i) == (s.sndNxt + s.sndUser - s.iss - 1 + i - 1) % TxBufferSize
    IN  [s EXCEPT
            !.txBuf = [p \in 0 .. TxBufferSize - 1 |->
                         IF \E i \in 1 .. Len(data) : offset(i) = p
                         THEN data[CHOOSE i \in 1 .. Len(data) : offset(i) = p]
                         ELSE s.txBuf[p]],
            !.sndUser = @ + Len(data)]

\* Mutant of UsableWindow: what is in flight is not subtracted.
WholeWindow(s) == Min(s.sndWnd, TxBufferSize)

\* The usable window: what the peer accepts, beyond what is in flight.
UsableWindow(s) == Min(s.sndWnd, TxBufferSize) - (s.sndNxt - s.sndUna)

\* Send the first n buffered bytes, cut in segments of Mss bytes.
SendData(s, n) ==
    LET chunk(k) == [seq |-> s.sndNxt + k * Mss, len |-> Min(Mss, n - k * Mss),
                     flags |-> {"ACK"}]
        queued == QueueSegments(s, {chunk(k) : k \in 0 .. (n - 1) \div Mss})
    IN  IF n <= 0 THEN s
        ELSE [queued EXCEPT !.sndNxt = @ + n, !.sndUser = @ - n]

\* Mutant of NagleAmount: the window alone says how much is sent.
NagleAmountOfWindow(s, flag) == Max(0, UsableWindow(s))

\* How much tcpNagleAlgo sends: every full segment, and the remainder when a
\* condition that depends on the flag of the caller allows it: NO_DELAY always
\* does, DELAY never.
NagleAmount(s, flag) ==
    LET sendable  == Max(0, Min(s.sndUser, UsableWindow(s)))
        remainder == sendable % Mss
        sendsRest ==
            \/ flag = "NO_DELAY"
            \/ /\ flag = "NONE"
               /\ \/ /\ sendable < Mss
                     /\ s.sndNxt = s.sndUna
                     /\ s.sndUser <= UsableWindow(s)
                  \/ remainder >= s.maxSndWnd \div 2
    IN  IF sendsRest THEN sendable ELSE sendable - remainder

NagleAlgo(s, flag) == SendData(s, NagleAmount(s, flag))

\* Mutant of OverrideSend: full segments only, as when the user delays.
OverrideSendDelayed(s) == NagleAlgo(s, "DELAY")

\* tcpCheckOverrideTimer sends whatever the window allows.
OverrideSend(s) == SendData(s, Max(0, Min(s.sndUser, UsableWindow(s))))

\* Mutant of ItemEnd: a SYN or a FIN takes no sequence number.
ItemEndOfData(i) == i.seq + i.len

\* tcpUpdateRetransmitQueue: drop what sndUna covers, and restart or stop the
\* timer.
ItemEnd(i) == i.seq + i.len + (IF i.flags \cap {"SYN", "FIN"} # {} THEN 1 ELSE 0)

UpdateRetransmitQueue(s) ==
    LET left == {i \in s.rtxQ : ItemEnd(i) > s.sndUna}
    IN  [s EXCEPT !.rtxQ = left,
                  !.rtxTimer = left # {} /\ (left # s.rtxQ \/ @),
                  !.rtxCount = IF left # s.rtxQ THEN 0 ELSE @]

\* Mutant of UpdateSendWindow: a window that closes starts no probe.
UpdateSendWindowNoProbe(s, g) ==
    IF g.seq >= s.sndWl1 /\ g.ack >= s.sndWl2
    THEN [s EXCEPT !.sndWnd = g.wnd, !.sndWl1 = g.seq, !.sndWl2 = g.ack,
                   !.maxSndWnd = Max(@, g.wnd)]
    ELSE s

\* tcpUpdateSendWindow: the window of a segment older than the one that set
\* the current window is ignored.
UpdateSendWindow(s, g) ==
    LET taken == [s EXCEPT !.sndWnd = g.wnd, !.sndWl1 = g.seq,
                           !.sndWl2 = g.ack, !.maxSndWnd = Max(@, g.wnd)]
        closes == g.wnd = 0 /\ s.sndWnd # 0
    IN  IF g.seq = s.sndWl1 /\ g.ack = s.sndWl2
        THEN IF g.wnd > s.sndWnd THEN taken ELSE s
        ELSE IF g.seq >= s.sndWl1 /\ g.ack >= s.sndWl2
        THEN [taken EXCEPT !.probing = @ \/ closes,
                           !.probeCount = IF closes THEN 0 ELSE @]
        ELSE s

-----------------------------------------------------------------------------
(* Tests of an incoming segment.                                           *)

\* tcpCheckSeqNum, the test alone.
Acceptable(s, g) ==
    LET InWindow(n) == s.rcvNxt <= n /\ n < s.rcvNxt + s.rcvWnd
    IN  IF g.data = << >>
        THEN IF s.rcvWnd = 0 THEN g.seq = s.rcvNxt ELSE InWindow(g.seq)
        ELSE /\ s.rcvWnd # 0
             /\ InWindow(g.seq) \/ InWindow(g.seq + Len(g.data) - 1)

\* A segment that passes tcpCheckSeqNum, the RST test and tcpCheckSyn and
\* that carries an acknowledgment: what every handler of a synchronized state
\* asks first.
Passes(s, g) ==
    /\ Acceptable(s, g)
    /\ "ACK" \in g.flags
    /\ "RST" \notin g.flags
    /\ "SYN" \notin g.flags

\* tcpCheckAck on an ACK number that is not beyond sndNxt.
CheckAck(s, g) ==
    IF g.ack < s.sndUna THEN s
    ELSE LET w == UpdateSendWindow(s, g)
         IN  IF g.ack > s.sndUna
             THEN UpdateRetransmitQueue([w EXCEPT !.sndUna = g.ack])
             ELSE w

-----------------------------------------------------------------------------
(* Receive side.                                                           *)

\* tcpProcessSegmentData: the part of the segment inside the window goes to
\* the ring buffer; rcvNxt moves to the end of the contiguous bytes.
ProcessSegmentData(s, g) ==
    LET leftEdge  == Max(g.seq, s.rcvNxt)
        rightEdge == Min(g.seq + Len(g.data), s.rcvNxt + s.rcvWnd)
        arrived   == leftEdge .. (rightEdge - 1)
        held      == s.ooo \cup arrived
        rcvNxt    == CHOOSE n \in s.rcvNxt .. (s.rcvNxt + s.rcvWnd) :
                        /\ n \notin held
                        /\ \A m \in s.rcvNxt .. (s.rcvNxt + s.rcvWnd) :
                              m \notin held => n <= m
        slot(n)   == (n - s.irs - 1) % RxBufferSize
        rxBuf     == [p \in 0 .. RxBufferSize - 1 |->
                        IF \E n \in arrived : slot(n) = p
                        THEN g.data[(CHOOSE n \in arrived : slot(n) = p)
                                        - g.seq + 1]
                        ELSE s.rxBuf[p]]
    IN  IF g.data = << >> THEN s
        ELSE SendAck([s EXCEPT !.rxBuf = rxBuf,
                               !.ooo = {n \in held : n > rcvNxt},
                               !.rcvNxt = rcvNxt,
                               !.rcvUser = @ + (rcvNxt - s.rcvNxt),
                               !.rcvWnd = @ - (rcvNxt - s.rcvNxt)])

\* The FIN of a segment counts once every byte before it was received.
FinReached(s, g) == "FIN" \in g.flags /\ s.rcvNxt = g.seq + Len(g.data)

\* Mutant of TakeFin: the window is closed, as no data are expected any more.
TakeFinAndCloseWindow(s) == SendAck([s EXCEPT !.rcvNxt = @ + 1, !.rcvWnd = 0])

TakeFin(s) == SendAck([s EXCEPT !.rcvNxt = @ + 1])

\* Mutant of NextToRead: the sequence number of the FIN is forgotten.
NextToReadIgnoringFin(s) == s.rcvNxt - s.rcvUser

\* The sequence number of the first byte tcpReceive returns.
NextToRead(s) ==
    IF s.state \in {"ESTABLISHED", "FIN_WAIT_1", "FIN_WAIT_2"}
    THEN s.rcvNxt - s.rcvUser
    ELSE s.rcvNxt - 1 - s.rcvUser

\* tcpReadRxBuffer.
ReadRxBuffer(s, n) ==
    [i \in 1 .. n |->
        s.rxBuf[(NextToRead(s) - s.irs - 1 + i - 1) % RxBufferSize]]

\* Mutant of UpdateReceiveWindow: unread bytes are forgotten.
UpdateReceiveWindowIgnoringUnread(s) ==
    IF RxBufferSize < Min(Mss, RxBufferSize \div 2) THEN s
    ELSE SendAck([s EXCEPT !.rcvWnd = RxBufferSize])

\* tcpUpdateReceiveWindow: the window opens only by a worthwhile amount.
UpdateReceiveWindow(s) ==
    LET reduction == RxBufferSize - s.rcvUser - s.rcvWnd
        threshold == Min(Min(Mss, RxBufferSize), RxBufferSize \div 2)
        opened    == [s EXCEPT !.rcvWnd = @ + reduction]
    IN  IF s.rcvWnd + reduction < threshold THEN s
        ELSE IF s.rcvWnd < threshold THEN SendAck(opened) ELSE opened

\* The read of n bytes by tcpReceive.
TakeBytes(s, n) == UpdateReceiveWindow([s EXCEPT !.rcvUser = @ - n])
=============================================================================
