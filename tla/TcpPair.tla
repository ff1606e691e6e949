------------------------------- MODULE TcpPair -------------------------------
(***************************************************************************)
(* Two hosts running CycloneTCP and one TCP connection between them.  A    *)
(* host connects, listens and accepts, or does either (an end in Active    *)
(* and Passive); when both connect the open is simultaneous.  The steps of *)
(* an end are the socket functions its user calls (core/tcp.c), the timers *)
(* of tcpTick (core/tcp_timer.c) and the handlers of tcpProcessSegment     *)
(* (core/tcp_fsm.c): each holds the stack's mutex from its start to its    *)
(* end or to its next wait, and is one action here.                        *)
(*                                                                         *)
(* The network keeps every segment ever sent and delivers any of them, any *)
(* number of times, in any order, or never.  A timer that runs may expire  *)
(* at any time.                                                            *)
(***************************************************************************)
EXTENDS TcpSocket

CONSTANTS
    Ends,           \* the two hosts
    Active,         \* the ends whose user connects
    Passive,        \* the ends with a listening socket, whose user accepts
    Iss,            \* the initial sequence number each end generates
    WriteLimit,     \* bound: bytes the user of an end writes at most
    Shutters,       \* the ends whose user shuts its sending side down
    Followers,      \* those of Shutters who wait for the end of the stream
    Closers,        \* the ends whose user closes the socket
    Strays          \* for each end, segments of an earlier connection between
                    \* the same ports that may still reach it

ASSUME EndsAssumption == \A e \in Ends : \E p \in Ends : Ends = {e, p} /\ e # p
ASSUME OpenAssumption == Active \subseteq Ends /\ Passive \subseteq Ends
ASSUME IssAssumption == Iss \in [Ends -> Nat \ {0}]
ASSUME WriteAssumption == WriteLimit \in [Ends -> Nat]
ASSUME UsersAssumption == /\ Shutters \subseteq Ends /\ Closers \subseteq Ends
                          /\ Followers \subseteq Shutters
ASSUME StraysAssumption == Strays \in [Ends -> SUBSET Segment]

Peer(e) == CHOOSE p \in Ends : p # e

\* A segment that is not a reset.
Live(g) == "RST" \notin g.flags

\* The first number an end never uses, and the numbers that are foreign to the
\* peer of e: a window around them holds none that the peer uses.
FinNumber(e) == IF e \in Shutters THEN 1 ELSE 0
LastNumber(e) == Iss[e] + 1 + WriteLimit[e] + FinNumber(e)
Foreign(e, n) == n >= LastNumber(Peer(e)) \/ n + RxBufferSize + 1 < Iss[Peer(e)]

\* The strays whose numbers tell them from this connection: an old segment
\* acknowledges what this connection never sends or, without data, what precedes
\* it; an old SYN is foreign.  (An old segment whose numbers all fit is taken
\* for a segment of this connection by the rules of RFC 793.)
OldSegment(e, g) ==
    /\ "ACK" \in g.flags =>
          \/ g.ack > LastNumber(e)
          \/ g.ack < Iss[e] /\ g.data = << >> /\ "FIN" \notin g.flags
    /\ "SYN" \in g.flags /\ "ACK" \notin g.flags => Foreign(e, g.seq)

StraysAreOld == \A e \in Ends : \A g \in Strays[e] : Live(g) => OldSegment(e, g)

VARIABLES
    sock,           \* the socket of the connection, at each end
    listening,      \* the ends whose listening socket is in the state LISTEN
    synQueue,       \* synQueue of the listening socket: ISNs of pending SYNs
    written,        \* bytes tcpSend has accepted, at each end
    delivered,      \* bytes tcpReceive has returned, at each end
    eos             \* the ends whose tcpReceive returned ERROR_END_OF_STREAM

vars == <<sock, listening, synQueue, written, delivered, eos>>
app == <<written, delivered, eos>>
listener == <<listening, synQueue>>

Init ==
    /\ sock = [e \in Ends |-> FreshSocket("UNUSED", Iss[e])]
    /\ listening = {}
    /\ synQueue = [e \in Ends |-> {}]
    /\ written = [e \in Ends |-> 0]
    /\ delivered = [e \in Ends |-> << >>]
    /\ eos = {}

\* The state in which a handshake without losses leaves the two ends, once the
\* network has dropped its segments: where the longer scenarios start.
EstablishedInit ==
    /\ sock = [e \in Ends |->
          LET irs == Iss[Peer(e)] IN
          [FreshSocket("STREAM", Iss[e]) EXCEPT
              !.state = "ESTABLISHED", !.owned = TRUE, !.irs = irs,
              !.sndUna = Iss[e] + 1, !.sndNxt = Iss[e] + 1,
              !.sndWnd = RxBufferSize, !.maxSndWnd = RxBufferSize,
              !.sndWl1 = IF e \in Passive THEN irs + 1 ELSE irs,
              !.sndWl2 = Iss[e] + 1,
              !.rcvNxt = irs + 1, !.rcvWnd = RxBufferSize]]
    /\ listening = Passive
    /\ synQueue = [e \in Ends |-> {}]
    /\ written = [e \in Ends |-> 0]
    /\ delivered = [e \in Ends |-> << >>]
    /\ eos = {}

\* A step of end e that changes its socket to s and nothing else.
Becomes(e, s) == /\ sock' = [sock EXCEPT ![e] = s]
                 /\ UNCHANGED <<listener, app>>

-----------------------------------------------------------------------------
(* The user's calls.                                                       *)

Unopened(s) == s.type = "UNUSED" /\ ~s.resetFlag /\ ~s.closedFlag

\* The fields tcpConnect and tcpAccept give a socket that starts.
Opened(s, irs, rcvNxt) ==
    [s EXCEPT !.type = "STREAM", !.owned = TRUE, !.irs = irs,
              !.sndUna = s.iss, !.sndNxt = s.iss + 1,
              !.rcvNxt = rcvNxt, !.rcvUser = 0, !.rcvWnd = RxBufferSize]

\* socketOpen, and tcpConnect up to its wait.  An end opens one connection.
Connect(e) ==
    LET s == sock[e] IN
    /\ e \in Active /\ Unopened(s)
    /\ Becomes(e, ChangeState(QueueControl(Opened(s, 0, 0), {"SYN"}, s.iss),
                              "SYN_SENT"))

\* tcpListen on the listening socket of a passive end.
Listen(e) ==
    /\ e \in Passive \ listening
    /\ listening' = listening \cup {e}
    /\ UNCHANGED <<sock, synQueue, app>>

\* socketClose on the listening socket: tcpAbort flushes the SYN queue.
StopListening(e) ==
    /\ e \in listening \cap Closers
    /\ listening' = listening \ {e}
    /\ synQueue' = [synQueue EXCEPT ![e] = {}]
    /\ UNCHANGED <<sock, app>>

\* tcpAccept: a pending SYN becomes a connection.  One connection is accepted.
Accept(e) ==
    \E isn \in synQueue[e] :
        LET s == ChangeState(Opened(sock[e], isn, isn + 1), "SYN_RECEIVED") IN
        /\ e \in listening /\ Unopened(sock[e])
        /\ sock' = [sock EXCEPT ![e] =
                      QueueControl(s, {"SYN", "ACK"}, s.iss)]
        /\ synQueue' = [synQueue EXCEPT ![e] = @ \ {isn}]
        /\ UNCHANGED <<listening, app>>

\* The user holds the socket: it has not been closed.
Usable(s) == s.type = "STREAM" /\ s.owned

\* One pass of the loop of tcpSend, for n bytes that fit in the buffer.  A call
\* for no bytes pushes those that wait.
Send(e) ==
    \E n \in 0 .. (WriteLimit[e] - written[e]),
       flag \in {"NONE", "NO_DELAY", "DELAY"} :
        LET s == sock[e]
            data == [i \in 1 .. n |-> written[e] + i] IN
        /\ Usable(s) /\ s.state \in {"ESTABLISHED", "CLOSE_WAIT"}
        /\ TxRoom(s) > 0 /\ n <= TxRoom(s)
        /\ sock' = [sock EXCEPT ![e] = NagleAlgo(WriteTxBuffer(s, data), flag)]
        /\ written' = [written EXCEPT ![e] = @ + n]
        /\ UNCHANGED <<listener, delivered, eos>>

\* The states in which tcpReceive looks for data.
Readable(s) ==
    \/ s.state \in {"ESTABLISHED", "FIN_WAIT_1", "FIN_WAIT_2", "CLOSE_WAIT",
                    "LAST_ACK", "CLOSING", "TIME_WAIT"}
    \/ s.state = "CLOSED" /\ s.closedFlag /\ ~s.resetFlag

Receive(e) ==
    \E n \in 1 .. sock[e].rcvUser :
        /\ Usable(sock[e]) /\ Readable(sock[e])
        /\ sock' = [sock EXCEPT ![e] = TakeBytes(@, n)]
        /\ delivered' = [delivered EXCEPT ![e] = @ \o ReadRxBuffer(sock[e], n)]
        /\ UNCHANGED <<listener, written, eos>>

\* tcpReceive returns ERROR_END_OF_STREAM.
ReceiveEndOfStream(e) ==
    LET s == sock[e] IN
    /\ Usable(s) /\ Readable(s) /\ s.rcvUser = 0
    /\ s.state \notin {"ESTABLISHED", "FIN_WAIT_1", "FIN_WAIT_2"}
    /\ eos' = eos \cup {e}
    /\ UNCHANGED <<sock, listener, written, delivered>>

\* The user of end e may call tcpShutdown.
ShutsDown(e) == e \in Shutters /\ (e \in Followers => e \in eos)

\* tcpShutdown with bytes not yet sent: push them and wait for TX_DONE.
ShutdownFlush(e) ==
    LET s == sock[e] IN
    /\ ShutsDown(e) /\ Usable(s)
    /\ s.state \in {"SYN_RECEIVED", "ESTABLISHED", "CLOSE_WAIT"}
    /\ s.sndUser > 0
    /\ Becomes(e, NagleAlgo(s, "NO_DELAY"))

\* tcpShutdown with everything sent: the FIN.
ShutdownFin(e) ==
    LET s == sock[e]
        fin == QueueControl(s, {"FIN", "ACK"}, s.sndNxt)
        next == IF s.state = "CLOSE_WAIT" THEN "LAST_ACK" ELSE "FIN_WAIT_1" IN
    /\ ShutsDown(e) /\ Usable(s)
    /\ s.state \in {"SYN_RECEIVED", "ESTABLISHED", "CLOSE_WAIT"}
    /\ s.sndUser = 0
    /\ Becomes(e, ChangeState([fin EXCEPT !.sndNxt = @ + 1], next))

\* socketClose, which is tcpAbort for a TCP socket.
Abort(e) ==
    LET s == sock[e]
        reset == SendResetSegment(s, s.sndNxt)
        closed == [DeleteControlBlock(ChangeState(
                     IF s.state = "SYN_SENT" THEN s ELSE reset, "CLOSED"))
                     EXCEPT !.type = "UNUSED"] IN
    /\ e \in Closers /\ Usable(s)
    /\ Becomes(e, IF s.state = "TIME_WAIT" THEN [s EXCEPT !.owned = FALSE]
                  ELSE closed)

-----------------------------------------------------------------------------
(* tcpTick.                                                                *)

\* Mutant of RetransmitDue: the last timeout is not acted upon.
RetransmitDueOnce(s) ==
    s.state # "CLOSED" /\ s.rtxQ # {} /\ s.rtxTimer /\ s.rtxCount < MaxRetries

RetransmitDue(s) == s.state # "CLOSED" /\ s.rtxQ # {} /\ s.rtxTimer

Retransmit(e) ==
    LET s == sock[e] IN
    /\ RetransmitDue(s) /\ s.rtxCount < MaxRetries
    /\ Becomes(e, [RetransmitSegment(s) EXCEPT !.rtxCount = @ + 1])

GiveUp(e) ==
    LET s == sock[e] IN
    /\ RetransmitDue(s) /\ s.rtxCount >= MaxRetries
    /\ Becomes(e, ChangeState([SendResetSegment(s, s.sndNxt)
                                 EXCEPT !.rtxTimer = FALSE], "CLOSED"))

ProbeDue(s) == s.state # "CLOSED" /\ s.sndWnd = 0 /\ s.probing

Probe(e) ==
    LET s == sock[e] IN
    /\ ProbeDue(s) /\ s.probeCount < MaxRetries
    /\ Becomes(e, [SendSegment(s, {"ACK"}, s.sndUna - 1, s.rcvNxt)
                     EXCEPT !.probeCount = @ + 1])

ProbeGiveUp(e) ==
    LET s == sock[e] IN
    /\ ProbeDue(s) /\ s.probeCount >= MaxRetries
    /\ Becomes(e, ChangeState(SendResetSegment(s, s.sndNxt), "CLOSED"))

\* The override timer runs since sndUser became positive.
Override(e) ==
    LET s == sock[e] IN
    /\ s.state \in {"ESTABLISHED", "CLOSE_WAIT"} /\ s.sndUser > 0
    /\ Becomes(e, OverrideSend(s))

FinWait2Timeout(e) ==
    LET s == sock[e] IN
    /\ s.state = "FIN_WAIT_2"
    /\ Becomes(e, ChangeState(s, "CLOSED"))

TimeWaitTimeout(e) ==
    LET s == ChangeState(sock[e], "CLOSED") IN
    /\ sock[e].state = "TIME_WAIT"
    /\ Becomes(e, IF s.owned THEN s
                  ELSE [DeleteControlBlock(s) EXCEPT !.type = "UNUSED"])

-----------------------------------------------------------------------------
(* tcpProcessSegment: a segment g of the peer reaches end e.  The socket   *)
(* of the connection takes it, unless the table entry is unused; then the  *)
(* listening socket does, or the segment is rejected.                      *)

\* The segments that may reach end e: what its peer sent, and strays.
Incoming(e) == sock[Peer(e)].sent \cup Strays[e]

\* tcpStateClosed, or no socket at all, or tcpStateListen on an ACK.
Reject(e, g) ==
    LET s == sock[e] IN
    /\ s.state = "CLOSED"
    /\ s.type = "UNUSED" /\ e \in listening => "ACK" \in g.flags
    /\ Becomes(e, RejectSegment(s, g))

\* tcpStateListen: a SYN that is not a duplicate of a pending one.
ListenSyn(e, g) ==
    /\ sock[e].type = "UNUSED" /\ e \in listening
    /\ "SYN" \in g.flags /\ g.flags \cap {"RST", "ACK"} = {}
    /\ synQueue[e] = {}
    /\ synQueue' = [synQueue EXCEPT ![e] = {g.seq}]
    /\ UNCHANGED <<sock, listening, app>>

(* SYN_SENT.                                                               *)

SynSentBadAck(e, g) ==
    LET s == sock[e] IN
    /\ s.state = "SYN_SENT"
    /\ "ACK" \in g.flags /\ g.ack # s.sndNxt /\ "RST" \notin g.flags
    /\ Becomes(e, SendResetSegment(s, g.ack))

SynSentReset(e, g) ==
    LET s == sock[e] IN
    /\ s.state = "SYN_SENT"
    /\ {"ACK", "RST"} \subseteq g.flags /\ g.ack = s.sndNxt
    /\ Becomes(e, ChangeState(s, "CLOSED"))

\* A SYN that acknowledges ours opens the connection.
SynSentSynAck(e, g) ==
    LET s == UpdateRetransmitQueue(
               [sock[e] EXCEPT !.irs = g.seq, !.rcvNxt = g.seq + 1,
                               !.sndUna = g.ack]) IN
    /\ sock[e].state = "SYN_SENT"
    /\ {"SYN", "ACK"} \subseteq g.flags /\ "RST" \notin g.flags
    /\ g.ack = sock[e].sndNxt
    /\ Becomes(e, ChangeState(
          SendAck([s EXCEPT !.sndWnd = g.wnd, !.sndWl1 = g.seq,
                            !.sndWl2 = g.ack, !.maxSndWnd = g.wnd]),
          "ESTABLISHED"))

\* A SYN alone: simultaneous open.
SynSentSyn(e, g) ==
    LET s == UpdateRetransmitQueue(
               [sock[e] EXCEPT !.irs = g.seq, !.rcvNxt = g.seq + 1]) IN
    /\ sock[e].state = "SYN_SENT"
    /\ "SYN" \in g.flags /\ g.flags \cap {"ACK", "RST"} = {}
    /\ Becomes(e, ChangeState(QueueControl(s, {"SYN", "ACK"}, s.iss),
                              "SYN_RECEIVED"))

(* The synchronized states.                                                *)

Synchronized == {"SYN_RECEIVED", "ESTABLISHED", "CLOSE_WAIT", "LAST_ACK",
                 "FIN_WAIT_1", "FIN_WAIT_2", "CLOSING", "TIME_WAIT"}

\* tcpStateSynReceived looks at a duplicate of the peer's SYN/ACK without its
\* SYN; the other handlers look at the segment as it came.
View(s, g) ==
    IF s.state = "SYN_RECEIVED" /\ {"SYN", "ACK"} \subseteq g.flags /\ g.seq = s.irs
    THEN [g EXCEPT !.flags = @ \ {"SYN"}, !.seq = @ + 1]
    ELSE g

\* A duplicate of the peer's SYN: the SYN/ACK once more.
DuplicateSyn(s, g) ==
    s.state = "SYN_RECEIVED" /\ g.seq = s.irs
        /\ "SYN" \in g.flags /\ "ACK" \notin g.flags

SynReceivedDuplicateSyn(e, g) ==
    LET s == sock[e] IN
    /\ DuplicateSyn(s, g)
    /\ Becomes(e, SendSegment(s, {"SYN", "ACK"}, s.iss, s.rcvNxt))

\* TIME_WAIT ignores every RST before it looks at the sequence number.
Examined(e, g) ==
    /\ sock[e].state \in Synchronized
    /\ ~DuplicateSyn(sock[e], g)
    /\ ~(sock[e].state = "TIME_WAIT" /\ "RST" \in g.flags)

\* tcpCheckSeqNum fails: an ACK, unless the segment is a RST.
Unacceptable(e, g) ==
    LET s == sock[e] IN
    /\ Examined(e, g) /\ ~Acceptable(s, View(s, g))
    /\ "RST" \notin g.flags
    /\ Becomes(e, SendAck(s))

ResetByPeer(e, g) ==
    LET s == sock[e] IN
    /\ Examined(e, g) /\ Acceptable(s, View(s, g))
    /\ "RST" \in g.flags
    /\ Becomes(e, ChangeState(s, "CLOSED"))

\* tcpCheckSyn fails.
UnexpectedSyn(e, g) ==
    LET s == sock[e]
        v == View(s, g) IN
    /\ Examined(e, g) /\ Acceptable(s, v)
    /\ "SYN" \in v.flags /\ "RST" \notin g.flags
    /\ Becomes(e, IF "ACK" \in g.flags THEN SendResetSegment(s, g.ack)
                  ELSE SendSegment(s, {"RST", "ACK"}, 0,
                                   v.seq + Len(g.data) + 1))

\* tcpCheckAck fails: the segment acknowledges what was not sent.
AckChecked == {"ESTABLISHED", "CLOSE_WAIT", "FIN_WAIT_1", "FIN_WAIT_2",
               "CLOSING"}

AckOfUnsent(e, g) ==
    LET s == sock[e] IN
    /\ s.state \in AckChecked
    /\ Passes(s, g) /\ g.ack > s.sndNxt
    /\ Becomes(e, SendAck(s))

\* SYN_RECEIVED wants exactly the ACK of its SYN.
SynReceivedBadAck(e, g) ==
    LET s == sock[e] IN
    /\ s.state = "SYN_RECEIVED"
    /\ Passes(s, View(s, g)) /\ g.ack # s.sndNxt
    /\ Becomes(e, SendResetSegment(s, g.ack))

-----------------------------------------------------------------------------
(* Handlers of a segment that passed the tests, as functions of the socket *)
(* and the segment.                                                        *)

AfterData(s, g) == ProcessSegmentData(CheckAck(s, g), g)

\* tcpStateEstablished after the tests.
EstablishedHandler(s, g) ==
    LET d == AfterData(s, g) IN
    NagleAlgo(IF FinReached(d, g) THEN ChangeState(TakeFin(d), "CLOSE_WAIT")
              ELSE d, "NONE")

CloseWaitHandler(s, g) == NagleAlgo(CheckAck(s, g), "NONE")

\* Entry in TIME_WAIT: the control block goes, the 2MSL timer starts.
TimeWait(s) == ChangeState(DeleteControlBlock(s), "TIME_WAIT")

\* Mutant of FinWait1Handler: any new acknowledgment is that of the FIN.
FinWait1HandlerAnyAck(s, g) ==
    LET a == CheckAck(s, g)
        d == ProcessSegmentData(IF g.ack > s.sndUna
                                THEN ChangeState(a, "FIN_WAIT_2") ELSE a, g)
    IN  IF ~FinReached(d, g) THEN d
        ELSE IF d.state = "FIN_WAIT_2" THEN TimeWait(TakeFin(d))
        ELSE ChangeState(TakeFin(d), "CLOSING")

\* tcpStateFinWait1 after the tests.
FinWait1Handler(s, g) ==
    LET a == CheckAck(s, g)
        acked == g.ack = a.sndNxt
        d == ProcessSegmentData(IF acked THEN ChangeState(a, "FIN_WAIT_2")
                                ELSE a, g)
    IN  IF ~FinReached(d, g) THEN d
        ELSE IF acked THEN TimeWait(TakeFin(d))
        ELSE ChangeState(TakeFin(d), "CLOSING")

FinWait2Handler(s, g) ==
    LET d == AfterData(s, g)
    IN  IF FinReached(d, g) THEN TimeWait(TakeFin(d)) ELSE d

ClosingHandler(s, g) ==
    LET a == CheckAck(s, g)
    IN  IF g.ack = a.sndNxt THEN TimeWait(a) ELSE a

\* Segment g, which passes all the tests of end e in the given state.
Taken(e, g, state) ==
    /\ sock[e].state = state
    /\ Passes(sock[e], g) /\ g.ack <= sock[e].sndNxt

\* Mutant of SynReceivedAck: any ACK opens the connection.
SynReceivedAnyAck(e, g) ==
    LET s == sock[e]
        w == [s EXCEPT !.sndWnd = g.wnd, !.sndWl1 = g.seq,
                       !.sndWl2 = g.ack, !.maxSndWnd = g.wnd] IN
    /\ s.state = "SYN_RECEIVED" /\ Passes(s, View(s, g))
    /\ Becomes(e, EstablishedHandler(ChangeState(w, "ESTABLISHED"), View(s, g)))

SynReceivedAck(e, g) ==
    LET s == sock[e]
        v == View(s, g)
        w == [s EXCEPT !.sndWnd = g.wnd, !.sndWl1 = g.seq,
                       !.sndWl2 = g.ack, !.maxSndWnd = g.wnd] IN
    /\ s.state = "SYN_RECEIVED"
    /\ Passes(s, v) /\ g.ack = s.sndNxt
    /\ Becomes(e, EstablishedHandler(ChangeState(w, "ESTABLISHED"), v))

EstablishedSegment(e, g) ==
    Taken(e, g, "ESTABLISHED") /\ Becomes(e, EstablishedHandler(sock[e], g))

CloseWaitSegment(e, g) ==
    Taken(e, g, "CLOSE_WAIT") /\ Becomes(e, CloseWaitHandler(sock[e], g))

FinWait1Segment(e, g) ==
    Taken(e, g, "FIN_WAIT_1") /\ Becomes(e, FinWait1Handler(sock[e], g))

FinWait2Segment(e, g) ==
    Taken(e, g, "FIN_WAIT_2") /\ Becomes(e, FinWait2Handler(sock[e], g))

ClosingSegment(e, g) ==
    Taken(e, g, "CLOSING") /\ Becomes(e, ClosingHandler(sock[e], g))

\* tcpStateLastAck looks for the ACK of the FIN and at nothing else.
LastAckSegment(e, g) ==
    LET s == sock[e] IN
    /\ s.state = "LAST_ACK" /\ Passes(s, g)
    /\ Becomes(e, IF g.ack = s.sndNxt THEN ChangeState(s, "CLOSED") ELSE s)

\* tcpStateTimeWait: a FIN is acknowledged (and restarts the 2MSL timer).
TimeWaitSegment(e, g) ==
    LET s == sock[e] IN
    /\ s.state = "TIME_WAIT"
    /\ Passes(s, g)
    /\ Becomes(e, IF "FIN" \in g.flags THEN SendAck(s) ELSE s)

-----------------------------------------------------------------------------
User(e) ==
    \/ Connect(e) \/ Listen(e) \/ StopListening(e) \/ Accept(e)
    \/ Send(e) \/ Receive(e) \/ ReceiveEndOfStream(e)
    \/ ShutdownFlush(e) \/ ShutdownFin(e) \/ Abort(e)

Timer(e) ==
    \/ Retransmit(e) \/ GiveUp(e) \/ Probe(e) \/ ProbeGiveUp(e)
    \/ Override(e) \/ FinWait2Timeout(e) \/ TimeWaitTimeout(e)

Network(e, g) ==
    \/ Reject(e, g) \/ ListenSyn(e, g)
    \/ SynSentBadAck(e, g) \/ SynSentReset(e, g)
    \/ SynSentSynAck(e, g) \/ SynSentSyn(e, g)
    \/ SynReceivedDuplicateSyn(e, g) \/ SynReceivedBadAck(e, g)
    \/ SynReceivedAck(e, g)
    \/ Unacceptable(e, g) \/ ResetByPeer(e, g)
    \/ UnexpectedSyn(e, g) \/ AckOfUnsent(e, g)
    \/ EstablishedSegment(e, g) \/ CloseWaitSegment(e, g)
    \/ FinWait1Segment(e, g) \/ FinWait2Segment(e, g)
    \/ ClosingSegment(e, g) \/ LastAckSegment(e, g) \/ TimeWaitSegment(e, g)

Next ==
    \E e \in Ends : \/ User(e)
                    \/ Timer(e)
                    \/ \E g \in Incoming(e) : Network(e, g)

Spec == Init /\ [][Next]_vars

EstablishedSpec == EstablishedInit /\ [][Next]_vars

\* tcpTick examines every socket every TCP_TICK_INTERVAL: a timer that runs
\* expires.  Nothing is assumed of the network or of the users.
Ticks ==
    \A e \in Ends :
        /\ WF_vars(Retransmit(e)) /\ WF_vars(GiveUp(e))
        /\ WF_vars(Probe(e)) /\ WF_vars(ProbeGiveUp(e))
        /\ WF_vars(Override(e))
        /\ WF_vars(FinWait2Timeout(e)) /\ WF_vars(TimeWaitTimeout(e))

FairSpec == Spec /\ Ticks

FairEstablishedSpec == EstablishedSpec /\ Ticks

-----------------------------------------------------------------------------
(* Safety.                                                                 *)

\* Every variable has its type.
TypeOK ==
    /\ sock \in [Ends -> Socket]
    /\ listening \subseteq Passive
    /\ synQueue \in [Ends -> SUBSET Nat]
    /\ written \in [Ends -> Nat]
    /\ delivered \in [Ends -> Seq(Byte)]
    /\ eos \subseteq Ends

\* The states in which data is still taken from the peer.
Receiving == {"SYN_SENT", "SYN_RECEIVED", "ESTABLISHED", "FIN_WAIT_1",
              "FIN_WAIT_2"}

\* The bytes the user has not read and the window offered to the peer never
\* exceed the receive buffer together, so that the unsigned reduction of
\* tcpUpdateReceiveWindow cannot wrap; what was received past a gap lies
\* strictly inside the window.
ReceiveAccounting ==
    \A e \in Ends :
        LET s == sock[e] IN
        /\ 0 <= s.rcvUser /\ 0 <= s.rcvWnd
        /\ s.rcvUser + s.rcvWnd <= RxBufferSize
        /\ s.state \in Receiving =>
              \A n \in s.ooo : s.rcvNxt < n /\ n < s.rcvNxt + s.rcvWnd

\* Every sequence number sent and not acknowledged (SYN, data, FIN) belongs to
\* an item of the retransmission queue, and the retransmission timer runs
\* exactly while the queue holds one: nothing in flight is forgotten.
Flight(s) == s.sndUna .. (s.sndNxt - 1)
Covered(s) == UNION {i.seq .. (ItemEnd(i) - 1) : i \in s.rtxQ}

FlightIsQueued ==
    \A e \in Ends :
        LET s == sock[e] IN
        s.state \notin {"CLOSED", "TIME_WAIT"} =>
            /\ Flight(s) \subseteq Covered(s)
            /\ s.rtxTimer <=> s.rtxQ # {}

\* The end has sent neither data nor a FIN.
OnlyAcks(s) == \A g \in s.sent : g.data = << >> /\ "FIN" \notin g.flags

\* Whatever windows reach the sender in whatever order, no data it sends lies
\* beyond what the receiver can store (tcpUpdateSendWindow keeps the newest
\* window; the receiver never takes a window back).  For streams in one
\* direction: a retransmission by the receiver carries a late acknowledgment
\* under an old number, and its window is then ignored (tcp_misc.c:1701).
NoOverrun ==
    \A e \in Ends : OnlyAcks(sock[Peer(e)]) =>
        \A g \in sock[e].sent :
            LET r == sock[Peer(e)] IN
            g.data # << >> => g.seq + Len(g.data) <= r.rcvNxt + r.rcvWnd

\* Once its SYN is acknowledged an end agrees with its peer on where the
\* peer's stream starts, believes acknowledged only what the peer has received,
\* and has received only what the peer has sent: no segment of an earlier
\* connection is taken for one of this connection.
EndsAgree ==
    \A e \in Ends :
        LET s == sock[e]
            p == sock[Peer(e)] IN
        s.sndUna > s.iss => /\ s.irs = p.iss
                            /\ s.sndUna <= p.rcvNxt
                            /\ s.rcvNxt <= p.sndNxt

\* An end that waits for the FIN of its peer only, or that is in TIME_WAIT,
\* has had every byte its user wrote, and its FIN, received.
FinishedMeansReceived ==
    \A e \in Ends :
        sock[e].state \in {"FIN_WAIT_2", "TIME_WAIT"} =>
            /\ sock[e].sndNxt = sock[e].iss + 1 + written[e] + 1
            /\ sock[Peer(e)].rcvNxt = sock[e].sndNxt

\* The right edge of the window an end offers never moves left, neither when
\* data arrives nor when the user reads (RFC 793 calls it "shrinking").
RightEdge(s) == s.rcvNxt + s.rcvWnd

WindowNeverShrinks ==
    [][\A e \in Ends : sock[e].state \in Synchronized =>
            RightEdge(sock[e]') >= RightEdge(sock[e])]_vars

\* The pair implements the byte stream of ByteStream.  An end is finished once
\* its FIN took a sequence number; its connection is over in the states in
\* which the code may free its buffers.
Stream == INSTANCE ByteStream WITH
    finished <- {e \in Ends :
                    sock[e].sndNxt = sock[e].iss + 1 + written[e] + 1},
    over <- {e \in Ends : sock[e].state \in {"CLOSED", "TIME_WAIT"}}

ImplementsByteStream == Stream!Spec

-----------------------------------------------------------------------------
(* Liveness, under Ticks alone.                                            *)

\* A state that waits for the peer is left, by an answer or by a timer: no
\* connection hangs in its handshake or in its termination.
TransientStatesEnd ==
    \A e \in Ends :
        \A state \in {"SYN_SENT", "SYN_RECEIVED", "FIN_WAIT_1", "FIN_WAIT_2",
                      "CLOSING", "LAST_ACK", "TIME_WAIT"} :
            sock[e].state = state ~> sock[e].state # state

\* What the user has written leaves the transmit buffer, or the connection
\* ends: neither a small write nor a closed window holds it for ever.
BufferDrains ==
    \A e \in Ends :
        sock[e].sndUser > 0 ~> sock[e].sndUser = 0 \/ sock[e].state = "CLOSED"

-----------------------------------------------------------------------------
(* A claim of the source's comments that the code does not keep.           *)

\* tcpReceive: "Data is available in the receive buffer" - the bytes it returns
\* are bytes of the stream.
ReadsReturnTheStream ==
    \A e \in Ends : \A i \in 1 .. Len(delivered[e]) : delivered[e][i] # Lost
=============================================================================
