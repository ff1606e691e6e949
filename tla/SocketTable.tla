---------------------------- MODULE SocketTable -----------------------------
(***************************************************************************)
(* The socket table of one host and the threads that use it: descriptors   *)
(* that are allocated, closed and recycled (core/socket_misc.c, socket.c,  *)
(* tcp.c), the search of a socket for a segment and the SYN queue          *)
(* (core/tcp_fsm.c), and the events by which the network task wakes the    *)
(* threads that wait in a call (core/tcp_misc.c).  What a connection does  *)
(* with its bytes is the subject of TcpPair; here it has a state, data to  *)
(* read or not, and a level of its transmit buffer.                        *)
(*                                                                         *)
(* A step is a section between netLock and netUnlock.                      *)
(***************************************************************************)
EXTENDS Naturals, Sequences, FiniteSets

CONSTANTS Sockets,   \* indices of socketTable
          Listener,  \* the one a server has put in LISTEN
          Peers,     \* remote hosts, with the port they connect from
          Threads,
          Backlog,   \* synQueueSize of the listener
          TxLevels,  \* levels of a transmit buffer, among those below
          Calls,     \* what each thread may call
          PollMask,  \* events of the descriptor given to socketPoll
          Timed      \* threads whose calls time out

ASSUME TableAssumption ==
    /\ Sockets \subseteq Nat /\ IsFiniteSet(Sockets)
    /\ Listener \in Sockets
    /\ Backlog \in Nat \ {0}
    /\ TxLevels \subseteq {"acked", "sent", "unsent", "full"} /\ "acked" \in TxLevels
    /\ Timed \subseteq Threads /\ DOMAIN Calls = Threads

VARIABLES sock,      \* socketTable
          timeWait,  \* sockets whose 2MSL timer runs, the one started first in front
          held,      \* how many users have the handle of a socket and have not
                     \* closed it
          thread,    \* the call a thread is in
          signalled, \* threads whose own event object (socketPoll) is set
          shared,    \* history: threads that had company on their socket
          recycled   \* history: threads whose descriptor was allocated again

vars == <<sock, timeWait, held, thread, signalled, shared, recycled>>

None == "none"       \* unspecified address, no user event
Service == "service" \* local port of the listener, inherited by what it accepts
Own == "own"         \* the ephemeral port of the socket (assumed not to recur)

States == {"CLOSED", "LISTEN", "SYN_SENT", "SYN_RECEIVED", "ESTABLISHED",
           "FIN_WAIT_1", "FIN_WAIT_2", "CLOSE_WAIT", "CLOSING", "LAST_ACK",
           "TIME_WAIT"}

Events == {"CONNECTED", "CLOSED", "TX_READY", "TX_DONE", "TX_ACKED",
           "TX_SHUTDOWN", "RX_READY", "RX_SHUTDOWN", "ACCEPT"}

ASSUME NamesAssumption ==
    /\ None \notin Peers /\ None \notin Threads
    /\ PollMask \subseteq Events

\* The events that complete each call that waits.
Mask(call) ==
    CASE call = "accept"  -> {"RX_READY"}
      [] call = "connect" -> {"CONNECTED", "CLOSED"}
      [] call = "receive" -> {"RX_READY"}
      [] call = "send"    -> {"TX_READY"}
      [] call = "waitAck" -> {"TX_ACKED"}
      [] call = "flush"   -> {"TX_DONE"}
      [] call = "shutTx"  -> {"TX_SHUTDOWN"}
      [] call = "shutRx"  -> {"RX_SHUTDOWN"}
      [] call = "poll"    -> PollMask

AllCalls == {"accept", "connect", "receive", "send", "waitAck", "flush", "shutTx",
             "shutRx", "poll"}

Idle == [call |-> None, on |-> Listener, phase |-> "idle"]

-----------------------------------------------------------------------------
(* One socket.                                                             *)

Unused(event) ==
    [type |-> "UNUSED", state |-> "CLOSED", port |-> Own, remote |-> None,
     owned |-> FALSE, resetFlag |-> FALSE,
     synQueue |-> << >>, rx |-> FALSE, tx |-> "acked",
     eventMask |-> {}, eventFlags |-> {}, event |-> event, userEvent |-> None]

\* What socketAllocate leaves of a descriptor: everything but the event.
Fresh(event) == [Unused(event) EXCEPT !.type = "STREAM"]

\* The conditions tcpUpdateEvents finds, before it masks them.
Conditions(s) ==
    UNION {
      IF s.state \in {"ESTABLISHED", "FIN_WAIT_1", "FIN_WAIT_2", "CLOSE_WAIT",
                      "LAST_ACK", "CLOSING"} THEN {"CONNECTED"} ELSE {},
      IF s.state \in {"TIME_WAIT", "CLOSED"} THEN {"CLOSED"} ELSE {},
      IF s.state \in {"FIN_WAIT_2", "TIME_WAIT", "CLOSED"}
        THEN {"TX_SHUTDOWN"} ELSE {},
      IF s.state \in {"CLOSE_WAIT", "LAST_ACK", "CLOSING", "TIME_WAIT", "CLOSED"}
        THEN {"RX_SHUTDOWN"} ELSE {},
      CASE s.state \in {"SYN_SENT", "SYN_RECEIVED"} -> {"TX_DONE", "TX_ACKED"}
        [] s.state \in {"ESTABLISHED", "CLOSE_WAIT"} ->
             UNION {IF s.tx # "full" THEN {"TX_READY"} ELSE {},
                    IF s.tx \in {"acked", "sent"} THEN {"TX_DONE"} ELSE {},
                    IF s.tx = "acked" THEN {"TX_ACKED"} ELSE {}}
        [] s.state = "LISTEN" -> {}
        [] OTHER -> {"TX_READY", "TX_DONE", "TX_ACKED"},
      CASE s.state \in {"ESTABLISHED", "FIN_WAIT_1", "FIN_WAIT_2"} ->
             IF s.rx THEN {"RX_READY"} ELSE {}
        [] s.state = "LISTEN" ->
             IF s.synQueue # << >> THEN {"ACCEPT", "RX_READY"} ELSE {}
        [] s.state \in {"SYN_SENT", "SYN_RECEIVED"} -> {}
        [] OTHER -> {"RX_READY"} }

UpdateEvents(s) ==
    LET flags == Conditions(s) \cap s.eventMask IN
    [s EXCEPT !.eventFlags = flags, !.event = s.event \/ flags # {}]

\* The states in which unread data, and the transmit buffer, decide an event.
\* They are not kept in the others.
Readable == {"ESTABLISHED", "FIN_WAIT_1", "FIN_WAIT_2"}
Writable == {"ESTABLISHED", "CLOSE_WAIT"}

\* Mutant: the events are not updated.
ChangeStateSilently(s, new) ==
    [s EXCEPT !.state = new,
              !.rx = @ /\ new \in Readable,
              !.tx = IF new \in Writable THEN @ ELSE "acked",
              !.resetFlag = @ \/ (new = "CLOSED"
                                     /\ s.state \notin {"LAST_ACK", "TIME_WAIT"})]

ChangeState(s, new) ==
    UpdateEvents(
      [s EXCEPT !.state = new,
                !.rx = @ /\ new \in Readable,
                !.tx = IF new \in Writable THEN @ ELSE "acked",
                !.resetFlag = @ \/ (new = "CLOSED"
                                       /\ s.state \notin {"LAST_ACK", "TIME_WAIT"})])

\* CLOSED, control block deleted, descriptor free: of its fields only the event
\* outlives the next socketAllocate, and a thread still in a call reads the flags.
Dispose(s) ==
    LET closed == ChangeState(s, "CLOSED") IN
    [Unused(closed.event) EXCEPT !.eventFlags = closed.eventFlags]

\* The event object of the user that an update of s has set.
Notified(s) ==
    IF s.eventFlags # {} /\ s.userEvent # None THEN {s.userEvent} ELSE {}

\* Store a socket whose events were updated.
Put(i, s) ==
    /\ sock' = [sock EXCEPT ![i] = s]
    /\ signalled' = signalled \cup Notified(s)

-----------------------------------------------------------------------------
(* The table.                                                              *)

MinIndex(S) == CHOOSE i \in S : \A j \in S : i <= j

\* Mutant: a connection that has ended frees its descriptor at once.
FreeSlotsWithEnded ==
    {i \in Sockets : \/ sock[i].type = "UNUSED"
                     \/ sock[i].state = "CLOSED" /\ sock[i].resetFlag}

FreeSlots == {i \in Sockets : sock[i].type = "UNUSED"}

\* socketAllocate takes the first unused descriptor or, when there is none,
\* the one tcpKillOldestConnection frees.
CanAllocate == FreeSlots # {} \/ timeWait # << >>
Killed == IF FreeSlots = {} /\ timeWait # << >> THEN {Head(timeWait)} ELSE {}
Allocated == IF FreeSlots # {} THEN MinIndex(FreeSlots) ELSE Head(timeWait)

\* Mutant: socketAllocate clears the event with the rest of the descriptor.
AllocatedEventCleared == FALSE

\* The event of the allocated descriptor, set if the kill has woken somebody.
AllocatedEvent ==
    IF Killed = {} THEN sock[Allocated].event ELSE Dispose(sock[Allocated]).event
KillNotifies == UNION {Notified(ChangeState(sock[i], "CLOSED")) : i \in Killed}

\* Mutant: the timer of the killed connection goes on.
TimerGoesOn == timeWait

AfterKill == IF Killed = {} THEN timeWait ELSE Tail(timeWait)

\* The threads inside a call on socket i, t apart.
Company(t, i) == {u \in Threads \ {t} : thread[u] # Idle /\ thread[u].on = i}

\* The user of the new socket i has its handle, and so has a user who had not
\* closed it (bound: two at most).  Whoever waits on i waits on another socket
\* from now on.
Hand(t, i) ==
    /\ held[i] < 2
    /\ held' = [held EXCEPT ![i] = @ + 1]
    /\ recycled' = (recycled \cup Company(t, i)) \ {t}

\* tcpProcessSegment: the first socket connected to the sender, else the first
\* listener.  A port of its own is that of one socket.
Matching(port, i) ==
    {j \in Sockets : /\ sock[j].type = "STREAM" /\ sock[j].port = port
                     /\ port = Own => j = i}
Lookup(port, i, p) ==
    LET exact == {j \in Matching(port, i) : sock[j].remote = p}
        passive == {j \in Matching(port, i) :
                      sock[j].state = "LISTEN" /\ sock[j].remote = None} IN
    IF exact # {} THEN {MinIndex(exact)}
    ELSE IF passive # {} THEN {MinIndex(passive)} ELSE {}

-----------------------------------------------------------------------------
(* The network task.                                                       *)

\* Mutant: only the first item is compared with the new SYN.
IsFirstSyn(s, p) == s.synQueue # << >> /\ Head(s.synQueue) = p

IsDuplicateSyn(s, p) == \E k \in 1 .. Len(s.synQueue) : s.synQueue[k] = p

\* Mutant: a stored SYN does not update the events.
SynSilently(p, stored) ==
    \E i \in Lookup(Service, Listener, p) :
        LET s == sock[i]
            rest == IF Len(s.synQueue) >= Backlog THEN Tail(s.synQueue)
                                                  ELSE s.synQueue IN
        /\ s.state = "LISTEN" /\ ~IsDuplicateSyn(s, p)
        /\ sock' = [sock EXCEPT ![i].synQueue = IF stored THEN Append(rest, p)
                                                          ELSE rest]
        /\ UNCHANGED <<signalled, timeWait, held, thread, shared, recycled>>

\* tcpStateListen: a full queue loses its first SYN; stored says whether
\* memory for the new one was found.
Syn(p, stored) ==
    \E i \in Lookup(Service, Listener, p) :
        LET s == sock[i]
            rest == IF Len(s.synQueue) >= Backlog THEN Tail(s.synQueue)
                                                  ELSE s.synQueue IN
        /\ s.state = "LISTEN" /\ ~IsDuplicateSyn(s, p)
        /\ IF stored
             THEN Put(i, UpdateEvents([s EXCEPT !.synQueue = Append(rest, p)]))
             ELSE /\ sock' = [sock EXCEPT ![i].synQueue = rest]
                  /\ UNCHANGED signalled
        /\ UNCHANGED <<timeWait, held, thread, shared, recycled>>

\* Where a segment of the peer may take a connection.
BySegment ==
    {<<"SYN_SENT", "ESTABLISHED">>, <<"SYN_SENT", "SYN_RECEIVED">>,
     <<"SYN_RECEIVED", "ESTABLISHED">>, <<"SYN_RECEIVED", "CLOSE_WAIT">>,
     <<"ESTABLISHED", "CLOSE_WAIT">>, <<"FIN_WAIT_1", "FIN_WAIT_2">>,
     <<"FIN_WAIT_1", "CLOSING">>, <<"FIN_WAIT_1", "TIME_WAIT">>,
     <<"FIN_WAIT_2", "TIME_WAIT">>, <<"CLOSING", "TIME_WAIT">>,
     <<"LAST_ACK", "CLOSED">>}

\* Reached by a segment, if the search finds this socket.
Found(i) == i \in Lookup(sock[i].port, i, sock[i].remote) /\ sock[i].remote # None

Proceed(i, new) ==
    /\ Found(i) /\ <<sock[i].state, new>> \in BySegment
    /\ Put(i, ChangeState(sock[i], new))
    /\ timeWait' = IF new = "TIME_WAIT" THEN Append(timeWait, i) ELSE timeWait
    /\ UNCHANGED <<held, thread, shared, recycled>>

\* A reset of the peer, retries exhausted, the FIN-WAIT-2 timer.
Fail(i) ==
    /\ sock[i].type = "STREAM"
    /\ sock[i].state \notin {"CLOSED", "LISTEN", "TIME_WAIT"}
    /\ Put(i, ChangeState(sock[i], "CLOSED"))
    /\ UNCHANGED <<timeWait, held, thread, shared, recycled>>

\* tcpProcessSegmentData: data in order.
Data(i) ==
    /\ Found(i) /\ sock[i].state \in {"ESTABLISHED", "FIN_WAIT_1", "FIN_WAIT_2"}
    /\ ~sock[i].rx
    /\ Put(i, UpdateEvents([sock[i] EXCEPT !.rx = TRUE]))
    /\ UNCHANGED <<timeWait, held, thread, shared, recycled>>

Lower(level) == CASE level = "full" -> {"acked", "sent", "unsent"}
                  [] level = "unsent" -> {"acked", "sent"}
                  [] level = "sent" -> {"acked"}
                  [] OTHER -> {}

\* An acknowledgment, or data sent by tcpNagleAlgo or tcpCheckOverrideTimer.
Drain(i, level) ==
    /\ sock[i].type = "STREAM" /\ sock[i].state \in {"ESTABLISHED", "CLOSE_WAIT"}
    /\ level \in Lower(sock[i].tx)
    /\ Put(i, UpdateEvents([sock[i] EXCEPT !.tx = level]))
    /\ UNCHANGED <<timeWait, held, thread, shared, recycled>>

\* A sequence without its entry k.
Without(q, k) == SubSeq(q, 1, k - 1) \o SubSeq(q, k + 1, Len(q))

\* tcpStateTimeWait: a FIN restarts the 2MSL timer.
TimeWaitFin(i) ==
    /\ Found(i) /\ sock[i].state = "TIME_WAIT"
    /\ \E k \in 1 .. Len(timeWait) :
         /\ timeWait[k] = i
         /\ timeWait' = Append(Without(timeWait, k), i)
    /\ UNCHANGED <<sock, signalled, held, thread, shared, recycled>>

\* Mutant: the descriptor is left to the user who has closed it already.
TimeWaitTimeoutKeeps ==
    /\ timeWait # << >>
    /\ Put(Head(timeWait), ChangeState(sock[Head(timeWait)], "CLOSED"))
    /\ timeWait' = Tail(timeWait)
    /\ UNCHANGED <<held, thread, shared, recycled>>

\* tcpCheckTimeWaitTimer: the descriptor is freed if its user has closed it.
TimeWaitTimeout ==
    /\ timeWait # << >>
    /\ LET i == Head(timeWait)
           s == ChangeState(sock[i], "CLOSED") IN
       Put(i, IF s.owned THEN s ELSE Dispose(sock[i]))
    /\ timeWait' = Tail(timeWait)
    /\ UNCHANGED <<held, thread, shared, recycled>>

-----------------------------------------------------------------------------
(* Threads: calls that do not wait.                                        *)

\* t takes part in no call, and may use handle i.
Free(t, i) == thread[t] = Idle /\ held[i] > 0

Open(t) ==
    /\ thread[t] = Idle /\ CanAllocate
    /\ sock' = [sock EXCEPT ![Allocated] = Fresh(AllocatedEvent)]
    /\ signalled' = signalled \cup KillNotifies
    /\ timeWait' = AfterKill
    /\ Hand(t, Allocated)
    /\ UNCHANGED <<thread, shared>>

\* socketClose, by a user that has the handle, whatever it denotes by now.
Close(t, i) ==
    /\ Free(t, i)
    /\ LET s == sock[i] IN
       IF s.type = "UNUSED" THEN UNCHANGED <<sock, signalled>>
       ELSE IF s.state = "TIME_WAIT"
         THEN sock' = [sock EXCEPT ![i].owned = FALSE] /\ UNCHANGED signalled
         ELSE Put(i, Dispose(s))
    /\ held' = [held EXCEPT ![i] = @ - 1]
    /\ UNCHANGED <<timeWait, thread, shared, recycled>>

-----------------------------------------------------------------------------
(* Threads: calls that wait.                                               *)

\* The threads whose waits are shared once t is in a call on i as well.
Joined(t, i) == IF Company(t, i) = {} THEN shared
                ELSE shared \cup {t} \cup Company(t, i)

\* t is out of its call.
Leave(t) ==
    /\ thread' = [thread EXCEPT ![t] = Idle]
    /\ shared' = shared \ {t}
    /\ recycled' = recycled \ {t}

\* Mutant: the wait starts with whatever an earlier call has left signalled.
BlockAsIs(t, i, c, s) ==
    /\ sock' = [sock EXCEPT ![i] = s]
    /\ thread' = [thread EXCEPT ![t] = [call |-> c, on |-> i, phase |-> "waiting"]]
    /\ UNCHANGED signalled

\* tcpWaitForEvents of call c with nothing signalled: reset the event and wait.
Block(t, i, c, s) ==
    /\ sock' = [sock EXCEPT ![i] = [s EXCEPT !.event = FALSE]]
    /\ thread' = [thread EXCEPT ![t] = [call |-> c, on |-> i, phase |-> "waiting"]]
    /\ UNCHANGED signalled

\* What call c does with the events it was given.
Results(c, s) ==
    CASE c = "receive" ->
           IF s.eventFlags = {"RX_READY"} /\ s.rx
             THEN {UpdateEvents([s EXCEPT !.rx = more]) : more \in BOOLEAN} ELSE {s}
      [] c = "send" ->
           IF /\ s.eventFlags = {"TX_READY"} /\ s.tx # "full"
              /\ s.state \in {"ESTABLISHED", "CLOSE_WAIT"}
             THEN {UpdateEvents([s EXCEPT !.tx = level]) :
                     level \in TxLevels \ {"acked"}}
             ELSE {s}
      [] OTHER -> {s}

\* The states in which each call waits at once (the others return).
Waits(c) ==
    CASE c = "connect" -> {"SYN_SENT", "SYN_RECEIVED", "ESTABLISHED", "CLOSED"}
      [] c = "receive" -> States \ {"LISTEN"}
      [] c = "send" -> States \ {"LISTEN"}
      [] c = "waitAck" -> {"ESTABLISHED", "CLOSE_WAIT"}
      [] c = "flush" -> {"SYN_RECEIVED", "ESTABLISHED", "CLOSE_WAIT"}
      [] c = "shutTx" -> {"FIN_WAIT_1", "CLOSING", "LAST_ACK"}
      [] c = "shutRx" -> {"SYN_SENT", "SYN_RECEIVED", "ESTABLISHED",
                          "FIN_WAIT_1", "FIN_WAIT_2"}
      [] OTHER -> {}

\* tcpWaitForEvents at the start of call c, on s.
Wait(t, i, c, s) ==
    LET w == UpdateEvents([s EXCEPT !.eventMask = Mask(c)]) IN
    /\ \/ /\ w.eventFlags = {} /\ Block(t, i, c, w)
          /\ shared' = Joined(t, i)
       \/ /\ w.eventFlags # {}
          /\ \E r \in Results(c, w) : Put(i, r)
          /\ shared' = Joined(t, i) \ {t}
          /\ UNCHANGED thread
    /\ UNCHANGED recycled

Enter(t, i, c) ==
    /\ c \in Calls[t] /\ Free(t, i)
    /\ sock[i].type = "STREAM" /\ sock[i].state \in Waits(c)
    /\ c = "connect" => sock[i].state # "CLOSED" \/ sock[i].resetFlag
    /\ c = "flush" => sock[i].tx \notin {"acked", "sent"}
    /\ Wait(t, i, c, sock[i])
    /\ UNCHANGED <<timeWait, held>>

\* tcpConnect on a CLOSED socket: send a SYN and wait.
Connect(t, i, p) ==
    /\ "connect" \in Calls[t] /\ Free(t, i)
    /\ sock[i].type = "STREAM" /\ sock[i].state = "CLOSED" /\ ~sock[i].resetFlag
    /\ LET s == ChangeState([sock[i] EXCEPT !.remote = p, !.owned = TRUE,
                                            !.rx = FALSE, !.tx = "acked"],
                            "SYN_SENT") IN
       Wait(t, i, "connect", s)
    /\ UNCHANGED <<timeWait, held>>

\* tcpShutdown with nothing left to send: the FIN, then the wait for its ACK.
ShutdownFin(t, i) ==
    /\ "shutTx" \in Calls[t] /\ Free(t, i)
    /\ sock[i].type = "STREAM" /\ sock[i].state \in Waits("flush")
    /\ sock[i].tx \in {"acked", "sent"}
    /\ Wait(t, i, "shutTx",
            ChangeState(sock[i], IF sock[i].state = "CLOSE_WAIT"
                                 THEN "LAST_ACK" ELSE "FIN_WAIT_1"))
    /\ UNCHANGED <<timeWait, held>>

\* socketPoll on one socket: register, then wait for the thread's own event.
Poll(t, i) ==
    /\ "poll" \in Calls[t] /\ Free(t, i) /\ sock[i].type = "STREAM"
    /\ LET s == UpdateEvents(
             [sock[i] EXCEPT
                !.eventMask = IF sock[i].userEvent # None
                              THEN @ \cup PollMask ELSE PollMask,
                !.userEvent = t]) IN
       /\ sock' = [sock EXCEPT ![i] = s]
       /\ signalled' = (signalled \ {t}) \cup Notified(s)
    /\ shared' = Joined(t, i)
    /\ thread' = [thread EXCEPT ![t] = [call |-> "poll", on |-> i, phase |-> "waiting"]]
    /\ UNCHANGED <<timeWait, held, recycled>>

\* osWaitForEvent returns because the event is set, which clears it.
Wake(t) ==
    /\ thread[t].phase = "waiting"
    /\ IF thread[t].call = "poll"
         THEN t \in signalled /\ signalled' = signalled \ {t} /\ UNCHANGED sock
         ELSE /\ sock[thread[t].on].event
              /\ sock' = [sock EXCEPT ![thread[t].on].event = FALSE]
              /\ UNCHANGED signalled
    /\ thread' = [thread EXCEPT ![t].phase = "woken"]
    /\ UNCHANGED <<timeWait, held, shared, recycled>>

Timeout(t) ==
    /\ t \in Timed /\ thread[t].phase = "waiting"
    /\ thread' = [thread EXCEPT ![t].phase = "woken"]
    /\ UNCHANGED <<sock, timeWait, held, signalled, shared, recycled>>

\* The thread has the mutex again: it reads the flags of the socket as it is by
\* now and returns.
Return(t) ==
    /\ thread[t].phase = "woken" /\ thread[t].call \notin {"accept", "poll"}
    /\ \E r \in Results(thread[t].call, sock[thread[t].on]) :
          IF r = sock[thread[t].on] THEN UNCHANGED <<sock, signalled>>
                                    ELSE Put(thread[t].on, r)
    /\ Leave(t)
    /\ UNCHANGED <<timeWait, held>>

\* socketPoll reads the flags and unregisters whatever event is registered.
PollReturn(t) ==
    /\ thread[t].phase = "woken" /\ thread[t].call = "poll"
    /\ sock' = [sock EXCEPT ![thread[t].on].userEvent = None]
    /\ signalled' = signalled \ {t}
    /\ Leave(t)
    /\ UNCHANGED <<timeWait, held>>

-----------------------------------------------------------------------------
(* tcpAccept.                                                              *)

\* The state is tested in a section of its own (tcpGetState).
AcceptCheck(t, i) ==
    /\ "accept" \in Calls[t] /\ Free(t, i)
    /\ sock[i].type = "STREAM" /\ sock[i].state = "LISTEN"
    /\ shared' = Joined(t, i)
    /\ thread' = [thread EXCEPT ![t] =
                     [call |-> "accept", on |-> i, phase |-> "checked"]]
    /\ UNCHANGED <<sock, timeWait, held, signalled, recycled>>

Accepting(t, phases) == thread[t].call = "accept" /\ thread[t].phase \in phases

\* Nothing is pending: wait.
AcceptBlock(t) ==
    LET i == thread[t].on IN
    /\ Accepting(t, {"checked"}) /\ sock[i].synQueue = << >>
    /\ Block(t, i, "accept", [sock[i] EXCEPT !.eventMask = Mask("accept")])
    /\ UNCHANGED <<timeWait, held, shared, recycled>>

\* Nothing is pending although the wait is over: return no socket.
AcceptNothing(t) ==
    /\ Accepting(t, {"woken"}) /\ sock[thread[t].on].synQueue = << >>
    /\ Leave(t)
    /\ UNCHANGED <<sock, timeWait, held, signalled>>

\* The thread's turn with SYNs pending: the loop takes them one by one.
Turn(t) == Accepting(t, {"checked", "woken"}) /\ sock[thread[t].on].synQueue # << >>

\* Each of the first n SYNs finds no memory and is dropped, its socket freed
\* again; the next one becomes a connection.
AcceptTakes(t, n) ==
    LET i == thread[t].on
        l == sock[i] IN
    /\ Turn(t) /\ CanAllocate /\ n < Len(l.synQueue)
    /\ LET s == ChangeState([Fresh(AllocatedEvent) EXCEPT
                               !.port = l.port, !.remote = l.synQueue[n + 1],
                               !.owned = TRUE], "SYN_RECEIVED")
           rest == UpdateEvents(
                     [l EXCEPT !.synQueue = SubSeq(@, n + 2, Len(@))]) IN
       /\ sock' = [sock EXCEPT ![Allocated] = s, ![i] = rest]
       /\ signalled' = signalled \cup KillNotifies \cup Notified(rest)
    /\ timeWait' = AfterKill
    /\ Hand(t, Allocated)
    /\ thread' = [thread EXCEPT ![t] = Idle]
    /\ shared' = shared \ {t}

\* No SYN finds a socket and memory: all are dropped, without the events being
\* updated, and the thread waits.  A connection in TIME_WAIT that was killed for
\* them is gone.
AcceptDropsAll(t) ==
    LET i == thread[t].on
        freed == IF CanAllocate THEN {Allocated} ELSE {} IN
    /\ Turn(t)
    /\ sock' = [j \in Sockets |->
                  IF j \in freed THEN Dispose(Fresh(AllocatedEvent))
                  ELSE IF j = i THEN [sock[i] EXCEPT !.synQueue = << >>,
                                                     !.eventMask = Mask("accept"),
                                                     !.event = FALSE]
                  ELSE sock[j]]
    /\ signalled' = signalled \cup KillNotifies
    /\ timeWait' = AfterKill
    /\ thread' = [thread EXCEPT ![t].phase = "waiting"]
    /\ recycled' = recycled \cup UNION {Company(t, j) : j \in freed}
    /\ UNCHANGED <<held, shared>>

-----------------------------------------------------------------------------
(* The specification.                                                      *)

Init ==
    /\ sock = [i \in Sockets |->
                 IF i = Listener
                   THEN [Fresh(FALSE) EXCEPT !.state = "LISTEN", !.port = Service]
                   ELSE Unused(FALSE)]
    /\ timeWait = << >>
    /\ held = [i \in Sockets |-> IF i = Listener THEN 1 ELSE 0]
    /\ thread = [t \in Threads |-> Idle]
    /\ signalled = {}
    /\ shared = {}
    /\ recycled = {}

Network ==
    \/ \E p \in Peers, stored \in BOOLEAN : Syn(p, stored)
    \/ \E i \in Sockets :
         \/ \E new \in States : Proceed(i, new)
         \/ \E level \in TxLevels : Drain(i, level)
         \/ Fail(i) \/ Data(i) \/ TimeWaitFin(i)
    \/ TimeWaitTimeout

User(t) ==
    \/ Open(t)
    \/ \E i \in Sockets :
         \/ \E c \in Calls[t] : Enter(t, i, c)
         \/ \E p \in Peers : Connect(t, i, p)
         \/ Close(t, i) \/ ShutdownFin(t, i) \/ Poll(t, i) \/ AcceptCheck(t, i)

InCall(t) ==
    \/ Wake(t) \/ Return(t) \/ PollReturn(t)
    \/ AcceptBlock(t) \/ AcceptNothing(t) \/ AcceptDropsAll(t)
    \/ \E n \in 0 .. Backlog - 1 : AcceptTakes(t, n)

Next ==
    \/ Network
    \/ \E t \in Threads : User(t) \/ InCall(t) \/ Timeout(t)

Spec == Init /\ [][Next]_vars

\* A thread that can go on does; the tick looks at every 2MSL timer.
FairSpec ==
    /\ Spec
    /\ \A t \in Threads : WF_vars(InCall(t))
    /\ WF_vars(TimeWaitTimeout)

-----------------------------------------------------------------------------
(* Properties.                                                             *)

Socket ==
    [type : {"UNUSED", "STREAM"}, state : States, port : {Own, Service},
     remote : Peers \cup {None}, owned : BOOLEAN, resetFlag : BOOLEAN,
     synQueue : Seq(Peers), rx : BOOLEAN,
     tx : TxLevels, eventMask : SUBSET Events, eventFlags : SUBSET Events,
     event : BOOLEAN, userEvent : Threads \cup {None}]

TypeOK ==
    /\ sock \in [Sockets -> Socket]
    /\ timeWait \in Seq({i \in Sockets : sock[i].type = "STREAM"})
    /\ \A i \in Sockets :
         Cardinality({k \in 1 .. Len(timeWait) : timeWait[k] = i})
           = IF sock[i].state = "TIME_WAIT" THEN 1 ELSE 0
    /\ held \in [Sockets -> 0 .. 2]
    /\ thread \in [Threads -> [call : AllCalls \cup {None}, on : Sockets,
                               phase : {"idle", "checked", "waiting", "woken"}]]
    /\ signalled \cup shared \cup recycled \subseteq Threads

-----------------------------------------------------------------------------
(* The table.                                                              *)

\* Where the connection with p may be: an entry of the SYN queue or a socket.
Pending(p) == {k \in 1 .. Len(sock[Listener].synQueue) :
                 sock[Listener].synQueue[k] = p}
Accepted(p) == {i \in Sockets : /\ sock[i].type = "STREAM"
                               /\ sock[i].port = Service /\ sock[i].remote = p}

\* A SYN that is repeated, or that arrives while the connection of its sender is
\* open, closing or in TIME_WAIT, never becomes a second connection with the
\* same addresses and ports; and the queue stays within its size.
ConnectionIsUnique ==
    /\ \A p \in Peers : Cardinality(Pending(p)) + Cardinality(Accepted(p)) <= 1
    /\ Len(sock[Listener].synQueue) <= Backlog

\* A descriptor nobody has the handle of is free, or will be when its 2MSL timer
\* ends: whatever order a socket is closed, fails, is killed or times out in.
NoDescriptorIsLost ==
    \A i \in Sockets :
        sock[i].type = "STREAM" /\ held[i] = 0 =>
            /\ sock[i].state = "TIME_WAIT" /\ ~sock[i].owned
            /\ \E k \in 1 .. Len(timeWait) : timeWait[k] = i

\* A socket whose handle has one user, and which is not in TIME_WAIT, remains
\* that user's: only its own close frees it, and nothing but a tcpConnect once it
\* is CLOSED makes another connection of it, however full the table is.
LiveSocketIsKept ==
    [][\A i \in Sockets :
          sock[i].type = "STREAM" /\ held[i] = 1 /\ sock[i].state # "TIME_WAIT" =>
              \/ held'[i] = 0
              \/ /\ sock'[i].type = "STREAM" /\ held'[i] = 1
                 /\ \/ sock[i].remote \in {None, sock'[i].remote}
                    \/ sock[i].state = "CLOSED" /\ sock'[i].state = "SYN_SENT"]_vars

-----------------------------------------------------------------------------
(* Waits.  They are promised to a thread that is alone on its socket: eventMask *)
(* and userEvent have room for one.                                        *)

Alone(t) == t \notin shared \cup recycled
Waiting(t) == thread[t].phase = "waiting" /\ Alone(t)
On(t) == sock[thread[t].on]

\* A thread never waits for what has happened already, in whatever order the
\* condition, the registration and the wait came about: its event is set.
\* tcpAccept is promised this as long as its socket listens.
NoWakeupIsLost ==
    \A t \in Threads :
        /\ Waiting(t) /\ On(t).type = "STREAM"
        /\ thread[t].call = "accept" => On(t).state = "LISTEN"
        /\ Conditions(On(t)) \cap Mask(thread[t].call) # {}
        => IF thread[t].call = "poll" THEN t \in signalled ELSE On(t).event

\* A thread whose socket another thread closes is woken, also when the descriptor
\* is allocated again before the thread has run.
ClosedSocketWakes ==
    \A t \in Threads \ shared :
        /\ thread[t].phase = "waiting" /\ thread[t].call \notin {"accept", "poll"}
        /\ t \in recycled \/ On(t).type = "UNUSED"
        => On(t).event

\* A thread that is woken before its timeout finds one of its events when it has
\* the mutex again: what woke it has not gone in between.
WokenFindsItsEvent ==
    \A t \in Threads \ Timed :
        /\ thread[t].phase = "woken" /\ Alone(t)
        /\ thread[t].call \notin {"accept", "poll"}
        => On(t).eventFlags # {}

\* A connection that is pending while a thread accepts is served, or lost to a
\* lack of memory; the thread does not sleep beside it.
AcceptorIsServed ==
    \A t \in Threads :
        thread[t].call = "accept" /\ On(t).synQueue # << >>
          ~> thread[t].call # "accept" \/ On(t).synQueue = << >> \/ ~Alone(t)

=============================================================================
