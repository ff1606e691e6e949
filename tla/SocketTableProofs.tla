-------------------------- MODULE SocketTableProofs --------------------------
(***************************************************************************)
(* Proofs about SocketTable: for every number of sockets, threads and      *)
(* clients, and every backlog.                                             *)
(***************************************************************************)
EXTENDS SocketTable, SequenceTheorems, FiniteSetTheorems, WellFoundedInduction, TLAPS

\* What holds of every entry of the table by itself.
Sound(s) ==
    /\ s \in Socket
    /\ s.type = "UNUSED" => s.state = "CLOSED" /\ s.remote = None
    /\ s.synQueue # << >> => s.state = "LISTEN"
    /\ s.state = "LISTEN" => s.remote = None /\ s.port = Service
    /\ s.rx => s.state \in Readable
    /\ s.tx # "acked" => s.state \in Writable

\* r is the descriptor s with the same connection, user and registration.
SameOwner(s, r) ==
    /\ r.type = s.type /\ r.port = s.port /\ r.remote = s.remote
    /\ r.owned = s.owned /\ r.synQueue = s.synQueue
    /\ r.eventMask = s.eventMask /\ r.userEvent = s.userEvent

\* The flags of r are those of its conditions, and its event is set with them.
Updated(s, r) ==
    /\ r.eventFlags = Conditions(r) \cap r.eventMask
    /\ r.event = (s.event \/ r.eventFlags # {})

-----------------------------------------------------------------------------
(* The functions of one socket.                                            *)

\* What tcpUpdateEvents finds are events, and depends on no flag.
LEMMA ConditionsAreEvents ==
    ASSUME NEW s
    PROVE  Conditions(s) \subseteq Events
BY DEF Conditions, Events

\* Two sockets that are alike but for their events meet the same conditions.
LEMMA SameConditions ==
    ASSUME NEW s, NEW r, r.state = s.state, r.rx = s.rx, r.tx = s.tx,
           r.synQueue = s.synQueue
    PROVE  Conditions(r) = Conditions(s)
BY DEF Conditions

\* tcpUpdateEvents changes the flags and the event only.
LEMMA UpdateEventsFacts ==
    ASSUME NEW s \in Socket
    PROVE  LET r == UpdateEvents(s) IN
           /\ r \in Socket /\ SameOwner(s, r) /\ Updated(s, r)
           /\ r.state = s.state /\ r.rx = s.rx /\ r.tx = s.tx
           /\ r.resetFlag = s.resetFlag
<1> DEFINE flags == Conditions(s) \cap s.eventMask
           r == UpdateEvents(s)
<1>1. flags \in SUBSET Events /\ s.event \in BOOLEAN
  BY ConditionsAreEvents DEF Socket
<1>2. r = [s EXCEPT !.eventFlags = flags, !.event = s.event \/ flags # {}]
  BY DEF UpdateEvents
<1> HIDE DEF flags, r
<1>3. /\ r \in Socket /\ SameOwner(s, r)
      /\ r.state = s.state /\ r.rx = s.rx /\ r.tx = s.tx
      /\ r.resetFlag = s.resetFlag
      /\ r.eventFlags = flags /\ r.event = (s.event \/ flags # {})
  BY <1>1, <1>2 DEF Socket, SameOwner
<1>4. Conditions(r) = Conditions(s)
  BY <1>3, SameConditions DEF SameOwner
<1>5. Updated(s, r)
  BY <1>3, <1>4 DEF Updated, SameOwner, flags
<1> QED BY <1>3, <1>5 DEF r

\* So a sound socket remains sound.
LEMMA UpdateEventsSound ==
    ASSUME NEW s, Sound(s)
    PROVE  Sound(UpdateEvents(s))
<1>1. s \in Socket BY DEF Sound
<1> QED BY <1>1, UpdateEventsFacts DEF Sound, SameOwner

\* A new state, for a socket that does not listen, keeps the addresses and the
\* user; what is unread or unsent goes with the states that have it.
LEMMA ChangeStateFacts ==
    ASSUME NEW s, Sound(s), NEW new \in States,
           s.type = "UNUSED" => new = "CLOSED", new # "LISTEN"
    PROVE  LET r == ChangeState(s, new) IN
           /\ r \in Socket /\ (s.state # "LISTEN" => Sound(r))
           /\ r.state = new /\ SameOwner(s, r) /\ Updated(s, r)
           /\ r.rx = (s.rx /\ new \in Readable)
           /\ r.tx = IF new \in Writable THEN s.tx ELSE "acked"
           /\ s.resetFlag => r.resetFlag
<1> DEFINE m == [s EXCEPT !.state = new,
                          !.rx = @ /\ new \in Readable,
                          !.tx = IF new \in Writable THEN @ ELSE "acked",
                          !.resetFlag = @ \/ (new = "CLOSED"
                                   /\ s.state \notin {"LAST_ACK", "TIME_WAIT"})]
<1>1. s \in Socket /\ "acked" \in TxLevels
  BY TableAssumption DEF Sound
<1>2. m \in Socket
  BY ZenonT(30), <1>1 DEF Socket
<1>3. /\ m.state = new /\ SameOwner(s, m) /\ m.event = s.event
      /\ m.rx = (s.rx /\ new \in Readable)
      /\ m.tx = IF new \in Writable THEN s.tx ELSE "acked"
      /\ s.resetFlag => m.resetFlag
  BY <1>1 DEF Socket, SameOwner
<1>4. ChangeState(s, new) = UpdateEvents(m)
  BY DEF ChangeState
<1> HIDE DEF m
<1>5. s.state # "LISTEN" => Sound(m)
  BY <1>1, <1>2, <1>3 DEF Sound, SameOwner
<1> QED BY <1>2, <1>3, <1>4, <1>5, UpdateEventsFacts, UpdateEventsSound
        DEF SameOwner, Updated

\* A CLOSED socket meets the conditions of every call but accept.
LEMMA ClosedConditions ==
    ASSUME NEW s, s.state = "CLOSED"
    PROVE  {"CLOSED", "TX_SHUTDOWN", "RX_SHUTDOWN", "TX_READY", "TX_DONE",
            "TX_ACKED", "RX_READY"} \subseteq Conditions(s)
BY DEF Conditions

\* What Dispose leaves.
LEMMA DisposeFacts ==
    ASSUME NEW s, Sound(s)
    PROVE  LET r == Dispose(s) IN
           /\ Sound(r) /\ r.type = "UNUSED" /\ r.state = "CLOSED"
           /\ r.remote = None /\ r.port = Own /\ r.synQueue = << >>
           /\ ~r.owned /\ ~r.resetFlag
           /\ s.event => r.event
           /\ s.eventMask \cap {"CLOSED", "TX_SHUTDOWN", "RX_SHUTDOWN", "TX_READY",
                                "TX_DONE", "TX_ACKED", "RX_READY"} # {} =>
                r.event /\ r.eventFlags # {}
<1> DEFINE closed == ChangeState(s, "CLOSED")
           r == Dispose(s)
<1>1. "CLOSED" \in States
  BY DEF States
<1>2. /\ closed \in Socket /\ closed.state = "CLOSED" /\ SameOwner(s, closed)
      /\ Updated(s, closed)
  BY <1>1, ChangeStateFacts
<1>3. "acked" \in TxLevels /\ closed.event \in BOOLEAN
      /\ closed.eventFlags \in SUBSET Events
      /\ << >> \in Seq(Peers) /\ {} \in SUBSET Events
  BY <1>2, TableAssumption DEF Socket
<1>4. r = [Unused(closed.event) EXCEPT !.eventFlags = closed.eventFlags]
  BY DEF Dispose
<1>5. ASSUME s.eventMask \cap {"CLOSED", "TX_SHUTDOWN", "RX_SHUTDOWN", "TX_READY",
                               "TX_DONE", "TX_ACKED", "RX_READY"} # {}
      PROVE  closed.event /\ closed.eventFlags # {}
  BY <1>2, <1>5, ClosedConditions DEF Updated, SameOwner
<1>6. s.event => closed.event
  BY <1>2 DEF Updated
<1> HIDE DEF closed, r
<1>7. r \in Socket
  BY <1>1, <1>3, <1>4 DEF Unused, Socket, None
<1>8. /\ r.type = "UNUSED" /\ r.state = "CLOSED" /\ r.remote = None
      /\ r.port = Own /\ r.synQueue = << >> /\ ~r.owned /\ ~r.resetFlag
      /\ ~r.rx /\ r.tx = "acked"
      /\ r.event = closed.event /\ r.eventFlags = closed.eventFlags
  BY <1>4 DEF Unused
<1> QED BY <1>5, <1>6, <1>7, <1>8 DEF Sound, r

\* What socketAllocate leaves.
LEMMA FreshFacts ==
    ASSUME NEW e \in BOOLEAN
    PROVE  LET r == Fresh(e) IN
           /\ Sound(r) /\ r.type = "STREAM" /\ r.state = "CLOSED"
           /\ r.remote = None /\ r.port = Own /\ r.synQueue = << >>
           /\ ~r.owned /\ r.event = e /\ r.userEvent = None
           /\ r.tx = "acked" /\ ~r.rx /\ ~r.resetFlag
<1> DEFINE r == Fresh(e)
<1>1. "acked" \in TxLevels /\ "CLOSED" \in States
      /\ << >> \in Seq(Peers) /\ {} \in SUBSET Events
  BY TableAssumption DEF States
<1>2. r = [Unused(e) EXCEPT !.type = "STREAM"]
  BY DEF Fresh
<1> HIDE DEF r
<1>3. r \in Socket
  BY <1>1, <1>2 DEF Unused, Socket
<1> QED BY <1>2, <1>3 DEF Unused, Sound, r

\* What a call leaves of the socket it returns from.
LEMMA ResultsFacts ==
    ASSUME NEW s, Sound(s), NEW c, NEW r \in Results(c, s)
    PROVE  /\ Sound(r) /\ SameOwner(s, r) /\ r.state = s.state
           /\ r.resetFlag = s.resetFlag
<1> USE DEF Sound
<1>0. s \in Socket
  OBVIOUS
<1>1. CASE r = s
  BY <1>1 DEF SameOwner
<1>2. ASSUME NEW more \in BOOLEAN, s.rx,
             r = UpdateEvents([s EXCEPT !.rx = more])
      PROVE  Sound(r) /\ SameOwner(s, r) /\ r.state = s.state
             /\ r.resetFlag = s.resetFlag
  <2> DEFINE m == [s EXCEPT !.rx = more]
  <2>1. /\ m \in Socket /\ Sound(m) /\ SameOwner(s, m) /\ m.state = s.state
        /\ m.resetFlag = s.resetFlag
    BY <1>0, <1>2 DEF Socket, SameOwner
  <2> HIDE DEF m
  <2>2. r = UpdateEvents(m)
    BY <1>2 DEF m
  <2> QED BY <2>1, <2>2, UpdateEventsFacts, UpdateEventsSound DEF SameOwner
<1>3. ASSUME NEW level \in TxLevels, s.state \in Writable,
             r = UpdateEvents([s EXCEPT !.tx = level])
      PROVE  Sound(r) /\ SameOwner(s, r) /\ r.state = s.state
             /\ r.resetFlag = s.resetFlag
  <2> DEFINE m == [s EXCEPT !.tx = level]
  <2>1. /\ m \in Socket /\ Sound(m) /\ SameOwner(s, m) /\ m.state = s.state
        /\ m.resetFlag = s.resetFlag
    BY <1>0, <1>3 DEF Socket, SameOwner
  <2> HIDE DEF m
  <2>2. r = UpdateEvents(m)
    BY <1>3 DEF m
  <2> QED BY <2>1, <2>2, UpdateEventsFacts, UpdateEventsSound DEF SameOwner
<1>4. \/ r = s
      \/ \E more \in BOOLEAN : s.rx /\ r = UpdateEvents([s EXCEPT !.rx = more])
      \/ \E level \in TxLevels :
           s.state \in Writable /\ r = UpdateEvents([s EXCEPT !.tx = level])
  <2>1. CASE c = "receive" BY <2>1 DEF Results
  <2>2. CASE c = "send" BY <2>2 DEF Results, Writable
  <2>3. CASE c \notin {"receive", "send"} BY <2>3 DEF Results
  <2> QED BY <2>1, <2>2, <2>3
<1> QED BY <1>1, <1>2, <1>3, <1>4

\* The masks of the calls that wait for one socket, tcpAccept apart.
Awaited == {"connect", "receive", "send", "waitAck", "flush", "shutTx", "shutRx"}

\* What each event stands for.
LEMMA ConditionsMeaning ==
    ASSUME NEW s
    PROVE  /\ "CONNECTED" \in Conditions(s) <=>
                s.state \in {"ESTABLISHED", "FIN_WAIT_1", "FIN_WAIT_2", "CLOSE_WAIT",
                             "LAST_ACK", "CLOSING"}
           /\ "CLOSED" \in Conditions(s) <=> s.state \in {"TIME_WAIT", "CLOSED"}
           /\ "TX_SHUTDOWN" \in Conditions(s) <=>
                s.state \in {"FIN_WAIT_2", "TIME_WAIT", "CLOSED"}
           /\ "RX_SHUTDOWN" \in Conditions(s) <=>
                s.state \in {"CLOSE_WAIT", "LAST_ACK", "CLOSING", "TIME_WAIT", "CLOSED"}
           /\ "TX_READY" \in Conditions(s) <=>
                /\ s.state \notin {"SYN_SENT", "SYN_RECEIVED", "LISTEN"}
                /\ s.state \in Writable => s.tx # "full"
           /\ "TX_DONE" \in Conditions(s) <=>
                /\ s.state # "LISTEN"
                /\ s.state \in Writable => s.tx \in {"acked", "sent"}
           /\ "TX_ACKED" \in Conditions(s) <=>
                /\ s.state # "LISTEN"
                /\ s.state \in Writable => s.tx = "acked"
           /\ "RX_READY" \in Conditions(s) <=>
                /\ s.state \notin {"SYN_SENT", "SYN_RECEIVED"}
                /\ s.state \in Readable => s.rx
                /\ s.state = "LISTEN" => s.synQueue # << >>
<1>1. "CONNECTED" \in Conditions(s) <=>
                s.state \in {"ESTABLISHED", "FIN_WAIT_1", "FIN_WAIT_2", "CLOSE_WAIT",
                             "LAST_ACK", "CLOSING"}
  BY DEF Conditions
<1>2. "CLOSED" \in Conditions(s) <=> s.state \in {"TIME_WAIT", "CLOSED"}
  BY DEF Conditions
<1>3. "TX_SHUTDOWN" \in Conditions(s) <=>
                s.state \in {"FIN_WAIT_2", "TIME_WAIT", "CLOSED"}
  BY DEF Conditions
<1>4. "RX_SHUTDOWN" \in Conditions(s) <=>
                s.state \in {"CLOSE_WAIT", "LAST_ACK", "CLOSING", "TIME_WAIT", "CLOSED"}
  BY DEF Conditions
<1>5. "TX_READY" \in Conditions(s) <=>
                /\ s.state \notin {"SYN_SENT", "SYN_RECEIVED", "LISTEN"}
                /\ s.state \in Writable => s.tx # "full"
  BY DEF Conditions, Writable
<1>6. "TX_DONE" \in Conditions(s) <=>
                /\ s.state # "LISTEN"
                /\ s.state \in Writable => s.tx \in {"acked", "sent"}
  BY DEF Conditions, Writable
<1>7. "TX_ACKED" \in Conditions(s) <=>
                /\ s.state # "LISTEN"
                /\ s.state \in Writable => s.tx = "acked"
  BY DEF Conditions, Writable
<1>8. "RX_READY" \in Conditions(s) <=>
                /\ s.state \notin {"SYN_SENT", "SYN_RECEIVED"}
                /\ s.state \in Readable => s.rx
                /\ s.state = "LISTEN" => s.synQueue # << >>
  BY DEF Conditions, Readable
<1> QED BY <1>1, <1>2, <1>3, <1>4, <1>5, <1>6, <1>7, <1>8

\* What the calls of Awaited wait for, once true of s, is true of r.
Lasts(s, r) ==
    \A c \in Awaited : Conditions(s) \cap Mask(c) # {} => Conditions(r) \cap Mask(c) # {}

\* The network takes a connection onward: nothing that a thread may wait for goes.
LEMMA ConditionsLast ==
    ASSUME NEW s, Sound(s), NEW r, Sound(r), s.state # "LISTEN",
           \/ r.state = s.state
           \/ <<s.state, r.state>> \in BySegment
           \/ r.state = "CLOSED",
           r.state \in Readable /\ s.rx => r.rx,
           r.state \in Writable => r.tx = s.tx \/ r.tx \in Lower(s.tx)
    PROVE  Lasts(s, r)
<1> DEFINE moved == \/ r.state = s.state
                    \/ <<s.state, r.state>> \in BySegment
                    \/ r.state = "CLOSED"
<1>0. /\ s.state \in States /\ r.state \in States
      /\ s.rx \in BOOLEAN /\ r.rx \in BOOLEAN
      /\ s.tx \in {"acked", "sent", "unsent", "full"}
      /\ r.tx \in {"acked", "sent", "unsent", "full"}
      /\ (s.rx => s.state \in Readable) /\ (s.tx # "acked" => s.state \in Writable)
  BY TableAssumption DEF Sound, Socket
<1>1. ASSUME r.state \in Writable
      PROVE  /\ s.tx = "acked" => r.tx = "acked"
             /\ s.tx \in {"acked", "sent"} => r.tx \in {"acked", "sent"}
             /\ s.tx # "full" => r.tx # "full"
  BY <1>0, <1>1 DEF Lower
<1>2. r.state # "LISTEN"
  BY DEF BySegment
<1>3. moved
  OBVIOUS
<1> HIDE DEF moved
<1>4. ASSUME "CONNECTED" \in Conditions(s) \/ "CLOSED" \in Conditions(s)
      PROVE  "CONNECTED" \in Conditions(r) \/ "CLOSED" \in Conditions(r)
  BY <1>3, <1>4, ConditionsMeaning DEF moved, BySegment
<1>5. ASSUME "TX_SHUTDOWN" \in Conditions(s)
      PROVE  "TX_SHUTDOWN" \in Conditions(r)
  BY <1>3, <1>5, ConditionsMeaning DEF moved, BySegment
<1>6. ASSUME "RX_SHUTDOWN" \in Conditions(s)
      PROVE  "RX_SHUTDOWN" \in Conditions(r)
  BY <1>3, <1>6, ConditionsMeaning DEF moved, BySegment
<1>7. ASSUME "RX_READY" \in Conditions(s)
      PROVE  "RX_READY" \in Conditions(r)
  <2>1. s.state \notin {"SYN_SENT", "SYN_RECEIVED"} /\ (s.state \in Readable => s.rx)
    BY <1>7, ConditionsMeaning
  <2>2. r.state \notin {"SYN_SENT", "SYN_RECEIVED"} /\ (r.state \in Readable => r.rx)
    BY <1>0, <1>3, <2>1 DEF moved, BySegment, Readable
  <2> QED BY <1>2, <2>2, ConditionsMeaning
<1>8. ASSUME "TX_READY" \in Conditions(s)
      PROVE  "TX_READY" \in Conditions(r)
  <2>1. /\ s.state \notin {"SYN_SENT", "SYN_RECEIVED", "LISTEN"}
        /\ (s.state \in Writable => s.tx # "full")
    BY <1>8, ConditionsMeaning
  <2>2. r.state \notin {"SYN_SENT", "SYN_RECEIVED", "LISTEN"}
    BY <1>3, <2>1 DEF moved, BySegment
  <2>3. r.state \in Writable => r.tx # "full"
    BY <1>0, <1>1, <2>1
  <2> QED BY <2>2, <2>3, ConditionsMeaning
<1>9. ASSUME "TX_DONE" \in Conditions(s)
      PROVE  "TX_DONE" \in Conditions(r)
  <2>1. s.state \in Writable => s.tx \in {"acked", "sent"}
    BY <1>9, ConditionsMeaning
  <2>2. r.state \in Writable => r.tx \in {"acked", "sent"}
    BY <1>0, <1>1, <2>1
  <2> QED BY <1>2, <2>2, ConditionsMeaning
<1>10. ASSUME "TX_ACKED" \in Conditions(s)
       PROVE  "TX_ACKED" \in Conditions(r)
  <2>1. s.state \in Writable => s.tx = "acked"
    BY <1>10, ConditionsMeaning
  <2>2. r.state \in Writable => r.tx = "acked"
    BY <1>0, <1>1, <2>1
  <2> QED BY <1>2, <2>2, ConditionsMeaning
<1>11. ASSUME NEW c \in Awaited, Conditions(s) \cap Mask(c) # {}
       PROVE  Conditions(r) \cap Mask(c) # {}
  <2>1. CASE c = "connect"
    <3>1. Mask(c) = {"CONNECTED", "CLOSED"} BY <2>1 DEF Mask
    <3> QED BY <1>4, <1>11, <3>1
  <2>2. CASE c = "receive"
    <3>1. Mask(c) = {"RX_READY"} BY <2>2 DEF Mask
    <3> QED BY <1>7, <1>11, <3>1
  <2>3. CASE c = "send"
    <3>1. Mask(c) = {"TX_READY"} BY <2>3 DEF Mask
    <3> QED BY <1>8, <1>11, <3>1
  <2>4. CASE c = "waitAck"
    <3>1. Mask(c) = {"TX_ACKED"} BY <2>4 DEF Mask
    <3> QED BY <1>10, <1>11, <3>1
  <2>5. CASE c = "flush"
    <3>1. Mask(c) = {"TX_DONE"} BY <2>5 DEF Mask
    <3> QED BY <1>9, <1>11, <3>1
  <2>6. CASE c = "shutTx"
    <3>1. Mask(c) = {"TX_SHUTDOWN"} BY <2>6 DEF Mask
    <3> QED BY <1>5, <1>11, <3>1
  <2>7. CASE c = "shutRx"
    <3>1. Mask(c) = {"RX_SHUTDOWN"} BY <2>7 DEF Mask
    <3> QED BY <1>6, <1>11, <3>1
  <2> QED BY <2>1, <2>2, <2>3, <2>4, <2>5, <2>6, <2>7 DEF Awaited
<1> QED BY <1>11 DEF Lasts

-----------------------------------------------------------------------------
(* The inductive invariant of the table.                                   *)

\* Every entry is sound, and only the listener listens.
SocketsOK ==
    /\ sock \in [Sockets -> Socket]
    /\ \A i \in Sockets : /\ Sound(sock[i])
                          /\ sock[i].state = "LISTEN" => i = Listener

\* The 2MSL timer of socket i runs.
Runs(i) == \E k \in 1 .. Len(timeWait) : timeWait[k] = i

\* A timer runs for each socket in TIME_WAIT, and one only.
TimersOK ==
    /\ timeWait \in Seq(Sockets)
    /\ \A j, k \in 1 .. Len(timeWait) : timeWait[j] = timeWait[k] => j = k
    /\ \A i \in Sockets : sock[i].state = "TIME_WAIT" <=> Runs(i)

\* Socket s, whose handle h users have, has a user or is left to its timer.
InHands(s, h) == s.type = "STREAM" /\ h = 0 => s.state = "TIME_WAIT" /\ ~s.owned

HandlesOK ==
    /\ held \in [Sockets -> 0 .. 2]
    /\ \A i \in Sockets : InHands(sock[i], held[i])

\* The call a thread is in.
InCalls == [call : AllCalls \cup {None}, on : Sockets,
            phase : {"idle", "checked", "waiting", "woken"}]

ThreadsOK ==
    /\ thread \in [Threads -> InCalls]
    /\ signalled \in SUBSET Threads /\ shared \in SUBSET Threads
    /\ recycled \in SUBSET Threads

TableInv == SocketsOK /\ TimersOK /\ HandlesOK /\ ThreadsOK

-----------------------------------------------------------------------------
(* The timers.                                                             *)

\* The timers are right when no socket enters or leaves TIME_WAIT.
LEMMA TimersSame ==
    ASSUME TimersOK, timeWait' = timeWait,
           \A i \in Sockets : sock'[i].state = "TIME_WAIT" <=> sock[i].state = "TIME_WAIT"
    PROVE  TimersOK'
BY DEF TimersOK, Runs

\* A socket enters TIME_WAIT: its timer starts, behind those that run.
LEMMA TimerStarts ==
    ASSUME TimersOK, NEW i \in Sockets, timeWait' = Append(timeWait, i),
           sock[i].state # "TIME_WAIT", sock'[i].state = "TIME_WAIT",
           \A j \in Sockets \ {i} :
              sock'[j].state = "TIME_WAIT" <=> sock[j].state = "TIME_WAIT"
    PROVE  TimersOK'
<1> DEFINE q == timeWait
           a == Append(timeWait, i)
<1>1. /\ q \in Seq(Sockets) /\ Len(q) \in Nat
      /\ a \in Seq(Sockets) /\ Len(a) = Len(q) + 1
      /\ \A k \in 1 .. Len(q) : a[k] = q[k]
      /\ a[Len(q) + 1] = i
  BY DEF TimersOK
<1>2. \A k \in 1 .. Len(q) : q[k] # i
  BY DEF TimersOK, Runs
<1> HIDE DEF a
<1>3. \A j, k \in 1 .. Len(a) : a[j] = a[k] => j = k
  BY <1>1, <1>2 DEF TimersOK
<1>4. \A j \in Sockets : (\E k \in 1 .. Len(a) : a[k] = j)
                           <=> j = i \/ \E k \in 1 .. Len(q) : q[k] = j
  BY <1>1
<1>5. a = timeWait'
  BY DEF a
<1> QED BY <1>1, <1>3, <1>4, <1>5 DEF TimersOK, Runs

\* The first timer is gone, and so is TIME_WAIT for its socket.
LEMMA TimerEnds ==
    ASSUME TimersOK, timeWait # << >>, timeWait' = Tail(timeWait),
           sock'[Head(timeWait)].state # "TIME_WAIT",
           \A j \in Sockets \ {Head(timeWait)} :
              sock'[j].state = "TIME_WAIT" <=> sock[j].state = "TIME_WAIT"
    PROVE  TimersOK'
<1> DEFINE q == timeWait
           a == Tail(timeWait)
           i == Head(timeWait)
<1>1. /\ q \in Seq(Sockets) /\ Len(q) \in Nat /\ Len(q) > 0
      /\ a \in Seq(Sockets) /\ Len(a) = Len(q) - 1
      /\ \A k \in 1 .. Len(a) : a[k] = q[k + 1]
      /\ i = q[1] /\ i \in Sockets
  BY HeadTailProperties DEF TimersOK
<1> HIDE DEF a, i
<1>2. \A j, k \in 1 .. Len(a) : a[j] = a[k] => j = k
  <2>1. \A k \in 1 .. Len(a) : k + 1 \in 1 .. Len(q)
    BY <1>1
  <2> QED BY <1>1, <2>1 DEF TimersOK
<1>3. \A k \in 1 .. Len(a) : a[k] # i
  BY <1>1 DEF TimersOK
<1>4. ASSUME NEW j \in Sockets, j # i, NEW k \in 1 .. Len(q), q[k] = j
      PROVE  \E m \in 1 .. Len(a) : a[m] = j
  <2>1. k # 1
    BY <1>1, <1>4
  <2>2. k - 1 \in 1 .. Len(a) /\ (k - 1) + 1 = k
    BY <1>1, <2>1
  <2> QED BY <1>1, <1>4, <2>2
<1>5. \A j \in Sockets : (\E k \in 1 .. Len(a) : a[k] = j)
                           <=> j # i /\ \E k \in 1 .. Len(q) : q[k] = j
  BY <1>1, <1>3, <1>4
<1>6. a = timeWait' /\ i = Head(timeWait)
  BY DEF a, i
<1> QED BY <1>1, <1>2, <1>5, <1>6 DEF TimersOK, Runs

\* What is left without entry k: the others, moved up.
LEMMA WithoutEntries ==
    ASSUME NEW S, NEW q \in Seq(S), NEW k \in 1 .. Len(q)
    PROVE  /\ Without(q, k) \in Seq(S)
           /\ Len(Without(q, k)) = Len(q) - 1
           /\ \A j \in 1 .. Len(q) - 1 :
                 Without(q, k)[j] = IF j < k THEN q[j] ELSE q[j + 1]
<1> DEFINE l == SubSeq(q, 1, k - 1)
           r == SubSeq(q, k + 1, Len(q))
<1>1. Len(q) \in Nat /\ k \in Nat /\ 1 <= k /\ k <= Len(q)
  OBVIOUS
<1>2. l \in Seq(S) /\ Len(l) = k - 1 /\ \A j \in 1 .. k - 1 : l[j] = q[j]
  BY <1>1
<1>3. /\ r \in Seq(S) /\ Len(r) = Len(q) - k
      /\ \A j \in 1 .. Len(q) - k : r[j] = q[k + j]
  BY <1>1
<1>4. Without(q, k) = l \o r
  BY DEF Without
<1> HIDE DEF l, r
<1>5. /\ l \o r \in Seq(S)
      /\ Len(l \o r) = Len(l) + Len(r)
      /\ \A j \in 1 .. Len(l) + Len(r) :
            (l \o r)[j] = IF j <= Len(l) THEN l[j] ELSE r[j - Len(l)]
  BY <1>2, <1>3, ConcatProperties
<1>6. ASSUME NEW j \in 1 .. Len(q) - 1
      PROVE  (l \o r)[j] = IF j < k THEN q[j] ELSE q[j + 1]
  <2>1. CASE j < k
    BY <1>1, <1>2, <1>3, <1>5, <2>1
  <2>2. CASE ~(j < k)
    <3>1. (l \o r)[j] = r[j - (k - 1)]
      BY <1>1, <1>2, <1>3, <1>5, <2>2
    <3>2. j - (k - 1) \in 1 .. Len(q) - k /\ k + (j - (k - 1)) = j + 1
      BY <1>1, <2>2
    <3>3. r[j - (k - 1)] = q[k + (j - (k - 1))]
      BY <1>3, <3>2
    <3> QED BY <2>2, <3>1, <3>2, <3>3
  <2> QED BY <2>1, <2>2
<1> QED BY <1>1, <1>2, <1>3, <1>4, <1>5, <1>6

\* A timer is started again, behind those that run.
LEMMA TimerRestarts ==
    ASSUME TimersOK, NEW k \in 1 .. Len(timeWait),
           timeWait' = Append(Without(timeWait, k), timeWait[k]), UNCHANGED sock
    PROVE  TimersOK'
<1> DEFINE q == timeWait
           w == Without(timeWait, k)
           a == Append(w, q[k])
           at(j) == IF j < k THEN j ELSE IF j = Len(q) THEN k ELSE j + 1
<1>1. q \in Seq(Sockets) /\ Len(q) \in Nat /\ k \in Nat /\ 1 <= k /\ k <= Len(q)
      /\ q[k] \in Sockets
  BY DEF TimersOK
<1>2. /\ w \in Seq(Sockets) /\ Len(w) = Len(q) - 1
      /\ \A j \in 1 .. Len(q) - 1 : w[j] = IF j < k THEN q[j] ELSE q[j + 1]
  BY <1>1, WithoutEntries
<1> HIDE DEF w
<1>3. /\ a \in Seq(Sockets) /\ Len(a) = Len(q)
      /\ \A j \in 1 .. Len(q) - 1 : a[j] = w[j]
      /\ a[Len(q)] = q[k]
  BY <1>1, <1>2
<1> HIDE DEF a
<1>4. ASSUME NEW j \in 1 .. Len(q)
      PROVE  a[j] = q[at(j)] /\ at(j) \in 1 .. Len(q)
  <2>1. CASE j = Len(q)
    <3>1. at(j) = k
      BY <1>1, <2>1
    <3> QED BY <1>1, <1>3, <2>1, <3>1
  <2>2. CASE j # Len(q)
    <3>1. j \in 1 .. Len(q) - 1 /\ j + 1 \in 1 .. Len(q)
      BY <1>1, <2>2
    <3>2. at(j) = IF j < k THEN j ELSE j + 1
      BY <2>2
    <3> QED BY <1>1, <1>2, <1>3, <3>1, <3>2
  <2> QED BY <2>1, <2>2
<1>5. \A i, j \in 1 .. Len(q) : at(i) = at(j) => i = j
  BY <1>1
<1>6. ASSUME NEW j \in 1 .. Len(q)
      PROVE  \E i \in 1 .. Len(q) : at(i) = j
  <2>1. CASE j < k
    BY <1>1, <2>1
  <2>2. CASE j = k
    <3>1. Len(q) \in 1 .. Len(q) /\ at(Len(q)) = k
      BY <1>1
    <3> QED BY <2>2, <3>1
  <2>3. CASE j > k
    <3>1. j - 1 \in 1 .. Len(q) /\ at(j - 1) = j
      BY <1>1, <2>3
    <3> QED BY <3>1
  <2> QED BY <1>1, <2>1, <2>2, <2>3
<1>7. ASSUME NEW i \in 1 .. Len(a), NEW j \in 1 .. Len(a), a[i] = a[j]
      PROVE  i = j
  <2> HIDE DEF at
  <2>1. at(i) \in 1 .. Len(q) /\ at(j) \in 1 .. Len(q) /\ q[at(i)] = q[at(j)]
    BY <1>3, <1>4, <1>7
  <2>2. at(i) = at(j)
    BY <2>1 DEF TimersOK
  <2> QED BY <1>3, <1>5, <2>2
<1>8. ASSUME NEW i \in Sockets
      PROVE  (\E j \in 1 .. Len(a) : a[j] = i) <=> (\E j \in 1 .. Len(q) : q[j] = i)
  <2> HIDE DEF at, q
  <2>1. ASSUME NEW j \in 1 .. Len(q), q[j] = i
        PROVE  \E m \in 1 .. Len(q) : a[m] = i
    <3>1. PICK m \in 1 .. Len(q) : at(m) = j
      BY <1>6
    <3> QED BY <1>4, <2>1, <3>1
  <2> QED BY <1>3, <1>4, <2>1
<1>9. a = timeWait' /\ sock' = sock
  BY DEF a, w
<1>10. \A i \in Sockets : Runs(i)' <=> Runs(i)
  BY <1>8, <1>9 DEF Runs
<1>11. timeWait' \in Seq(Sockets)
  BY <1>3, <1>9
<1>12. \A i, j \in 1 .. Len(timeWait') : timeWait'[i] = timeWait'[j] => i = j
  BY <1>7, <1>9
<1> QED BY <1>9, <1>10, <1>11, <1>12 DEF TimersOK

-----------------------------------------------------------------------------
(* The steps of the network.                                               *)

\* Whom an update notifies is a thread.
LEMMA NotifiedThreads ==
    ASSUME NEW r \in Socket
    PROVE  Notified(r) \subseteq Threads
BY DEF Notified, Socket

\* Socket i, which does not listen, becomes r: the same descriptor and the same
\* connection, its events updated, and nothing a thread may wait for gone.
Stores(i, r) ==
    /\ sock' = [sock EXCEPT ![i] = r] /\ signalled' = signalled \cup Notified(r)
    /\ sock[i].type = "STREAM" /\ sock[i].state # "LISTEN"
    /\ Sound(r) /\ r.state # "LISTEN"
    /\ SameOwner(sock[i], r) /\ Updated(sock[i], r) /\ Lasts(sock[i], r)
    /\ UNCHANGED <<held, thread, shared, recycled>>

\* A step of the connection of one socket keeps the sockets, the handles and the
\* threads as they should be.
LEMMA StoresKeeps ==
    ASSUME TableInv, NEW i \in Sockets, NEW r, Stores(i, r),
           sock[i].state = "TIME_WAIT" => r.owned
    PROVE  SocketsOK' /\ HandlesOK' /\ ThreadsOK'
<1>1. /\ sock' = [sock EXCEPT ![i] = r] /\ r \in Socket /\ Sound(r)
      /\ r.state # "LISTEN" /\ r.type = sock[i].type /\ r.owned = sock[i].owned
      /\ sock \in [Sockets -> Socket]
      /\ held' = held /\ thread' = thread /\ shared' = shared /\ recycled' = recycled
  BY DEF Stores, Sound, SameOwner, TableInv, SocketsOK
<1>2. SocketsOK'
  BY <1>1 DEF TableInv, SocketsOK
<1>3. HandlesOK'
  BY <1>1 DEF TableInv, HandlesOK, InHands
<1>4. ThreadsOK'
  BY <1>1, NotifiedThreads DEF Stores, TableInv, ThreadsOK
<1> QED BY <1>2, <1>3, <1>4

\* A change of state among those of BySegment, or to CLOSED, is such a step.
LEMMA ChangeStores ==
    ASSUME TableInv, NEW i \in Sockets, NEW new \in States,
           sock[i].type = "STREAM", sock[i].state # "LISTEN",
           <<sock[i].state, new>> \in BySegment \/ new = "CLOSED",
           Put(i, ChangeState(sock[i], new)),
           UNCHANGED <<held, thread, shared, recycled>>
    PROVE  /\ Stores(i, ChangeState(sock[i], new))
           /\ ChangeState(sock[i], new).state = new
<1> DEFINE r == ChangeState(sock[i], new)
<1>1. Sound(sock[i]) /\ new # "LISTEN"
  BY DEF TableInv, SocketsOK, BySegment
<1>2. /\ Sound(r) /\ r.state = new /\ SameOwner(sock[i], r) /\ Updated(sock[i], r)
      /\ r.rx = (sock[i].rx /\ new \in Readable)
      /\ r.tx = IF new \in Writable THEN sock[i].tx ELSE "acked"
  BY <1>1, ChangeStateFacts
<1>3. Put(i, r)
  OBVIOUS
<1> HIDE DEF r
<1>4. Lasts(sock[i], r)
  BY <1>1, <1>2, ConditionsLast
<1>5. Stores(i, r)
  BY <1>1, <1>2, <1>3, <1>4 DEF Stores, Put
<1> QED BY <1>2, <1>5 DEF r

\* A segment moves one connection, and its timer starts with TIME_WAIT.
LEMMA ProceedStores ==
    ASSUME TableInv, NEW i \in Sockets, NEW new \in States, Proceed(i, new)
    PROVE  /\ Stores(i, ChangeState(sock[i], new))
           /\ ChangeState(sock[i], new).state = new
           /\ sock[i].state \notin {"LISTEN", "TIME_WAIT"}
           /\ timeWait' = IF new = "TIME_WAIT" THEN Append(timeWait, i) ELSE timeWait
<1>1. sock[i].type = "STREAM" /\ sock[i].state \notin {"LISTEN", "TIME_WAIT"}
  <2>1. sock[i].state # "CLOSED" /\ sock[i].state \notin {"LISTEN", "TIME_WAIT"}
    BY DEF Proceed, BySegment
  <2>2. Sound(sock[i]) /\ sock[i] \in Socket
    BY DEF TableInv, SocketsOK
  <2> QED BY <2>1, <2>2 DEF Sound, Socket
<1> QED BY <1>1, ChangeStores DEF Proceed

\* A connection that fails is closed, and has no timer.
LEMMA FailStores ==
    ASSUME TableInv, NEW i \in Sockets, Fail(i)
    PROVE  /\ Stores(i, ChangeState(sock[i], "CLOSED"))
           /\ ChangeState(sock[i], "CLOSED").state = "CLOSED"
           /\ sock[i].state \notin {"LISTEN", "TIME_WAIT"}
           /\ timeWait' = timeWait
<1>1. "CLOSED" \in States
  BY DEF States
<1> QED BY <1>1, ChangeStores DEF Fail

\* Data that arrive change neither the state nor the timers.
LEMMA DataStores ==
    ASSUME TableInv, NEW i \in Sockets, Data(i)
    PROVE  \E r : /\ Stores(i, r) /\ r.state = sock[i].state
                  /\ sock[i].state \notin {"LISTEN", "TIME_WAIT"}
                  /\ timeWait' = timeWait
<1> DEFINE m == [sock[i] EXCEPT !.rx = TRUE]
           r == UpdateEvents(m)
<1>1. Sound(sock[i]) /\ sock[i] \in Socket /\ sock[i].state \in Readable
  BY DEF TableInv, SocketsOK, Data, Readable
<1>2. /\ m \in Socket /\ SameOwner(sock[i], m) /\ m.state = sock[i].state
      /\ m.rx /\ m.tx = sock[i].tx /\ m.event = sock[i].event
  BY <1>1 DEF Socket, SameOwner
<1>3. Put(i, r) /\ timeWait' = timeWait /\ UNCHANGED <<held, thread, shared, recycled>>
  BY DEF Data
<1> HIDE DEF m
<1>4. Sound(m)
  BY <1>1, <1>2 DEF Sound, SameOwner
<1>5. /\ Sound(r) /\ SameOwner(sock[i], r) /\ Updated(sock[i], r)
      /\ r.state = sock[i].state /\ r.rx /\ r.tx = sock[i].tx
  BY <1>2, <1>4, UpdateEventsFacts, UpdateEventsSound DEF SameOwner, Updated
<1> HIDE DEF r
<1>6. sock[i].type = "STREAM" /\ sock[i].state \notin {"LISTEN", "TIME_WAIT"}
  BY <1>1 DEF Readable, Sound, Socket
<1>7. Lasts(sock[i], r)
  BY <1>1, <1>5, <1>6, ConditionsLast
<1> QED BY <1>3, <1>5, <1>6, <1>7 DEF Stores, Put

\* Data that leave change neither the state nor the timers.
LEMMA DrainStores ==
    ASSUME TableInv, NEW i \in Sockets, NEW level \in TxLevels, Drain(i, level)
    PROVE  \E r : /\ Stores(i, r) /\ r.state = sock[i].state
                  /\ sock[i].state \notin {"LISTEN", "TIME_WAIT"}
                  /\ timeWait' = timeWait
<1> DEFINE m == [sock[i] EXCEPT !.tx = level]
           r == UpdateEvents(m)
<1>1. Sound(sock[i]) /\ sock[i] \in Socket /\ sock[i].state \in Writable
  BY DEF TableInv, SocketsOK, Drain, Writable
<1>2. /\ m \in Socket /\ SameOwner(sock[i], m) /\ m.state = sock[i].state
      /\ m.rx = sock[i].rx /\ m.tx = level /\ m.event = sock[i].event
  BY <1>1 DEF Socket, SameOwner
<1>3. /\ Put(i, r) /\ timeWait' = timeWait /\ sock[i].type = "STREAM"
      /\ level \in Lower(sock[i].tx) /\ UNCHANGED <<held, thread, shared, recycled>>
  BY DEF Drain
<1> HIDE DEF m
<1>4. Sound(m)
  BY <1>1, <1>2 DEF Sound, SameOwner
<1>5. /\ Sound(r) /\ SameOwner(sock[i], r) /\ Updated(sock[i], r)
      /\ r.state = sock[i].state /\ r.rx = sock[i].rx /\ r.tx = level
  BY <1>2, <1>4, UpdateEventsFacts, UpdateEventsSound DEF SameOwner, Updated
<1> HIDE DEF r
<1>6. sock[i].state \notin {"LISTEN", "TIME_WAIT"}
  BY <1>1 DEF Writable
<1>7. Lasts(sock[i], r)
  BY <1>1, <1>3, <1>5, <1>6, ConditionsLast
<1> QED BY <1>3, <1>5, <1>6, <1>7 DEF Stores, Put

\* The end of TIME_WAIT is such a step for a socket its user still owns, and
\* frees the other ones.
LEMMA TimeoutStores ==
    ASSUME TableInv, TimeWaitTimeout, NEW i, i = Head(timeWait)
    PROVE  /\ timeWait # << >> /\ timeWait' = Tail(timeWait)
           /\ i \in Sockets /\ sock[i].state = "TIME_WAIT" /\ sock[i].type = "STREAM"
           /\ \/ /\ sock[i].owned /\ Stores(i, ChangeState(sock[i], "CLOSED"))
                 /\ ChangeState(sock[i], "CLOSED").state = "CLOSED"
              \/ /\ ~sock[i].owned /\ Put(i, Dispose(sock[i]))
                 /\ UNCHANGED <<held, thread, shared, recycled>>
<1>1. timeWait # << >> /\ timeWait' = Tail(timeWait)
      /\ UNCHANGED <<held, thread, shared, recycled>>
  BY DEF TimeWaitTimeout
<1>2. i \in Sockets /\ Runs(i)
  <2>1. timeWait \in Seq(Sockets) /\ Len(timeWait) > 0 /\ i = timeWait[1]
    BY <1>1, HeadTailProperties DEF TableInv, TimersOK
  <2> QED BY <2>1 DEF Runs
<1>3. sock[i].state = "TIME_WAIT"
  BY <1>2 DEF TableInv, TimersOK
<1>4. Sound(sock[i]) /\ sock[i] \in Socket /\ sock[i].type = "STREAM"
  BY <1>2, <1>3 DEF TableInv, SocketsOK, Sound, Socket
<1> DEFINE r == ChangeState(sock[i], "CLOSED")
<1>5. "CLOSED" \in States
  BY DEF States
<1>6. SameOwner(sock[i], r)
  BY <1>4, <1>5, ChangeStateFacts
<1>7. CASE sock[i].owned
  <2>1. Put(i, r)
    BY <1>6, <1>7 DEF TimeWaitTimeout, SameOwner
  <2> QED BY <1>1, <1>2, <1>3, <1>4, <1>5, <1>7, <2>1, ChangeStores
<1>8. CASE ~sock[i].owned
  BY <1>1, <1>2, <1>3, <1>4, <1>6, <1>8 DEF TimeWaitTimeout, SameOwner
<1> QED BY <1>7, <1>8

-----------------------------------------------------------------------------
(* Allocation.                                                             *)

\* The first of a set of descriptors is one of them.
LEMMA MinIndexMember ==
    ASSUME NEW S \in SUBSET Nat, S # {}
    PROVE  MinIndex(S) \in S
<1>1. PICK i \in S : \A j \in S : <<j, i>> \notin OpToRel(<, Nat)
  BY NatLessThanWellFounded, WFMin
<1>2. \A j \in S : ~(j < i)
  BY <1>1 DEF OpToRel
<1>3. i \in Nat /\ \A j \in S : j \in Nat
  OBVIOUS
<1>4. \A j \in S : i <= j
  BY <1>2, <1>3
<1> QED BY <1>4 DEF MinIndex

\* The timer in front is that of a socket in TIME_WAIT.
LEMMA OldestTimer ==
    ASSUME TableInv, timeWait # << >>, NEW i, i = Head(timeWait)
    PROVE  /\ i \in Sockets /\ sock[i].state = "TIME_WAIT" /\ sock[i].type = "STREAM"
           /\ Sound(sock[i]) /\ sock[i] \in Socket
<1>1. i \in Sockets /\ Runs(i)
  <2>1. timeWait \in Seq(Sockets) /\ Len(timeWait) > 0 /\ i = timeWait[1]
    BY HeadTailProperties DEF TableInv, TimersOK
  <2> QED BY <2>1 DEF Runs
<1>2. sock[i].state = "TIME_WAIT"
  BY <1>1 DEF TableInv, TimersOK
<1> QED BY <1>1, <1>2 DEF TableInv, SocketsOK, Sound, Socket

\* socketAllocate takes an unused descriptor or, when there is none, that of the
\* oldest connection in TIME_WAIT, which tcpKillOldestConnection has closed.
LEMMA AllocatedFacts ==
    ASSUME TableInv, CanAllocate
    PROVE  /\ Allocated \in Sockets /\ AllocatedEvent \in BOOLEAN
           /\ KillNotifies \subseteq Threads
           /\ \/ /\ Killed = {} /\ sock[Allocated].type = "UNUSED"
                 /\ sock[Allocated].state = "CLOSED"
                 /\ AllocatedEvent = sock[Allocated].event
                 /\ AfterKill = timeWait
              \/ /\ Killed = {Allocated} /\ timeWait # << >>
                 /\ Allocated = Head(timeWait)
                 /\ sock[Allocated].state = "TIME_WAIT"
                 /\ sock[Allocated].type = "STREAM"
                 /\ AllocatedEvent = Dispose(sock[Allocated]).event
                 /\ AfterKill = Tail(timeWait)
<1>1. CASE FreeSlots # {}
  <2>1. FreeSlots \in SUBSET Nat
    BY TableAssumption DEF FreeSlots
  <2>2. Allocated \in FreeSlots
    BY <1>1, <2>1, MinIndexMember DEF Allocated
  <2>3. Killed = {}
    BY <1>1 DEF Killed
  <2>4. Sound(sock[Allocated]) /\ sock[Allocated] \in Socket
    BY <2>2 DEF FreeSlots, TableInv, SocketsOK
  <2>5. KillNotifies = {}
    BY <2>3 DEF KillNotifies
  <2> QED BY <2>2, <2>3, <2>4, <2>5
          DEF FreeSlots, AllocatedEvent, AfterKill, Sound, Socket
<1>2. CASE FreeSlots = {}
  <2>1. timeWait # << >> /\ Allocated = Head(timeWait) /\ Killed = {Allocated}
    BY <1>2 DEF CanAllocate, Allocated, Killed
  <2>2. /\ Allocated \in Sockets /\ sock[Allocated].state = "TIME_WAIT"
        /\ sock[Allocated].type = "STREAM" /\ Sound(sock[Allocated])
    BY <2>1, OldestTimer
  <2>3. AllocatedEvent = Dispose(sock[Allocated]).event
    BY <2>1 DEF AllocatedEvent
  <2>4. AllocatedEvent \in BOOLEAN
    BY <2>2, <2>3, DisposeFacts DEF Sound, Socket
  <2>5. KillNotifies \subseteq Threads
    <3>1. "CLOSED" \in States
      BY DEF States
    <3>2. ChangeState(sock[Allocated], "CLOSED") \in Socket
      BY <2>2, <3>1, ChangeStateFacts
    <3>3. KillNotifies = Notified(ChangeState(sock[Allocated], "CLOSED"))
      BY <2>1 DEF KillNotifies
    <3> QED BY <3>2, <3>3, NotifiedThreads
  <2>6. AfterKill = Tail(timeWait)
    BY <2>1 DEF AfterKill
  <2> QED BY <2>1, <2>2, <2>3, <2>4, <2>5, <2>6
<1> QED BY <1>1, <1>2

\* Without a descriptor to allocate nothing is killed.
LEMMA NothingAllocated ==
    ASSUME ~CanAllocate
    PROVE  Killed = {} /\ KillNotifies = {} /\ AfterKill = timeWait
<1>1. Killed = {}
  BY DEF CanAllocate, Killed
<1> QED BY <1>1 DEF KillNotifies, AfterKill

\* The timers after an allocation, if the descriptor is not in TIME_WAIT.
LEMMA AllocationTimers ==
    ASSUME TableInv, CanAllocate, timeWait' = AfterKill,
           sock'[Allocated].state # "TIME_WAIT",
           \A j \in Sockets \ {Allocated} :
              sock'[j].state = "TIME_WAIT" <=> sock[j].state = "TIME_WAIT"
    PROVE  TimersOK'
<1>1. CASE Killed = {}
  <2>1. timeWait' = timeWait /\ sock[Allocated].state # "TIME_WAIT"
    BY <1>1, AllocatedFacts
  <2> QED BY <2>1, TimersSame DEF TableInv
<1>2. CASE Killed # {}
  <2>1. /\ timeWait # << >> /\ timeWait' = Tail(timeWait)
        /\ Allocated = Head(timeWait)
    BY <1>2, AllocatedFacts
  <2> QED BY <2>1, TimerEnds DEF TableInv
<1> QED BY <1>1, <1>2

-----------------------------------------------------------------------------
(* The start of a wait.                                                    *)

\* r is the descriptor s with the same connection, whatever its events are.
SameConnection(s, r) ==
    /\ r.type = s.type /\ r.port = s.port /\ r.remote = s.remote
    /\ r.owned = s.owned /\ r.synQueue = s.synQueue
    /\ r.state = s.state /\ r.resetFlag = s.resetFlag

\* What a call waits for is a set of events.
LEMMA MaskEvents ==
    ASSUME NEW c \in Awaited
    PROVE  Mask(c) \in SUBSET Events
<1>1. CASE c = "connect" BY <1>1 DEF Mask, Events
<1>2. CASE c = "receive" BY <1>2 DEF Mask, Events
<1>3. CASE c = "send" BY <1>3 DEF Mask, Events
<1>4. CASE c = "waitAck" BY <1>4 DEF Mask, Events
<1>5. CASE c = "flush" BY <1>5 DEF Mask, Events
<1>6. CASE c = "shutTx" BY <1>6 DEF Mask, Events
<1>7. CASE c = "shutRx" BY <1>7 DEF Mask, Events
<1> QED BY <1>1, <1>2, <1>3, <1>4, <1>5, <1>6, <1>7 DEF Awaited

\* The mask of a call is set, and the events updated.
LEMMA MaskFacts ==
    ASSUME NEW s, Sound(s), NEW c \in Awaited
    PROVE  LET w == UpdateEvents([s EXCEPT !.eventMask = Mask(c)]) IN
           /\ Sound(w) /\ SameConnection(s, w) /\ w.eventMask = Mask(c)
           /\ w.userEvent = s.userEvent
           /\ w.eventFlags = Conditions(w) \cap Mask(c)
           /\ w.event = (s.event \/ w.eventFlags # {})
<1> DEFINE m == [s EXCEPT !.eventMask = Mask(c)]
           w == UpdateEvents(m)
<1>1. s \in Socket /\ Mask(c) \in SUBSET Events
  BY MaskEvents DEF Sound
<1>2. /\ m \in Socket /\ SameConnection(s, m) /\ m.eventMask = Mask(c)
      /\ m.rx = s.rx /\ m.tx = s.tx /\ m.userEvent = s.userEvent /\ m.event = s.event
  BY <1>1 DEF Socket, SameConnection
<1> HIDE DEF m
<1>3. Sound(m)
  BY <1>2 DEF Sound, SameConnection
<1>4. /\ Sound(w) /\ SameConnection(s, w) /\ w.eventMask = Mask(c)
      /\ w.userEvent = s.userEvent
      /\ w.eventFlags = Conditions(w) \cap Mask(c)
      /\ w.event = (s.event \/ w.eventFlags # {})
  BY <1>2, <1>3, UpdateEventsFacts, UpdateEventsSound
     DEF SameOwner, SameConnection, Updated
<1> HIDE DEF w
<1> QED BY <1>4 DEF w, m

\* tcpWaitForEvents of call c on s, the state socket i would have: the thread waits
\* with nothing signalled, or returns with the events it asked for.
LEMMA WaitFacts ==
    ASSUME TableInv, NEW t \in Threads, NEW i \in Sockets, NEW c \in Awaited,
           NEW s, Sound(s), Wait(t, i, c, s)
    PROVE  \E r : /\ sock' = [sock EXCEPT ![i] = r]
                  /\ Sound(r) /\ SameConnection(s, r) /\ r.eventMask = Mask(c)
                  /\ r.userEvent = s.userEvent
                  /\ recycled' = recycled
                  /\ \/ /\ thread' = [thread EXCEPT ![t] =
                                        [call |-> c, on |-> i, phase |-> "waiting"]]
                        /\ shared' = Joined(t, i) /\ signalled' = signalled
                        /\ ~r.event /\ r.eventFlags = {}
                        /\ Conditions(r) \cap Mask(c) = {}
                     \/ /\ thread' = thread /\ shared' = Joined(t, i) \ {t}
                        /\ signalled' = signalled \cup Notified(r)
<1> DEFINE w == UpdateEvents([s EXCEPT !.eventMask = Mask(c)])
<1>1. /\ Sound(w) /\ SameConnection(s, w) /\ w.eventMask = Mask(c)
      /\ w.userEvent = s.userEvent
      /\ w.eventFlags = Conditions(w) \cap Mask(c)
  BY MaskFacts
<1>2. \/ w.eventFlags = {} /\ Block(t, i, c, w) /\ shared' = Joined(t, i)
      \/ /\ \E r \in Results(c, w) : Put(i, r)
         /\ shared' = Joined(t, i) \ {t} /\ thread' = thread
  BY DEF Wait
<1>3. recycled' = recycled
  BY DEF Wait
<1> HIDE DEF w
<1>4. CASE w.eventFlags = {} /\ Block(t, i, c, w) /\ shared' = Joined(t, i)
  <2> DEFINE r == [w EXCEPT !.event = FALSE]
  <2>1. w \in Socket
    BY <1>1 DEF Sound
  <2>2. /\ r \in Socket /\ SameConnection(w, r) /\ r.rx = w.rx /\ r.tx = w.tx
        /\ r.eventMask = w.eventMask /\ r.userEvent = w.userEvent
        /\ r.eventFlags = w.eventFlags /\ ~r.event
    BY <2>1 DEF Socket, SameConnection
  <2>3. /\ sock' = [sock EXCEPT ![i] = r] /\ signalled' = signalled
        /\ thread' = [thread EXCEPT ![t] = [call |-> c, on |-> i, phase |-> "waiting"]]
    BY <1>4 DEF Block
  <2> HIDE DEF r
  <2>4. Sound(r)
    BY <1>1, <2>2 DEF Sound, SameConnection
  <2>5. Conditions(r) = Conditions(w)
    BY <2>2, SameConditions DEF SameConnection
  <2>6. SameConnection(s, r)
    BY <1>1, <2>2 DEF SameConnection
  <2>7. r.eventFlags = {} /\ Conditions(r) \cap Mask(c) = {}
    BY <1>1, <1>4, <2>2, <2>5
  <2> QED BY <1>1, <1>3, <1>4, <2>2, <2>3, <2>4, <2>6, <2>7
<1>5. CASE /\ \E r \in Results(c, w) : Put(i, r)
           /\ shared' = Joined(t, i) \ {t} /\ thread' = thread
  <2>1. PICK r \in Results(c, w) : Put(i, r)
    BY <1>5
  <2>2. /\ Sound(r) /\ SameOwner(w, r) /\ r.state = w.state
        /\ r.resetFlag = w.resetFlag
    BY <1>1, ResultsFacts
  <2>3. SameConnection(s, r) /\ r.eventMask = Mask(c) /\ r.userEvent = s.userEvent
    BY <1>1, <2>2 DEF SameOwner, SameConnection
  <2>4. sock' = [sock EXCEPT ![i] = r] /\ signalled' = signalled \cup Notified(r)
    BY <2>1 DEF Put
  <2>5. thread' = thread /\ shared' = Joined(t, i) \ {t}
    BY <1>5
  <2> QED BY <1>3, <2>2, <2>3, <2>4, <2>5
<1> QED BY <1>2, <1>4, <1>5

-----------------------------------------------------------------------------
(* Every step keeps the invariant of the table: the network.               *)

\* A sound descriptor replaces another one.
LEMMA Replaced ==
    ASSUME SocketsOK, NEW i \in Sockets, NEW r, Sound(r),
           r.state = "LISTEN" => i = Listener, sock' = [sock EXCEPT ![i] = r]
    PROVE  /\ SocketsOK' /\ sock'[i] = r
           /\ \A j \in Sockets \ {i} : sock'[j] = sock[j]
<1>1. r \in Socket
  BY DEF Sound
<1> QED BY <1>1 DEF SocketsOK

\* The same state, type and owner: nothing changes in the table.
LEMMA ReplacedAlike ==
    ASSUME TableInv, NEW i \in Sockets, NEW r, Sound(r), sock' = [sock EXCEPT ![i] = r],
           r.state = sock[i].state, r.type = sock[i].type, r.owned = sock[i].owned,
           timeWait' = timeWait, held' = held
    PROVE  SocketsOK' /\ TimersOK' /\ HandlesOK'
<1>1. SocketsOK' /\ sock'[i] = r /\ \A j \in Sockets \ {i} : sock'[j] = sock[j]
  <2>1. SocketsOK /\ (r.state = "LISTEN" => i = Listener)
    BY DEF TableInv, SocketsOK
  <2> QED BY <2>1, Replaced
<1>2. TimersOK'
  BY <1>1, TimersSame DEF TableInv
<1>3. HandlesOK'
  BY <1>1 DEF TableInv, HandlesOK, InHands
<1> QED BY <1>1, <1>2, <1>3

\* The search of a segment's socket finds one with its addresses or, when there
\* is none, one that listens.
LEMMA LookupFinds ==
    ASSUME NEW port, NEW i, NEW p, NEW k \in Lookup(port, i, p)
    PROVE  /\ k \in Sockets /\ sock[k].type = "STREAM" /\ sock[k].port = port
           /\ \/ sock[k].remote = p
              \/ /\ sock[k].state = "LISTEN" /\ sock[k].remote = None
                 /\ \A j \in Matching(port, i) : sock[j].remote # p
<1> DEFINE exact == {j \in Matching(port, i) : sock[j].remote = p}
           passive == {j \in Matching(port, i) :
                         sock[j].state = "LISTEN" /\ sock[j].remote = None}
<1>1. exact \in SUBSET Nat /\ passive \in SUBSET Nat
  BY TableAssumption DEF Matching
<1>2. Lookup(port, i, p) = IF exact # {} THEN {MinIndex(exact)}
                           ELSE IF passive # {} THEN {MinIndex(passive)} ELSE {}
  BY DEF Lookup
<1>3. CASE exact # {}
  <2>1. k \in exact
    <3> HIDE DEF exact, passive
    <3> QED BY <1>1, <1>2, <1>3, MinIndexMember
  <2> QED BY <2>1 DEF Matching
<1>4. CASE exact = {}
  <2>1. k \in passive
    <3> HIDE DEF exact, passive
    <3> QED BY <1>1, <1>2, <1>4, MinIndexMember
  <2> QED BY <1>4, <2>1 DEF Matching
<1> QED BY <1>3, <1>4

\* The queue of a listener is set.
LEMMA QueueSet ==
    ASSUME NEW l, Sound(l), l.type = "STREAM", l.state = "LISTEN",
           NEW q \in Seq(Peers)
    PROVE  LET m == [l EXCEPT !.synQueue = q] IN
           /\ m \in Socket /\ Sound(m) /\ m.type = "STREAM" /\ m.state = "LISTEN"
           /\ m.owned = l.owned /\ m.port = l.port /\ m.remote = l.remote
           /\ m.eventMask = l.eventMask /\ m.userEvent = l.userEvent
           /\ m.event = l.event /\ m.synQueue = q
<1> DEFINE m == [l EXCEPT !.synQueue = q]
<1>1. l \in Socket
  BY DEF Sound
<1>2. /\ m \in Socket /\ m.synQueue = q /\ m.rx = l.rx /\ m.tx = l.tx
      /\ m.type = "STREAM" /\ m.state = "LISTEN" /\ m.event = l.event
      /\ m.owned = l.owned /\ m.port = l.port /\ m.remote = l.remote
      /\ m.eventMask = l.eventMask /\ m.userEvent = l.userEvent
  BY <1>1 DEF Socket
<1> HIDE DEF m
<1>3. Sound(m)
  BY <1>2 DEF Sound
<1> QED BY <1>2, <1>3 DEF m

\* tcpStateListen: the queue of the listener without its first SYN when it is full,
\* and with the new one when there is memory for it.
LEMMA SynStores ==
    ASSUME TableInv, NEW p \in Peers, NEW stored \in BOOLEAN, Syn(p, stored)
    PROVE  \E r, rest :
              LET l == sock[Listener] IN
              /\ sock' = [sock EXCEPT ![Listener] = r] /\ Sound(r)
              /\ l.type = "STREAM" /\ l.state = "LISTEN" /\ l.port = Service
              /\ r.type = "STREAM" /\ r.state = "LISTEN" /\ r.owned = l.owned
              /\ r.port = l.port /\ r.remote = l.remote
              /\ r.eventMask = l.eventMask /\ r.userEvent = l.userEvent
              /\ rest = IF Len(l.synQueue) >= Backlog THEN Tail(l.synQueue)
                                                      ELSE l.synQueue
              /\ IF stored
                   THEN /\ r.synQueue = Append(rest, p) /\ Updated(l, r)
                        /\ signalled' = signalled \cup Notified(r)
                   ELSE /\ r = [l EXCEPT !.synQueue = rest] /\ r.synQueue = rest
                        /\ r.event = l.event
                        /\ signalled' = signalled
              /\ UNCHANGED <<timeWait, held, thread, shared, recycled>>
<1>1. PICK i \in Lookup(Service, Listener, p) :
        LET s == sock[i]
            rest == IF Len(s.synQueue) >= Backlog THEN Tail(s.synQueue)
                                                  ELSE s.synQueue IN
        /\ s.state = "LISTEN" /\ ~IsDuplicateSyn(s, p)
        /\ IF stored
             THEN Put(i, UpdateEvents([s EXCEPT !.synQueue = Append(rest, p)]))
             ELSE /\ sock' = [sock EXCEPT ![i].synQueue = rest]
                  /\ UNCHANGED signalled
        /\ UNCHANGED <<timeWait, held, thread, shared, recycled>>
  BY DEF Syn
<1>2. /\ i \in Sockets /\ i = Listener /\ sock[i].type = "STREAM"
      /\ sock[i].port = Service /\ Sound(sock[i]) /\ sock[i].remote = None
  BY <1>1, LookupFinds DEF TableInv, SocketsOK, Sound
<1> DEFINE l == sock[Listener]
           rest == IF Len(l.synQueue) >= Backlog THEN Tail(l.synQueue)
                                                 ELSE l.synQueue
<1>3. l \in Socket /\ l.synQueue \in Seq(Peers) /\ sock \in [Sockets -> Socket]
  BY <1>2 DEF Sound, Socket, TableInv, SocketsOK
<1>4. rest \in Seq(Peers)
  <2>1. CASE Len(l.synQueue) >= Backlog
    <3>1. Len(l.synQueue) > 0 /\ l.synQueue # << >>
      BY <1>3, <2>1, TableAssumption
    <3> QED BY <1>3, <2>1, <3>1, HeadTailProperties
  <2>2. CASE ~(Len(l.synQueue) >= Backlog)
    BY <1>3, <2>2
  <2> QED BY <2>1, <2>2
<1>5. rest = IF Len(l.synQueue) >= Backlog THEN Tail(l.synQueue) ELSE l.synQueue
  OBVIOUS
<1>6. Sound(l) /\ l.type = "STREAM" /\ l.state = "LISTEN"
  BY <1>1, <1>2
<1> HIDE DEF rest
<1>7. CASE stored
  <2> DEFINE q == Append(rest, p)
             m == [l EXCEPT !.synQueue = q]
             r == UpdateEvents(m)
  <2>1. Put(Listener, r)
    BY <1>1, <1>2, <1>7 DEF rest
  <2>2. q \in Seq(Peers) /\ q = Append(rest, p)
    BY <1>4
  <2> HIDE DEF q
  <2>3. /\ m \in Socket /\ Sound(m) /\ m.type = "STREAM" /\ m.state = "LISTEN"
        /\ m.owned = l.owned /\ m.port = l.port /\ m.remote = l.remote
        /\ m.eventMask = l.eventMask /\ m.userEvent = l.userEvent
        /\ m.event = l.event /\ m.synQueue = q
    BY <1>6, <2>2, QueueSet
  <2> HIDE DEF m
  <2>4. /\ Sound(r) /\ r.type = "STREAM" /\ r.state = "LISTEN" /\ r.owned = l.owned
        /\ r.port = l.port /\ r.remote = l.remote
        /\ r.eventMask = l.eventMask /\ r.userEvent = l.userEvent
        /\ r.synQueue = Append(rest, p) /\ Updated(l, r)
    BY <2>2, <2>3, UpdateEventsFacts, UpdateEventsSound DEF SameOwner, Updated
  <2>5. sock' = [sock EXCEPT ![Listener] = r] /\ signalled' = signalled \cup Notified(r)
    BY <2>1 DEF Put
  <2> HIDE DEF r
  <2> QED BY <1>1, <1>2, <1>5, <1>7, <2>4, <2>5
<1>8. CASE ~stored
  <2> DEFINE r == [l EXCEPT !.synQueue = rest]
  <2>1. /\ Sound(r) /\ r.type = "STREAM" /\ r.state = "LISTEN" /\ r.owned = l.owned
        /\ r.port = l.port /\ r.remote = l.remote
        /\ r.eventMask = l.eventMask /\ r.userEvent = l.userEvent
        /\ r.synQueue = rest /\ r.event = l.event
    BY <1>6, <1>4, QueueSet
  <2>2. sock' = [sock EXCEPT ![Listener].synQueue = rest] /\ signalled' = signalled
    BY <1>1, <1>2, <1>8 DEF rest
  <2>3. sock' = [sock EXCEPT ![Listener] = r]
    BY <1>2, <1>3, <2>2
  <2>4. r = [l EXCEPT !.synQueue = rest]
    OBVIOUS
  <2> HIDE DEF r
  <2> QED BY <1>1, <1>2, <1>5, <1>8, <2>1, <2>2, <2>3, <2>4
<1> QED BY <1>7, <1>8

\* A SYN changes only the queue of the listener.
LEMMA SynKeepsTable ==
    ASSUME TableInv, NEW p \in Peers, NEW stored \in BOOLEAN, Syn(p, stored)
    PROVE  TableInv'
<1>1. PICK r :
        /\ sock' = [sock EXCEPT ![Listener] = r] /\ Sound(r)
        /\ r.type = sock[Listener].type /\ r.state = sock[Listener].state
        /\ r.owned = sock[Listener].owned
        /\ signalled' = signalled \/ signalled' = signalled \cup Notified(r)
        /\ UNCHANGED <<timeWait, held, thread, shared, recycled>>
  BY SynStores
<1>2. SocketsOK' /\ TimersOK' /\ HandlesOK'
  BY <1>1, ReplacedAlike, TableAssumption
<1>3. ThreadsOK'
  BY <1>1, NotifiedThreads DEF Sound, TableInv, ThreadsOK
<1> QED BY <1>2, <1>3 DEF TableInv

\* A segment, a failure, data, an acknowledgment.
LEMMA ProceedKeepsTable ==
    ASSUME TableInv, NEW i \in Sockets, NEW new \in States, Proceed(i, new)
    PROVE  TableInv'
<1> DEFINE r == ChangeState(sock[i], new)
<1>1. /\ Stores(i, r) /\ r.state = new
      /\ sock[i].state \notin {"LISTEN", "TIME_WAIT"}
      /\ timeWait' = IF new = "TIME_WAIT" THEN Append(timeWait, i) ELSE timeWait
  BY ProceedStores
<1> HIDE DEF r
<1>2. SocketsOK' /\ HandlesOK' /\ ThreadsOK'
  BY <1>1, StoresKeeps
<1>3. sock'[i].state = new /\ \A j \in Sockets \ {i} : sock'[j] = sock[j]
  BY <1>1 DEF Stores, TableInv, SocketsOK
<1>4. TimersOK'
  BY <1>1, <1>3, TimersSame, TimerStarts DEF TableInv
<1> QED BY <1>2, <1>4 DEF TableInv

\* A step outside TIME_WAIT keeps the table.
LEMMA SameStateKeepsTable ==
    ASSUME TableInv, NEW i \in Sockets, NEW r, Stores(i, r), timeWait' = timeWait,
           sock[i].state # "TIME_WAIT", r.state # "TIME_WAIT"
    PROVE  TableInv'
<1>1. SocketsOK' /\ HandlesOK' /\ ThreadsOK'
  BY StoresKeeps
<1>2. sock'[i] = r /\ \A j \in Sockets \ {i} : sock'[j] = sock[j]
  BY DEF Stores, TableInv, SocketsOK
<1>3. TimersOK'
  BY <1>2, TimersSame DEF TableInv
<1> QED BY <1>1, <1>3 DEF TableInv

\* A FIN in TIME_WAIT starts the timer again: the others keep their order.
LEMMA TimeWaitFinKeepsTable ==
    ASSUME TableInv, NEW i \in Sockets, TimeWaitFin(i)
    PROVE  TableInv'
<1>1. UNCHANGED <<sock, signalled, held, thread, shared, recycled>>
  BY DEF TimeWaitFin
<1>2. PICK k \in 1 .. Len(timeWait) :
        timeWait[k] = i /\ timeWait' = Append(Without(timeWait, k), i)
  BY DEF TimeWaitFin
<1>3. TimersOK'
  BY <1>1, <1>2, TimerRestarts DEF TableInv
<1> QED BY <1>1, <1>3 DEF TableInv, SocketsOK, HandlesOK, ThreadsOK

\* A descriptor is freed by an update.
LEMMA DisposedKeeps ==
    ASSUME TableInv, NEW i \in Sockets, Put(i, Dispose(sock[i]))
    PROVE  /\ SocketsOK' /\ sock'[i] = Dispose(sock[i])
           /\ sock'[i].type = "UNUSED" /\ sock'[i].state = "CLOSED"
           /\ \A j \in Sockets \ {i} : sock'[j] = sock[j]
           /\ signalled' \in SUBSET Threads
<1> DEFINE r == Dispose(sock[i])
<1>1. /\ Sound(sock[i]) /\ sock \in [Sockets -> Socket]
      /\ signalled \in SUBSET Threads /\ SocketsOK
  BY DEF TableInv, SocketsOK, ThreadsOK
<1>2. Sound(r) /\ r.type = "UNUSED" /\ r.state = "CLOSED" /\ r \in Socket
  BY <1>1, DisposeFacts DEF Sound
<1>3. sock' = [sock EXCEPT ![i] = r] /\ signalled' = signalled \cup Notified(r)
  BY DEF Put
<1> HIDE DEF r
<1>4. /\ SocketsOK' /\ sock'[i] = r /\ \A j \in Sockets \ {i} : sock'[j] = sock[j]
  BY <1>1, <1>2, <1>3, Replaced
<1>5. signalled' \in SUBSET Threads
  BY <1>1, <1>2, <1>3, NotifiedThreads
<1> QED BY <1>2, <1>4, <1>5 DEF r

\* The end of TIME_WAIT: the timer and, if nobody owns it, the socket are gone.
LEMMA TimeoutKeepsTable ==
    ASSUME TableInv, TimeWaitTimeout
    PROVE  TableInv'
<1> DEFINE i == Head(timeWait)
<1>1. /\ timeWait # << >> /\ timeWait' = Tail(timeWait)
      /\ i \in Sockets /\ sock[i].state = "TIME_WAIT" /\ sock[i].type = "STREAM"
      /\ \/ /\ sock[i].owned /\ Stores(i, ChangeState(sock[i], "CLOSED"))
            /\ ChangeState(sock[i], "CLOSED").state = "CLOSED"
         \/ /\ ~sock[i].owned /\ Put(i, Dispose(sock[i]))
            /\ UNCHANGED <<held, thread, shared, recycled>>
  BY TimeoutStores
<1>2. CASE sock[i].owned /\ Stores(i, ChangeState(sock[i], "CLOSED"))
           /\ ChangeState(sock[i], "CLOSED").state = "CLOSED"
  <2> DEFINE r == ChangeState(sock[i], "CLOSED")
  <2>1. r.owned /\ r.state = "CLOSED" /\ Stores(i, r)
    BY <1>2 DEF Stores, SameOwner
  <2> HIDE DEF r, i
  <2>2. SocketsOK' /\ HandlesOK' /\ ThreadsOK'
    BY <1>1, <2>1, StoresKeeps
  <2>3. sock'[i] = r /\ \A j \in Sockets \ {i} : sock'[j] = sock[j]
    BY <1>1, <2>1 DEF Stores, TableInv, SocketsOK
  <2>4. TimersOK'
    BY <1>1, <2>1, <2>3, TimerEnds DEF TableInv, i
  <2> QED BY <2>2, <2>4 DEF TableInv
<1>3. CASE ~sock[i].owned /\ Put(i, Dispose(sock[i]))
           /\ UNCHANGED <<held, thread, shared, recycled>>
  <2>1. /\ SocketsOK' /\ sock'[i].type = "UNUSED" /\ sock'[i].state = "CLOSED"
        /\ \A j \in Sockets \ {i} : sock'[j] = sock[j]
        /\ signalled' \in SUBSET Threads
    BY <1>1, <1>3, DisposedKeeps
  <2>2. TimersOK'
    BY <1>1, <2>1, TimerEnds DEF TableInv
  <2> HIDE DEF i
  <2>3. HandlesOK'
    BY <1>3, <2>1 DEF TableInv, HandlesOK, InHands
  <2>4. ThreadsOK'
    BY <1>3, <2>1 DEF TableInv, ThreadsOK
  <2> QED BY <2>1, <2>2, <2>3, <2>4 DEF TableInv
<1> QED BY <1>1, <1>2, <1>3

\* Segments and timers keep the table.
LEMMA NetworkKeepsTable ==
    ASSUME TableInv, Network
    PROVE  TableInv'
<1>1. ASSUME NEW p \in Peers, NEW stored \in BOOLEAN, Syn(p, stored)
      PROVE  TableInv'
  BY <1>1, SynKeepsTable
<1>2. ASSUME NEW i \in Sockets, NEW new \in States, Proceed(i, new)
      PROVE  TableInv'
  BY <1>2, ProceedKeepsTable
<1>3. ASSUME NEW i \in Sockets, NEW level \in TxLevels, Drain(i, level)
      PROVE  TableInv'
  BY <1>3, DrainStores, SameStateKeepsTable
<1>4. ASSUME NEW i \in Sockets, Fail(i)
      PROVE  TableInv'
  <2> DEFINE r == ChangeState(sock[i], "CLOSED")
  <2>1. Stores(i, r) /\ r.state = "CLOSED" /\ sock[i].state # "TIME_WAIT"
        /\ timeWait' = timeWait
    BY <1>4, FailStores
  <2> HIDE DEF r
  <2> QED BY <2>1, SameStateKeepsTable
<1>5. ASSUME NEW i \in Sockets, Data(i)
      PROVE  TableInv'
  BY <1>5, DataStores, SameStateKeepsTable
<1>6. ASSUME NEW i \in Sockets, TimeWaitFin(i)
      PROVE  TableInv'
  BY <1>6, TimeWaitFinKeepsTable
<1>7. CASE TimeWaitTimeout
  BY <1>7, TimeoutKeepsTable
<1> QED BY <1>1, <1>2, <1>3, <1>4, <1>5, <1>6, <1>7 DEF Network

-----------------------------------------------------------------------------
(* Every step keeps the invariant of the table: the threads.               *)

\* The threads that share a socket are threads.
LEMMA JoinedThreads ==
    ASSUME ThreadsOK, NEW t \in Threads, NEW i
    PROVE  Joined(t, i) \in SUBSET Threads
BY DEF Joined, Company, ThreadsOK

\* A free descriptor is given to a new socket, and its handle to the caller.
LEMMA OpenKeepsTable ==
    ASSUME TableInv, NEW t \in Threads, Open(t)
    PROVE  TableInv'
<1> DEFINE a == Allocated
           r == Fresh(AllocatedEvent)
<1>1. /\ a \in Sockets /\ AllocatedEvent \in BOOLEAN /\ KillNotifies \subseteq Threads
      /\ CanAllocate
  BY AllocatedFacts DEF Open
<1>2. Sound(r) /\ r.type = "STREAM" /\ r.state = "CLOSED" /\ ~r.owned
  BY <1>1, FreshFacts
<1>3. /\ sock' = [sock EXCEPT ![a] = r] /\ timeWait' = AfterKill
      /\ held[a] < 2 /\ held' = [held EXCEPT ![a] = @ + 1]
      /\ signalled' = signalled \cup KillNotifies /\ thread' = thread /\ shared' = shared
      /\ recycled' = (recycled \cup Company(t, a)) \ {t}
  BY DEF Open, Hand
<1> HIDE DEF r
<1>4. SocketsOK' /\ sock'[a] = r /\ \A j \in Sockets \ {a} : sock'[j] = sock[j]
  BY <1>1, <1>2, <1>3, Replaced DEF TableInv
<1>5. TimersOK'
  BY <1>1, <1>2, <1>3, <1>4, AllocationTimers
<1> HIDE DEF a
<1>6. held' \in [Sockets -> 0 .. 2] /\ held'[a] > 0
  BY <1>1, <1>3 DEF TableInv, HandlesOK
<1>7. HandlesOK'
  BY <1>1, <1>3, <1>4, <1>6 DEF TableInv, HandlesOK, InHands
<1>8. ThreadsOK'
  BY <1>1, <1>3 DEF TableInv, ThreadsOK, Company
<1> QED BY <1>4, <1>5, <1>7, <1>8 DEF TableInv

\* Whoever has the handle closes the socket it denotes.
LEMMA CloseKeepsTable ==
    ASSUME TableInv, NEW t \in Threads, NEW i \in Sockets, Close(t, i)
    PROVE  TableInv'
<1>1. /\ held[i] > 0 /\ held' = [held EXCEPT ![i] = @ - 1]
      /\ UNCHANGED <<timeWait, thread, shared, recycled>>
  BY DEF Close, Free
<1>2. held' \in [Sockets -> 0 .. 2] /\ \A j \in Sockets \ {i} : held'[j] = held[j]
  BY <1>1 DEF TableInv, HandlesOK
<1>3. Sound(sock[i]) /\ sock[i] \in Socket
  BY DEF TableInv, SocketsOK
<1>4. CASE sock[i].type = "UNUSED"
  <2>1. sock' = sock /\ signalled' = signalled
    BY <1>4 DEF Close
  <2> QED BY <1>1, <1>2, <1>4, <2>1, TimersSame
          DEF TableInv, SocketsOK, HandlesOK, InHands, ThreadsOK
<1>5. CASE sock[i].type # "UNUSED" /\ sock[i].state = "TIME_WAIT"
  <2> DEFINE r == [sock[i] EXCEPT !.owned = FALSE]
  <2>1. /\ r \in Socket /\ r.type = sock[i].type /\ r.state = "TIME_WAIT"
        /\ ~r.owned /\ r.remote = sock[i].remote /\ r.port = sock[i].port
        /\ r.synQueue = sock[i].synQueue /\ r.rx = sock[i].rx /\ r.tx = sock[i].tx
    BY <1>3, <1>5 DEF Socket
  <2>2. sock' = [sock EXCEPT ![i] = r] /\ signalled' = signalled
    BY <1>5 DEF Close, TableInv, SocketsOK
  <2> HIDE DEF r
  <2>3. Sound(r)
    BY <1>3, <1>5, <2>1 DEF Sound
  <2>4. SocketsOK' /\ sock'[i] = r /\ \A j \in Sockets \ {i} : sock'[j] = sock[j]
    BY <2>1, <2>2, <2>3, Replaced DEF TableInv
  <2>5. TimersOK'
    BY <1>1, <1>5, <2>1, <2>4, TimersSame DEF TableInv
  <2>6. HandlesOK'
    BY <1>2, <2>1, <2>4 DEF TableInv, HandlesOK, InHands
  <2>7. ThreadsOK'
    BY <1>1, <2>2 DEF TableInv, ThreadsOK
  <2> QED BY <2>4, <2>5, <2>6, <2>7 DEF TableInv
<1>6. CASE sock[i].type # "UNUSED" /\ sock[i].state # "TIME_WAIT"
  <2>1. Put(i, Dispose(sock[i]))
    BY <1>6 DEF Close
  <2>2. /\ SocketsOK' /\ sock'[i].type = "UNUSED" /\ sock'[i].state = "CLOSED"
        /\ \A j \in Sockets \ {i} : sock'[j] = sock[j]
        /\ signalled' \in SUBSET Threads
    BY <2>1, DisposedKeeps
  <2>3. TimersOK'
    BY <1>1, <1>6, <2>2, TimersSame DEF TableInv
  <2>4. HandlesOK'
    BY <1>2, <2>2 DEF TableInv, HandlesOK, InHands
  <2>5. ThreadsOK'
    BY <1>1, <2>2 DEF TableInv, ThreadsOK
  <2> QED BY <2>2, <2>3, <2>4, <2>5 DEF TableInv
<1> QED BY <1>4, <1>5, <1>6

\* A thread is in a call on a socket.
LEMMA InCallTyped ==
    ASSUME TableInv, NEW t \in Threads, NEW i \in Sockets, NEW c \in AllCalls,
           NEW phase \in {"checked", "waiting", "woken"},
           thread' = [thread EXCEPT ![t] = [call |-> c, on |-> i, phase |-> phase]]
    PROVE  thread' \in [Threads -> InCalls]
<1>1. [call |-> c, on |-> i, phase |-> phase] \in InCalls
  BY DEF InCalls
<1> QED BY <1>1 DEF TableInv, ThreadsOK

\* A call starts to wait on socket i, which s describes.
LEMMA WaitKeepsTable ==
    ASSUME TableInv, NEW t \in Threads, NEW i \in Sockets, NEW c \in Awaited,
           NEW s, Sound(s), Wait(t, i, c, s), UNCHANGED <<timeWait, held>>,
           s.state # "LISTEN", sock[i].type = "STREAM", s.type = "STREAM", held[i] > 0,
           s.state = "TIME_WAIT" <=> sock[i].state = "TIME_WAIT"
    PROVE  TableInv'
<1>1. PICK r : /\ sock' = [sock EXCEPT ![i] = r]
               /\ Sound(r) /\ SameConnection(s, r)
               /\ recycled' = recycled
               /\ \/ /\ thread' = [thread EXCEPT ![t] =
                                      [call |-> c, on |-> i, phase |-> "waiting"]]
                     /\ shared' = Joined(t, i) /\ signalled' = signalled
                  \/ /\ thread' = thread /\ shared' = Joined(t, i) \ {t}
                     /\ signalled' = signalled \cup Notified(r)
  BY WaitFacts
<1>2. r.state = s.state /\ r.type = "STREAM" /\ r \in Socket
  BY <1>1 DEF SameConnection, Sound
<1>3. SocketsOK' /\ sock'[i] = r /\ \A j \in Sockets \ {i} : sock'[j] = sock[j]
  BY <1>1, <1>2, Replaced DEF TableInv
<1>4. TimersOK'
  BY <1>2, <1>3, TimersSame DEF TableInv
<1>5. HandlesOK'
  BY <1>3 DEF TableInv, HandlesOK, InHands
<1>6. ThreadsOK'
  <2>1. Joined(t, i) \in SUBSET Threads
    BY JoinedThreads DEF TableInv
  <2>2. c \in AllCalls
    BY DEF Awaited, AllCalls
  <2>3. thread' \in [Threads -> InCalls]
    BY <1>1, <2>2, InCallTyped DEF TableInv, ThreadsOK
  <2>4. signalled' \in SUBSET Threads
    BY <1>1, <1>2, NotifiedThreads DEF TableInv, ThreadsOK
  <2> QED BY <1>1, <2>1, <2>3, <2>4 DEF TableInv, ThreadsOK
<1> QED BY <1>3, <1>4, <1>5, <1>6 DEF TableInv

\* The calls that wait, as they start: what they wait on.
LEMMA EnterWaits ==
    ASSUME TableInv, NEW t \in Threads, NEW i \in Sockets, NEW c, Enter(t, i, c)
    PROVE  /\ c \in Awaited /\ Sound(sock[i]) /\ Wait(t, i, c, sock[i])
           /\ UNCHANGED <<timeWait, held>> /\ sock[i].state # "LISTEN"
           /\ sock[i].type = "STREAM" /\ held[i] > 0 /\ thread[t] = Idle
<1>1. sock[i].state \in Waits(c)
  BY DEF Enter
<1>2. c \in Awaited
  BY <1>1 DEF Waits, Awaited
<1>3. sock[i].state # "LISTEN"
  <2>1. CASE c \in {"receive", "send"} BY <1>1, <2>1 DEF Waits
  <2>2. CASE c \notin {"receive", "send"} BY <1>1, <1>2, <2>2 DEF Waits, Awaited
  <2> QED BY <2>1, <2>2
<1> QED BY <1>2, <1>3 DEF Enter, Free, TableInv, SocketsOK

\* The socket tcpConnect waits on.
ConnectTo(s, p) ==
    ChangeState([s EXCEPT !.remote = p, !.owned = TRUE, !.rx = FALSE, !.tx = "acked"],
                "SYN_SENT")

\* tcpConnect: the closed socket it starts from and the one it waits with.
LEMMA ConnectWaits ==
    ASSUME TableInv, NEW t \in Threads, NEW i \in Sockets, NEW p \in Peers,
           Connect(t, i, p)
    PROVE  LET s == ConnectTo(sock[i], p) IN
           /\ Sound(s) /\ Wait(t, i, "connect", s) /\ "connect" \in Awaited
           /\ UNCHANGED <<timeWait, held>>
           /\ s.state = "SYN_SENT" /\ s.type = "STREAM" /\ s.port = sock[i].port
           /\ s.synQueue = sock[i].synQueue /\ s.remote = p
           /\ sock[i].type = "STREAM" /\ sock[i].state = "CLOSED"
           /\ held[i] > 0 /\ thread[t] = Idle
<1> DEFINE m == [sock[i] EXCEPT !.remote = p, !.owned = TRUE, !.rx = FALSE, !.tx = "acked"]
           s == ConnectTo(sock[i], p)
<1>1. /\ sock[i].type = "STREAM" /\ sock[i].state = "CLOSED"
      /\ held[i] > 0 /\ thread[t] = Idle /\ UNCHANGED <<timeWait, held>>
  BY DEF Connect, Free
<1>2. Wait(t, i, "connect", s)
  BY DEF Connect, ConnectTo
<1>3. Sound(sock[i]) /\ sock[i] \in Socket /\ "SYN_SENT" \in States /\ "acked" \in TxLevels
  BY TableAssumption DEF TableInv, SocketsOK, States
<1>4. /\ m \in Socket /\ m.type = "STREAM" /\ m.state = "CLOSED" /\ m.remote = p
      /\ m.port = sock[i].port /\ m.synQueue = sock[i].synQueue
      /\ ~m.rx /\ m.tx = "acked"
  BY <1>1, <1>3 DEF Socket
<1>5. s = ChangeState(m, "SYN_SENT")
  BY DEF ConnectTo
<1> HIDE DEF m, s
<1>6. Sound(m)
  BY <1>1, <1>3, <1>4 DEF Sound
<1>7. Sound(s) /\ s.state = "SYN_SENT" /\ SameOwner(m, s)
  BY <1>3, <1>4, <1>5, <1>6, ChangeStateFacts
<1>8. "connect" \in Awaited
  BY DEF Awaited
<1> QED BY <1>1, <1>2, <1>4, <1>7, <1>8 DEF s, SameOwner

\* The socket tcpShutdown waits on once the FIN is sent.
ShutTo(s) ==
    ChangeState(s, IF s.state = "CLOSE_WAIT" THEN "LAST_ACK" ELSE "FIN_WAIT_1")

\* tcpShutdown: the state it moves the connection to before it waits.
LEMMA ShutdownWaits ==
    ASSUME TableInv, NEW t \in Threads, NEW i \in Sockets, ShutdownFin(t, i)
    PROVE  LET s == ShutTo(sock[i]) IN
           /\ Sound(s) /\ Wait(t, i, "shutTx", s) /\ "shutTx" \in Awaited
           /\ UNCHANGED <<timeWait, held>>
           /\ s.state \in {"LAST_ACK", "FIN_WAIT_1"} /\ SameOwner(sock[i], s)
           /\ sock[i].type = "STREAM"
           /\ sock[i].state \in {"SYN_RECEIVED", "ESTABLISHED", "CLOSE_WAIT"}
           /\ held[i] > 0 /\ thread[t] = Idle
<1> DEFINE s == ShutTo(sock[i])
           new == IF sock[i].state = "CLOSE_WAIT" THEN "LAST_ACK" ELSE "FIN_WAIT_1"
<1>1. /\ sock[i].type = "STREAM" /\ held[i] > 0 /\ thread[t] = Idle
      /\ UNCHANGED <<timeWait, held>>
      /\ sock[i].state \in {"SYN_RECEIVED", "ESTABLISHED", "CLOSE_WAIT"}
  BY DEF ShutdownFin, Free, Waits
<1>2. Wait(t, i, "shutTx", s)
  BY DEF ShutdownFin, ShutTo
<1>3. new \in States /\ new \in {"LAST_ACK", "FIN_WAIT_1"} /\ Sound(sock[i])
  BY DEF States, TableInv, SocketsOK
<1>4. s = ChangeState(sock[i], new)
  BY DEF ShutTo
<1> HIDE DEF s, new
<1>5. Sound(s) /\ s.state = new /\ SameOwner(sock[i], s)
  BY <1>1, <1>3, <1>4, ChangeStateFacts
<1>6. "shutTx" \in Awaited
  BY DEF Awaited
<1> QED BY <1>1, <1>2, <1>3, <1>5, <1>6 DEF s

\* A call that finds nothing and waits keeps the table.
LEMMA EnterKeepsTable ==
    ASSUME TableInv, NEW t \in Threads, NEW i \in Sockets, NEW c, Enter(t, i, c)
    PROVE  TableInv'
BY EnterWaits, WaitKeepsTable

\* tcpConnect keeps the table.
LEMMA ConnectKeepsTable ==
    ASSUME TableInv, NEW t \in Threads, NEW i \in Sockets, NEW p \in Peers,
           Connect(t, i, p)
    PROVE  TableInv'
<1> DEFINE s == ConnectTo(sock[i], p)
<1>1. /\ Sound(s) /\ Wait(t, i, "connect", s) /\ "connect" \in Awaited
      /\ UNCHANGED <<timeWait, held>>
      /\ s.state = "SYN_SENT" /\ s.type = "STREAM"
      /\ sock[i].type = "STREAM" /\ sock[i].state = "CLOSED" /\ held[i] > 0
  BY ConnectWaits
<1> HIDE DEF s
<1> QED BY <1>1, WaitKeepsTable

\* tcpShutdown keeps the table.
LEMMA ShutdownKeepsTable ==
    ASSUME TableInv, NEW t \in Threads, NEW i \in Sockets, ShutdownFin(t, i)
    PROVE  TableInv'
<1> DEFINE s == ShutTo(sock[i])
<1>1. /\ Sound(s) /\ Wait(t, i, "shutTx", s) /\ "shutTx" \in Awaited
      /\ UNCHANGED <<timeWait, held>>
      /\ s.state \in {"LAST_ACK", "FIN_WAIT_1"} /\ s.type = "STREAM"
      /\ sock[i].type = "STREAM" /\ held[i] > 0
      /\ sock[i].state \in {"SYN_RECEIVED", "ESTABLISHED", "CLOSE_WAIT"}
  BY ShutdownWaits DEF SameOwner
<1> HIDE DEF s
<1> QED BY <1>1, WaitKeepsTable

\* Registration of a thread's own event for socketPoll.
LEMMA PollStores ==
    ASSUME TableInv, NEW t \in Threads, NEW i \in Sockets, Poll(t, i)
    PROVE  \E r : /\ sock' = [sock EXCEPT ![i] = r]
                  /\ Sound(r) /\ SameConnection(sock[i], r)
                  /\ r.userEvent = t /\ PollMask \subseteq r.eventMask
                  /\ r.eventFlags = Conditions(r) \cap r.eventMask
                  /\ signalled' = (signalled \ {t}) \cup Notified(r)
                  /\ shared' = Joined(t, i)
                  /\ thread' = [thread EXCEPT ![t] =
                                  [call |-> "poll", on |-> i, phase |-> "waiting"]]
                  /\ UNCHANGED <<timeWait, held, recycled>>
                  /\ thread[t] = Idle /\ held[i] > 0 /\ sock[i].type = "STREAM"
<1> DEFINE mask == IF sock[i].userEvent # None
                   THEN sock[i].eventMask \cup PollMask ELSE PollMask
           m == [sock[i] EXCEPT !.eventMask = mask, !.userEvent = t]
           r == UpdateEvents(m)
<1>1. Sound(sock[i]) /\ sock[i] \in Socket /\ sock[i].eventMask \in SUBSET Events
  BY DEF TableInv, SocketsOK, Socket
<1>2. mask \in SUBSET Events /\ PollMask \subseteq mask
  BY <1>1, NamesAssumption
<1>3. /\ sock' = [sock EXCEPT ![i] = r]
      /\ signalled' = (signalled \ {t}) \cup Notified(r)
      /\ shared' = Joined(t, i)
      /\ thread' = [thread EXCEPT ![t] =
                      [call |-> "poll", on |-> i, phase |-> "waiting"]]
      /\ UNCHANGED <<timeWait, held, recycled>>
      /\ thread[t] = Idle /\ held[i] > 0 /\ sock[i].type = "STREAM"
  BY DEF Poll, Free
<1> HIDE DEF mask
<1>4. /\ m \in Socket /\ SameConnection(sock[i], m) /\ m.rx = sock[i].rx
      /\ m.tx = sock[i].tx /\ m.eventMask = mask /\ m.userEvent = t
  BY <1>1, <1>2 DEF Socket, SameConnection
<1> HIDE DEF m
<1>5. Sound(m)
  BY <1>1, <1>4 DEF Sound, SameConnection
<1>6. /\ Sound(r) /\ SameConnection(sock[i], r) /\ r.userEvent = t /\ r.eventMask = mask
      /\ r.eventFlags = Conditions(r) \cap r.eventMask
  BY <1>4, <1>5, UpdateEventsFacts, UpdateEventsSound
     DEF SameOwner, SameConnection, Updated
<1> HIDE DEF r
<1> QED BY <1>2, <1>3, <1>6

\* socketPoll keeps the table when it registers.
LEMMA PollKeepsTable ==
    ASSUME TableInv, NEW t \in Threads, NEW i \in Sockets, Poll(t, i)
    PROVE  TableInv'
<1>1. PICK r : /\ sock' = [sock EXCEPT ![i] = r]
               /\ Sound(r) /\ SameConnection(sock[i], r)
               /\ signalled' = (signalled \ {t}) \cup Notified(r)
               /\ shared' = Joined(t, i)
               /\ thread' = [thread EXCEPT ![t] =
                               [call |-> "poll", on |-> i, phase |-> "waiting"]]
               /\ UNCHANGED <<timeWait, held, recycled>>
  BY PollStores
<1>2. SocketsOK' /\ TimersOK' /\ HandlesOK'
  BY <1>1, ReplacedAlike DEF SameConnection
<1>3. ThreadsOK'
  <2>1. Joined(t, i) \in SUBSET Threads
    BY JoinedThreads DEF TableInv
  <2>2. thread' \in [Threads -> InCalls]
    <3>1. "poll" \in AllCalls
      BY DEF AllCalls
    <3> QED BY <1>1, <3>1, InCallTyped
  <2> QED BY <1>1, <2>1, <2>2, NotifiedThreads DEF Sound, TableInv, ThreadsOK
<1> QED BY <1>2, <1>3 DEF TableInv

\* A flag, or a registration, of socket i is cleared: nothing else depends on it.
LEMMA ClearedFacts ==
    ASSUME TableInv, NEW i \in Sockets, NEW r,
           \/ r = [sock[i] EXCEPT !.event = FALSE]
           \/ r = [sock[i] EXCEPT !.userEvent = None]
    PROVE  /\ Sound(r) /\ SameConnection(sock[i], r) /\ r.eventMask = sock[i].eventMask
           /\ r.eventFlags = sock[i].eventFlags /\ Conditions(r) = Conditions(sock[i])
<1>1. Sound(sock[i]) /\ sock[i] \in Socket
  BY DEF TableInv, SocketsOK
<1>2. /\ r \in Socket /\ SameConnection(sock[i], r) /\ r.eventMask = sock[i].eventMask
      /\ r.eventFlags = sock[i].eventFlags /\ r.rx = sock[i].rx /\ r.tx = sock[i].tx
  <2>1. CASE r = [sock[i] EXCEPT !.event = FALSE]
    BY <1>1, <2>1 DEF Socket, SameConnection
  <2>2. CASE r = [sock[i] EXCEPT !.userEvent = None]
    BY <1>1, <2>2 DEF Socket, SameConnection
  <2> QED BY <2>1, <2>2
<1>3. Sound(r)
  BY <1>1, <1>2 DEF Sound, SameConnection
<1> QED BY <1>2, <1>3, SameConditions DEF SameConnection

\* A thread in a call goes on to another phase of it.
LEMMA PhaseTyped ==
    ASSUME TableInv, NEW t \in Threads, NEW phase \in {"waiting", "woken"},
           thread' = [thread EXCEPT ![t].phase = phase]
    PROVE  thread' \in [Threads -> InCalls]
BY DEF TableInv, ThreadsOK, InCalls

\* A thread outside of calls is well typed.
LEMMA IdleTyped ==
    Idle \in InCalls
BY TableAssumption DEF Idle, InCalls

\* A thread that returns leaves the others as they are.
LEMMA LeaveKeeps ==
    ASSUME TableInv, NEW t \in Threads, Leave(t), signalled' \in SUBSET Threads
    PROVE  ThreadsOK'
BY IdleTyped DEF Leave, TableInv, ThreadsOK

\* A thread that wakes up takes the event of its socket.
LEMMA WakeKeepsTable ==
    ASSUME TableInv, NEW t \in Threads, Wake(t) \/ Timeout(t)
    PROVE  TableInv'
<1> DEFINE i == thread[t].on
           r == [sock[i] EXCEPT !.event = FALSE]
<1>1. i \in Sockets /\ sock \in [Sockets -> Socket]
  BY DEF TableInv, ThreadsOK, InCalls, SocketsOK
<1>2. /\ timeWait' = timeWait /\ held' = held /\ shared' = shared /\ recycled' = recycled
      /\ thread' = [thread EXCEPT ![t].phase = "woken"]
      /\ signalled' \in SUBSET Threads
      /\ sock' = sock \/ sock' = [sock EXCEPT ![i].event = FALSE]
  BY DEF Wake, Timeout, TableInv, ThreadsOK
<1>3. SocketsOK' /\ TimersOK' /\ HandlesOK'
  <2>1. CASE sock' = sock
    BY <1>2, <2>1, TimersSame DEF TableInv, SocketsOK, HandlesOK
  <2>2. CASE sock' = [sock EXCEPT ![i].event = FALSE]
    <3>1. sock' = [sock EXCEPT ![i] = r]
      BY <1>1, <2>2
    <3>2. Sound(r) /\ SameConnection(sock[i], r)
      BY <1>1, ClearedFacts
    <3> HIDE DEF r
    <3> QED BY <1>1, <1>2, <3>1, <3>2, ReplacedAlike DEF SameConnection
  <2> QED BY <1>2, <2>1, <2>2
<1>4. ThreadsOK'
  BY <1>2, PhaseTyped DEF TableInv, ThreadsOK
<1> QED BY <1>3, <1>4 DEF TableInv

\* A call returns with what its result leaves of the socket.
LEMMA ReturnStores ==
    ASSUME TableInv, NEW t \in Threads, Return(t)
    PROVE  /\ Leave(t) /\ UNCHANGED <<timeWait, held>>
           /\ thread[t].phase = "woken" /\ thread[t].call \notin {"accept", "poll"}
           /\ \/ sock' = sock /\ signalled' = signalled
              \/ \E r : /\ Put(thread[t].on, r) /\ Sound(r)
                        /\ SameOwner(sock[thread[t].on], r)
                        /\ r.state = sock[thread[t].on].state
                        /\ r.resetFlag = sock[thread[t].on].resetFlag
<1> DEFINE i == thread[t].on
<1>1. i \in Sockets /\ Sound(sock[i])
  BY DEF TableInv, ThreadsOK, InCalls, SocketsOK
<1>2. PICK r \in Results(thread[t].call, sock[i]) :
        IF r = sock[i] THEN UNCHANGED <<sock, signalled>> ELSE Put(i, r)
  BY DEF Return
<1>3. Sound(r) /\ SameOwner(sock[i], r) /\ r.state = sock[i].state
      /\ r.resetFlag = sock[i].resetFlag
  BY <1>1, ResultsFacts
<1> QED BY <1>2, <1>3 DEF Return

\* The return of a call that waited for a condition keeps the table.
LEMMA ReturnKeepsTable ==
    ASSUME TableInv, NEW t \in Threads, Return(t)
    PROVE  TableInv'
<1> DEFINE i == thread[t].on
<1>1. /\ Leave(t) /\ UNCHANGED <<timeWait, held>>
      /\ \/ sock' = sock /\ signalled' = signalled
         \/ \E r : /\ Put(i, r) /\ Sound(r)
                   /\ SameOwner(sock[i], r) /\ r.state = sock[i].state
  BY ReturnStores
<1>2. i \in Sockets
  BY DEF TableInv, ThreadsOK, InCalls
<1> HIDE DEF i
<1>3. CASE sock' = sock /\ signalled' = signalled
  <2>1. SocketsOK' /\ TimersOK' /\ HandlesOK'
    BY <1>1, <1>3, TimersSame DEF TableInv, SocketsOK, HandlesOK
  <2>2. ThreadsOK'
    BY <1>1, <1>3, LeaveKeeps DEF TableInv, ThreadsOK
  <2> QED BY <2>1, <2>2 DEF TableInv
<1>4. ASSUME NEW r, Put(i, r), Sound(r), SameOwner(sock[i], r), r.state = sock[i].state
      PROVE  TableInv'
  <2>1. SocketsOK' /\ TimersOK' /\ HandlesOK'
    BY <1>1, <1>2, <1>4, ReplacedAlike DEF Put, SameOwner
  <2>2. signalled' \in SUBSET Threads
    BY <1>4, NotifiedThreads DEF Put, Sound, TableInv, ThreadsOK
  <2>3. ThreadsOK'
    BY <1>1, <2>2, LeaveKeeps
  <2> QED BY <2>1, <2>3 DEF TableInv
<1> QED BY <1>1, <1>3, <1>4

\* The return of socketPoll keeps the table.
LEMMA PollReturnKeepsTable ==
    ASSUME TableInv, NEW t \in Threads, PollReturn(t)
    PROVE  TableInv'
<1> DEFINE i == thread[t].on
           r == [sock[i] EXCEPT !.userEvent = None]
<1>1. i \in Sockets /\ sock \in [Sockets -> Socket]
  BY DEF TableInv, ThreadsOK, InCalls, SocketsOK
<1>2. /\ sock' = [sock EXCEPT ![i].userEvent = None] /\ signalled' = signalled \ {t}
      /\ Leave(t) /\ timeWait' = timeWait /\ held' = held
  BY DEF PollReturn
<1>3. sock' = [sock EXCEPT ![i] = r]
  BY <1>1, <1>2
<1>4. Sound(r) /\ SameConnection(sock[i], r)
  BY <1>1, ClearedFacts
<1> HIDE DEF r, i
<1>5. SocketsOK' /\ TimersOK' /\ HandlesOK'
  BY <1>1, <1>2, <1>3, <1>4, ReplacedAlike DEF SameConnection
<1>6. ThreadsOK'
  BY <1>2, LeaveKeeps DEF TableInv, ThreadsOK
<1> QED BY <1>5, <1>6 DEF TableInv

-----------------------------------------------------------------------------
(* Every step keeps the invariant of the table: tcpAccept.                 *)

\* The first section of tcpAccept changes no socket.
LEMMA AcceptCheckKeepsTable ==
    ASSUME TableInv, NEW t \in Threads, NEW i \in Sockets, AcceptCheck(t, i)
    PROVE  TableInv'
<1>1. /\ shared' = Joined(t, i)
      /\ thread' = [thread EXCEPT ![t] =
                      [call |-> "accept", on |-> i, phase |-> "checked"]]
      /\ UNCHANGED <<sock, timeWait, held, signalled, recycled>>
  BY DEF AcceptCheck
<1>2. SocketsOK' /\ TimersOK' /\ HandlesOK'
  BY <1>1, TimersSame DEF TableInv, SocketsOK, HandlesOK
<1>3. "accept" \in AllCalls
  BY DEF AllCalls
<1>4. thread' \in [Threads -> InCalls]
  BY <1>1, <1>3, InCallTyped
<1>5. ThreadsOK'
  BY <1>1, <1>4, JoinedThreads DEF TableInv, ThreadsOK
<1> QED BY <1>2, <1>5 DEF TableInv

\* The listener as a thread that waits in tcpAccept leaves it: its queue is empty.
LEMMA AcceptBlockStores ==
    ASSUME TableInv, NEW t \in Threads, AcceptBlock(t), NEW i, i = thread[t].on
    PROVE  \E r : /\ i \in Sockets /\ sock' = [sock EXCEPT ![i] = r]
                  /\ Sound(r) /\ SameConnection(sock[i], r)
                  /\ r.eventMask = Mask("accept") /\ r.synQueue = << >>
                  /\ thread' = [thread EXCEPT ![t] =
                                  [call |-> "accept", on |-> i, phase |-> "waiting"]]
                  /\ Accepting(t, {"checked"})
                  /\ UNCHANGED <<signalled, timeWait, held, shared, recycled>>
<1> DEFINE m == [sock[i] EXCEPT !.eventMask = Mask("accept")]
           r == [m EXCEPT !.event = FALSE]
<1>1. i \in Sockets /\ Sound(sock[i]) /\ sock[i] \in Socket
  BY DEF TableInv, ThreadsOK, InCalls, SocketsOK
<1>2. Mask("accept") \in SUBSET Events
  BY DEF Mask, Events
<1>3. /\ sock' = [sock EXCEPT ![i] = r]
      /\ thread' = [thread EXCEPT ![t] =
                      [call |-> "accept", on |-> i, phase |-> "waiting"]]
      /\ Accepting(t, {"checked"}) /\ sock[i].synQueue = << >>
      /\ UNCHANGED <<signalled, timeWait, held, shared, recycled>>
  BY DEF AcceptBlock, Block
<1>4. m \in Socket /\ SameConnection(sock[i], m) /\ m.rx = sock[i].rx /\ m.tx = sock[i].tx
      /\ m.eventMask = Mask("accept")
  BY <1>1, <1>2 DEF Socket, SameConnection
<1> HIDE DEF m
<1>5. r \in Socket /\ SameConnection(m, r) /\ r.rx = m.rx /\ r.tx = m.tx
      /\ r.eventMask = m.eventMask
  BY <1>4 DEF Socket, SameConnection
<1> HIDE DEF r
<1>6. Sound(r) /\ SameConnection(sock[i], r) /\ r.synQueue = << >>
  BY <1>1, <1>3, <1>4, <1>5 DEF Sound, SameConnection
<1> QED BY <1>1, <1>3, <1>4, <1>5, <1>6

\* tcpAccept keeps the table when it waits for a SYN.
LEMMA AcceptBlockKeepsTable ==
    ASSUME TableInv, NEW t \in Threads, AcceptBlock(t)
    PROVE  TableInv'
<1> DEFINE i == thread[t].on
<1>1. PICK r : /\ i \in Sockets /\ sock' = [sock EXCEPT ![i] = r]
               /\ Sound(r) /\ SameConnection(sock[i], r)
               /\ thread' = [thread EXCEPT ![t] =
                               [call |-> "accept", on |-> i, phase |-> "waiting"]]
               /\ UNCHANGED <<signalled, timeWait, held, shared, recycled>>
  BY AcceptBlockStores
<1> HIDE DEF i
<1>2. SocketsOK' /\ TimersOK' /\ HandlesOK'
  BY <1>1, ReplacedAlike DEF SameConnection
<1>3. "accept" \in AllCalls
  BY DEF AllCalls
<1>4. thread' \in [Threads -> InCalls]
  BY <1>1, <1>3, InCallTyped
<1>5. ThreadsOK'
  BY <1>1, <1>4 DEF TableInv, ThreadsOK
<1> QED BY <1>2, <1>5 DEF TableInv

\* tcpAccept keeps the table when it returns without a socket.
LEMMA AcceptNothingKeepsTable ==
    ASSUME TableInv, NEW t \in Threads, AcceptNothing(t)
    PROVE  TableInv'
<1>1. Leave(t) /\ UNCHANGED <<sock, timeWait, held, signalled>>
  BY DEF AcceptNothing
<1>2. SocketsOK' /\ TimersOK' /\ HandlesOK'
  BY <1>1, TimersSame DEF TableInv, SocketsOK, HandlesOK
<1>3. ThreadsOK'
  BY <1>1, LeaveKeeps DEF TableInv, ThreadsOK
<1> QED BY <1>2, <1>3 DEF TableInv

\* The thread whose turn it is has the listener, which no allocation takes.
LEMMA TurnFacts ==
    ASSUME TableInv, NEW t \in Threads, Turn(t)
    PROVE  /\ thread[t].on = Listener /\ thread[t].call = "accept"
           /\ thread[t].phase \in {"checked", "woken"}
           /\ sock[Listener].synQueue # << >> /\ sock[Listener].state = "LISTEN"
           /\ sock[Listener].type = "STREAM" /\ sock[Listener].port = Service
           /\ sock[Listener].remote = None
           /\ Sound(sock[Listener]) /\ sock[Listener] \in Socket
           /\ CanAllocate => Allocated # Listener
<1>1. thread[t].on \in Sockets /\ Accepting(t, {"checked", "woken"})
      /\ sock[thread[t].on].synQueue # << >>
  BY DEF Turn, TableInv, ThreadsOK, InCalls
<1>2. thread[t].on = Listener /\ sock[Listener].state = "LISTEN"
  BY <1>1 DEF TableInv, SocketsOK, Sound
<1>3. Sound(sock[Listener]) /\ sock[Listener] \in Socket
  BY TableAssumption DEF TableInv, SocketsOK
<1>4. sock[Listener].type = "STREAM"
  BY <1>2, <1>3 DEF Sound, Socket
<1> QED BY <1>1, <1>2, <1>3, <1>4, AllocatedFacts DEF Accepting, Sound

\* tcpAccept takes SYN n + 1: a socket of its own for the connection, and what
\* follows in the queue of the listener.
LEMMA TakesStores ==
    ASSUME TableInv, NEW t \in Threads, NEW n \in 0 .. Backlog - 1, AcceptTakes(t, n)
    PROVE  \E r, l :
              /\ sock' = [sock EXCEPT ![Allocated] = r, ![Listener] = l]
              /\ Sound(r) /\ r.type = "STREAM" /\ r.state = "SYN_RECEIVED" /\ r.owned
              /\ r.port = Service /\ r.remote = sock[Listener].synQueue[n + 1]
              /\ r.remote \in Peers /\ r.synQueue = << >>
              /\ n < Len(sock[Listener].synQueue)
              /\ AllocatedEvent => r.event
              /\ Sound(l) /\ SameOwner([sock[Listener] EXCEPT !.synQueue = l.synQueue], l)
              /\ l.state = "LISTEN" /\ Updated(sock[Listener], l)
              /\ l.synQueue = SubSeq(sock[Listener].synQueue, n + 2,
                                     Len(sock[Listener].synQueue))
              /\ signalled' = signalled \cup KillNotifies \cup Notified(l)
              /\ timeWait' = AfterKill /\ Hand(t, Allocated)
              /\ thread' = [thread EXCEPT ![t] = Idle] /\ shared' = shared \ {t}
<1> DEFINE l == sock[Listener]
           q == l.synQueue
           q2 == SubSeq(q, n + 2, Len(q))
           f == [Fresh(AllocatedEvent) EXCEPT
                   !.port = l.port, !.remote = q[n + 1], !.owned = TRUE]
           r == ChangeState(f, "SYN_RECEIVED")
           m == [l EXCEPT !.synQueue = q2]
           l2 == UpdateEvents(m)
<1>1. /\ Turn(t) /\ CanAllocate /\ n < Len(q)
  <2>1. thread[t].on = Listener
    BY TurnFacts DEF AcceptTakes
  <2> QED BY <2>1 DEF AcceptTakes
<1>2. /\ thread[t].on = Listener /\ l.state = "LISTEN" /\ l.type = "STREAM"
      /\ l.port = Service /\ Sound(l) /\ l \in Socket
  BY <1>1, TurnFacts
<1>3. /\ sock' = [sock EXCEPT ![Allocated] = r, ![Listener] = l2]
      /\ signalled' = signalled \cup KillNotifies \cup Notified(l2)
      /\ timeWait' = AfterKill /\ Hand(t, Allocated)
      /\ thread' = [thread EXCEPT ![t] = Idle] /\ shared' = shared \ {t}
  BY <1>2 DEF AcceptTakes
<1>4. /\ q \in Seq(Peers) /\ Len(q) \in Nat /\ n \in Nat
      /\ q[n + 1] \in Peers
  BY <1>1, <1>2 DEF Socket
<1>5. q2 \in Seq(Peers)
  BY <1>4
<1>6. AllocatedEvent \in BOOLEAN
  BY <1>1, AllocatedFacts
<1>7. LET e == Fresh(AllocatedEvent) IN
      /\ e \in Socket /\ e.type = "STREAM" /\ e.state = "CLOSED"
      /\ e.synQueue = << >> /\ e.event = AllocatedEvent /\ e.tx = "acked" /\ ~e.rx
  BY <1>6, FreshFacts DEF Sound
<1> HIDE DEF q, q2
<1>8. /\ f \in Socket /\ f.type = "STREAM" /\ f.state = "CLOSED" /\ f.port = Service
      /\ f.remote = q[n + 1] /\ f.owned /\ f.synQueue = << >>
      /\ f.event = AllocatedEvent /\ f.tx = "acked" /\ ~f.rx
  BY <1>2, <1>4, <1>7 DEF Socket
<1> HIDE DEF f
<1>9. Sound(f) /\ "SYN_RECEIVED" \in States
  BY <1>8 DEF Sound, States
<1>10. /\ Sound(r) /\ r.state = "SYN_RECEIVED" /\ SameOwner(f, r) /\ Updated(f, r)
  BY <1>8, <1>9, ChangeStateFacts
<1>11. /\ m \in Socket /\ Sound(m) /\ m.state = "LISTEN" /\ m.event = l.event
       /\ m.synQueue = q2
  BY <1>2, <1>5, QueueSet
<1>12. m = [l EXCEPT !.synQueue = q2]
  OBVIOUS
<1> HIDE DEF r, m
<1>13. /\ Sound(l2) /\ SameOwner(m, l2) /\ l2.state = "LISTEN" /\ Updated(l, l2)
       /\ l2.synQueue = q2
  BY <1>11, UpdateEventsFacts, UpdateEventsSound DEF Updated, SameOwner
<1> HIDE DEF l2
<1>14. /\ r.type = "STREAM" /\ r.owned /\ r.port = Service /\ r.remote = q[n + 1]
       /\ r.synQueue = << >> /\ (AllocatedEvent => r.event)
  BY <1>8, <1>10 DEF SameOwner, Updated
<1>15. SameOwner([sock[Listener] EXCEPT !.synQueue = l2.synQueue], l2)
  BY <1>12, <1>13
<1> QED BY <1>1, <1>3, <1>4, <1>10, <1>13, <1>14, <1>15 DEF q, q2

\* tcpAccept keeps the table when it takes a descriptor for a SYN.
LEMMA TakesKeepsTable ==
    ASSUME TableInv, NEW t \in Threads, NEW n \in 0 .. Backlog - 1, AcceptTakes(t, n)
    PROVE  TableInv'
<1> DEFINE a == Allocated
<1>1. PICK r, l :
              /\ sock' = [sock EXCEPT ![a] = r, ![Listener] = l]
              /\ Sound(r) /\ r.type = "STREAM" /\ r.state = "SYN_RECEIVED" /\ r.owned
              /\ Sound(l) /\ SameOwner([sock[Listener] EXCEPT !.synQueue = l.synQueue], l)
              /\ l.state = "LISTEN"
              /\ signalled' = signalled \cup KillNotifies \cup Notified(l)
              /\ timeWait' = AfterKill /\ Hand(t, a)
              /\ thread' = [thread EXCEPT ![t] = Idle] /\ shared' = shared \ {t}
  BY TakesStores
<1>2. /\ Turn(t) /\ CanAllocate
  BY DEF AcceptTakes
<1>3. /\ sock[Listener].state = "LISTEN" /\ sock[Listener].type = "STREAM"
      /\ a # Listener /\ Listener \in Sockets /\ sock[Listener] \in Socket
  BY <1>2, TurnFacts, TableAssumption
<1>4. a \in Sockets /\ KillNotifies \subseteq Threads
  BY <1>2, AllocatedFacts
<1>5. l.type = "STREAM" /\ l.owned = sock[Listener].owned /\ l \in Socket /\ r \in Socket
  BY <1>1, <1>3 DEF SameOwner, Sound
<1> HIDE DEF a
<1>6. /\ sock'[a] = r /\ sock'[Listener] = l
      /\ \A j \in Sockets \ {a, Listener} : sock'[j] = sock[j]
      /\ sock' \in [Sockets -> Socket]
  BY <1>1, <1>3, <1>4, <1>5 DEF TableInv, SocketsOK
<1>7. SocketsOK'
  BY <1>1, <1>6 DEF TableInv, SocketsOK
<1>8. TimersOK'
  BY <1>1, <1>2, <1>3, <1>6, AllocationTimers DEF a
<1>9. held' \in [Sockets -> 0 .. 2] /\ held'[a] > 0
      /\ \A j \in Sockets \ {a} : held'[j] = held[j]
  BY <1>1, <1>4 DEF Hand, TableInv, HandlesOK
<1>10. HandlesOK'
  BY <1>1, <1>3, <1>4, <1>5, <1>6, <1>9 DEF TableInv, HandlesOK, InHands
<1>11. ThreadsOK'
  <2>1. thread' \in [Threads -> InCalls]
    BY <1>1, IdleTyped DEF TableInv, ThreadsOK
  <2>2. signalled' \in SUBSET Threads
    BY <1>1, <1>4, <1>5, NotifiedThreads DEF TableInv, ThreadsOK
  <2>3. recycled' \in SUBSET Threads
    BY <1>1 DEF Hand, Company, TableInv, ThreadsOK
  <2> QED BY <1>1, <2>1, <2>2, <2>3 DEF TableInv, ThreadsOK
<1> QED BY <1>7, <1>8, <1>10, <1>11 DEF TableInv

\* tcpAccept finds no memory for any SYN: the queue of the listener is empty, and
\* the descriptor that was allocated for one, if any, is free.
LEMMA DropsStores ==
    ASSUME TableInv, NEW t \in Threads, AcceptDropsAll(t)
    PROVE  \E l, r :
              /\ sock' \in [Sockets -> Socket]
              /\ sock'[Listener] = l /\ Sound(l) /\ l.type = "STREAM"
              /\ l.state = "LISTEN" /\ l.synQueue = << >>
              /\ l.owned = sock[Listener].owned
              /\ l.port = sock[Listener].port /\ l.remote = sock[Listener].remote
              /\ l.eventMask = Mask("accept") /\ l.userEvent = sock[Listener].userEvent
              /\ Sound(r) /\ r.type = "UNUSED" /\ r.state = "CLOSED"
              /\ (CanAllocate => sock'[Allocated] = r /\ (AllocatedEvent => r.event))
              /\ \A j \in Sockets \ {Listener} :
                    ~CanAllocate \/ j # Allocated => sock'[j] = sock[j]
              /\ Turn(t)
              /\ signalled' = signalled \cup KillNotifies /\ timeWait' = AfterKill
              /\ thread' = [thread EXCEPT ![t].phase = "waiting"]
              /\ recycled' = recycled \cup
                   UNION {Company(t, j) : j \in IF CanAllocate THEN {Allocated} ELSE {}}
              /\ UNCHANGED <<held, shared>>
<1> DEFINE freed == IF CanAllocate THEN {Allocated} ELSE {}
           l == [sock[Listener] EXCEPT !.synQueue = << >>, !.eventMask = Mask("accept"),
                                       !.event = FALSE]
           r == IF CanAllocate THEN Dispose(Fresh(AllocatedEvent))
                               ELSE Dispose(Fresh(FALSE))
<1>1. Turn(t) /\ thread[t].on = Listener
  BY TurnFacts DEF AcceptDropsAll
<1>2. /\ sock' = [j \in Sockets |->
                    IF j \in freed THEN Dispose(Fresh(AllocatedEvent))
                    ELSE IF j = Listener THEN l ELSE sock[j]]
      /\ signalled' = signalled \cup KillNotifies /\ timeWait' = AfterKill
      /\ thread' = [thread EXCEPT ![t].phase = "waiting"]
      /\ recycled' = recycled \cup UNION {Company(t, j) : j \in freed}
      /\ held' = held /\ shared' = shared
  BY <1>1 DEF AcceptDropsAll
<1>3. /\ sock[Listener].state = "LISTEN" /\ sock[Listener].type = "STREAM"
      /\ sock[Listener].remote = None /\ sock[Listener].port = Service
      /\ Sound(sock[Listener]) /\ sock[Listener] \in Socket
      /\ (CanAllocate => Allocated # Listener)
  BY <1>1, TurnFacts
<1>4. Mask("accept") \in SUBSET Events /\ << >> \in Seq(Peers) /\ FALSE \in BOOLEAN
  BY DEF Mask, Events
<1>5. /\ l \in Socket /\ l.type = "STREAM" /\ l.state = "LISTEN" /\ l.synQueue = << >>
      /\ l.owned = sock[Listener].owned /\ l.port = sock[Listener].port
      /\ l.remote = sock[Listener].remote /\ l.eventMask = Mask("accept")
      /\ l.userEvent = sock[Listener].userEvent
      /\ l.rx = sock[Listener].rx /\ l.tx = sock[Listener].tx
  BY <1>3, <1>4 DEF Socket
<1>6. CanAllocate => AllocatedEvent \in BOOLEAN /\ Allocated \in Sockets
  BY AllocatedFacts
<1>7. ASSUME NEW e \in BOOLEAN
      PROVE  LET d == Dispose(Fresh(e)) IN
             /\ Sound(d) /\ d \in Socket /\ d.type = "UNUSED" /\ d.state = "CLOSED"
             /\ (e => d.event)
  BY FreshFacts, DisposeFacts DEF Sound
<1>8. /\ Sound(r) /\ r \in Socket /\ r.type = "UNUSED" /\ r.state = "CLOSED"
      /\ (CanAllocate => r = Dispose(Fresh(AllocatedEvent)) /\ (AllocatedEvent => r.event))
  BY <1>4, <1>6, <1>7
<1> HIDE DEF l, r
<1>9. Sound(l)
  BY <1>3, <1>5 DEF Sound
<1>10. Listener \in Sockets /\ sock \in [Sockets -> Socket]
  BY TableAssumption DEF TableInv, SocketsOK
<1>11. \A j \in Sockets : /\ j \in freed => sock'[j] = r
                          /\ j \notin freed /\ j = Listener => sock'[j] = l
                          /\ j \notin freed /\ j # Listener => sock'[j] = sock[j]
  BY <1>2, <1>8
<1>12. sock'[Listener] = l /\ (CanAllocate => sock'[Allocated] = r)
  BY <1>3, <1>6, <1>10, <1>11
<1>13. \A j \in Sockets \ {Listener} : ~CanAllocate \/ j # Allocated => sock'[j] = sock[j]
  BY <1>11
<1>14. sock' \in [Sockets -> Socket]
  BY <1>2, <1>5, <1>8, <1>10
<1> QED BY <1>1, <1>2, <1>5, <1>8, <1>9, <1>12, <1>13, <1>14

\* tcpAccept keeps the table when no SYN of the queue gets a socket.
LEMMA DropsKeepsTable ==
    ASSUME TableInv, NEW t \in Threads, AcceptDropsAll(t)
    PROVE  TableInv'
<1> DEFINE a == Allocated
<1>1. PICK l, r :
              /\ sock' \in [Sockets -> Socket]
              /\ sock'[Listener] = l /\ Sound(l) /\ l.type = "STREAM"
              /\ l.state = "LISTEN" /\ l.synQueue = << >>
              /\ l.owned = sock[Listener].owned
              /\ Sound(r) /\ r.type = "UNUSED" /\ r.state = "CLOSED"
              /\ (CanAllocate => sock'[a] = r)
              /\ \A j \in Sockets \ {Listener} :
                    ~CanAllocate \/ j # a => sock'[j] = sock[j]
              /\ Turn(t)
              /\ signalled' = signalled \cup KillNotifies /\ timeWait' = AfterKill
              /\ thread' = [thread EXCEPT ![t].phase = "waiting"]
              /\ recycled' = recycled \cup
                   UNION {Company(t, j) : j \in IF CanAllocate THEN {a} ELSE {}}
              /\ UNCHANGED <<held, shared>>
  BY DropsStores
<1>2. /\ sock[Listener].state = "LISTEN" /\ sock[Listener].type = "STREAM"
      /\ Listener \in Sockets /\ (CanAllocate => a # Listener)
  BY <1>1, TurnFacts, TableAssumption
<1>3. /\ CanAllocate => a \in Sockets
      /\ KillNotifies \subseteq Threads
  BY AllocatedFacts, NothingAllocated
<1>4. ~CanAllocate => timeWait' = timeWait
  BY <1>1, NothingAllocated
<1>5. SocketsOK'
  <2> HIDE DEF a
  <2>1. ASSUME NEW j \in Sockets
        PROVE  Sound(sock'[j]) /\ (sock'[j].state = "LISTEN" => j = Listener)
    BY <1>1 DEF TableInv, SocketsOK
  <2> QED BY <1>1, <2>1 DEF SocketsOK
<1>6. TimersOK'
  <2>1. CASE CanAllocate
    <3>1. /\ sock'[a].state # "TIME_WAIT"
          /\ \A j \in Sockets \ {a} :
               sock'[j].state = "TIME_WAIT" <=> sock[j].state = "TIME_WAIT"
      <4> HIDE DEF a
      <4> QED BY <1>1, <1>2, <2>1
    <3> QED BY <1>1, <2>1, <3>1, AllocationTimers
  <2>2. CASE ~CanAllocate
    <3>1. \A j \in Sockets : sock'[j].state = "TIME_WAIT" <=> sock[j].state = "TIME_WAIT"
      BY <1>1, <1>2, <2>2
    <3> QED BY <1>4, <2>2, <3>1, TimersSame DEF TableInv
  <2> QED BY <2>1, <2>2
<1> HIDE DEF a
<1>7. HandlesOK'
  <2>1. ASSUME NEW j \in Sockets
        PROVE  InHands(sock'[j], held[j])
    <3>1. CASE j = Listener
      BY <1>1, <1>2, <3>1 DEF TableInv, HandlesOK, InHands
    <3>2. CASE j # Listener /\ CanAllocate /\ j = a
      BY <1>1, <3>2 DEF InHands
    <3>3. CASE j # Listener /\ ~(CanAllocate /\ j = a)
      BY <1>1, <3>3 DEF TableInv, HandlesOK
    <3> QED BY <3>1, <3>2, <3>3
  <2> QED BY <1>1, <2>1 DEF TableInv, HandlesOK
<1>8. ThreadsOK'
  <2>1. thread' \in [Threads -> InCalls]
    BY <1>1, PhaseTyped
  <2>2. recycled' \in SUBSET Threads
    BY <1>1 DEF Company, TableInv, ThreadsOK
  <2> QED BY <1>1, <1>3, <2>1, <2>2 DEF TableInv, ThreadsOK
<1> QED BY <1>5, <1>6, <1>7, <1>8 DEF TableInv

-----------------------------------------------------------------------------
(* The table.                                                              *)

\* The calls of the threads keep the table.
LEMMA UserKeepsTable ==
    ASSUME TableInv, NEW t \in Threads, User(t) \/ InCall(t) \/ Timeout(t)
    PROVE  TableInv'
<1>1. CASE User(t)
  <2>1. CASE Open(t)
    BY <2>1, OpenKeepsTable
  <2>2. ASSUME NEW i \in Sockets, NEW c \in Calls[t], Enter(t, i, c)
        PROVE  TableInv'
    BY <2>2, EnterKeepsTable
  <2>3. ASSUME NEW i \in Sockets, NEW p \in Peers, Connect(t, i, p)
        PROVE  TableInv'
    BY <2>3, ConnectKeepsTable
  <2>4. ASSUME NEW i \in Sockets, Close(t, i) \/ ShutdownFin(t, i) \/ Poll(t, i)
                                    \/ AcceptCheck(t, i)
        PROVE  TableInv'
    BY <2>4, CloseKeepsTable, ShutdownKeepsTable, PollKeepsTable, AcceptCheckKeepsTable
  <2> QED BY <1>1, <2>1, <2>2, <2>3, <2>4 DEF User
<1>2. CASE InCall(t)
  <2>1. ASSUME NEW n \in 0 .. Backlog - 1, AcceptTakes(t, n)
        PROVE  TableInv'
    BY <2>1, TakesKeepsTable
  <2> QED BY <1>2, <2>1, WakeKeepsTable, ReturnKeepsTable, PollReturnKeepsTable,
             AcceptBlockKeepsTable, AcceptNothingKeepsTable, DropsKeepsTable
          DEF InCall
<1>3. CASE Timeout(t)
  BY <1>3, WakeKeepsTable
<1> QED BY <1>1, <1>2, <1>3

\* A step that changes nothing keeps the table.
LEMMA StutterKeepsTable ==
    ASSUME TableInv, UNCHANGED vars
    PROVE  TableInv'
<1>1. UNCHANGED <<sock, timeWait, held, thread, signalled, shared, recycled>>
  BY DEF vars
<1> QED BY <1>1, TimersSame DEF TableInv, SocketsOK, HandlesOK, ThreadsOK

\* The listener and the free descriptors of the start are as they should be.
LEMMA InitTable ==
    ASSUME Init
    PROVE  TableInv
<1> DEFINE l == [Fresh(FALSE) EXCEPT !.state = "LISTEN", !.port = Service]
           u == Unused(FALSE)
<1>1. /\ "acked" \in TxLevels /\ "CLOSED" \in States /\ "LISTEN" \in States
      /\ << >> \in Seq(Peers) /\ {} \in SUBSET Events /\ FALSE \in BOOLEAN
  BY TableAssumption DEF States
<1>2. u \in Socket /\ Sound(u) /\ u.type = "UNUSED" /\ u.state = "CLOSED"
  <2>1. u \in Socket
    BY <1>1 DEF Unused, Socket
  <2>2. u.type = "UNUSED" /\ u.state = "CLOSED" /\ u.remote = None /\ ~u.rx
        /\ u.tx = "acked" /\ u.synQueue = << >>
    BY DEF Unused
  <2> QED BY <2>1, <2>2 DEF Sound
<1>3. /\ Fresh(FALSE) \in Socket /\ Fresh(FALSE).type = "STREAM"
      /\ Fresh(FALSE).remote = None /\ Fresh(FALSE).synQueue = << >>
      /\ Fresh(FALSE).tx = "acked" /\ ~Fresh(FALSE).rx
  BY <1>1, FreshFacts DEF Sound
<1>4. l \in Socket /\ Sound(l) /\ l.type = "STREAM" /\ l.state = "LISTEN"
  <2>1. /\ l \in Socket /\ l.type = "STREAM" /\ l.state = "LISTEN" /\ l.port = Service
        /\ l.remote = None /\ l.synQueue = << >> /\ l.tx = "acked" /\ ~l.rx
    BY <1>1, <1>3 DEF Socket
  <2> HIDE DEF l
  <2> QED BY <2>1 DEF Sound
<1>5. /\ sock = [i \in Sockets |-> IF i = Listener THEN l ELSE u]
      /\ timeWait = << >> /\ held = [i \in Sockets |-> IF i = Listener THEN 1 ELSE 0]
      /\ thread = [t \in Threads |-> Idle]
      /\ signalled = {} /\ shared = {} /\ recycled = {}
  BY DEF Init
<1> HIDE DEF l, u
<1>6. SocketsOK
  BY <1>2, <1>4, <1>5 DEF SocketsOK
<1>7. TimersOK
  BY <1>2, <1>4, <1>5 DEF TimersOK, Runs
<1>8. HandlesOK
  BY <1>2, <1>4, <1>5 DEF HandlesOK, InHands
<1>9. ThreadsOK
  BY <1>5, IdleTyped DEF ThreadsOK
<1> QED BY <1>6, <1>7, <1>8, <1>9 DEF TableInv

\* Every step keeps the table.
LEMMA NextTable ==
    ASSUME TableInv, [Next]_vars
    PROVE  TableInv'
BY NetworkKeepsTable, UserKeepsTable, StutterKeepsTable DEF Next

\* The inductive invariant of the table holds in every reachable state.
LEMMA TableInvariant == Spec => []TableInv
<1>1. Init => TableInv
  BY InitTable
<1>2. TableInv /\ [Next]_vars => TableInv'
  BY NextTable
<1> QED BY <1>1, <1>2, PTL DEF Spec

\* As many entries for a socket as there should be.
LEMMA OneTimer ==
    ASSUME TableInv, NEW i \in Sockets
    PROVE  Cardinality({k \in 1 .. Len(timeWait) : timeWait[k] = i})
             = IF sock[i].state = "TIME_WAIT" THEN 1 ELSE 0
<1> DEFINE E == {k \in 1 .. Len(timeWait) : timeWait[k] = i}
<1>1. CASE sock[i].state = "TIME_WAIT"
  <2>1. PICK k \in 1 .. Len(timeWait) : timeWait[k] = i
    BY <1>1 DEF TableInv, TimersOK, Runs
  <2>2. E = {k}
    BY <2>1 DEF TableInv, TimersOK
  <2> QED BY <1>1, <2>2, FS_Singleton
<1>2. CASE sock[i].state # "TIME_WAIT"
  <2>1. E = {}
    BY <1>2 DEF TableInv, TimersOK, Runs
  <2> QED BY <1>2, <2>1, FS_EmptySet
<1> QED BY <1>1, <1>2

\* The variables are of their types; in particular timeWait holds each socket in
\* TIME_WAIT exactly once, and nothing else.
THEOREM TypeCorrect == Spec => []TypeOK
<1>1. TableInv => TypeOK
  <2> SUFFICES ASSUME TableInv PROVE TypeOK
    OBVIOUS
  <2>1. timeWait \in Seq({i \in Sockets : sock[i].type = "STREAM"})
    <3>1. timeWait \in Seq(Sockets) /\ Len(timeWait) \in Nat
      BY DEF TableInv, TimersOK
    <3>2. \A k \in 1 .. Len(timeWait) : sock[timeWait[k]].type = "STREAM"
      <4> TAKE k \in 1 .. Len(timeWait)
      <4>1. timeWait[k] \in Sockets /\ Runs(timeWait[k])
        BY <3>1 DEF Runs
      <4>2. sock[timeWait[k]].state = "TIME_WAIT"
        BY <4>1 DEF TableInv, TimersOK
      <4> QED BY <4>1, <4>2 DEF TableInv, SocketsOK, Sound, Socket
    <3> QED BY <3>1, <3>2
  <2>2. \A i \in Sockets :
           Cardinality({k \in 1 .. Len(timeWait) : timeWait[k] = i})
             = IF sock[i].state = "TIME_WAIT" THEN 1 ELSE 0
    BY OneTimer
  <2> QED BY <2>1, <2>2
          DEF TypeOK, TableInv, SocketsOK, HandlesOK, ThreadsOK, InCalls
<1> QED BY <1>1, TableInvariant, PTL

\* A descriptor whose handle nobody has is free, or its 2MSL timer runs and will
\* free it.
THEOREM DescriptorsAreKept == Spec => []NoDescriptorIsLost
<1>1. TableInv => NoDescriptorIsLost
  BY DEF TableInv, TimersOK, HandlesOK, InHands, Runs, NoDescriptorIsLost
<1> QED BY <1>1, TableInvariant, PTL

-----------------------------------------------------------------------------
(* Sockets that are somebody's.                                            *)

\* What LiveSocketIsKept says of a step and socket j.
Kept(j) ==
    sock[j].type = "STREAM" /\ held[j] = 1 /\ sock[j].state # "TIME_WAIT" =>
        \/ held'[j] = 0
        \/ /\ sock'[j].type = "STREAM" /\ held'[j] = 1
           /\ \/ sock[j].remote \in {None, sock'[j].remote}
              \/ sock[j].state = "CLOSED" /\ sock'[j].state = "SYN_SENT"

\* One descriptor changes, and not its type or its connection.
LEMMA AlikeKept ==
    ASSUME TableInv, NEW i \in Sockets, NEW r, sock' = [sock EXCEPT ![i] = r],
           r.type = sock[i].type, r.remote = sock[i].remote, held' = held
    PROVE  \A j \in Sockets : Kept(j)
<1>1. sock'[i] = r /\ \A j \in Sockets \ {i} : sock'[j] = sock[j]
  BY DEF TableInv, SocketsOK
<1> QED BY <1>1 DEF Kept

\* A step that changes no socket and no handle keeps every connection.
LEMMA UnchangedKept ==
    ASSUME sock' = sock, held' = held
    PROVE  \A j \in Sockets : Kept(j)
BY DEF Kept

\* The descriptor that is allocated was nobody's, or in TIME_WAIT.
LEMMA AllocatedKept ==
    ASSUME TableInv, CanAllocate, held' = held \/ \E t \in Threads : Hand(t, Allocated),
           \A j \in Sockets \ {Allocated} :
              sock'[j].type = sock[j].type /\ sock'[j].remote = sock[j].remote
    PROVE  \A j \in Sockets : Kept(j)
<1>1. \A j \in Sockets \ {Allocated} : held'[j] = held[j]
  BY AllocatedFacts DEF Hand, TableInv, HandlesOK
<1>2. Kept(Allocated)
  BY AllocatedFacts DEF Kept
<1> QED BY <1>1, <1>2 DEF Kept

\* Segments and timers take no socket from its owner, and change no peer.
LEMMA NetworkKept ==
    ASSUME TableInv, Network
    PROVE  \A j \in Sockets : Kept(j)
<1>1. ASSUME NEW p \in Peers, NEW stored \in BOOLEAN, Syn(p, stored)
      PROVE  \A j \in Sockets : Kept(j)
  <2>1. PICK r :
        /\ sock' = [sock EXCEPT ![Listener] = r]
        /\ r.type = sock[Listener].type /\ r.remote = sock[Listener].remote
        /\ held' = held
    BY <1>1, SynStores
  <2> QED BY <2>1, AlikeKept, TableAssumption
<1>2. ASSUME NEW i \in Sockets, NEW r, Stores(i, r)
      PROVE  \A j \in Sockets : Kept(j)
  BY <1>2, AlikeKept DEF Stores, SameOwner
<1>3. ASSUME NEW i \in Sockets, NEW new \in States, Proceed(i, new)
      PROVE  \A j \in Sockets : Kept(j)
  BY <1>2, <1>3, ProceedStores
<1>4. ASSUME NEW i \in Sockets, NEW level \in TxLevels, Drain(i, level)
      PROVE  \A j \in Sockets : Kept(j)
  BY <1>2, <1>4, DrainStores
<1>5. ASSUME NEW i \in Sockets, Fail(i) \/ Data(i)
      PROVE  \A j \in Sockets : Kept(j)
  BY <1>2, <1>5, FailStores, DataStores
<1>6. ASSUME NEW i \in Sockets, TimeWaitFin(i)
      PROVE  \A j \in Sockets : Kept(j)
  BY <1>6, UnchangedKept DEF TimeWaitFin
<1>7. ASSUME TimeWaitTimeout
      PROVE  \A j \in Sockets : Kept(j)
  <2> DEFINE i == Head(timeWait)
  <2>1. /\ i \in Sockets /\ sock[i].state = "TIME_WAIT"
        /\ \/ Stores(i, ChangeState(sock[i], "CLOSED"))
           \/ Put(i, Dispose(sock[i])) /\ held' = held
    BY <1>7, TimeoutStores
  <2> HIDE DEF i
  <2>2. CASE Put(i, Dispose(sock[i])) /\ held' = held
    BY <2>1, <2>2 DEF Put, Kept, TableInv, SocketsOK
  <2> QED BY <1>2, <2>1, <2>2
<1> QED BY <1>1, <1>3, <1>4, <1>5, <1>6, <1>7 DEF Network

\* s is sock[i] with the same connection, or with the one tcpConnect opens.
Reconnects(i, s) ==
    /\ s.type = sock[i].type
    /\ \/ s.remote = sock[i].remote
       \/ sock[i].state = "CLOSED" /\ s.state = "SYN_SENT"

\* A call waits on the socket it has changed to s.
LEMMA WaitKept ==
    ASSUME TableInv, NEW t \in Threads, NEW i \in Sockets, NEW c \in Awaited,
           NEW s, Sound(s), Wait(t, i, c, s), held' = held, Reconnects(i, s)
    PROVE  \A j \in Sockets : Kept(j)
<1>1. PICK r : sock' = [sock EXCEPT ![i] = r] /\ SameConnection(s, r)
  BY WaitFacts
<1>2. sock'[i] = r /\ \A j \in Sockets \ {i} : sock'[j] = sock[j]
  BY <1>1 DEF TableInv, SocketsOK
<1> QED BY <1>1, <1>2 DEF Kept, SameConnection, Reconnects

\* The steps of a thread outside its calls.
LEMMA UserKept ==
    ASSUME TableInv, NEW t \in Threads, User(t)
    PROVE  \A j \in Sockets : Kept(j)
<1>1. CASE Open(t)
  <2>1. CanAllocate /\ Hand(t, Allocated)
        /\ sock' = [sock EXCEPT ![Allocated] = Fresh(AllocatedEvent)]
    BY <1>1 DEF Open
  <2>2. \A j \in Sockets \ {Allocated} : sock'[j] = sock[j]
    BY <2>1 DEF TableInv, SocketsOK
  <2> QED BY <2>1, <2>2, AllocatedKept
<1>2. ASSUME NEW i \in Sockets, NEW c \in Calls[t], Enter(t, i, c)
      PROVE  \A j \in Sockets : Kept(j)
  <2>1. /\ Sound(sock[i]) /\ Wait(t, i, c, sock[i]) /\ c \in Awaited /\ held' = held
        /\ Reconnects(i, sock[i])
    BY <1>2, EnterWaits DEF Reconnects
  <2> QED BY <2>1, WaitKept
<1>3. ASSUME NEW i \in Sockets, NEW p \in Peers, Connect(t, i, p)
      PROVE  \A j \in Sockets : Kept(j)
  <2> DEFINE s == ConnectTo(sock[i], p)
  <2>1. /\ Sound(s) /\ Wait(t, i, "connect", s) /\ "connect" \in Awaited
        /\ held' = held /\ Reconnects(i, s)
    BY <1>3, ConnectWaits DEF Reconnects
  <2> HIDE DEF s
  <2> QED BY <2>1, WaitKept
<1>4. ASSUME NEW i \in Sockets, ShutdownFin(t, i)
      PROVE  \A j \in Sockets : Kept(j)
  <2> DEFINE s == ShutTo(sock[i])
  <2>1. /\ Sound(s) /\ Wait(t, i, "shutTx", s) /\ "shutTx" \in Awaited
        /\ held' = held /\ Reconnects(i, s)
    BY <1>4, ShutdownWaits DEF SameOwner, Reconnects
  <2> HIDE DEF s
  <2> QED BY <2>1, WaitKept
<1>5. ASSUME NEW i \in Sockets, Close(t, i)
      PROVE  \A j \in Sockets : Kept(j)
  <2>1. /\ held' = [held EXCEPT ![i] = @ - 1]
        /\ \A j \in Sockets \ {i} : sock'[j] = sock[j]
    BY <1>5 DEF Close, Put, TableInv, SocketsOK
  <2> QED BY <2>1 DEF Kept, TableInv, HandlesOK
<1>6. ASSUME NEW i \in Sockets, Poll(t, i)
      PROVE  \A j \in Sockets : Kept(j)
  <2>1. PICK r : /\ sock' = [sock EXCEPT ![i] = r] /\ SameConnection(sock[i], r)
                 /\ held' = held
    BY <1>6, PollStores
  <2> QED BY <2>1, AlikeKept DEF SameConnection
<1>7. ASSUME NEW i \in Sockets, AcceptCheck(t, i)
      PROVE  \A j \in Sockets : Kept(j)
  BY <1>7, UnchangedKept DEF AcceptCheck
<1> QED BY <1>1, <1>2, <1>3, <1>4, <1>5, <1>6, <1>7 DEF User

\* The listener is one socket, what tcpAccept allocates another.
LEMMA TakesKept ==
    ASSUME TableInv, NEW t \in Threads, NEW n \in 0 .. Backlog - 1, AcceptTakes(t, n)
    PROVE  \A j \in Sockets : Kept(j)
<1>1. PICK r, l :
        /\ sock' = [sock EXCEPT ![Allocated] = r, ![Listener] = l]
        /\ Sound(r) /\ Sound(l)
        /\ SameOwner([sock[Listener] EXCEPT !.synQueue = l.synQueue], l)
        /\ Hand(t, Allocated)
  BY TakesStores
<1>2. CanAllocate /\ sock[Listener] \in Socket /\ sock \in [Sockets -> Socket]
  BY TurnFacts DEF AcceptTakes, TableInv, SocketsOK
<1>3. l.type = sock[Listener].type /\ l.remote = sock[Listener].remote
  BY <1>1, <1>2 DEF SameOwner, Socket
<1>4. \A j \in Sockets \ {Allocated, Listener} : sock'[j] = sock[j]
  BY <1>1, <1>2
<1>5. Listener # Allocated => sock'[Listener] = l
  BY <1>1, <1>2, TableAssumption
<1>6. \A j \in Sockets \ {Allocated} :
         sock'[j].type = sock[j].type /\ sock'[j].remote = sock[j].remote
  BY <1>3, <1>4, <1>5
<1> QED BY <1>1, <1>2, <1>6, AllocatedKept

\* The steps of a thread in a call.
LEMMA InCallKept ==
    ASSUME TableInv, NEW t \in Threads, InCall(t) \/ Timeout(t)
    PROVE  \A j \in Sockets : Kept(j)
<1> DEFINE i == thread[t].on
<1>0. i \in Sockets /\ sock \in [Sockets -> Socket]
  BY DEF TableInv, ThreadsOK, InCalls, SocketsOK
<1>1. CASE Wake(t) \/ Timeout(t)
  <2> DEFINE r == [sock[i] EXCEPT !.event = FALSE]
  <2>1. held' = held /\ (sock' = sock \/ sock' = [sock EXCEPT ![i].event = FALSE])
    BY <1>1 DEF Wake, Timeout
  <2>2. CASE sock' = [sock EXCEPT ![i].event = FALSE]
    <3>1. sock' = [sock EXCEPT ![i] = r]
      BY <1>0, <2>2
    <3>2. SameConnection(sock[i], r)
      BY <1>0, ClearedFacts
    <3> HIDE DEF r
    <3> QED BY <1>0, <2>1, <3>1, <3>2, AlikeKept DEF SameConnection
  <2> QED BY <2>1, <2>2, UnchangedKept
<1>2. CASE Return(t)
  <2>1. /\ held' = held
        /\ sock' = sock \/ \E r : Put(i, r) /\ SameOwner(sock[i], r)
    BY <1>2, ReturnStores
  <2>2. ASSUME NEW r, Put(i, r), SameOwner(sock[i], r)
        PROVE  \A j \in Sockets : Kept(j)
    <3> HIDE DEF i
    <3> QED BY <1>0, <2>1, <2>2, AlikeKept DEF Put, SameOwner
  <2> QED BY <2>1, <2>2, UnchangedKept
<1>3. CASE PollReturn(t)
  <2> DEFINE r == [sock[i] EXCEPT !.userEvent = None]
  <2>1. sock' = [sock EXCEPT ![i].userEvent = None] /\ held' = held
    BY <1>3 DEF PollReturn
  <2>2. sock' = [sock EXCEPT ![i] = r]
    BY <1>0, <2>1
  <2>3. SameConnection(sock[i], r)
    BY <1>0, ClearedFacts
  <2> HIDE DEF r, i
  <2> QED BY <1>0, <2>1, <2>2, <2>3, AlikeKept DEF SameConnection
<1>4. CASE AcceptBlock(t)
  <2>1. PICK r : /\ sock' = [sock EXCEPT ![i] = r] /\ SameConnection(sock[i], r)
                 /\ held' = held
    BY <1>4, AcceptBlockStores
  <2> HIDE DEF i
  <2> QED BY <1>0, <2>1, AlikeKept DEF SameConnection
<1>5. CASE AcceptNothing(t)
  BY <1>5, UnchangedKept DEF AcceptNothing
<1>6. ASSUME NEW n \in 0 .. Backlog - 1, AcceptTakes(t, n)
      PROVE  \A j \in Sockets : Kept(j)
  BY <1>6, TakesKept
<1>7. CASE AcceptDropsAll(t)
  <2>1. PICK l :
          /\ sock'[Listener] = l /\ l.type = "STREAM" /\ l.remote = sock[Listener].remote
          /\ \A j \in Sockets \ {Listener} :
                ~CanAllocate \/ j # Allocated => sock'[j] = sock[j]
          /\ Turn(t) /\ held' = held
    BY <1>7, DropsStores
  <2>2. sock[Listener].type = "STREAM" /\ (CanAllocate => Allocated # Listener)
    BY <2>1, TurnFacts
  <2>3. CASE CanAllocate
    <3>1. \A j \in Sockets \ {Allocated} :
             sock'[j].type = sock[j].type /\ sock'[j].remote = sock[j].remote
      BY <2>1, <2>2, <2>3
    <3> QED BY <2>1, <2>3, <3>1, AllocatedKept
  <2>4. CASE ~CanAllocate
    BY <2>1, <2>2, <2>4 DEF Kept
  <2> QED BY <2>3, <2>4
<1> QED BY <1>1, <1>2, <1>3, <1>4, <1>5, <1>6, <1>7 DEF InCall

\* Only its own user frees a socket that is not in TIME_WAIT, or makes another
\* connection of it.
THEOREM LiveSocketsAreKept == Spec => LiveSocketIsKept
<1>1. TableInv /\ [Next]_vars => [\A j \in Sockets : Kept(j)]_vars
  BY NetworkKept, UserKept, InCallKept DEF Next
<1>2. [\A j \in Sockets : Kept(j)]_vars <=>
        [\A i \in Sockets :
          sock[i].type = "STREAM" /\ held[i] = 1 /\ sock[i].state # "TIME_WAIT" =>
              \/ held'[i] = 0
              \/ /\ sock'[i].type = "STREAM" /\ held'[i] = 1
                 /\ \/ sock[i].remote \in {None, sock'[i].remote}
                    \/ sock[i].state = "CLOSED" /\ sock'[i].state = "SYN_SENT"]_vars
  BY DEF Kept
<1> QED BY <1>1, <1>2, TableInvariant, PTL DEF Spec, LiveSocketIsKept
==============================================================================
