--------------------------- MODULE SocketWaitProofs ---------------------------
(***************************************************************************)
(* Proofs about the waits and the SYN queue of SocketTable: a thread alone *)
(* on its socket is woken by what it waits for, and finds it; a client has *)
(* one connection to the listener's port, pending or accepted.             *)
(***************************************************************************)
EXTENDS SocketTableProofs

\* Call th.call of thread t is promised, of the socket s it waits on: the mask
\* is that of the call, the flags are what it may wait for, and the event is set
\* with them; the flags last until the thread reads them.
Called(t, th, s) ==
    /\ s.type = "STREAM" => /\ s.state # "LISTEN" /\ s.eventMask = Mask(th.call)
                            /\ s.eventFlags = Conditions(s) \cap Mask(th.call)
    /\ th.phase = "waiting" => /\ s.event <=> s.eventFlags # {}
                               /\ s.type = "UNUSED" => s.event
    /\ th.phase = "woken" /\ t \notin Timed => s.eventFlags # {}

\* What tcpAccept is promised of the listener s.
Listens(s) ==
    s.type = "STREAM" /\ s.state = "LISTEN" =>
        /\ s.eventMask = Mask("accept")
        /\ s.synQueue # << >> => s.event

\* What socketPoll of thread t is promised of socket s.
Polled(t, s) ==
    s.type = "STREAM" =>
        /\ s.userEvent = t /\ PollMask \subseteq s.eventMask
        /\ Conditions(s) \cap PollMask # {} => t \in signalled

Owed(t) ==
    LET th == thread[t]
        s == sock[th.on] IN
    /\ th.call \in Awaited /\ t \notin recycled => Called(t, th, s)
    /\ th.call \in Awaited /\ t \in recycled /\ th.phase = "waiting" => s.event
    /\ th.call = "accept" /\ t \notin recycled /\ th.phase = "waiting" => Listens(s)
    /\ th.call = "poll" /\ t \notin recycled /\ th.phase = "waiting" => Polled(t, s)

WaitsOK == \A t \in Threads \ shared : Owed(t)

\* Threads in calls on the same socket know that they have company.
SharedOK ==
    \A t, u \in Threads :
        t # u /\ thread[t] # Idle /\ thread[u] # Idle /\ thread[t].on = thread[u].on
            => t \in shared

PhasesOK ==
    \A t \in Threads :
        /\ thread[t].phase = "idle" \/ thread[t].call = None => thread[t] = Idle
        /\ thread[t].phase = "checked" => thread[t].call = "accept"
        /\ thread[t] = Idle => t \notin recycled

CallInv == TableInv /\ PhasesOK /\ SharedOK /\ WaitsOK

-----------------------------------------------------------------------------
(* One thread and its socket.                                              *)

\* Nothing is owed to a thread in no call.
LEMMA IdleOwed ==
    ASSUME NEW t, thread[t] = Idle
    PROVE  Owed(t)
BY DEF Owed, Idle, None, Awaited

\* A thread whose socket and whose own event are as they were is owed the same.
LEMMA SameOwed ==
    ASSUME NEW t, Owed(t), thread'[t] = thread[t],
           sock'[thread[t].on] = sock[thread[t].on],
           t \in recycled' <=> t \in recycled, t \in signalled => t \in signalled'
    PROVE  Owed(t)'
BY DEF Owed, Called, Listens, Polled

\* The promise holds of a socket that Stores leaves.
LEMMA CalledStored ==
    ASSUME NEW t, NEW th, th.call \in Awaited, NEW s, NEW r, s.type = "STREAM",
           SameOwner(s, r), Updated(s, r), Lasts(s, r), r.state # "LISTEN",
           Called(t, th, s)
    PROVE  Called(t, th, r)
<1>1. /\ r.type = "STREAM" /\ r.eventMask = Mask(th.call)
      /\ s.eventFlags = Conditions(s) \cap Mask(th.call)
  BY DEF Called, SameOwner
<1>2. r.eventFlags = Conditions(r) \cap Mask(th.call)
  BY <1>1 DEF Updated
<1>3. s.eventFlags # {} => r.eventFlags # {}
  BY <1>1, <1>2 DEF Lasts
<1>4. r.event <=> s.event \/ r.eventFlags # {}
  BY DEF Updated
<1>5. th.phase = "waiting" => (r.event <=> r.eventFlags # {})
  BY <1>3, <1>4 DEF Called
<1> QED BY <1>1, <1>2, <1>3, <1>5 DEF Called

\* The mask of each call has an event that CLOSED sets.
LEMMA MaskClosed ==
    ASSUME NEW c \in Awaited
    PROVE  Mask(c) \cap {"CLOSED", "TX_SHUTDOWN", "RX_SHUTDOWN", "TX_READY", "TX_DONE",
                         "TX_ACKED", "RX_READY"} # {}
<1>1. CASE c = "connect" BY <1>1 DEF Mask
<1>2. CASE c = "receive" BY <1>2 DEF Mask
<1>3. CASE c = "send" BY <1>3 DEF Mask
<1>4. CASE c = "waitAck" BY <1>4 DEF Mask
<1>5. CASE c = "flush" BY <1>5 DEF Mask
<1>6. CASE c = "shutTx" BY <1>6 DEF Mask
<1>7. CASE c = "shutRx" BY <1>7 DEF Mask
<1> QED BY <1>1, <1>2, <1>3, <1>4, <1>5, <1>6, <1>7 DEF Awaited

\* The promise holds of a socket that is closed meanwhile, and its event is set.
LEMMA CalledDisposed ==
    ASSUME NEW t, NEW th, th.call \in Awaited, NEW s, Sound(s), s.type = "STREAM",
           Called(t, th, s)
    PROVE  Called(t, th, Dispose(s)) /\ Dispose(s).event
<1> DEFINE r == Dispose(s)
<1>1. s.eventMask = Mask(th.call)
  BY DEF Called
<1>2. r.type = "UNUSED" /\ r.event /\ r.eventFlags # {}
  BY <1>1, DisposeFacts, MaskClosed
<1> HIDE DEF r
<1>3. Called(t, th, r)
  BY <1>2 DEF Called
<1> QED BY <1>2, <1>3 DEF r

\* Whoever waits on the descriptor that is allocated finds its event set.
LEMMA AllocatedWoken ==
    ASSUME TableInv, CanAllocate, NEW t \in Threads, Owed(t), thread[t].on = Allocated,
           thread[t].call \in Awaited, thread[t].phase = "waiting"
    PROVE  AllocatedEvent
<1> DEFINE s == sock[Allocated]
<1>1. Sound(s)
  BY AllocatedFacts DEF TableInv, SocketsOK
<1>2. t \notin recycled => Called(t, thread[t], s)
  BY DEF Owed
<1>3. t \in recycled => s.event
  BY DEF Owed
<1>4. CASE s.type = "UNUSED" /\ AllocatedEvent = s.event
  BY <1>2, <1>3, <1>4 DEF Called
<1>5. CASE s.type = "STREAM" /\ AllocatedEvent = Dispose(s).event
  BY <1>1, <1>2, <1>3, <1>5, CalledDisposed, DisposeFacts
<1> QED BY <1>4, <1>5, AllocatedFacts

-----------------------------------------------------------------------------
(* The steps of the network task, and closing.                             *)

\* A socket that does not listen is stored with its events updated.
LEMMA StoresWaits ==
    ASSUME CallInv, NEW i \in Sockets, NEW r, Stores(i, r)
    PROVE  WaitsOK'
<1> SUFFICES ASSUME NEW t \in Threads, t \notin shared PROVE Owed(t)'
  BY DEF WaitsOK, Stores
<1> DEFINE th == thread[t]
<1>1. /\ Owed(t) /\ th.on \in Sockets /\ thread' = thread /\ recycled' = recycled
      /\ signalled' = signalled \cup Notified(r)
      /\ sock'[i] = r /\ \A j \in Sockets \ {i} : sock'[j] = sock[j]
  BY DEF CallInv, WaitsOK, TableInv, ThreadsOK, InCalls, SocketsOK, Stores
<1>2. CASE th.on # i
  BY <1>1, <1>2, SameOwed
<1>3. CASE th.on = i
  <2> DEFINE s == sock[i]
  <2>1. /\ s.type = "STREAM" /\ SameOwner(s, r) /\ Updated(s, r) /\ Lasts(s, r)
        /\ r.state # "LISTEN"
    BY DEF Stores
  <2>2. th.call \in Awaited /\ t \notin recycled => Called(t, th, r)
    <3> SUFFICES ASSUME th.call \in Awaited, t \notin recycled PROVE Called(t, th, r)
      OBVIOUS
    <3>1. Called(t, th, s)
      BY <1>1, <1>3 DEF Owed
    <3> QED BY <2>1, <3>1, CalledStored
  <2>3. th.call \in Awaited /\ t \in recycled /\ th.phase = "waiting" => r.event
    BY <1>1, <1>3, <2>1 DEF Owed, Updated
  <2>4. Listens(r)
    BY <2>1 DEF Listens
  <2>5. ASSUME th.call = "poll", t \notin recycled, th.phase = "waiting"
        PROVE  /\ r.userEvent = t /\ PollMask \subseteq r.eventMask
               /\ Conditions(r) \cap PollMask # {} => t \in signalled'
    <3>1. s.userEvent = t /\ PollMask \subseteq s.eventMask
      BY <1>1, <1>3, <2>1, <2>5 DEF Owed, Polled
    <3>2. r.userEvent = t /\ PollMask \subseteq r.eventMask
      BY <2>1, <3>1 DEF SameOwner
    <3>3. Conditions(r) \cap PollMask # {} => r.eventFlags # {}
      BY <2>1, <3>2 DEF Updated
    <3>4. t # None
      BY NamesAssumption
    <3>5. r.eventFlags # {} => t \in Notified(r)
      BY <3>2, <3>4 DEF Notified
    <3> QED BY <1>1, <3>2, <3>3, <3>5
  <2> HIDE DEF s
  <2> QED BY <1>1, <1>3, <2>2, <2>3, <2>4, <2>5 DEF Owed, Called, Listens, Polled
<1> QED BY <1>2, <1>3

\* A socket is closed and its descriptor freed.
LEMMA DisposedWaits ==
    ASSUME CallInv, NEW i \in Sockets, Put(i, Dispose(sock[i])),
           sock[i].type = "STREAM", UNCHANGED <<thread, shared, recycled>>
    PROVE  WaitsOK'
<1> DEFINE r == Dispose(sock[i])
<1> SUFFICES ASSUME NEW t \in Threads, t \notin shared PROVE Owed(t)'
  BY DEF WaitsOK
<1> DEFINE th == thread[t]
<1>1. /\ Owed(t) /\ th.on \in Sockets /\ thread' = thread /\ recycled' = recycled
      /\ signalled' = signalled \cup Notified(r)
      /\ sock'[i] = r /\ \A j \in Sockets \ {i} : sock'[j] = sock[j]
      /\ Sound(sock[i])
  BY DEF CallInv, WaitsOK, TableInv, ThreadsOK, InCalls, SocketsOK, Put
<1>2. CASE th.on # i
  BY <1>1, <1>2, SameOwed
<1>3. CASE th.on = i
  <2>1. r.type = "UNUSED" /\ (sock[i].event => r.event)
    BY <1>1, DisposeFacts
  <2>2. th.call \in Awaited /\ t \notin recycled => Called(t, th, r)
    BY <1>1, <1>3, CalledDisposed DEF Owed
  <2>3. th.call \in Awaited /\ t \in recycled /\ th.phase = "waiting" => r.event
    BY <1>1, <1>3, <2>1 DEF Owed
  <2> HIDE DEF r
  <2> QED BY <1>1, <1>3, <2>1, <2>2, <2>3 DEF Owed, Called, Listens, Polled
<1> QED BY <1>2, <1>3

\* A SYN changes the queue of the listener.
LEMMA SynWaits ==
    ASSUME CallInv, NEW p \in Peers, NEW stored \in BOOLEAN, Syn(p, stored)
    PROVE  WaitsOK'
<1> DEFINE s == sock[Listener]
<1>1. PICK r, rest :
        /\ sock' = [sock EXCEPT ![Listener] = r] /\ Sound(r)
        /\ s.type = "STREAM" /\ s.state = "LISTEN"
        /\ r.type = "STREAM" /\ r.state = "LISTEN"
        /\ r.eventMask = s.eventMask /\ r.userEvent = s.userEvent
        /\ rest = IF Len(s.synQueue) >= Backlog THEN Tail(s.synQueue) ELSE s.synQueue
        /\ IF stored
             THEN /\ r.synQueue = Append(rest, p) /\ Updated(s, r)
                  /\ signalled' = signalled \cup Notified(r)
             ELSE /\ r = [s EXCEPT !.synQueue = rest] /\ r.synQueue = rest
                  /\ r.event = s.event /\ signalled' = signalled
        /\ UNCHANGED <<timeWait, held, thread, shared, recycled>>
  BY SynStores DEF CallInv
<1> SUFFICES ASSUME NEW t \in Threads, t \notin shared PROVE Owed(t)'
  BY <1>1 DEF WaitsOK
<1> DEFINE th == thread[t]
<1>2. /\ Owed(t) /\ th.on \in Sockets
      /\ sock'[Listener] = r /\ \A j \in Sockets \ {Listener} : sock'[j] = sock[j]
      /\ signalled \subseteq signalled' /\ s.synQueue \in Seq(Peers)
  BY <1>1, TableAssumption
     DEF CallInv, WaitsOK, TableInv, ThreadsOK, InCalls, SocketsOK, Socket
<1>3. CASE th.on # Listener
  BY <1>1, <1>2, <1>3, SameOwed
<1>4. CASE th.on = Listener
  <2>1. th.call \notin Awaited \/ t \in recycled
    BY <1>1, <1>2, <1>4 DEF Owed, Called
  <2>2. s.event => r.event
    BY <1>1 DEF Updated
  <2>3. /\ "RX_READY" \in Conditions(s) <=> s.synQueue # << >>
        /\ "RX_READY" \in Conditions(r) <=> r.synQueue # << >>
    BY <1>1, ConditionsMeaning DEF Readable
  <2>4. ~stored /\ r.synQueue # << >> => s.synQueue # << >>
    <3>1. s.synQueue = << >> => Len(s.synQueue) < Backlog
      BY <1>2, TableAssumption
    <3> QED BY <1>1, <3>1, TableAssumption
  <2>5. th.call = "accept" /\ t \notin recycled /\ th.phase = "waiting" => Listens(r)
    <3> SUFFICES ASSUME th.call = "accept", t \notin recycled, th.phase = "waiting"
                 PROVE  r.eventMask = Mask("accept") /\ (r.synQueue # << >> => r.event)
      BY DEF Listens
    <3>1. s.eventMask = Mask("accept") /\ (s.synQueue # << >> => s.event)
      BY <1>1, <1>2, <1>4 DEF Owed, Listens
    <3>2. Mask("accept") = {"RX_READY"}
      BY DEF Mask
    <3>3. CASE stored
      BY <1>1, <2>3, <3>1, <3>2, <3>3 DEF Updated
    <3>4. CASE ~stored
      BY <1>1, <2>2, <2>4, <3>1, <3>4
    <3> QED BY <1>1, <3>1, <3>3, <3>4
  <2>6. ASSUME th.call = "poll", t \notin recycled, th.phase = "waiting"
        PROVE  /\ r.userEvent = t /\ PollMask \subseteq r.eventMask
               /\ Conditions(r) \cap PollMask # {} => t \in signalled'
    <3>1. /\ s.userEvent = t /\ PollMask \subseteq s.eventMask
          /\ Conditions(s) \cap PollMask # {} => t \in signalled
      BY <1>1, <1>2, <1>4, <2>6 DEF Owed, Polled
    <3>2. CASE stored
      <4>1. Conditions(r) \cap PollMask # {} => r.eventFlags # {}
        BY <1>1, <3>1, <3>2 DEF Updated
      <4>2. r.eventFlags # {} => t \in Notified(r)
        BY <1>1, <3>1, NamesAssumption DEF Notified
      <4> QED BY <1>1, <3>1, <3>2, <4>1, <4>2
    <3>3. CASE ~stored
      <4>1. Conditions(r) \subseteq Conditions(s)
        <5>1. Conditions(r) \subseteq {"ACCEPT", "RX_READY"}
              /\ (r.synQueue = << >> => Conditions(r) = {})
          BY <1>1 DEF Conditions
        <5>2. s.synQueue # << >> => Conditions(s) = {"ACCEPT", "RX_READY"}
          BY <1>1 DEF Conditions
        <5> QED BY <2>4, <3>3, <5>1, <5>2
      <4> QED BY <1>1, <3>1, <3>3, <4>1
    <3> QED BY <3>2, <3>3
  <2>7. th.call \in Awaited /\ t \in recycled /\ th.phase = "waiting" => r.event
    BY <1>2, <1>4, <2>2 DEF Owed
  <2> HIDE DEF s
  <2> QED BY <1>1, <1>2, <1>4, <2>1, <2>5, <2>6, <2>7 DEF Owed, Called, Listens, Polled
<1> QED BY <1>3, <1>4

-----------------------------------------------------------------------------
(* Who is in which call.                                                   *)

\* A thread enters a call on socket i, and learns of its company there.
LEMMA JoinKeepsCalls ==
    ASSUME CallInv, NEW t \in Threads, NEW i \in Sockets, NEW c \in AllCalls,
           NEW phase \in {"checked", "waiting"}, phase = "checked" => c = "accept",
           thread' = [thread EXCEPT ![t] = [call |-> c, on |-> i, phase |-> phase]],
           shared' = Joined(t, i), recycled' = recycled, thread[t] = Idle
    PROVE  PhasesOK' /\ SharedOK'
<1> DEFINE th == [call |-> c, on |-> i, phase |-> phase]
<1>1. thread'[t] = th /\ \A u \in Threads \ {t} : thread'[u] = thread[u]
  BY DEF CallInv, TableInv, ThreadsOK
<1>2. th.phase \in {"checked", "waiting"} /\ th.call = c /\ th.on = i /\ c # None
  BY DEF AllCalls, None
<1>3. th # Idle
  BY <1>2 DEF Idle
<1> HIDE DEF th
<1>4. PhasesOK'
  BY <1>1, <1>2, <1>3 DEF CallInv, PhasesOK
<1>5. SharedOK'
  <2> SUFFICES ASSUME NEW u \in Threads, NEW v \in Threads, u # v,
                      thread'[u] # Idle, thread'[v] # Idle, thread'[u].on = thread'[v].on
               PROVE  u \in shared'
    BY DEF SharedOK
  <2>1. CASE u # t /\ v # t
    <3>1. u \in shared
      BY <1>1, <2>1 DEF CallInv, SharedOK
    <3> QED BY <3>1 DEF Joined
  <2>2. CASE u = t
    <3>1. v \in Company(t, i)
      BY <1>1, <1>2, <2>2 DEF Company
    <3> QED BY <2>2, <3>1 DEF Joined
  <2>3. CASE v = t
    <3>1. u \in Company(t, i)
      BY <1>1, <1>2, <2>3 DEF Company
    <3> QED BY <3>1 DEF Joined
  <2> QED BY <2>1, <2>2, <2>3
<1> QED BY <1>4, <1>5

\* A thread goes on in its call.
LEMMA StayKeepsCalls ==
    ASSUME CallInv, NEW t \in Threads, NEW phase \in {"waiting", "woken"},
           NEW th, thread' = [thread EXCEPT ![t] = th], th.phase = phase,
           th.call = thread[t].call, th.on = thread[t].on, thread[t] # Idle,
           shared' = shared, recycled' \ recycled \subseteq {u \in Threads : thread[u] # Idle}
    PROVE  PhasesOK' /\ SharedOK'
<1>1. thread'[t] = th /\ \A u \in Threads \ {t} : thread'[u] = thread[u]
  BY DEF CallInv, TableInv, ThreadsOK
<1>2. thread[t].call # None
  BY DEF CallInv, PhasesOK
<1>3. th # Idle
  BY <1>2 DEF Idle
<1>4. PhasesOK'
  BY <1>1, <1>2, <1>3 DEF CallInv, PhasesOK
<1>5. SharedOK'
  BY <1>1, <1>3 DEF CallInv, SharedOK
<1> QED BY <1>4, <1>5

\* A thread returns from its call.
LEMMA LeaveKeepsCalls ==
    ASSUME CallInv, NEW t \in Threads, thread' = [thread EXCEPT ![t] = Idle],
           shared' = shared \ {t}, t \notin recycled',
           recycled' \ recycled \subseteq {u \in Threads : thread[u] # Idle}
    PROVE  PhasesOK' /\ SharedOK'
<1>1. thread'[t] = Idle /\ \A u \in Threads \ {t} : thread'[u] = thread[u]
  BY DEF CallInv, TableInv, ThreadsOK
<1>2. PhasesOK'
  BY <1>1 DEF CallInv, PhasesOK, Idle
<1>3. SharedOK'
  BY <1>1 DEF CallInv, SharedOK
<1> QED BY <1>2, <1>3

\* No thread moves.
LEMMA SameCalls ==
    ASSUME CallInv, thread' = thread,
           \A u \in shared : thread[u] # Idle => u \in shared',
           recycled' \ recycled \subseteq {u \in Threads : thread[u] # Idle}
    PROVE  PhasesOK' /\ SharedOK'
BY DEF CallInv, PhasesOK, SharedOK

\* Thread t moves and socket i changes: the others wait on other sockets, or
\* know that they have company.
Apart(t, i) ==
    /\ \A j \in Sockets \ {i} : sock'[j] = sock[j]
    /\ \A u \in Threads \ {t} :
         /\ thread'[u] = thread[u]
         /\ u \in recycled' <=> u \in recycled
         /\ u \in signalled => u \in signalled'
         /\ u \in shared => u \in shared'
         /\ thread[u] # Idle /\ thread[u].on = i => u \in shared'

\* What the other threads are owed after such a step is what they were owed before.
LEMMA OthersOwed ==
    ASSUME CallInv, NEW t \in Threads, NEW i, Apart(t, i)
    PROVE  \A u \in Threads \ {t} : u \notin shared' => Owed(u)'
<1> SUFFICES ASSUME NEW u \in Threads \ {t}, u \notin shared' PROVE Owed(u)'
  OBVIOUS
<1>1. Owed(u) /\ thread'[u] = thread[u] /\ thread[u].on \in Sockets
  BY DEF Apart, CallInv, WaitsOK, TableInv, ThreadsOK, InCalls
<1>2. CASE thread[u] = Idle
  BY <1>1, <1>2 DEF Owed, Idle, None, Awaited
<1>3. CASE thread[u] # Idle
  BY <1>1, <1>3, SameOwed DEF Apart
<1> QED BY <1>2, <1>3

-----------------------------------------------------------------------------
(* The steps of the threads.                                               *)

\* A call of Awaited on the socket that it has changed to s: the thread returns
\* at once, or waits for what is not there yet.
LEMMA WaitWaits ==
    ASSUME CallInv, NEW t \in Threads, NEW i \in Sockets, NEW c \in Awaited,
           NEW s, Sound(s), s.type = "STREAM", s.state # "LISTEN", Wait(t, i, c, s),
           thread[t] = Idle
    PROVE  PhasesOK' /\ SharedOK' /\ WaitsOK'
<1>1. PICK r :
        /\ sock' = [sock EXCEPT ![i] = r]
        /\ Sound(r) /\ SameConnection(s, r) /\ r.eventMask = Mask(c)
        /\ r.userEvent = s.userEvent
        /\ recycled' = recycled
        /\ \/ /\ thread' = [thread EXCEPT ![t] =
                              [call |-> c, on |-> i, phase |-> "waiting"]]
              /\ shared' = Joined(t, i) /\ signalled' = signalled
              /\ ~r.event /\ r.eventFlags = {}
              /\ Conditions(r) \cap Mask(c) = {}
           \/ /\ thread' = thread /\ shared' = Joined(t, i) \ {t}
              /\ signalled' = signalled \cup Notified(r)
  BY WaitFacts DEF CallInv
<1>2. sock'[i] = r /\ \A j \in Sockets \ {i} : sock'[j] = sock[j]
  BY <1>1 DEF CallInv, TableInv, SocketsOK
<1>3. signalled \subseteq signalled' /\ \A u \in Threads \ {t} : thread'[u] = thread[u]
  BY <1>1 DEF CallInv, TableInv, ThreadsOK
<1>4. \A u \in Threads \ {t} :
         /\ u \in shared => u \in shared'
         /\ thread[u] # Idle /\ thread[u].on = i => u \in shared'
  BY <1>1 DEF Joined, Company
<1>5. \A u \in Threads \ {t} : u \notin shared' => Owed(u)'
  BY <1>1, <1>2, <1>3, <1>4, OthersOwed DEF Apart
<1>6. CASE /\ thread' = [thread EXCEPT ![t] =
                            [call |-> c, on |-> i, phase |-> "waiting"]]
           /\ shared' = Joined(t, i)
           /\ ~r.event /\ r.eventFlags = {} /\ Conditions(r) \cap Mask(c) = {}
  <2>1. PhasesOK' /\ SharedOK'
    BY <1>1, <1>6, JoinKeepsCalls DEF Awaited, AllCalls
  <2>2. /\ thread'[t].call = c /\ thread'[t].on = i /\ thread'[t].phase = "waiting"
        /\ c \notin {"accept", "poll"} /\ t \notin recycled'
    BY <1>1, <1>6 DEF CallInv, TableInv, ThreadsOK, PhasesOK, Awaited
  <2>3. r.type = "STREAM" /\ r.state # "LISTEN" /\ r.eventFlags = Conditions(r) \cap Mask(c)
    BY <1>1, <1>6 DEF SameConnection
  <2>4. Owed(t)'
    BY <1>1, <1>2, <1>6, <2>2, <2>3 DEF Owed, Called
  <2> QED BY <1>5, <2>1, <2>4 DEF WaitsOK
<1>7. CASE thread' = thread /\ shared' = Joined(t, i) \ {t}
  <2>1. PhasesOK' /\ SharedOK'
    <3>1. \A u \in shared : thread[u] # Idle => u \in shared'
      BY <1>4 DEF CallInv, TableInv, ThreadsOK
    <3> QED BY <1>1, <1>7, <3>1, SameCalls
  <2>2. Owed(t)'
    BY <1>7 DEF Owed, Idle, None, Awaited
  <2> QED BY <1>5, <2>1, <2>2 DEF WaitsOK
<1> QED BY <1>1, <1>6, <1>7

\* socketPoll is owed the events it registered for.
LEMMA PollWaits ==
    ASSUME CallInv, NEW t \in Threads, NEW i \in Sockets, Poll(t, i)
    PROVE  PhasesOK' /\ SharedOK' /\ WaitsOK'
<1>1. PICK r :
        /\ sock' = [sock EXCEPT ![i] = r]
        /\ Sound(r) /\ SameConnection(sock[i], r)
        /\ r.userEvent = t /\ PollMask \subseteq r.eventMask
        /\ r.eventFlags = Conditions(r) \cap r.eventMask
        /\ signalled' = (signalled \ {t}) \cup Notified(r)
        /\ shared' = Joined(t, i)
        /\ thread' = [thread EXCEPT ![t] =
                        [call |-> "poll", on |-> i, phase |-> "waiting"]]
        /\ UNCHANGED <<timeWait, held, recycled>>
        /\ thread[t] = Idle
  BY PollStores DEF CallInv
<1>2. sock'[i] = r /\ \A j \in Sockets \ {i} : sock'[j] = sock[j]
  BY <1>1 DEF CallInv, TableInv, SocketsOK
<1>3. \A u \in Threads \ {t} : u \in signalled => u \in signalled'
  BY <1>1
<1>4. \A u \in Threads \ {t} :
         /\ u \in shared => u \in shared'
         /\ thread[u] # Idle /\ thread[u].on = i => u \in shared'
  BY <1>1 DEF Joined, Company
<1>5. thread'[t] = [call |-> "poll", on |-> i, phase |-> "waiting"]
      /\ \A u \in Threads \ {t} : thread'[u] = thread[u]
  BY <1>1 DEF CallInv, TableInv, ThreadsOK
<1>6. \A u \in Threads \ {t} : u \notin shared' => Owed(u)'
  BY <1>1, <1>2, <1>3, <1>4, <1>5, OthersOwed DEF Apart
<1>7. "poll" \in AllCalls /\ "poll" \notin Awaited
  BY DEF AllCalls, Awaited
<1>8. PhasesOK' /\ SharedOK'
  BY <1>1, <1>7, JoinKeepsCalls
<1>9. Conditions(r) \cap PollMask # {} => t \in signalled'
  BY <1>1, NamesAssumption DEF Notified
<1>10. Owed(t)'
  BY <1>1, <1>2, <1>5, <1>7, <1>9 DEF Owed, Polled
<1> QED BY <1>6, <1>8, <1>10 DEF WaitsOK

\* The first section of tcpAccept is owed nothing yet.
LEMMA AcceptCheckWaits ==
    ASSUME CallInv, NEW t \in Threads, NEW i \in Sockets, AcceptCheck(t, i)
    PROVE  PhasesOK' /\ SharedOK' /\ WaitsOK'
<1>1. /\ thread' = [thread EXCEPT ![t] =
                      [call |-> "accept", on |-> i, phase |-> "checked"]]
      /\ shared' = Joined(t, i) /\ thread[t] = Idle
      /\ UNCHANGED <<sock, signalled, recycled>>
  BY DEF AcceptCheck, Free
<1>2. "accept" \in AllCalls /\ "accept" \notin Awaited
  BY DEF AllCalls, Awaited
<1>3. PhasesOK' /\ SharedOK'
  BY <1>1, <1>2, JoinKeepsCalls
<1>4. thread'[t] = [call |-> "accept", on |-> i, phase |-> "checked"]
      /\ \A u \in Threads \ {t} : thread'[u] = thread[u]
  BY <1>1 DEF CallInv, TableInv, ThreadsOK
<1>5. \A u \in Threads \ {t} :
         /\ u \in shared => u \in shared'
         /\ thread[u] # Idle /\ thread[u].on = i => u \in shared'
  BY <1>1 DEF Joined, Company
<1>6. \A u \in Threads \ {t} : u \notin shared' => Owed(u)'
  BY <1>1, <1>4, <1>5, OthersOwed DEF Apart
<1>7. Owed(t)'
  BY <1>2, <1>4 DEF Owed
<1> QED BY <1>3, <1>6, <1>7 DEF WaitsOK

\* The other threads on the socket of a thread in a call know that it is there.
LEMMA CompanyShared ==
    ASSUME CallInv, NEW t \in Threads, thread[t] # Idle
    PROVE  \A u \in Threads \ {t} :
              thread[u] # Idle /\ thread[u].on = thread[t].on => u \in shared
BY DEF CallInv, SharedOK

\* A thread that wakes up, by its event or its timeout, is owed nothing more.
LEMMA WakeWaits ==
    ASSUME CallInv, NEW t \in Threads, Wake(t) \/ Timeout(t)
    PROVE  PhasesOK' /\ SharedOK' /\ WaitsOK'
<1> DEFINE i == thread[t].on
           th == [thread[t] EXCEPT !.phase = "woken"]
           r == [sock[i] EXCEPT !.event = FALSE]
<1>1. /\ thread' = [thread EXCEPT ![t] = th] /\ thread[t].phase = "waiting"
      /\ thread[t] \in InCalls /\ sock[i] \in Socket /\ i \in Sockets
      /\ UNCHANGED <<shared, recycled>>
  BY DEF Wake, Timeout, CallInv, TableInv, ThreadsOK, SocketsOK, InCalls
<1>2. /\ th.phase = "woken" /\ th.call = thread[t].call /\ th.on = i
      /\ thread'[t] = th /\ \A u \in Threads \ {t} : thread'[u] = thread[u]
  BY <1>1 DEF InCalls, CallInv, TableInv, ThreadsOK
<1>3. \/ sock' = sock
      \/ /\ sock[i].event /\ thread[t].call # "poll"
         /\ sock'[i] = r /\ \A j \in Sockets \ {i} : sock'[j] = sock[j]
  BY <1>1 DEF Wake, Timeout, CallInv, TableInv, SocketsOK
<1>4. /\ r.type = sock[i].type /\ r.state = sock[i].state /\ r.eventMask = sock[i].eventMask
      /\ r.eventFlags = sock[i].eventFlags /\ Conditions(r) = Conditions(sock[i])
  BY <1>1, ClearedFacts DEF CallInv, SameConnection
<1>5. thread[t] # Idle
  BY <1>1 DEF Idle
<1>6. \A u \in Threads \ {t} : u \in signalled => u \in signalled'
  BY DEF Wake, Timeout
<1>7. thread[t].call \in Awaited /\ t \notin Timed => sock[i].event /\ sock'[i] = r
  BY <1>1, <1>2 DEF Wake, Timeout, Awaited, CallInv, TableInv, SocketsOK
<1> HIDE DEF th, r, i
<1>8. PhasesOK' /\ SharedOK'
  BY <1>1, <1>2, <1>5, StayKeepsCalls DEF i
<1>9. Apart(t, i)
  BY <1>1, <1>2, <1>3, <1>5, <1>6, CompanyShared DEF Apart, i
<1>10. t \notin shared => Owed(t)'
  <2> SUFFICES ASSUME t \notin shared PROVE Owed(t)'
    OBVIOUS
  <2>1. Owed(t)
    BY DEF CallInv, WaitsOK
  <2>2. CASE th.call \in Awaited /\ t \notin recycled
    <3>1. Called(t, thread[t], sock[i])
      BY <1>2, <2>1, <2>2 DEF Owed, i
    <3>2. sock'[i] = sock[i] \/ sock'[i] = r
      BY <1>3
    <3>3. t \notin Timed => sock[i].eventFlags # {}
      BY <1>1, <1>2, <1>7, <2>2, <3>1 DEF Called
    <3>4. Called(t, th, sock'[i])
      BY <1>2, <1>4, <3>1, <3>2, <3>3 DEF Called
    <3> QED BY <1>1, <1>2, <2>2, <3>4 DEF Owed, Awaited
  <2>3. CASE th.call \notin Awaited \/ t \in recycled
    BY <1>1, <1>2, <2>3 DEF Owed
  <2> QED BY <2>2, <2>3
<1> QED BY <1>1, <1>8, <1>9, <1>10, OthersOwed DEF WaitsOK

\* The thread returns from its call, on a socket it may have changed.
LEMMA LeaveWaits ==
    ASSUME CallInv, NEW t \in Threads, thread[t] # Idle, Leave(t),
           \A j \in Sockets \ {thread[t].on} : sock'[j] = sock[j],
           \A u \in Threads \ {t} : u \in signalled => u \in signalled'
    PROVE  PhasesOK' /\ SharedOK' /\ WaitsOK'
<1>1. thread'[t] = Idle /\ \A u \in Threads \ {t} : thread'[u] = thread[u]
  BY DEF Leave, CallInv, TableInv, ThreadsOK
<1>2. PhasesOK' /\ SharedOK'
  BY LeaveKeepsCalls DEF Leave
<1>3. Apart(t, thread[t].on)
  BY <1>1, CompanyShared DEF Apart, Leave
<1>4. Owed(t)'
  BY <1>1 DEF Owed, Idle, None, Awaited
<1> QED BY <1>2, <1>3, <1>4, OthersOwed DEF WaitsOK

\* A thread that returns takes with it what it was owed.
LEMMA ReturnWaits ==
    ASSUME CallInv, NEW t \in Threads, Return(t) \/ PollReturn(t) \/ AcceptNothing(t)
    PROVE  PhasesOK' /\ SharedOK' /\ WaitsOK'
<1> DEFINE i == thread[t].on
<1>0. i \in Sockets /\ sock \in [Sockets -> Socket]
  BY DEF CallInv, TableInv, ThreadsOK, InCalls, SocketsOK
<1>1. thread[t] # Idle /\ Leave(t)
  BY DEF Return, PollReturn, AcceptNothing, Accepting, Idle
<1>2. /\ \A j \in Sockets \ {i} : sock'[j] = sock[j]
      /\ \A u \in Threads \ {t} : u \in signalled => u \in signalled'
  <2>1. CASE Return(t)
    <3>1. \/ sock' = sock /\ signalled' = signalled
          \/ \E r : Put(i, r)
      BY <2>1, ReturnStores DEF CallInv
    <3> QED BY <1>0, <3>1 DEF Put
  <2>2. CASE PollReturn(t)
    BY <1>0, <2>2 DEF PollReturn
  <2>3. CASE AcceptNothing(t)
    BY <2>3 DEF AcceptNothing
  <2> QED BY <2>1, <2>2, <2>3
<1> QED BY <1>1, <1>2, LeaveWaits

\* tcpAccept that waits on an empty queue is owed the next SYN.
LEMMA AcceptBlockWaits ==
    ASSUME CallInv, NEW t \in Threads, AcceptBlock(t)
    PROVE  PhasesOK' /\ SharedOK' /\ WaitsOK'
<1> DEFINE i == thread[t].on
           th == [call |-> "accept", on |-> i, phase |-> "waiting"]
<1>1. PICK r :
        /\ i \in Sockets /\ sock' = [sock EXCEPT ![i] = r]
        /\ Sound(r) /\ SameConnection(sock[i], r)
        /\ r.eventMask = Mask("accept") /\ r.synQueue = << >>
        /\ thread' = [thread EXCEPT ![t] = th]
        /\ Accepting(t, {"checked"})
        /\ UNCHANGED <<signalled, timeWait, held, shared, recycled>>
  BY AcceptBlockStores DEF CallInv
<1>2. sock'[i] = r /\ \A j \in Sockets \ {i} : sock'[j] = sock[j]
  BY <1>1 DEF CallInv, TableInv, SocketsOK
<1>3. /\ th.phase = "waiting" /\ th.call = "accept" /\ th.on = thread[t].on
      /\ thread[t].call = "accept" /\ thread[t] # Idle
  BY <1>1 DEF Accepting, Idle
<1>4. thread'[t] = th /\ \A u \in Threads \ {t} : thread'[u] = thread[u]
  BY <1>1 DEF CallInv, TableInv, ThreadsOK
<1> HIDE DEF i, th
<1>5. PhasesOK' /\ SharedOK'
  BY <1>1, <1>3, StayKeepsCalls
<1>6. Apart(t, i)
  BY <1>1, <1>2, <1>3, <1>4, CompanyShared DEF Apart, i
<1>7. Owed(t)'
  BY <1>1, <1>2, <1>3, <1>4 DEF Owed, Listens, Awaited, i
<1> QED BY <1>5, <1>6, <1>7, OthersOwed DEF WaitsOK

-----------------------------------------------------------------------------
(* Descriptors that are closed and allocated.                              *)

\* Closing a handle leaves those who wait on the socket what they are owed.
LEMMA CloseWaits ==
    ASSUME CallInv, NEW t \in Threads, NEW i \in Sockets, Close(t, i)
    PROVE  PhasesOK' /\ SharedOK' /\ WaitsOK'
<1> DEFINE r == [sock[i] EXCEPT !.owned = FALSE]
<1>1. /\ UNCHANGED <<thread, shared, recycled>>
      /\ \/ UNCHANGED <<sock, signalled>>
         \/ sock' = [sock EXCEPT ![i] = r] /\ UNCHANGED signalled
         \/ sock[i].type # "UNUSED" /\ Put(i, Dispose(sock[i]))
  <2>0. sock \in [Sockets -> Socket]
    BY DEF CallInv, TableInv, SocketsOK
  <2>1. CASE sock[i].type = "UNUSED"
    BY <2>1 DEF Close
  <2>2. CASE sock[i].type # "UNUSED" /\ sock[i].state = "TIME_WAIT"
    BY <2>0, <2>2 DEF Close
  <2>3. CASE sock[i].type # "UNUSED" /\ sock[i].state # "TIME_WAIT"
    BY <2>3 DEF Close
  <2> QED BY <2>1, <2>2, <2>3 DEF Close
<1>2. sock[i] \in Socket /\ sock \in [Sockets -> Socket]
  BY DEF CallInv, TableInv, SocketsOK
<1>3. PhasesOK' /\ SharedOK'
  BY <1>1, SameCalls
<1>4. CASE UNCHANGED <<sock, signalled>>
  <2>1. ASSUME NEW u \in Threads, u \notin shared PROVE Owed(u)'
    <3>1. Owed(u)
      BY <2>1 DEF CallInv, WaitsOK
    <3> QED BY <1>1, <1>4, <3>1, SameOwed
  <2> QED BY <1>1, <1>3, <2>1 DEF WaitsOK
<1>5. CASE sock[i].type # "UNUSED" /\ Put(i, Dispose(sock[i]))
  <2>1. sock[i].type = "STREAM"
    BY <1>2, <1>5 DEF Socket
  <2>2. UNCHANGED <<thread, shared, recycled>>
    BY <1>1
  <2> HIDE DEF r
  <2>3. WaitsOK'
    BY <1>5, <2>1, <2>2, DisposedWaits
  <2> QED BY <1>3, <2>3
<1>6. CASE sock' = [sock EXCEPT ![i] = r] /\ UNCHANGED signalled
  <2>1. /\ r.type = sock[i].type /\ r.state = sock[i].state
        /\ r.eventMask = sock[i].eventMask /\ r.eventFlags = sock[i].eventFlags
        /\ r.event = sock[i].event /\ r.userEvent = sock[i].userEvent
        /\ r.synQueue = sock[i].synQueue /\ r.rx = sock[i].rx /\ r.tx = sock[i].tx
    BY <1>2 DEF Socket
  <2> HIDE DEF r
  <2>2. Conditions(r) = Conditions(sock[i])
    BY <2>1, SameConditions
  <2>3. sock'[i] = r /\ \A j \in Sockets \ {i} : sock'[j] = sock[j]
    BY <1>2, <1>6
  <2>4. ASSUME NEW u \in Threads, u \notin shared PROVE Owed(u)'
    <3>1. Owed(u) /\ thread[u].on \in Sockets
      BY <2>4 DEF CallInv, WaitsOK, TableInv, ThreadsOK, InCalls
    <3>2. CASE thread[u].on # i
      BY <1>1, <1>6, <2>3, <3>1, <3>2, SameOwed
    <3>3. CASE thread[u].on = i
      BY <1>1, <1>6, <2>1, <2>2, <2>3, <3>1, <3>3
         DEF Owed, Called, Listens, Polled
    <3> QED BY <3>2, <3>3
  <2> QED BY <1>1, <1>3, <2>4 DEF WaitsOK
<1> QED BY <1>1, <1>3, <1>4, <1>5, <1>6

\* The descriptor that is allocated is another socket for whoever waits on it;
\* and it finds its event set.
LEMMA AllocatedOwed ==
    ASSUME CallInv, CanAllocate, NEW u \in Threads, u \notin shared,
           thread[u].on = Allocated, thread'[u] = thread[u],
           AllocatedEvent => sock'[Allocated].event,
           thread[u] # Idle => u \in recycled'
    PROVE  Owed(u)'
<1>1. Owed(u)
  BY DEF CallInv, WaitsOK
<1>2. CASE thread[u] = Idle
  BY <1>2 DEF Owed, Idle, None, Awaited
<1>3. CASE thread[u] # Idle
  <2>1. thread[u].call \in Awaited /\ thread[u].phase = "waiting" => sock'[Allocated].event
    BY <1>1, AllocatedWoken DEF CallInv
  <2> QED BY <1>3, <2>1 DEF Owed
<1> QED BY <1>2, <1>3

\* The threads that wait elsewhere.
LEMMA ElsewhereOwed ==
    ASSUME CallInv, NEW t, NEW a, NEW u \in Threads \ {t}, u \notin shared,
           thread[u].on # a, thread'[u] = thread[u],
           sock'[thread[u].on] = sock[thread[u].on],
           signalled \subseteq signalled',
           \/ recycled' = (recycled \cup Company(t, a)) \ {t}
           \/ recycled' = recycled \cup Company(t, a)
           \/ recycled' = recycled
    PROVE  Owed(u)'
<1>1. Owed(u) /\ (u \in recycled' <=> u \in recycled)
  BY DEF CallInv, WaitsOK, Company
<1> QED BY <1>1, SameOwed

\* A descriptor given out again counts its former waiters as overtaken.
LEMMA OpenWaits ==
    ASSUME CallInv, NEW t \in Threads, Open(t)
    PROVE  PhasesOK' /\ SharedOK' /\ WaitsOK'
<1> DEFINE a == Allocated
<1>1. /\ CanAllocate /\ sock' = [sock EXCEPT ![a] = Fresh(AllocatedEvent)]
      /\ signalled \subseteq signalled' /\ UNCHANGED <<thread, shared>>
      /\ recycled' = (recycled \cup Company(t, a)) \ {t}
      /\ thread[t] = Idle
  BY DEF Open, Hand
<1>2. a \in Sockets /\ AllocatedEvent \in BOOLEAN
  BY <1>1, AllocatedFacts DEF CallInv
<1>3. /\ sock'[a].event = AllocatedEvent
      /\ \A j \in Sockets \ {a} : sock'[j] = sock[j]
  <2>1. Fresh(AllocatedEvent).event = AllocatedEvent
    BY <1>2, FreshFacts
  <2> QED BY <1>1, <1>2, <2>1 DEF CallInv, TableInv, SocketsOK
<1>4. PhasesOK' /\ SharedOK'
  BY <1>1, SameCalls DEF Company
<1>5. ASSUME NEW u \in Threads, u \notin shared PROVE Owed(u)'
  <2>1. CASE thread[u] = Idle
    BY <1>1, <2>1 DEF Owed, Idle, None, Awaited
  <2>2. CASE thread[u] # Idle /\ thread[u].on = a
    <3>1. u \in recycled'
      BY <1>1, <2>2 DEF Company
    <3> QED BY <1>1, <1>3, <1>5, <2>2, <3>1, AllocatedOwed
  <2>3. CASE thread[u] # Idle /\ thread[u].on # a
    <3>1. thread[u].on \in Sockets /\ u # t
      BY <1>1, <2>3 DEF CallInv, TableInv, ThreadsOK, InCalls
    <3> HIDE DEF a
    <3> QED BY <1>1, <1>3, <1>5, <2>3, <3>1, ElsewhereOwed
  <2> QED BY <2>1, <2>2, <2>3
<1> QED BY <1>1, <1>4, <1>5 DEF WaitsOK

\* tcpAccept that returns a socket leaves the others what they are owed.
LEMMA TakesWaits ==
    ASSUME CallInv, NEW t \in Threads, NEW n \in 0 .. Backlog - 1, AcceptTakes(t, n)
    PROVE  PhasesOK' /\ SharedOK' /\ WaitsOK'
<1> DEFINE a == Allocated
<1>1. PICK r, l :
        /\ sock' = [sock EXCEPT ![a] = r, ![Listener] = l]
        /\ Sound(r) /\ Sound(l)
        /\ AllocatedEvent => r.event
        /\ signalled' = signalled \cup KillNotifies \cup Notified(l)
        /\ Hand(t, a)
        /\ thread' = [thread EXCEPT ![t] = Idle] /\ shared' = shared \ {t}
  BY TakesStores DEF CallInv
<1>2. /\ Turn(t) /\ CanAllocate /\ a \in Sockets
  BY AllocatedFacts DEF AcceptTakes, CallInv
<1>3. /\ thread[t].on = Listener /\ thread[t].call = "accept" /\ a # Listener
  BY <1>2, TurnFacts DEF CallInv
<1>4. thread[t] # Idle
  BY <1>3 DEF Idle, None
<1>5. /\ recycled' = (recycled \cup Company(t, a)) \ {t}
      /\ thread'[t] = Idle /\ \A u \in Threads \ {t} : thread'[u] = thread[u]
  BY <1>1 DEF Hand, CallInv, TableInv, ThreadsOK
<1>6. /\ sock'[a] = r /\ \A j \in Sockets \ {a, Listener} : sock'[j] = sock[j]
  BY <1>1, <1>2, <1>3 DEF CallInv, TableInv, SocketsOK
<1>7. PhasesOK' /\ SharedOK'
  BY <1>1, <1>5, LeaveKeepsCalls DEF Company
<1>8. ASSUME NEW u \in Threads, u \notin shared' PROVE Owed(u)'
  <2>1. CASE thread'[u] = Idle
    BY <2>1 DEF Owed, Idle, None, Awaited
  <2>2. CASE thread'[u] # Idle
    <3>1. u # t /\ thread'[u] = thread[u] /\ thread[u] # Idle /\ u \notin shared
          /\ thread[u].on \in Sockets
      BY <1>1, <1>5, <1>8, <2>2 DEF CallInv, TableInv, ThreadsOK, InCalls
    <3>2. thread[u].on # Listener
      BY <1>3, <1>4, <3>1, CompanyShared
    <3>3. CASE thread[u].on = a
      <4>1. u \in recycled'
        BY <1>5, <3>1, <3>3 DEF Company
      <4> QED BY <1>1, <1>2, <1>6, <3>1, <3>3, <4>1, AllocatedOwed
    <3>4. CASE thread[u].on # a
      <4>1. sock'[thread[u].on] = sock[thread[u].on] /\ signalled \subseteq signalled'
        BY <1>1, <1>6, <3>1, <3>2, <3>4
      <4> HIDE DEF a
      <4> QED BY <1>5, <3>1, <3>4, <4>1, ElsewhereOwed
    <3> QED BY <3>3, <3>4
  <2> QED BY <2>1, <2>2
<1> QED BY <1>7, <1>8 DEF WaitsOK

\* tcpAccept that drops the whole queue waits for the next SYN.
LEMMA DropsWaits ==
    ASSUME CallInv, NEW t \in Threads, AcceptDropsAll(t)
    PROVE  PhasesOK' /\ SharedOK' /\ WaitsOK'
<1> DEFINE a == Allocated
           th == [thread[t] EXCEPT !.phase = "waiting"]
<1>1. PICK l, r :
        /\ sock'[Listener] = l /\ Sound(l) /\ l.type = "STREAM"
        /\ l.synQueue = << >>
        /\ l.eventMask = Mask("accept")
        /\ (CanAllocate => sock'[a] = r /\ (AllocatedEvent => r.event))
        /\ \A j \in Sockets \ {Listener} :
              ~CanAllocate \/ j # a => sock'[j] = sock[j]
        /\ Turn(t)
        /\ signalled' = signalled \cup KillNotifies
        /\ thread' = [thread EXCEPT ![t].phase = "waiting"]
        /\ recycled' = recycled \cup
             UNION {Company(t, j) : j \in IF CanAllocate THEN {a} ELSE {}}
        /\ UNCHANGED <<held, shared>>
  BY DropsStores DEF CallInv
<1>2. /\ thread[t].on = Listener /\ thread[t].call = "accept"
      /\ CanAllocate => a # Listener
  BY <1>1, TurnFacts DEF CallInv
<1>3. /\ thread[t] # Idle /\ thread[t] \in InCalls /\ thread' = [thread EXCEPT ![t] = th]
  BY <1>1, <1>2 DEF Idle, None, CallInv, TableInv, ThreadsOK
<1>4. /\ th.phase = "waiting" /\ th.call = "accept" /\ th.on = Listener
      /\ thread'[t] = th /\ \A u \in Threads \ {t} : thread'[u] = thread[u]
  BY <1>2, <1>3 DEF InCalls, CallInv, TableInv, ThreadsOK
<1> HIDE DEF th
<1>5. /\ CanAllocate => recycled' = recycled \cup Company(t, a)
      /\ ~CanAllocate => recycled' = recycled
  BY <1>1
<1>6. PhasesOK' /\ SharedOK'
  <2>1. recycled' \ recycled \subseteq {u \in Threads : thread[u] # Idle}
    BY <1>5 DEF Company
  <2>2. th.call = thread[t].call /\ th.on = thread[t].on /\ shared' = shared
    BY <1>1, <1>2, <1>4
  <2>3. thread[t] # Idle /\ thread' = [thread EXCEPT ![t] = th] /\ th.phase = "waiting"
    BY <1>3, <1>4
  <2> QED BY <2>1, <2>2, <2>3, StayKeepsCalls
<1>7. ASSUME NEW u \in Threads \ {t}, u \notin shared' PROVE Owed(u)'
  <2>1. thread'[u] = thread[u] /\ u \notin shared /\ thread[u].on \in Sockets
    BY <1>1, <1>4, <1>7 DEF CallInv, TableInv, ThreadsOK, InCalls
  <2>2. CASE thread[u] = Idle
    BY <2>1, <2>2 DEF Owed, Idle, None, Awaited
  <2>3. CASE thread[u] # Idle /\ CanAllocate /\ thread[u].on = a
    <3>1. u \in recycled'
      BY <1>5, <2>3 DEF Company
    <3> QED BY <1>1, <2>1, <2>3, <3>1, AllocatedOwed
  <2>4. CASE thread[u] # Idle /\ ~(CanAllocate /\ thread[u].on = a)
    <3>1. thread[u].on # Listener
      BY <1>2, <1>3, <2>1, <2>4, CompanyShared
    <3>2. sock'[thread[u].on] = sock[thread[u].on] /\ signalled \subseteq signalled'
      BY <1>1, <2>1, <2>4, <3>1
    <3>3. Owed(u) /\ (u \in recycled' <=> u \in recycled)
      BY <1>5, <2>1, <2>4 DEF CallInv, WaitsOK, Company
    <3> QED BY <2>1, <3>2, <3>3, SameOwed
  <2> QED BY <2>2, <2>3, <2>4
<1>8. Owed(t)'
  BY <1>1, <1>4 DEF Owed, Listens, Awaited
<1> QED BY <1>6, <1>7, <1>8 DEF WaitsOK

-----------------------------------------------------------------------------
(* The invariant and what follows from it.                                 *)

\* Segments and timers give the waiting threads what they are owed.
LEMMA NetworkKeepsCalls ==
    ASSUME CallInv, Network
    PROVE  PhasesOK' /\ SharedOK' /\ WaitsOK'
<1>1. ASSUME NEW p \in Peers, NEW stored \in BOOLEAN, Syn(p, stored)
      PROVE  PhasesOK' /\ SharedOK' /\ WaitsOK'
  <2>1. UNCHANGED <<thread, shared, recycled>>
    BY <1>1 DEF Syn
  <2> QED BY <1>1, <2>1, SynWaits, SameCalls
<1>2. ASSUME NEW i \in Sockets, NEW r, Stores(i, r)
      PROVE  PhasesOK' /\ SharedOK' /\ WaitsOK'
  <2>1. UNCHANGED <<thread, shared, recycled>>
    BY <1>2 DEF Stores
  <2>2. PhasesOK' /\ SharedOK'
    BY <2>1, SameCalls
  <2> QED BY <1>2, <2>2, StoresWaits
<1>3. ASSUME NEW i \in Sockets, NEW new \in States, Proceed(i, new)
      PROVE  PhasesOK' /\ SharedOK' /\ WaitsOK'
  BY <1>2, <1>3, ProceedStores DEF CallInv
<1>4. ASSUME NEW i \in Sockets, NEW level \in TxLevels, Drain(i, level)
      PROVE  PhasesOK' /\ SharedOK' /\ WaitsOK'
  BY <1>2, <1>4, DrainStores DEF CallInv
<1>5. ASSUME NEW i \in Sockets, Fail(i) \/ Data(i)
      PROVE  PhasesOK' /\ SharedOK' /\ WaitsOK'
  BY <1>2, <1>5, FailStores, DataStores DEF CallInv
<1>6. ASSUME NEW i \in Sockets, TimeWaitFin(i)
      PROVE  PhasesOK' /\ SharedOK' /\ WaitsOK'
  <2>1. UNCHANGED <<sock, signalled, thread, shared, recycled>>
    BY <1>6 DEF TimeWaitFin
  <2>2. PhasesOK' /\ SharedOK'
    BY <2>1, SameCalls
  <2>3. ASSUME NEW u \in Threads, u \notin shared PROVE Owed(u)'
    <3>1. Owed(u)
      BY <2>3 DEF CallInv, WaitsOK
    <3> QED BY <2>1, <3>1, SameOwed
  <2> QED BY <2>1, <2>2, <2>3 DEF WaitsOK
<1>7. ASSUME TimeWaitTimeout
      PROVE  PhasesOK' /\ SharedOK' /\ WaitsOK'
  <2> DEFINE i == Head(timeWait)
  <2>1. /\ i \in Sockets /\ sock[i].type = "STREAM"
        /\ \/ Stores(i, ChangeState(sock[i], "CLOSED"))
           \/ /\ Put(i, Dispose(sock[i]))
              /\ UNCHANGED <<held, thread, shared, recycled>>
    BY <1>7, TimeoutStores DEF CallInv
  <2> HIDE DEF i
  <2>2. CASE /\ Put(i, Dispose(sock[i]))
             /\ UNCHANGED <<held, thread, shared, recycled>>
    <3>1. PhasesOK' /\ SharedOK'
      BY <2>2, SameCalls
    <3> QED BY <2>1, <2>2, <3>1, DisposedWaits
  <2> QED BY <1>2, <2>1, <2>2
<1> QED BY <1>1, <1>3, <1>4, <1>5, <1>6, <1>7 DEF Network

\* The calls of one thread leave the others what they are owed.
LEMMA UserKeepsCalls ==
    ASSUME CallInv, NEW t \in Threads, User(t)
    PROVE  PhasesOK' /\ SharedOK' /\ WaitsOK'
<1>1. CASE Open(t)
  BY <1>1, OpenWaits
<1>2. ASSUME NEW i \in Sockets, NEW c \in Calls[t], Enter(t, i, c)
      PROVE  PhasesOK' /\ SharedOK' /\ WaitsOK'
  <2>1. /\ c \in Awaited /\ Sound(sock[i]) /\ Wait(t, i, c, sock[i])
        /\ sock[i].state # "LISTEN" /\ sock[i].type = "STREAM" /\ thread[t] = Idle
    BY <1>2, EnterWaits DEF CallInv
  <2> QED BY <2>1, WaitWaits
<1>3. ASSUME NEW i \in Sockets, NEW p \in Peers, Connect(t, i, p)
      PROVE  PhasesOK' /\ SharedOK' /\ WaitsOK'
  <2> DEFINE s == ConnectTo(sock[i], p)
  <2>1. /\ Sound(s) /\ Wait(t, i, "connect", s) /\ "connect" \in Awaited
        /\ s.state = "SYN_SENT" /\ s.type = "STREAM" /\ thread[t] = Idle
    BY <1>3, ConnectWaits DEF CallInv
  <2> HIDE DEF s
  <2>2. s.state # "LISTEN"
    BY <2>1
  <2> QED BY <2>1, <2>2, WaitWaits
<1>4. ASSUME NEW i \in Sockets, ShutdownFin(t, i)
      PROVE  PhasesOK' /\ SharedOK' /\ WaitsOK'
  <2> DEFINE s == ShutTo(sock[i])
  <2>1. /\ Sound(s) /\ Wait(t, i, "shutTx", s) /\ "shutTx" \in Awaited
        /\ s.state # "LISTEN" /\ s.type = "STREAM" /\ thread[t] = Idle
    BY <1>4, ShutdownWaits DEF CallInv, SameOwner
  <2> HIDE DEF s
  <2> QED BY <2>1, WaitWaits
<1> QED BY <1>1, <1>2, <1>3, <1>4, CloseWaits, PollWaits, AcceptCheckWaits DEF User

\* At first nobody waits.
LEMMA InitCalls ==
    ASSUME Init
    PROVE  CallInv
<1>1. \A t \in Threads : thread[t] = Idle
  BY DEF Init
<1>2. PhasesOK /\ SharedOK
  BY <1>1 DEF Init, PhasesOK, SharedOK, Idle
<1>3. WaitsOK
  BY <1>1, IdleOwed DEF WaitsOK
<1> QED BY <1>2, <1>3, InitTable DEF CallInv

\* Every step keeps what the threads are owed.
LEMMA NextCalls ==
    ASSUME CallInv, [Next]_vars
    PROVE  CallInv'
<1>1. TableInv'
  BY NextTable DEF CallInv
<1>2. CASE Network
  BY <1>1, <1>2, NetworkKeepsCalls DEF CallInv
<1>3. ASSUME NEW t \in Threads, User(t)
      PROVE  CallInv'
  BY <1>1, <1>3, UserKeepsCalls DEF CallInv
<1>4. ASSUME NEW t \in Threads, InCall(t) \/ Timeout(t)
      PROVE  CallInv'
  BY <1>1, <1>4, WakeWaits, ReturnWaits, AcceptBlockWaits, TakesWaits, DropsWaits
     DEF CallInv, InCall
<1>5. CASE UNCHANGED vars
  <2>1. UNCHANGED <<sock, signalled, thread, shared, recycled>>
    BY <1>5 DEF vars
  <2>2. PhasesOK' /\ SharedOK'
    BY <2>1, SameCalls
  <2>3. ASSUME NEW u \in Threads, u \notin shared PROVE Owed(u)'
    <3>1. Owed(u)
      BY <2>3 DEF CallInv, WaitsOK
    <3> QED BY <2>1, <3>1, SameOwed
  <2> QED BY <1>1, <2>1, <2>2, <2>3 DEF WaitsOK, CallInv
<1> QED BY <1>2, <1>3, <1>4, <1>5 DEF Next

\* The inductive invariant of the calls holds in every reachable state.
LEMMA CallInvariant == Spec => []CallInv
<1>1. Init => CallInv
  BY InitCalls
<1>2. CallInv /\ [Next]_vars => CallInv'
  BY NextCalls
<1> QED BY <1>1, <1>2, PTL DEF Spec

\* A thread alone on its socket never waits for what is there: in whatever order
\* the condition, the registration and the wait came about, its event is set.
THEOREM WakeupsAreKept == Spec => []NoWakeupIsLost
<1>1. CallInv => NoWakeupIsLost
  <2> SUFFICES ASSUME CallInv, NEW t \in Threads, Waiting(t), On(t).type = "STREAM",
                      thread[t].call = "accept" => On(t).state = "LISTEN",
                      Conditions(On(t)) \cap Mask(thread[t].call) # {}
               PROVE  IF thread[t].call = "poll" THEN t \in signalled ELSE On(t).event
    BY DEF NoWakeupIsLost
  <2> DEFINE c == thread[t].call
             s == sock[thread[t].on]
  <2>1. Owed(t) /\ thread[t].phase = "waiting" /\ t \notin recycled /\ s = On(t)
    BY DEF CallInv, WaitsOK, Waiting, Alone, On
  <2>2. CASE c \in Awaited
    BY <2>1, <2>2 DEF Owed, Called, Awaited
  <2>3. CASE c = "accept"
    <3>1. Mask(c) = {"RX_READY"} /\ "RX_READY" \in Conditions(s)
      BY <2>1, <2>3 DEF Mask
    <3>2. s.synQueue # << >>
      BY <2>1, <2>3, <3>1, ConditionsMeaning
    <3> QED BY <2>1, <2>3, <3>2 DEF Owed, Listens
  <2>4. CASE c = "poll"
    <3>1. Mask(c) = PollMask
      BY <2>4 DEF Mask
    <3> QED BY <2>1, <2>4, <3>1 DEF Owed, Polled
  <2>5. c \in AllCalls
    BY <2>1 DEF CallInv, PhasesOK, TableInv, ThreadsOK, InCalls, Idle
  <2> QED BY <2>2, <2>3, <2>4, <2>5 DEF AllCalls, Awaited
<1> QED BY <1>1, CallInvariant, PTL

\* A thread whose socket another thread closes is woken, also when the descriptor
\* is allocated again before it runs.
THEOREM ClosedSocketsWake == Spec => []ClosedSocketWakes
<1>1. CallInv => ClosedSocketWakes
  <2> SUFFICES ASSUME CallInv, NEW t \in Threads \ shared, thread[t].phase = "waiting",
                      thread[t].call \notin {"accept", "poll"},
                      t \in recycled \/ On(t).type = "UNUSED"
               PROVE  On(t).event
    BY DEF ClosedSocketWakes
  <2>1. Owed(t)
    BY DEF CallInv, WaitsOK
  <2>2. thread[t].call \in Awaited
    BY DEF CallInv, PhasesOK, TableInv, ThreadsOK, InCalls, Idle, AllCalls, Awaited
  <2> QED BY <2>1, <2>2 DEF Owed, Called, On
<1> QED BY <1>1, CallInvariant, PTL

\* What has woken a thread, alone on its socket and without a timeout, is still
\* there when the thread has the mutex again.
THEOREM WokenFind == Spec => []WokenFindsItsEvent
<1>1. CallInv => WokenFindsItsEvent
  <2> SUFFICES ASSUME CallInv, NEW t \in Threads \ Timed, thread[t].phase = "woken",
                      Alone(t), thread[t].call \notin {"accept", "poll"}
               PROVE  On(t).eventFlags # {}
    BY DEF WokenFindsItsEvent
  <2>1. Owed(t) /\ t \notin recycled
    BY DEF CallInv, WaitsOK, Alone
  <2>2. thread[t].call \in Awaited
    BY DEF CallInv, PhasesOK, TableInv, ThreadsOK, InCalls, Idle, AllCalls, Awaited
  <2> QED BY <2>1, <2>2 DEF Owed, Called, On
<1> QED BY <1>1, CallInvariant, PTL

-----------------------------------------------------------------------------
(* The SYN queue.                                                          *)

\* s is a connection to the port of the listener.
Serves(s) == s.type = "STREAM" /\ s.port = Service /\ s.remote # None

\* A SYN is in the queue once, and not when its sender has a socket; a client
\* has one socket.
UniqueOK ==
    LET q == sock[Listener].synQueue IN
    /\ Len(q) <= Backlog
    /\ \A j, k \in 1 .. Len(q) : q[j] = q[k] => j = k
    /\ \A k \in 1 .. Len(q), i \in Sockets :
         Serves(sock[i]) => sock[i].remote # q[k]
    /\ \A i, j \in Sockets :
         Serves(sock[i]) /\ Serves(sock[j]) /\ sock[i].remote = sock[j].remote => i = j

QueueInv == TableInv /\ UniqueOK

\* No thread calls tcpConnect on a socket that tcpAccept has given it: tcpConnect
\* keeps the local port of its socket.
OwnPortConnects ==
    \A t \in Threads, i \in Sockets, p \in Peers : Connect(t, i, p) => sock[i].port = Own

\* q without some of its first entries.
Suffix(r, q) ==
    \E m \in Nat : Len(r) + m <= Len(q) /\ \A k \in 1 .. Len(r) : r[k] = q[k + m]

\* What is left of a queue is a suffix of it.
LEMMA SuffixFacts ==
    ASSUME NEW S, NEW q \in Seq(S)
    PROVE  /\ Suffix(q, q) /\ Suffix(<< >>, q)
           /\ q # << >> => Suffix(Tail(q), q)
           /\ \A n \in 1 .. Len(q) : Suffix(SubSeq(q, n + 1, Len(q)), q)
<1>1. Suffix(q, q)
  <2>1. Len(q) + 0 <= Len(q) /\ \A k \in 1 .. Len(q) : q[k] = q[k + 0]
    OBVIOUS
  <2> QED BY <2>1 DEF Suffix
<1>2. Suffix(<< >>, q)
  <2>1. Len(<< >>) + 0 <= Len(q) /\ 1 .. Len(<< >>) = {}
    OBVIOUS
  <2> QED BY <2>1 DEF Suffix
<1>3. q # << >> => Suffix(Tail(q), q)
  <2> SUFFICES ASSUME q # << >> PROVE Suffix(Tail(q), q)
    OBVIOUS
  <2>1. Len(Tail(q)) + 1 <= Len(q)
        /\ \A k \in 1 .. Len(Tail(q)) : Tail(q)[k] = q[k + 1]
    OBVIOUS
  <2> QED BY <2>1 DEF Suffix
<1>4. ASSUME NEW n \in 1 .. Len(q)
      PROVE  Suffix(SubSeq(q, n + 1, Len(q)), q)
  <2> DEFINE r == SubSeq(q, n + 1, Len(q))
  <2>1. Len(r) = Len(q) - n /\ \A k \in 1 .. Len(r) : r[k] = q[n + k]
    <3>1. Len(q) \in Nat /\ n \in Nat /\ n + 1 <= Len(q) + 1
      OBVIOUS
    <3>2. Len(r) = IF n + 1 <= Len(q) THEN Len(q) - (n + 1) + 1 ELSE 0
      BY <3>1, SubSeqProperties
    <3> QED BY <3>1, <3>2, SubSeqProperties
  <2>2. Len(r) + n <= Len(q) /\ \A k \in 1 .. Len(r) : r[k] = q[k + n]
    BY <2>1
  <2> HIDE DEF r
  <2> QED BY <2>2 DEF Suffix, r
<1> QED BY <1>1, <1>2, <1>3, <1>4

\* No connection is new, and the queue has only lost its first entries.
LEMMA FewerUnique ==
    ASSUME QueueInv, sock'[Listener].synQueue \in Seq(Peers),
           Suffix(sock'[Listener].synQueue, sock[Listener].synQueue),
           \A i \in Sockets :
              Serves(sock'[i]) => Serves(sock[i]) /\ sock'[i].remote = sock[i].remote
    PROVE  UniqueOK'
<1> DEFINE q == sock[Listener].synQueue
           r == sock'[Listener].synQueue
<1>1. q \in Seq(Peers)
  BY TableAssumption DEF QueueInv, TableInv, SocketsOK, Socket
<1>2. PICK m \in Nat : Len(r) + m <= Len(q) /\ \A k \in 1 .. Len(r) : r[k] = q[k + m]
  BY DEF Suffix
<1>3. /\ Len(q) <= Backlog /\ \A j, k \in 1 .. Len(q) : q[j] = q[k] => j = k
      /\ \A k \in 1 .. Len(q), i \in Sockets : Serves(sock[i]) => sock[i].remote # q[k]
  BY DEF QueueInv, UniqueOK
<1>4. r \in Seq(Peers)
  OBVIOUS
<1> HIDE DEF q, r
<1>5. \A k \in 1 .. Len(r) : k + m \in 1 .. Len(q)
  BY <1>1, <1>2, <1>4
<1>6. Len(r) <= Backlog
  BY <1>1, <1>2, <1>3, <1>4, TableAssumption
<1>7. \A j, k \in 1 .. Len(r) : r[j] = r[k] => j = k
  BY <1>2, <1>3, <1>4, <1>5
<1>8. \A k \in 1 .. Len(r), i \in Sockets : Serves(sock'[i]) => sock'[i].remote # r[k]
  BY <1>2, <1>3, <1>5
<1>9. \A i, j \in Sockets :
         Serves(sock'[i]) /\ Serves(sock'[j]) /\ sock'[i].remote = sock'[j].remote => i = j
  BY DEF QueueInv, UniqueOK
<1> QED BY <1>6, <1>7, <1>8, <1>9 DEF UniqueOK, r

\* One descriptor changes, without a new connection or a longer queue.
LEMMA ReplacedUnique ==
    ASSUME QueueInv, NEW i \in Sockets, NEW r, sock' = [sock EXCEPT ![i] = r],
           r.synQueue = sock[i].synQueue \/ r.synQueue = << >>,
           Serves(r) => Serves(sock[i]) /\ r.remote = sock[i].remote
    PROVE  UniqueOK'
<1> DEFINE q == sock[Listener].synQueue
<1>1. sock'[i] = r /\ \A j \in Sockets \ {i} : sock'[j] = sock[j]
  BY DEF QueueInv, TableInv, SocketsOK
<1>2. q \in Seq(Peers) /\ << >> \in Seq(Peers)
  BY TableAssumption DEF QueueInv, TableInv, SocketsOK, Socket
<1>3. sock'[Listener].synQueue \in {q, << >>}
  BY <1>1, TableAssumption
<1> HIDE DEF q
<1>4. Suffix(sock'[Listener].synQueue, q)
  BY <1>2, <1>3, SuffixFacts
<1>5. sock'[Listener].synQueue \in Seq(Peers)
  BY <1>2, <1>3
<1> QED BY <1>1, <1>4, <1>5, FewerUnique DEF q

\* A step that changes no socket keeps the connections apart.
LEMMA UnchangedUnique ==
    ASSUME QueueInv, sock' = sock
    PROVE  UniqueOK'
BY DEF QueueInv, UniqueOK

-----------------------------------------------------------------------------
(* The steps.                                                              *)

\* The sender of a SYN that reaches the listener has no socket, and the SYN it
\* may have sent before is not in the queue.
LEMMA SynIsNew ==
    ASSUME TableInv, NEW p \in Peers, NEW stored \in BOOLEAN, Syn(p, stored)
    PROVE  /\ \A i \in Sockets : Serves(sock[i]) => sock[i].remote # p
           /\ LET q == sock[Listener].synQueue IN \A k \in 1 .. Len(q) : q[k] # p
<1>1. PICK i \in Lookup(Service, Listener, p) :
        sock[i].state = "LISTEN" /\ ~IsDuplicateSyn(sock[i], p)
  BY DEF Syn
<1>2. /\ i \in Sockets /\ i = Listener /\ sock[i].remote = None
  BY <1>1, LookupFinds DEF TableInv, SocketsOK, Sound
<1>3. \A j \in Matching(Service, Listener) : sock[j].remote # p
  BY <1>1, <1>2, LookupFinds, NamesAssumption
<1> QED BY <1>1, <1>2, <1>3 DEF Serves, Matching, IsDuplicateSyn, Own, Service

\* A SYN is queued only if its sender has no socket and no entry.
LEMMA SynUnique ==
    ASSUME QueueInv, NEW p \in Peers, NEW stored \in BOOLEAN, Syn(p, stored)
    PROVE  UniqueOK'
<1> DEFINE l == sock[Listener]
           q == sock[Listener].synQueue
<1>1. PICK r, rest :
        /\ sock' = [sock EXCEPT ![Listener] = r] /\ Sound(r)
        /\ l.state = "LISTEN" /\ r.state = "LISTEN"
        /\ rest = IF Len(l.synQueue) >= Backlog THEN Tail(l.synQueue) ELSE l.synQueue
        /\ stored => r.synQueue = Append(rest, p)
        /\ ~stored => r.synQueue = rest
  BY SynStores DEF QueueInv
<1>2. /\ sock'[Listener] = r /\ \A j \in Sockets \ {Listener} : sock'[j] = sock[j]
      /\ q \in Seq(Peers) /\ Len(q) <= Backlog /\ Len(q) \in Nat
  BY <1>1, TableAssumption DEF QueueInv, TableInv, SocketsOK, Socket, UniqueOK
<1>3. rest \in Seq(Peers) /\ Suffix(rest, q) /\ Len(rest) < Backlog
      /\ (q = << >> => rest = << >>)
  <2>1. CASE Len(q) >= Backlog
    <3>1. rest = Tail(q) /\ q # << >>
      BY <1>1, <1>2, <2>1, TableAssumption
    <3>2. Tail(q) \in Seq(Peers) /\ Len(Tail(q)) = Len(q) - 1
      BY <1>2, <3>1
    <3> QED BY <1>2, <3>1, <3>2, SuffixFacts, TableAssumption
  <2>2. CASE ~(Len(q) >= Backlog)
    BY <1>1, <1>2, <2>2, SuffixFacts, TableAssumption
  <2> QED BY <2>1, <2>2
<1>4. l.remote = None /\ ~Serves(l) /\ ~Serves(r)
  BY <1>1, TableAssumption DEF QueueInv, TableInv, SocketsOK, Sound, Serves
<1>5. \A i \in Sockets : Serves(sock'[i]) => Serves(sock[i]) /\ sock'[i] = sock[i]
  BY <1>2, <1>4
<1>6. /\ \A i \in Sockets : Serves(sock[i]) => sock[i].remote # p
      /\ \A k \in 1 .. Len(q) : q[k] # p
  BY SynIsNew DEF QueueInv
<1>7. CASE ~stored
  BY <1>1, <1>2, <1>3, <1>5, <1>7, FewerUnique
<1>8. CASE stored
  <2> DEFINE s == Append(rest, p)
  <2>1. PICK m \in Nat :
          Len(rest) + m <= Len(q) /\ \A k \in 1 .. Len(rest) : rest[k] = q[k + m]
    BY <1>3 DEF Suffix
  <2>2. /\ Len(s) = Len(rest) + 1 /\ Len(rest) \in Nat /\ s[Len(s)] = p
        /\ \A k \in 1 .. Len(rest) : s[k] = rest[k]
    BY <1>3
  <2>3. sock'[Listener].synQueue = s
    BY <1>1, <1>2, <1>8
  <2> HIDE DEF s
  <2>4. \A k \in 1 .. Len(q) : q[k] # p
    BY <1>6
  <2>5. \A k \in 1 .. Len(rest) : k + m \in 1 .. Len(q) /\ s[k] = q[k + m]
    BY <1>2, <2>1, <2>2
  <2>6. \A k \in 1 .. Len(s) : k \in 1 .. Len(rest) \/ k = Len(s)
    BY <2>2
  <2>7. \A j, k \in 1 .. Len(s) : s[j] = s[k] => j = k
    <3>1. \A j, k \in 1 .. Len(q) : q[j] = q[k] => j = k
      BY DEF QueueInv, UniqueOK
    <3>2. \A j, k \in 1 .. Len(rest) : s[j] = s[k] => j = k
      BY <2>1, <2>2, <2>5, <3>1
    <3>3. \A k \in 1 .. Len(rest) : s[k] # p
      BY <2>4, <2>5
    <3> QED BY <2>2, <2>6, <3>2, <3>3
  <2>8. \A k \in 1 .. Len(s), i \in Sockets : Serves(sock'[i]) => sock'[i].remote # s[k]
    <3>1. \A k \in 1 .. Len(q), i \in Sockets : Serves(sock[i]) => sock[i].remote # q[k]
      BY DEF QueueInv, UniqueOK
    <3> QED BY SMTT(30), <1>5, <1>6, <2>2, <2>5, <2>6, <3>1
  <2>9. \A i, j \in Sockets :
           Serves(sock'[i]) /\ Serves(sock'[j]) /\ sock'[i].remote = sock'[j].remote => i = j
    BY <1>5 DEF QueueInv, UniqueOK
  <2>10. Len(s) <= Backlog
    BY <1>3, <2>2, TableAssumption
  <2> QED BY <2>3, <2>7, <2>8, <2>9, <2>10 DEF UniqueOK
<1> QED BY <1>7, <1>8

\* A segment or a timer gives a socket no new peer.
LEMMA StoresUnique ==
    ASSUME QueueInv, NEW i \in Sockets, NEW r, Stores(i, r)
    PROVE  UniqueOK'
<1>1. /\ sock' = [sock EXCEPT ![i] = r] /\ r.synQueue = sock[i].synQueue
      /\ Serves(r) => Serves(sock[i]) /\ r.remote = sock[i].remote
  BY DEF Stores, SameOwner, Serves
<1> QED BY <1>1, ReplacedUnique

\* A socket that is closed for good serves nobody.
LEMMA DisposedUnique ==
    ASSUME QueueInv, NEW i \in Sockets, Put(i, Dispose(sock[i]))
    PROVE  UniqueOK'
<1> DEFINE r == Dispose(sock[i])
<1>1. Sound(sock[i])
  BY DEF QueueInv, TableInv, SocketsOK
<1>2. /\ sock' = [sock EXCEPT ![i] = r] /\ r.synQueue = << >> /\ ~Serves(r)
  BY <1>1, DisposeFacts DEF Put, Serves
<1> HIDE DEF r
<1> QED BY <1>2, ReplacedUnique

\* The network keeps the connections apart.
LEMMA NetworkUnique ==
    ASSUME QueueInv, Network
    PROVE  UniqueOK'
<1>1. ASSUME NEW i \in Sockets, NEW new \in States, Proceed(i, new)
      PROVE  UniqueOK'
  BY <1>1, ProceedStores, StoresUnique DEF QueueInv
<1>2. ASSUME NEW i \in Sockets, NEW level \in TxLevels, Drain(i, level)
      PROVE  UniqueOK'
  BY <1>2, DrainStores, StoresUnique DEF QueueInv
<1>3. ASSUME NEW i \in Sockets, Fail(i) \/ Data(i)
      PROVE  UniqueOK'
  BY <1>3, FailStores, DataStores, StoresUnique DEF QueueInv
<1>4. ASSUME NEW i \in Sockets, TimeWaitFin(i)
      PROVE  UniqueOK'
  BY <1>4, UnchangedUnique DEF TimeWaitFin
<1>5. ASSUME TimeWaitTimeout
      PROVE  UniqueOK'
  <2> DEFINE i == Head(timeWait)
  <2>1. /\ i \in Sockets
        /\ Stores(i, ChangeState(sock[i], "CLOSED")) \/ Put(i, Dispose(sock[i]))
    BY <1>5, TimeoutStores DEF QueueInv
  <2> HIDE DEF i
  <2> QED BY <2>1, StoresUnique, DisposedUnique
<1> QED BY <1>1, <1>2, <1>3, <1>4, <1>5, SynUnique DEF Network

\* A call that waits, on a socket that has kept its connection or opens one from
\* a port of its own.
LEMMA WaitUnique ==
    ASSUME QueueInv, NEW t \in Threads, NEW i \in Sockets, NEW c \in Awaited,
           NEW s, Sound(s), Wait(t, i, c, s), s.synQueue = sock[i].synQueue,
           Serves(s) => Serves(sock[i]) /\ s.remote = sock[i].remote
    PROVE  UniqueOK'
<1>1. PICK r : sock' = [sock EXCEPT ![i] = r] /\ SameConnection(s, r)
  BY WaitFacts DEF QueueInv
<1>2. /\ r.synQueue = sock[i].synQueue
      /\ Serves(r) => Serves(sock[i]) /\ r.remote = sock[i].remote
  BY <1>1 DEF SameConnection, Serves
<1> QED BY <1>1, <1>2, ReplacedUnique

\* A call that keeps the connection of its socket keeps the connections apart.
LEMMA SameConnectionUnique ==
    ASSUME QueueInv, NEW i \in Sockets, NEW r, sock' = [sock EXCEPT ![i] = r],
           SameConnection(sock[i], r) \/ SameOwner(sock[i], r)
    PROVE  UniqueOK'
<1>1. /\ r.synQueue = sock[i].synQueue
      /\ Serves(r) => Serves(sock[i]) /\ r.remote = sock[i].remote
  BY DEF SameConnection, SameOwner, Serves
<1> QED BY <1>1, ReplacedUnique

\* The calls keep the connections apart, if tcpConnect does not take the port of
\* the service.
LEMMA UserUnique ==
    ASSUME QueueInv, OwnPortConnects, NEW t \in Threads, User(t)
    PROVE  UniqueOK'
<1>1. CASE Open(t)
  <2> DEFINE r == Fresh(AllocatedEvent)
  <2>1. CanAllocate /\ sock' = [sock EXCEPT ![Allocated] = r]
    BY <1>1 DEF Open
  <2>2. Allocated \in Sockets /\ AllocatedEvent \in BOOLEAN
    BY <2>1, AllocatedFacts DEF QueueInv
  <2>3. r.synQueue = << >> /\ ~Serves(r)
    BY <2>2, FreshFacts DEF Serves
  <2> HIDE DEF r
  <2> QED BY <2>1, <2>2, <2>3, ReplacedUnique
<1>2. ASSUME NEW i \in Sockets, NEW c \in Calls[t], Enter(t, i, c)
      PROVE  UniqueOK'
  <2>1. c \in Awaited /\ Sound(sock[i]) /\ Wait(t, i, c, sock[i])
    BY <1>2, EnterWaits DEF QueueInv
  <2> QED BY <2>1, WaitUnique
<1>3. ASSUME NEW i \in Sockets, NEW p \in Peers, Connect(t, i, p)
      PROVE  UniqueOK'
  <2> DEFINE s == ConnectTo(sock[i], p)
  <2>1. /\ Sound(s) /\ Wait(t, i, "connect", s) /\ "connect" \in Awaited
        /\ s.port = sock[i].port /\ s.synQueue = sock[i].synQueue
    BY <1>3, ConnectWaits DEF QueueInv
  <2>2. sock[i].port = Own
    BY <1>3 DEF OwnPortConnects
  <2> HIDE DEF s
  <2>3. ~Serves(s)
    BY <2>1, <2>2 DEF Serves, Own, Service
  <2> QED BY <2>1, <2>3, WaitUnique
<1>4. ASSUME NEW i \in Sockets, ShutdownFin(t, i)
      PROVE  UniqueOK'
  <2> DEFINE s == ShutTo(sock[i])
  <2>1. /\ Sound(s) /\ Wait(t, i, "shutTx", s) /\ "shutTx" \in Awaited
        /\ SameOwner(sock[i], s)
    BY <1>4, ShutdownWaits DEF QueueInv
  <2> HIDE DEF s
  <2>2. /\ s.synQueue = sock[i].synQueue
        /\ Serves(s) => Serves(sock[i]) /\ s.remote = sock[i].remote
    BY <2>1 DEF SameOwner, Serves
  <2> QED BY <2>1, <2>2, WaitUnique
<1>5. ASSUME NEW i \in Sockets, Close(t, i)
      PROVE  UniqueOK'
  <2>1. CASE sock[i].type = "UNUSED"
    BY <1>5, <2>1, UnchangedUnique DEF Close
  <2>2. CASE sock[i].type # "UNUSED" /\ sock[i].state = "TIME_WAIT"
    <3> DEFINE r == [sock[i] EXCEPT !.owned = FALSE]
    <3>1. sock' = [sock EXCEPT ![i] = r] /\ sock[i] \in Socket
      BY <1>5, <2>2 DEF Close, QueueInv, TableInv, SocketsOK
    <3>2. /\ r.synQueue = sock[i].synQueue /\ r.remote = sock[i].remote
          /\ r.type = sock[i].type /\ r.port = sock[i].port
      BY <3>1 DEF Socket
    <3> HIDE DEF r
    <3>3. Serves(r) => Serves(sock[i])
      BY <3>2 DEF Serves
    <3> QED BY <3>1, <3>2, <3>3, ReplacedUnique
  <2>3. CASE sock[i].type # "UNUSED" /\ sock[i].state # "TIME_WAIT"
    BY <1>5, <2>3, DisposedUnique DEF Close
  <2> QED BY <2>1, <2>2, <2>3
<1>6. ASSUME NEW i \in Sockets, Poll(t, i)
      PROVE  UniqueOK'
  BY <1>6, PollStores, SameConnectionUnique DEF QueueInv
<1>7. ASSUME NEW i \in Sockets, AcceptCheck(t, i)
      PROVE  UniqueOK'
  BY <1>7, UnchangedUnique DEF AcceptCheck
<1> QED BY <1>1, <1>2, <1>3, <1>4, <1>5, <1>6, <1>7 DEF User

\* tcpAccept makes a connection of one entry, and the queue loses that entry and
\* those before it.
LEMMA TakesUnique ==
    ASSUME QueueInv, NEW t \in Threads, NEW n \in 0 .. Backlog - 1, AcceptTakes(t, n)
    PROVE  UniqueOK'
<1>0. TableInv
  BY DEF QueueInv
<1>1. PICK r, l :
        /\ sock' = [sock EXCEPT ![Allocated] = r, ![Listener] = l]
        /\ Sound(r) /\ r.type = "STREAM" /\ r.state = "SYN_RECEIVED" /\ r.owned
        /\ r.port = Service /\ r.remote = sock[Listener].synQueue[n + 1]
        /\ r.remote \in Peers /\ r.synQueue = << >>
        /\ n < Len(sock[Listener].synQueue)
        /\ AllocatedEvent => r.event
        /\ Sound(l) /\ SameOwner([sock[Listener] EXCEPT !.synQueue = l.synQueue], l)
        /\ l.state = "LISTEN" /\ Updated(sock[Listener], l)
        /\ l.synQueue = SubSeq(sock[Listener].synQueue, n + 2,
                               Len(sock[Listener].synQueue))
        /\ signalled' = signalled \cup KillNotifies \cup Notified(l)
        /\ timeWait' = AfterKill /\ Hand(t, Allocated)
        /\ thread' = [thread EXCEPT ![t] = Idle] /\ shared' = shared \ {t}
  BY <1>0, TakesStores, Zenon
<1> DEFINE a == Allocated
<1> DEFINE q == sock[Listener].synQueue
<1>2. Turn(t) /\ CanAllocate /\ sock' = [sock EXCEPT ![a] = r, ![Listener] = l]
  BY <1>1 DEF AcceptTakes
<1>3. /\ a # Listener /\ Listener \in Sockets /\ sock[Listener] \in Socket
      /\ sock[Listener].remote = None
  BY <1>2, TurnFacts, TableAssumption DEF QueueInv
<1>4. a \in Sockets
  BY <1>2, AllocatedFacts DEF QueueInv
<1>5. l.remote = None /\ ~Serves(l) /\ ~Serves(sock[Listener])
  BY <1>1, <1>3 DEF SameOwner, Socket, Serves
<1> HIDE DEF a
<1>6. /\ sock'[a] = r /\ sock'[Listener] = l
      /\ \A j \in Sockets \ {a, Listener} : sock'[j] = sock[j]
  BY <1>2, <1>3, <1>4 DEF QueueInv, TableInv, SocketsOK
<1>7. /\ q \in Seq(Peers) /\ Len(q) \in Nat /\ n + 1 \in 1 .. Len(q) /\ n \in Nat
      /\ Len(q) <= Backlog
      /\ \A j, k \in 1 .. Len(q) : q[j] = q[k] => j = k
      /\ \A k \in 1 .. Len(q), i \in Sockets : Serves(sock[i]) => sock[i].remote # q[k]
  BY <1>1, <1>3 DEF QueueInv, UniqueOK, Socket
<1>8. l.synQueue \in Seq(Peers)
  BY <1>1 DEF Sound, Socket
<1> DEFINE w == l.synQueue
<1>9. Len(w) = Len(q) - (n + 1) /\ \A k \in 1 .. Len(w) : w[k] = q[n + 1 + k]
  <2> DEFINE m == n + 2
  <2>1. m \in Nat /\ m \in 1 .. Len(q) + 1 /\ w = SubSeq(q, m, Len(q)) /\ m = n + 2
    BY <1>1, <1>7
  <2> HIDE DEF m
  <2>2. Len(w) = IF m <= Len(q) THEN Len(q) - m + 1 ELSE 0
    BY <1>7, <2>1, SubSeqProperties
  <2>3. \A k \in 1 .. Len(w) : w[k] = q[m + k - 1]
    BY <1>7, <2>1, <2>2, SubSeqProperties
  <2> QED BY <1>7, <2>1, <2>2, <2>3
<1> HIDE DEF w, q
<1>10. \A k \in 1 .. Len(w) : n + 1 + k \in 1 .. Len(q) /\ n + 1 + k # n + 1
  BY <1>7, <1>8, <1>9
<1>11. Len(w) <= Backlog
  BY <1>7, <1>8, <1>9, TableAssumption
<1>12. ASSUME NEW j \in 1 .. Len(w), NEW k \in 1 .. Len(w), w[j] = w[k]
       PROVE  j = k
  <2>1. q[n + 1 + j] = q[n + 1 + k]
    BY <1>9, <1>12
  <2>2. n + 1 + j = n + 1 + k
    BY <1>7, <1>10, <2>1
  <2> QED BY <1>7, <2>2
<1>13. ASSUME NEW k \in 1 .. Len(w) PROVE w[k] # r.remote
  <2>1. w[k] = q[n + 1 + k] /\ r.remote = q[n + 1]
    BY <1>1, <1>9 DEF q
  <2> QED BY <1>7, <1>10, <2>1
<1>14. \A i \in Sockets \ {a} : Serves(sock'[i]) => Serves(sock[i]) /\ sock'[i] = sock[i]
  BY <1>5, <1>6
<1>15. \A k \in 1 .. Len(w), i \in Sockets : Serves(sock'[i]) => sock'[i].remote # w[k]
  BY <1>6, <1>7, <1>9, <1>10, <1>13, <1>14
<1>16. \A i \in Sockets \ {a} : Serves(sock'[i]) => sock'[i].remote # r.remote
  BY ZenonT(30), <1>1, <1>7, <1>14 DEF q
<1>17. \A i, j \in Sockets :
          Serves(sock'[i]) /\ Serves(sock'[j]) /\ sock'[i].remote = sock'[j].remote => i = j
  BY <1>6, <1>14, <1>16 DEF QueueInv, UniqueOK
<1>18. sock'[Listener].synQueue = w
  BY <1>6 DEF w
<1> QED BY <1>11, <1>12, <1>15, <1>17, <1>18 DEF UniqueOK

\* A tcpAccept that drops the whole queue keeps the connections apart.
LEMMA DropsUnique ==
    ASSUME QueueInv, NEW t \in Threads, AcceptDropsAll(t)
    PROVE  UniqueOK'
<1>1. PICK l, r :
        /\ sock'[Listener] = l /\ l.synQueue = << >>
        /\ l.remote = sock[Listener].remote
        /\ r.type = "UNUSED" /\ (CanAllocate => sock'[Allocated] = r)
        /\ \A j \in Sockets \ {Listener} :
              ~CanAllocate \/ j # Allocated => sock'[j] = sock[j]
        /\ Turn(t)
  BY DropsStores DEF QueueInv
<1>2. sock[Listener].remote = None
  BY <1>1, TurnFacts DEF QueueInv
<1>3. ~Serves(l) /\ ~Serves(r)
  BY <1>1, <1>2 DEF Serves
<1>4. \A i \in Sockets :
         Serves(sock'[i]) => Serves(sock[i]) /\ sock'[i].remote = sock[i].remote
  BY <1>1, <1>3
<1>5. sock[Listener].synQueue \in Seq(Peers) /\ << >> \in Seq(Peers)
  BY TableAssumption DEF QueueInv, TableInv, SocketsOK, Socket
<1>6. Suffix(sock'[Listener].synQueue, sock[Listener].synQueue)
  BY <1>1, <1>5, SuffixFacts
<1> QED BY <1>1, <1>4, <1>5, <1>6, FewerUnique

\* The sections of a call that waits keep the connections apart.
LEMMA InCallUnique ==
    ASSUME QueueInv, NEW t \in Threads, InCall(t) \/ Timeout(t)
    PROVE  UniqueOK'
<1> DEFINE i == thread[t].on
<1>0. i \in Sockets /\ sock \in [Sockets -> Socket] /\ TableInv
  BY DEF QueueInv, TableInv, ThreadsOK, InCalls, SocketsOK
<1>1. CASE Wake(t) \/ Timeout(t)
  <2> DEFINE r == [sock[i] EXCEPT !.event = FALSE]
  <2>1. sock' = sock \/ sock' = [sock EXCEPT ![i].event = FALSE]
    BY <1>1 DEF Wake, Timeout
  <2>2. CASE sock' = [sock EXCEPT ![i].event = FALSE]
    <3>1. sock' = [sock EXCEPT ![i] = r]
      BY <1>0, <2>2
    <3>2. SameConnection(sock[i], r)
      BY <1>0, ClearedFacts
    <3> HIDE DEF r, i
    <3> QED BY <1>0, <3>1, <3>2, SameConnectionUnique
  <2> QED BY <2>1, <2>2, UnchangedUnique
<1>2. CASE Return(t)
  <2>1. sock' = sock \/ \E r : Put(i, r) /\ SameOwner(sock[i], r)
    BY <1>0, <1>2, ReturnStores
  <2>2. ASSUME NEW r, Put(i, r), SameOwner(sock[i], r)
        PROVE  UniqueOK'
    <3> HIDE DEF i
    <3> QED BY <1>0, <2>2, SameConnectionUnique DEF Put
  <2> QED BY <2>1, <2>2, UnchangedUnique
<1>3. CASE PollReturn(t)
  <2> DEFINE r == [sock[i] EXCEPT !.userEvent = None]
  <2>1. sock' = [sock EXCEPT ![i].userEvent = None]
    BY <1>3 DEF PollReturn
  <2>2. sock' = [sock EXCEPT ![i] = r]
    BY <1>0, <2>1
  <2>3. SameConnection(sock[i], r)
    BY <1>0, ClearedFacts
  <2> HIDE DEF r, i
  <2> QED BY <1>0, <2>2, <2>3, SameConnectionUnique
<1>4. CASE AcceptBlock(t)
  <2>1. PICK r : sock' = [sock EXCEPT ![i] = r] /\ SameConnection(sock[i], r)
    BY <1>0, <1>4, AcceptBlockStores
  <2> HIDE DEF i
  <2> QED BY <1>0, <2>1, SameConnectionUnique
<1>5. CASE AcceptNothing(t)
  BY <1>5, UnchangedUnique DEF AcceptNothing
<1> QED BY <1>1, <1>2, <1>3, <1>4, <1>5, TakesUnique, DropsUnique DEF InCall

\* At first there is no connection.
LEMMA InitUnique ==
    ASSUME Init
    PROVE  QueueInv
<1>1. TableInv
  BY InitTable
<1>2. \A i \in Sockets : sock[i].synQueue = << >> /\ ~Serves(sock[i])
  BY DEF Init, Fresh, Unused, Serves
<1>3. sock[Listener].synQueue = << >>
  BY <1>2, TableAssumption
<1>4. Len(sock[Listener].synQueue) = 0 /\ 1 .. 0 = {}
  BY <1>3
<1>5. 1 .. Len(sock[Listener].synQueue) = {} /\ Len(sock[Listener].synQueue) <= Backlog
  BY <1>4, TableAssumption
<1> QED BY <1>1, <1>2, <1>5 DEF QueueInv, UniqueOK

\* Every step keeps the connections apart.
LEMMA NextUnique ==
    ASSUME QueueInv, [Next]_vars, [OwnPortConnects]_vars
    PROVE  QueueInv'
<1>1. TableInv'
  BY NextTable DEF QueueInv
<1>2. CASE UNCHANGED vars
  BY <1>1, <1>2, UnchangedUnique DEF vars, QueueInv
<1>3. CASE Network
  BY <1>1, <1>3, NetworkUnique DEF QueueInv
<1>4. ASSUME NEW t \in Threads, User(t) \/ InCall(t) \/ Timeout(t)
      PROVE  QueueInv'
  BY <1>1, <1>2, <1>4, UserUnique, InCallUnique DEF QueueInv
<1> QED BY <1>2, <1>3, <1>4 DEF Next

\* A client has one connection to the listener's port, pending or accepted, and
\* the queue stays within its size: as long as no thread gives a socket that it
\* has accepted, and that is CLOSED, to tcpConnect.
THEOREM ConnectionsAreUnique ==
    Spec /\ [][OwnPortConnects]_vars => []ConnectionIsUnique
<1>1. Init => QueueInv
  BY InitUnique
<1>2. QueueInv /\ [Next]_vars /\ [OwnPortConnects]_vars => QueueInv'
  BY NextUnique
<1>3. QueueInv => ConnectionIsUnique
  <2> SUFFICES ASSUME QueueInv, NEW p \in Peers
               PROVE  Cardinality(Pending(p)) + Cardinality(Accepted(p)) <= 1
    BY DEF QueueInv, UniqueOK, ConnectionIsUnique
  <2> DEFINE q == sock[Listener].synQueue
  <2>1. p # None
    BY NamesAssumption
  <2>2. \A i \in Accepted(p) : i \in Sockets /\ Serves(sock[i]) /\ sock[i].remote = p
    BY <2>1 DEF Accepted, Serves
  <2>3. CASE Pending(p) # {}
    <3>1. PICK k : k \in 1 .. Len(q) /\ q[k] = p
      BY <2>3 DEF Pending
    <3>2. Pending(p) = {k}
      BY <3>1 DEF Pending, QueueInv, UniqueOK
    <3>3. Accepted(p) = {}
      BY <2>2, <3>1 DEF QueueInv, UniqueOK
    <3>4. Cardinality(Pending(p)) = 1 /\ Cardinality(Accepted(p)) = 0
      BY <3>2, <3>3, FS_Singleton, FS_EmptySet
    <3> QED BY <3>4
  <2>4. CASE Pending(p) = {}
    <3>1. CASE Accepted(p) = {}
      BY <2>4, <3>1, FS_EmptySet
    <3>2. CASE Accepted(p) # {}
      <4>1. PICK i : i \in Accepted(p)
        BY <3>2
      <4>2. Accepted(p) = {i}
        BY <2>2, <4>1 DEF QueueInv, UniqueOK
      <4> QED BY <2>4, <4>2, FS_Singleton, FS_EmptySet
    <3> QED BY <3>1, <3>2
  <2> QED BY <2>3, <2>4
<1> QED BY <1>1, <1>2, <1>3, PTL DEF Spec
==============================================================================
