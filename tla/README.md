# A TLA+ verification development of CycloneTCP

CycloneTCP is a dual IPv4/IPv6 stack in C for embedded systems. This directory
holds TLA+ specifications of its core, TLC configurations that check them on
small instances, and proofs that TLAPS checks for every value of the constants.
Paths below are relative to the repository (`core/tcp.c` is `src/core/tcp.c`).

## 1. Inventory of the system

Execution model. One network task (`netTask`, `core/net.c`) waits for driver
events and for the next tick, and calls the receive path and the periodic
handlers (`tcpTick`, `arpTick`, `dhcpClientTick`, ...). User threads call the
socket functions. Both hold one mutex (`netMutex`: `netLock`, `netUnlock`) for
the whole of what they do, except while a call blocks: `tcpWaitForEvents` frees
the mutex, waits for an event of the socket and takes it again. Interleavings
are therefore those of whole handlers, timer ticks and sections of a call
between two waits. That is the grain of atomicity of every module here.

| Component | State | Operations | Hard behaviour | What makes it correct |
|---|---|---|---|---|
| TCP connection: `core/tcp.c`, `tcp_fsm.c`, `tcp_misc.c`, `tcp_timer.c` | control block in `Socket` (`core/socket.h`): state, send and receive numbers, buffers, retransmission queue, timers | `tcpConnect`, `tcpListen`, `tcpAccept`, `tcpSend`, `tcpReceive`, `tcpShutdown`, `tcpAbort`; the handlers of `tcpProcessSegment`; `tcpTick` | loss, duplication, reordering; crossing SYNs and FINs; windows; retries against late answers | the reader gets the writer's bytes in order; the window is never overrun or taken back; what is in flight is retransmitted; no state hangs |
| Receive reassembly: `tcpProcessSegmentData`, `tcpUpdateSackBlocks`, `tcpWriteRxBuffer`, `tcpReadRxBuffer` | `sackBlock[]`, `rxBuffer`, `rcvNxt`, `rcvUser`, `rcvWnd` | segment arrival, read | wrap-around of 32-bit numbers, list of blocks at its limit, overlaps | what is acknowledged and read is what arrived |
| Congestion control, RTO, keep-alive | `cwnd`, `ssthresh`, `recover`, `srtt`, probe counters | `tcpFastRetransmit`, `tcpFastRecovery`, `tcpComputeRto`, `tcpCheckKeepAlive` | partial ACKs in recovery, timeouts in recovery | window never below one segment, recovery ends |
| Socket table: `core/socket.c`, `socket_misc.c` | `socketTable[]` | allocate, close, reuse of TIME_WAIT, lookup by four-tuple | table full, sockets still owned by a user | a handle denotes one connection |
| Socket events | `eventMask`, `eventFlags`, `event`, `userEvent` | `tcpUpdateEvents`, `tcpWaitForEvents`, `socketPoll` | two threads on one socket, lost wake-ups | a condition that holds wakes whoever waits for it |
| UDP, raw sockets | receive queue | enqueue, receive | queue full | order, bound |
| Network task, NIC, Ethernet, IP: `core/net.c`, `nic.c`, `ethernet.c`, `ip.c`, `net_misc.c` | interface table, driver flags, timers | event dispatch, ticks | mutex hand-over, coalesced driver events | every event is handled |
| Memory pool, multi-part buffers: `core/net_mem.c` | pool bitmap, chunks | allocate, copy, free | exhaustion | no leak on error paths |
| ARP: `ipv4/arp.c`, `arp_cache.c` | cache entries with state, retry count and pending packets | resolve, reply, tick | eviction, reply against timeout | pending packets are sent once or dropped |
| IPv4 and its reassembly: `ipv4/ipv4.c`, `ipv4_frag.c` | hole lists | fragment arrival, tick | duplicates, overlaps, queue full | a datagram is delivered exactly when complete |
| ICMP, Auto-IP, multicast | filters, claim state | | conflict against claim | |
| IPv6, NDP, SLAAC, router advertisements | neighbour, prefix and destination caches | | as ARP, with reachability states | |
| IGMP, MLD | group states, report timers | | suppression | |
| DHCP server and client: `dhcp/` | bindings; lease state | DISCOVER, REQUEST, DECLINE, RELEASE; T1, T2 | eviction, late ACK, retries | an address has one committed client |
| DHCPv6 client and relay | as DHCP | | | |
| NAT: `nat/` | session table | translate in and out, tick | ports exhausted, expiry | two sessions never share a public port |
| PPP: `ppp/` | the RFC 1661 automaton per protocol | configure, terminate, echo, timers | crossing negotiations | both peers open together |
| DNS, mDNS, DNS-SD, LLMNR, NetBIOS | caches, probe and announce states | | | |
| MQTT, MQTT-SN, HTTP, FTP, TFTP, SMTP, CoAP, WebSocket, Modbus, SNMP, SNTP, NTS, Syslog, Echo, LLDP, MIBs | protocol contexts over sockets | | | |
| Drivers | hardware registers | | | |

How they interact. A frame goes from a driver through `nicProcessPacket`,
Ethernet, IPv4 or IPv6 (which may wait for a reassembly, or on the way out for
an address resolution) to `tcpProcessSegment` or `udpProcessDatagram`, which
finds a socket in `socketTable`, changes it and signals its event. Everything
above the sockets is a client of the calls in `core/socket.h`.

The code is exposed to the hazards that `PROJECT.json` lists, each at its line.

## 2. Modules

| Module | Models | Notes |
|---|---|---|
| `TcpSocket` | one control block and the functions of `core/tcp_misc.c` on it | operators from a socket record to a socket record; the fields keep their C names (`owned` is `ownedFlag`, `rtxQ` is `retransmitQueue`, `probing` is `wndProbeInterval # 0`) |
| `TcpPair` | two hosts and one connection: user calls (`core/tcp.c`), ticks (`core/tcp_timer.c`), segment handlers (`core/tcp_fsm.c`) | EXTENDS `TcpSocket`; one action per call, timer and outcome of a handler |
| `ByteStream` | what a connection promises its two users | abstract specification |
| `MCTcpPair` | values of the constants for TLC | |
| `TcpSeq` | `TCP_CMP_SEQ` on numbers of a fixed width | |
| `TcpReassembly` | the receive side with wrapping sequence numbers, the block list and the ring buffer as the code keeps them | EXTENDS `TcpSeq` |
| `SocketTable` | the socket table of one host, the SYN queue, the events and the calls that wait (`core/socket_misc.c`, `socket.c`, `tcp.c`, `tcp_misc.c`) | stands beside `TcpPair`: of a connection it keeps the state, whether there is data to read and how full the transmit buffer is |
| `MCSocketTable` | instances of it, and the view of its states | |
| `DhcpServer` | the bindings of the server and its handlers (`dhcp/dhcp_server_misc.c`) | |
| `Dhcp` | clients, network, conflict detection and the server (`dhcp/dhcp_client*.c`, `ipv4/arp.c`) | EXTENDS `DhcpServer` |
| `AddressUse` | what address configuration promises the hosts of a link | abstract specification |
| `MCDhcp` | the view of the states of `Dhcp` | |
| `PppFsm` | the automaton of `ppp/ppp_fsm.c`: an event in a state gives a state and callbacks | constant operators |
| `Ppp` | two ends of a link: LCP, PAP, IPCP, `pppConnect`, `pppClose` (`ppp/lcp.c`, `pap.c`, `ipcp.c`, `ppp.c`) | EXTENDS `PppFsm` |
| `MCPpp` | the four links that are checked | |
| `TcpPairProofs` | theorems about `TcpPair`, and lemmas about the functions of `TcpSocket` | EXTENDS `TcpPair` |
| `TcpEndsProofs` | theorems about what the two ends of `TcpPair` know of each other | EXTENDS `TcpPairProofs` |
| `TcpWindowProofs` | that data stay inside the window of the peer | EXTENDS `TcpEndsProofs` |
| `TcpStreamProofs` | that `TcpPair` implements `ByteStream` | EXTENDS `TcpEndsProofs` |
| `DhcpProofs` | theorems about `DhcpServer` and `Dhcp`, and that `Dhcp` implements `AddressUse` | EXTENDS `Dhcp` |
| `SocketTableProofs` | theorems about the descriptors of `SocketTable` | |
| `SocketWaitProofs` | theorems about its events, its waits and its SYN queue | EXTENDS `SocketTableProofs` |
| `PppProofs` | theorems about `Ppp` and the tables of `PppFsm` | |

### TcpSocket and TcpPair

A handler of the code is a composition of the same functions in the same order:
`tcpStateEstablished` is `EstablishedHandler`, that is `CheckAck` (with
`UpdateSendWindow` and `UpdateRetransmitQueue`), `ProcessSegmentData`, the FIN
test, `NagleAlgo`. The tests in front of it (sequence number, RST, SYN, ACK)
and each early return are guards of an action of their own: `Unacceptable`,
`ResetByPeer`, `UnexpectedSyn`, `AckOfUnsent`, and `EstablishedSegment` for a
segment that passes them all. A segment without an ACK flag that passes the
first tests is dropped and changes nothing: it is a stuttering step. Calls that
block are cut at their waits: `Connect` ends where `tcpConnect` waits,
`ShutdownFlush` and `ShutdownFin` are the two passes of the loop of
`tcpShutdown`, `Send` is one pass of that of `tcpSend`.

The network is the set of segments an end has sent (`sent`) and `Strays`, old
segments of an earlier connection. Any of them may be received at any time, any
number of times or never: loss, duplication, delay and reordering need no
actions of their own.

Data abstraction. A byte is the position at which its sender wrote it; `Lost`
is memory that no byte of the stream was copied to. The retransmission queue is
a set, since its order is that of the sequence numbers; bytes received past a
gap are a set of numbers, where `TcpReassembly` has the list of the code.
`NagleAmount` is the closed form of the loop of `tcpNagleAlgo`, whose
conditions depend on values the loop does not change except by whole segments.

Left out of these two modules: congestion control, keep-alive, window scaling
and the SACK option (all of them build options), allocation failures, a second
client in the SYN queue and the event flags (both in `SocketTable`), a second
connection of the same socket, and time values (a timer that runs may expire at
any time). Sequence
numbers are natural numbers that start above zero and do not wrap; the
comparison modulo 2^32 is the subject of `TcpReassembly`. A SYN that is sent
again carries a number in its ACK field without the ACK flag; the receiver
ignores it and so does the model.

### ByteStream

The refinement maps `finished` to the ends whose FIN took a sequence number and
`over` to the ends in CLOSED or TIME_WAIT. `ReadLost`, which lets an end whose
connection is over read bytes that are not those of the stream, is there
because the code does so (section 5, first finding); without it the pair would
not implement the stream.

### TcpReassembly

The width is `Modulus` (2^32 in the code). Two history variables say which
position of the stream `rcvNxt` stands for and which positions have arrived and
were not forgotten with a dropped block. The model starts when `Start` bytes
were received and read, so that the window can be put anywhere with respect to
the wrap-around and to a full turn. `WriteRxBuffer` and `ReadRxBuffer` take the
remainder of the first sequence number only, as the code does, and go on from
there round the buffer; a read starts where the last one ended.

### SocketTable

`sock` is `socketTable`: type, state, addresses, `ownedFlag`, `resetFlag`, the
SYN queue, and `eventMask`, `eventFlags`, `event`, `userEvent`. `held` counts the
users who have the handle of a descriptor and have not closed it; it is two when
a descriptor was recycled under a user. `thread` is the call a thread is in and
where: `checked` (`tcpAccept` between its two sections), `waiting` (inside
`osWaitForEvent`, without the mutex), `woken` (out of it, not yet in the mutex).

A segment handler is reduced to what the rest of the stack sees of it: the
change of state (`Proceed`, along the pairs `BySegment`), data that arrives
(`Data`), a transmit buffer that empties (`Drain`), the end (`Fail`); each calls
`UpdateEvents` where the code does, in `tcpChangeState` or at its end. `Lookup`
is the search of `tcpProcessSegment`: exact match before listener, first
descriptor before the later ones. `Allocated` and `Killed` are `socketAllocate`
with `tcpKillOldestConnection`; the event object is the only field that outlives
it. `AcceptTakes(t, n)` and `AcceptDropsAll` are one turn of the loop of
`tcpAccept`, with n allocations that fail first.

`shared` and `recycled` are history: threads that had company on their socket,
and threads whose descriptor was allocated again. The code keeps one
`eventMask` and one `userEvent` per socket, so that a second waiter replaces the
interest of the first, and `socketUnregisterEvents` clears whatever is
registered. The properties of waits are therefore stated for a thread that is
alone on its socket.

Left out: UDP and raw sockets, link events, a poll over several sockets, bind
and ports that recur (`tcpGetDynamicPort` hands out the next port without a look
at the table), the initial numbers of the peers (`tcpIsDuplicateSyn` compares
addresses and ports only).

View. `MCSocketTable!View` hides the event fields of a socket on which no thread
is in a call: every call sets mask, flags and event before it reads them.

### DhcpServer, Dhcp and AddressUse

The table of bindings is the sequence of the entries in use in the order of
their time stamps, which is all that `dhcpServerCreateBinding` reads of a time
stamp besides the end of a lease (`Expire`, at any time). `FirstTried` is the
search of `dhcpServerGetNextIpAddr`, which looks at as many addresses as the
table has entries. A restart of the server empties the table.

A client is its `DhcpClientContext` and the address entry of its interface. Each
state of `dhcp_client_fsm.c` is an action or two (a retry, the end of the
retries); a message is handled by `ClientReceive`. The network is a set of
datagrams which loses, repeats, delays and reorders. `Hosts` are the clients of
this stack; the other members of `Macs` are clients of other stacks, which may
ask for any address (they do not take one: their probes are not in the model).
The ARP exchange of a probe is one step that tells the prober of a host that
uses the address, and tells a host that probes for it of the prober.

The refinement maps `uses` of `AddressUse` to the valid address of each client
that runs. `AddressUse` lets a host take an address only when no host uses it
and only after it has left its own.

Two assumptions on time. A probe is answered within `DHCP_CLIENT_PROBE_DELAY`.
And no datagram outlives T1, half the lease: `StateBound` clears the network of
the client's datagrams. The second one matters: RENEWING is entered with the
identifier of the old transaction, which the first request replaces, and what is
lost without it is in section 5. `NewAddressIsProbed`, `ImplementsAddressUse` and
their theorems hold under it.

A client sends one announcement, the default of `DHCP_CLIENT_ANNOUNCE_NUM`: in
ANNOUNCING the address is valid already, and nothing is counted there that a
property depends on.

View. `MCDhcp!View` hides fields that are overwritten before they are read again
and keeps of an identifier whether it is the current one of its client: an
answer with another one is discarded now and later.

Left out: rapid commit, several servers, INFORM, user callbacks, all options but
the addresses.

### PppFsm and Ppp

`ctx` is the `PppContext` of each end with what IPCP writes to the interface:
phase, the automata of LCP and IPCP (`state`, `identifier`, `restartCounter`),
PAP, the two flags of authentication, the addresses of `localConfig` and
`peerConfig`, the address, gateway and link state of the interface. `user` says
in which call the user of an end is; `connecting` and `closing` are the loops
that poll the context without the mutex, `aborting` is what lies between the
decision to give up and the section that resets the automata.

A frame (`Frame`), a timer (`LcpTick`, `IpcpTick`, `PapTick`) and the locked
section of a call are one step each, with all the callbacks of the automaton:
`Lcp` and `Ipcp` run the callbacks that `PppFsm` names, three at most, on the context, and
those of LCP call IPCP and PAP as the code does. `out` collects what a step
sends and is empty between steps.

The line delivers in order, as a serial line does, and may lose (`Lose`). A
timer expires when what it waits for is not on the line any more; that it
expires before the answer comes is a fault, counted in `faults` together with
losses and with calls that end by the timeout of `pppSetTimeout`. The users of
the two ends connect, close and connect again in any order; what one connection
left on the line reaches the next, whose identifiers start from zero again.

Data abstraction. Of the options there are those whose refusal has
consequences: authentication in LCP, the address and the DNS servers in IPCP.
The password of a request is right or wrong. The model is of a build with PAP
and IPv4, without CHAP and IPv6, for an interface without DNS servers.

Left out: CHAP, IPv6CP, HDLC framing, AT commands, Echo and Discard packets,
unknown codes and protocols with the rejects they cause, the LCP options that
only shape frames, failed allocations, `localState` of PAP (never read).

## 3. Runs and what they show

Each takes TLC from a few seconds to about two minutes.

| Run | Instance | Shows |
|---|---|---|
| `pair_open` | both ends may connect, the server may also listen, accept, stop listening and abort; no data; two old segments | `EndsAgree`: an end whose SYN is acknowledged agrees with its peer on the start of the streams and on what is acknowledged, in active, passive and simultaneous opens |
| `pair_window` | established; client writes three bytes in any pieces and with any flag of `tcpSend` and shuts down; server reads in pieces; segments of one or two bytes, buffers of two | `TypeOK`, `ReceiveAccounting`, `NoOverrun`, `FlightIsQueued`, `ImplementsByteStream`, `WindowNeverShrinks`, and with fair timers `BufferDrains` |
| `pair_streams` | established; client writes one byte; both shut down at any time | `FlightIsQueued`, `FinishedMeansReceived`, and `ImplementsByteStream` |
| `pair_live` | connection opened from nothing, no data, both shut down at any time | `TransientStatesEnd` |
| `reassembly` | ten bytes in segments of one to three, buffer of eight, window that crosses zero of a 5-bit number, two blocks | `UnreadBytesAreRight`, `OnlyReceivedIsAcknowledged`, `BlocksAreApart`, `NoGapUnlessWrapped` |
| `socket_calls` | a listener and one connection; a thread that accepts, reads, writes, polls and shuts down, one that connects and may time out; both open and close sockets | `NoWakeupIsLost`, `ClosedSocketWakes`, `WokenFindsItsEvent`: who waits for what has happened is woken, also when the descriptor is closed or recycled, and nobody is woken for nothing |
| `socket_table` | three descriptors, two clients that come back, a queue of two SYNs, one thread | `ConnectionIsUnique`, `NoDescriptorIsLost`, `LiveSocketIsKept` with a table that is full, and with fair threads `AcceptorIsServed` |
| `dhcp` | two clients of this stack, one of another, two addresses, a table of two | `BindingsApart`, `CommittedIsItsClients`: nobody but its client, the end of a lease or a restart touches a committed binding; `ValidOnlyWithLease`, `NewAddressIsProbed`, and `ImplementsAddressUse`: no address has two users |
| `ppp` | server and client, two ends that authenticate each other with one wrong password, a client without PAP, two ends with addresses of their own | `TypeOK`, `NetworkIsAuthenticated`, `AddressesAgree`, `LinkFollowsIpcp`, `NoHalfOpenLink`, and with fair timers `ConnectEnds` and `CloseEnds` |
| `read_after_fin`, `reassembly_wrap`, `reassembly_long` | violations: `pair_streams` with a server that writes and a client that reads; `reassembly`; a buffer of six, which does not divide 2^5, and a window across a full turn | section 5 |

Bounds, TCP. In `pair_window` a transmit buffer and a window of two make the
window close and reopen and the rings wrap with three bytes; with two bytes per
segment Nagle's algorithm and the override timer hold one back, and a
retransmission sends several items. The silly-window threshold of the receiver
is one byte there (half the window), so that it never delays an update. More
bytes repeat the same situations. One retry (`MaxRetries = 1`) gives each timer
both of its outcomes, repeat and give up. The user who writes is bounded by
`WriteLimit`. In `reassembly` a buffer of eight holds three separate blocks, one
more than `MaxSackBlocks = 2`, so that the list overflows; the window starts
before the wrap-around and ends past it. The buffer size divides the width
there, which is what the code needs (finding 3).

Bounds, sockets. `socket_calls` has two threads, since the table is all they
share, and two descriptors, so that every allocation recycles; the two threads
have different calls, which halves the states, and every call meets every other
one as both may be on either descriptor. The calls that wait for `TX_ACKED`, for
`TX_DONE` or for the peer's FIN differ from these by their mask alone and are
not called there. `socket_table` has one descriptor more than
connections the two clients keep open, so that both a free descriptor, a killed
one and a failed allocation happen. At most two users hold one handle.

Bounds, DHCP. `InFlight = 1`: a datagram that stays in the network is delivered
again, or overtaken and lost; two clients take turns. With `InFlight = 2`,
two clients and nothing that interrupts them the properties hold as well (3.6
million states); that takes too long to be kept as a run. Two addresses for three clients and a
table of two make the pool, the table and the eviction meet their limits.
`Interrupted` has one of the two hosts: only its user stops it or releases the
lease, and only its link changes. One probe and one retry are the smallest
numbers for which both outcomes of each comparison occur.

Bounds, PPP. `MaxTrouble = 2` gives each end two calls of `pppConnect`, or one
and a fault of either kind. Two repetitions of a request to configure and to
terminate (the code's default for the latter, ten for the former) and one of a
request to authenticate give every timer both of its outcomes. There are eight
identifiers, 256 in the code. They are used up when the timer of one end expires
again and again while that of the other, which would open the link, waits
(each acknowledgment sets the restart counter anew). The line is in order and
holds at most four packets each way, so that an answer with an identifier eight requests old is
not on it; what may be taken for a new answer is one of a former connection.

Deadlock is checked in `dhcp`. In the TCP runs it is not: a connection ends and
a bounded stream is used up, or every user has closed. Nor is it in `ppp`, where
the calls of `pppConnect` are bounded.

Fairness. `Ticks` is weak fairness of each timer action: `netTask` calls
`tcpTick` every `TCP_TICK_INTERVAL`, which examines every socket. In
`SocketTable` a thread that can go on in its call does (the scheduler), and the
2MSL timer ends. Nothing is assumed of the network, which may lose everything,
or of the users. Liveness is therefore that no state lasts for ever, not that
the peer gets the data. There is no liveness property of DHCP: over a network
that may lose everything no client needs ever get a lease. In `Ppp` the line and
the loops of the calls go on (weak fairness), and `pppTick` makes each timer
that is due again and again expire (strong fairness: packets of the other end
disable a timer for a while); faults and users are not fair.

Every property has a mutant, a plausible mistake in the code, that makes the
run fail: see `PROJECT.json`.

## 4. What is proved

`TcpPairProofs`, for all segment sizes, buffer sizes, retry limits, initial
numbers, users and sets of old segments (the named `ASSUME`s of `TcpSocket` and
`TcpPair`: positive sizes, two distinct ends, typed parameters):

- `TypeCorrect`: `Spec => []TypeOK`.
- `ReceiveAccounted`: `Spec => []ReceiveAccounting`.
- `WindowKept`: `Spec => WindowNeverShrinks`.
- `EstablishedSafe`: the three for the specification that starts established.

Argument. `TypeOK` and `ReceiveAccounting` are not inductive: taking in a byte
needs to know that the bytes past the gap lie inside the window, and a handshake
that sets `rcvNxt` needs to know that none is held yet. The inductive invariant
is `IInv`: `TypeOK`, and for each socket `Good` - unread bytes and window fit
together (`WindowFits`), held bytes lie strictly inside the window in the states
that take data (`GapsInside`), an unused entry is closed, a socket that has not
heard its peer's number holds nothing, and the numbers it sends are positive
(the window probe uses SND.UNA - 1). The first part of the module has one
lemma per function of `TcpSocket`: what type it returns and what it leaves alone
(`SameReceive`, `SameControl`). The second composes them along the handlers,
one lemma per action, and `NextIInv` gathers both facts of a step: it keeps
`IInv` and does not move the right edge of an offered window to the left.

In the same module, for the same constants and with any old segments:

- `NothingForgotten`: `Spec => []FlightIsQueued`, and for `EstablishedSpec`.

Argument. Given the types of `IInv` the property is inductive socket by socket
(`Queued`; `Kept` without the condition on the state), but a step has to keep it
through every function of its handler. There is one lemma per function of
`TcpSocket`: an item leaves the queue only when all of its numbers are
acknowledged, so that what is left covers what is still in flight; SND.NXT moves
only together with a new item; the timer stops only when the last item goes. It
holds for any segment that arrives, so nothing is assumed of the peer or of the
old segments, and an acknowledgment of numbers never sent is no exception.

`TcpEndsProofs`, for the same constants, if the old segments are old (below):

- `EndsKeepAgreeing`: `Spec => []EndsAgree`, and for `EstablishedSpec`.
- `FinishedWasReceived`: the same for `FinishedMeansReceived`.

Argument. The invariant, `AInv`, relates the socket of an end to that of its
peer and to every segment the end ever sent, since the network may deliver any
of them at any time. Before its connection an end has sent resets only
(`Blank`). After that, `Core` says that each live segment and each item of the
queue has numbers up to SND.NXT and acknowledgments up to RCV.NXT
(`SegmentOK`, `ItemOK`), how many numbers the bytes written and the FIN take
(`Numbers`), and what the end knows of its peer (`Agrees`): nothing (`Deaf`),
the truth (`Right`: it received only what the peer sent), or an old SYN
(`Mistaken`), in which case its own SYN is never acknowledged, because the
peer would have to confirm a number it never used. `Phase` says what the state
adds: SND.NXT is one past the FIN in the states after it. `EndsAgree` needs all
of it: that an acknowledgment is believed only if the peer received what it
acknowledges holds because the segment is one the peer sent (`SegmentOK`), and
the peer received only what was sent (`Right`), which in turn needs that the
peer was not mistaken about the start of the stream. Both proofs use that an end
only moves forward (`Advances`), so that what it sent stays right.

The hypothesis `StraysAreOld` (in `TcpPair`) is what tells an old segment from
one of this connection: its acknowledgment lies beyond every number the end
will use or, in a segment without data, before the first one, and an old SYN
has a number so far from those of the peer that no segment of the peer fits the
window it opens. Without it the two properties are false, of this code and of
any other that follows RFC 793: an old segment whose numbers fit is acceptable
(the quiet time and TIME_WAIT are there to keep such segments away). Old resets
are not restricted: they may end the connection, and the theorems hold then
too. `MCTcpPair` states the hypothesis as an assumption, so that TLC evaluates it
for the old segments of each run.

`TcpWindowProofs`, for the same constants and under the same hypothesis:

- `WindowRespected`: `Spec => []NoOverrun`, and for `EstablishedSpec`.

Argument. `NoOverrun` compares what one end sent with what the other can store
now; between the two lies every acknowledgment the peer ever sent, any of which
may arrive next. `WInv` adds to `AInv`: a segment offers no more than the right
edge of its sender's window (`Offer`), which stays true because that edge never
moves back (`Reach`); an end that sent neither data nor a FIN has used the number
of its SYN and no other (`AcksOnly`), so that all its acknowledgments bear the
same number; and the other end has sent and queued nothing beyond that edge
(`Within`) and, in the states in which new data are sent, keeps in SND.WND the
window of the segment whose acknowledgment is SND.UNA (`Window`: SND.WL2 equals
SND.UNA and SND.WL1 is not past the number of the next acknowledgment). The last
is what `tcpUpdateSendWindow` maintains, and the reason why the peer has to be
one that only acknowledges: under one number a newer acknowledgment always
passes the test on SND.WL1 (`TakenOffer`, `CheckAckWindow`), whereas beside data
it may fail it (section 5). A step either says nothing new (`Repeats`: no data,
or data sent before) or sends within the window it has (`NagleHeld`,
`OverrideHeld`). `AInv` is needed to know that an acknowledgment of a number of
this connection is the peer's own.

`TcpStreamProofs`, for the same constants and under the same hypothesis:

- `StreamImplemented`: `Spec => ImplementsByteStream`, and for `EstablishedSpec`.

Argument. `AInv` says which numbers segments have; the refinement needs what is
in them. `BInv` follows a byte from one user to the other, each time under the
number it was written with (`EndStream`). Every segment on the network carries
bytes that were written, or the FIN after the last one (`Carries`); a byte may
differ from the one that was written only if the peer has received its number,
because a segment that is sent again is built from the ring buffer as it is then,
and a late copy of it must do no harm. Every item of the queue stands for such
a segment, and the transmit buffer holds each byte that was written and not
acknowledged (`ItemFits`, `Holds`): `tcpSend` writes over a place of the ring only
when the byte in it is acknowledged, which is where `AInv` comes in, since only
what the peer received is believed to be acknowledged. On the receiving side the
buffer holds at its place each byte that is not read yet and each that is held
past a gap, and the bytes read and unread add up to RCV.NXT (`Takes`); once the
FIN is taken they add up to all the peer wrote (`TookAll`). It is `WindowFits`
that keeps a new byte off the place of an unread one. The two halves are
kept apart: `SameTx` and `SameRx` say that a step leaves the half of the sender
or of the receiver alone, `Calm` that it leaves both. `MoveRefines` maps a step that neither writes nor reads to a step of
`ByteStream` (`Begin`, `Finish`, `Leave`) or to a stutter; `Send`, `Receive` and
the end of the stream map to `Write`, `Read` or `ReadLost`, and `EndOfStream`.
`ReadLost` is finding 1: the proof needs it exactly in CLOSED and TIME_WAIT.

`DhcpProofs`, about the server, for every pool, table size, set of clients and sequence of
messages (the `ASSUME`s of `DhcpServer`: a pool that is not empty, a table with at
least one entry):

- `BindingsAreApart`: `ServerSpec => []BindingsApart`.
- `ServerTypeCorrect`: `ServerSpec => []ServerTypeOK`.

Argument. The inductive invariant is the conjunction of the two, `Good`: the
server frees and reuses entries, so that an entry is apart from the others only
because the address it gets was looked up among those that were left, and it is
an address of the pool only because the search wraps inside it. `ExceptApart`
and `AppendApart` say what removing and appending an entry do to a table of
entries that are apart; `RoomMade` covers the table at its limit;
`FoundAddress` says that the address at which the search stops is free. There is
one lemma per handler, and `NextIInv` adds expiry and restart. `ServerSpec`
lets any message arrive at any time. The lemma `ServerSteps` of the same module
shows that the steps of `Dhcp` change the server's variables only by steps of
`ServerNext`, which carries `Good` over to `Dhcp`.

`DhcpProofs`, about `Dhcp`, for every number of hosts and of clients of other stacks, pool,
table, number of probes and retries, and every size of the network:

- `TypeCorrect`: `Spec => []TypeOK`.
- `LeaseMeansValid`: `Spec => []ValidOnlyWithLease`.
- `BindingsStayApart`: `Spec => []BindingsApart`.
- `AddressesAreUsedByOne`: `Spec => ImplementsAddressUse`, if `ProbeNum > 0`.
- `CommittedLeasesAreKept`: `Spec => CommittedIsItsClients`.
- `NewAddressesAreProbed`: `Spec => NewAddressIsProbed`.

Argument. `DInv` is `Good`, the types (`NetOK`, `ClientsOK`, with the relation of
the state of a client to that of its address), `ClaimsApart` and `OnlyRenewals`.
The refinement needs that a host that takes an address after its probes is the
only one with it. `ClaimsApart` is the reason: two hosts that claim an address
claim different ones, where a host claims the address it uses, and the one it has
sent a probe for without hearing of a conflict. A probe is heard by whoever
uses the address or probes for it, so that of two hosts that probe the second one
hears of the first or tells it.
`OnlyRenewals` says that a client in RENEWING or
REBINDING can be answered only with the address that it has. It holds by the
assumption on T1 of section 2, which is part of the model and so of the theorem.
`NewAddressesAreProbed` follows from it, action by action: an address becomes
valid at the end of PROBING, or is renewed by an ACK that bears the same one.
`CommittedLeasesAreKept` needs `Good` only: each handler leaves the entries of
other clients alone unless they are not committed.
`ProbeNum > 0` is a hypothesis because the code allows
`DHCP_CLIENT_PROBE_NUM = 0` (the default is 1, `dhcp/dhcp_client.h`); a client
that does not probe takes what a restarted server gives it, whoever uses it.

`SocketTableProofs`, for every number of descriptors, clients, threads and users,
every choice of calls, and every size of the SYN queue:

- `TypeCorrect`: `Spec => []TypeOK`.
- `DescriptorsAreKept`: `Spec => []NoDescriptorIsLost`.
- `LiveSocketsAreKept`: `Spec => LiveSocketIsKept`.

Argument. `TableInv` says what each entry of the table can be given its state
(`SocketsOK`: only the listener listens, a free entry is CLOSED and has no peer,
only a listener has a SYN queue, data and unacknowledged bytes are only in the
states that have them), that a 2MSL timer runs for each socket in TIME_WAIT, one
only, and for no other (`TimersOK`), that a socket without users is in TIME_WAIT and
not owned (`HandlesOK`), and the types of calls (`ThreadsOK`). `NoDescriptorIsLost`
follows from it; it needs the timers because the socket that nobody holds is
freed by them alone. `LiveSocketIsKept` is shown action by action from the same
invariant. The lemmas about `Allocated`, `Killed`, `Dispose` and `UpdateEvents` are
shared by all actions.

`SocketWaitProofs`, for the same constants:

- `WakeupsAreKept`: `Spec => []NoWakeupIsLost`.
- `ClosedSocketsWake`: `Spec => []ClosedSocketWakes`.
- `WokenFind`: `Spec => []WokenFindsItsEvent`.

Argument. The three follow from one invariant, `CallInv`: `TableInv`, the phases
of a call (`PhasesOK`), who has company on a socket (`SharedOK`), and, for each
thread alone on its socket (`WaitsOK`), that mask and flags of the socket are its
own: the flags are the conditions that hold among those it asked for, and while it
waits the event is set exactly when a flag is. A thread that was woken has a
flag until it runs: no step of a segment, a timer or another thread takes away
the last of the conditions that a call waits for (`Lasts`).

The SYN queue, in the same module:

- `ConnectionsAreUnique`: `Spec /\ [][OwnPortConnects]_vars => []ConnectionIsUnique`.

`OwnPortConnects` says that `tcpConnect` is not given a closed socket that still
has the local port of the listener. It is needed: `tcpAccept` gives the new
socket the port of the listener, `tcpConnect` on that socket once it is CLOSED
keeps the port (`core/tcp.c:149`), and TLC with `Calls = {accept, connect,
shutTx}` finds two connections with one client in eleven steps. In
`socket_table` no call connects, so that the hypothesis holds there. The
invariant, `QueueInv`, adds to `TableInv` that the SYNs in the queue are of
different clients, that none of these has a socket with the port of the service,
and that no client has two.

`PppProofs`, for all settings of the two ends, every restart counter, number of
identifiers and bound on faults (the `ASSUME`s of `Ppp`: two ends, positive
limits, typed settings):

- `TypeCorrect`: `Spec => []TypeOK`.
- `NetworkAuthenticated`: `Spec => []NetworkIsAuthenticated`.
- `LinkFollows`: `Spec => []LinkFollowsIpcp`.

Argument. It has three layers. The tables of `ppp_fsm.c` come first: `Sound`
says of a step that it signals This-Layer-Up exactly when it enters Opened,
This-Layer-Down exactly when it leaves it, This-Layer-Finished on the way to
Closed or Stopped, and each of them last; one lemma per event shows that its
table is sound. (Starting is excluded: no automaton is in it between two steps.) Then the handlers:
`Layers` relates the phase, the three automata and the flags of
authentication of one end - IPCP at rest outside the network phase, LCP open in
it, the PAP timer only while its answer is awaited - and `Keeps` says what a handler
may not do: besides `Layers` it keeps the settings, gains trust in the
peer only from a request that shows the password, and keeps an interface
that follows IPCP following it. There is one lemma per handler, for any packet.
Last the link: `IInv` adds that the requests of PAP on the line are those of the
end that sent them (`PacketsOf`), so that what a former connection left behind
tells no lie, and that, while no call has ended by its timeout, a user who is
about to call `pppConnect` finds the link dead (`UserInv`), since
`pppConnect` resets the automata without asking. `NetworkIsAuthenticated` is not
inductive without `localAuthDone` in the network phase, nor `LinkFollowsIpcp`
without the phases.

Only model-checked: the properties of `TcpReassembly` (folds over
the list of blocks, and two of them are refuted by a wrap-around);
`AddressesAgree` and `NoHalfOpenLink` of `Ppp` (they relate the automata of both
ends to everything on the line between them); and liveness (`AcceptorIsServed`, `BufferDrains`,
`TransientStatesEnd`, `ConnectEnds`, `CloseEnds`), which TLAPS does not reach.

## 5. Findings

1. `core/tcp_fsm.c:1206` (also 1283, 1335): the entry in TIME_WAIT frees the
   receive buffer while the user has unread bytes. `tcpReceive` still counts
   them as available and returns memory it has not written.
   Run `read_after_fin`.
2. `core/tcp_misc.c:1625`: blocks are merged with unsigned MIN and MAX. Across
   the wrap-around the result is not contiguous. Run `reassembly_wrap`.
   `NoGapUnlessWrapped` shows that the merge is right everywhere else.
3. `core/tcp_misc.c:2441`: a write and a read of the ring buffer start at the
   remainder of `seqNum - irs - 1`, which starts again from zero after 2^32 bytes.
   Unless the buffer size divides 2^32 (the default, 2860, does not), a byte has
   one place for a write or a read that begins before the turn and another one
   for those that begin after it. In the run the first byte after the turn
   arrives out of order, and the segment before it is then written over it; the
   user reads a wrong byte that was acknowledged. A single write across the turn,
   read from before it, is right. Run `reassembly_long`.

More that a reader of the code should know, which is not a finding since no run
shows that it breaks a promise of the repository:

- Two threads that wait on one socket replace each other's mask (section 2,
  `SocketTable`).
- A sender can exceed the window of its peer when both ends write. The window of
  a segment whose number is below SND.WL1 is ignored (`core/tcp_misc.c:1701`, the
  rule of RFC 793), but its acknowledgment moves SND.UNA, and a retransmission is
  such a segment. In an instance of `TcpPair` with `Mss = 1`, buffers of two and two
  users who write, TLC finds `NoOverrun` violated in seven steps: the server sends
  two bytes, takes one of the client (its window falls to one) and retransmits
  both; the client takes the second byte first and then the retransmission of the
  first, and sends two bytes. The comment of `tcpNagleAlgo` that "the amount of
  data that can be sent at any given time is limited by the receiver window"
  (`core/tcp_misc.c:2028`) is not kept then; the receiver drops what does not fit,
  and the sender repeats it. The same can happen after the receiver has sent
  its FIN. `NoOverrun` is therefore about a peer that sends neither data nor a FIN.
- The transmit buffer is addressed like the receive buffer (`core/tcp_misc.c:2361`):
  what finding 3 says of one side holds for the other.
- RENEWING is entered with the identifier of the old transaction
  (`dhcp/dhcp_client_fsm.c:513`): until the next tick sends the first request, an
  ACK of that transaction is taken although no request is pending, and its
  address is used without a probe. It takes a datagram that outlives T1. With
  `net` left alone in `StateBound`, one client, one of another stack and
  `InFlight = 2`, TLC finds `NewAddressIsProbed` violated in 22 states: a DISCOVER
  that arrives again after a restart of the server is answered by an OFFER of
  another address, the REQUEST for it is overtaken by the ACK of the first, and
  its own ACK arrives in RENEWING. With two hosts a run of 25 steps gives a client
  an address that the other one uses.
- In LAST_ACK an acknowledgment of data in flight, and not of the FIN, is
  ignored (`core/tcp_fsm.c:1123`): the retransmission timer repeats the head of
  the queue, which the peer has, until the retries are used up.
- A socket from `tcpAccept` that is CLOSED and given to `tcpConnect` keeps the
  port of the service, so that it may be in the way of, or a second connection
  beside, a client of the service (section 4, `ConnectionsAreUnique`).
- An ended connection whose socket is still open hides the listener from a new
  SYN of the same client (`core/tcp_fsm.c:278`).
- A PPP authenticator has no timer for the Authenticate-Request (`ppp/pap.c:60`):
  after losses its `pppConnect` with an infinite timeout may wait for a peer
  that has given up. `ConnectEnds` and `NoHalfOpenLink` therefore speak of
  behaviours without faults.
- An IPCP that opens between the decision of `pppConnect` that its time is up
  (`ppp/ppp.c:686`) and the reset of the automata (`ppp/ppp.c:711`) is reset without
  This-Layer-Down: the interface stays up on a dead link. Without its condition on
  timeouts, `LinkFollowsIpcp` is violated in 16 states.
- Two PPP ends without addresses answer each other's requests by Naks for ever:
  `PPP_MAX_FAILURE` and `failureCounter` are not used. No link of `MCPpp` is of
  this kind.

## 6. Plan

The models are complete as far as this development takes them. What is left is
proofs, in this order:

1. `Ppp`: `AddressesAgree`, with the requests and answers of IPCP on the line
   related to the addresses of both ends.
2. Lemmas on `CmpSeq` (antisymmetry, shift invariance within half the width)
   that justify the natural numbers of `TcpSocket`.

## 7. Not modelled

- Congestion control, RTO estimation, keep-alive, window scaling, the SACK
  option: build options that delay or describe data; the connection is modelled
  without them. Recovery needs windows of many segments, beyond TLC here.
- The ARP cache, IPv4 reassembly, IPv6 with NDP, NAT, IGMP and MLD, the
  naming protocols, MQTT: subsystems with state of their own that share none
  with what is modelled; section 1 says what would make them correct. Of ARP
  the detection of address conflicts is in `Dhcp`.
- CHAP and IPv6CP: the counterparts of PAP and IPCP, with other encodings and
  a challenge; the rest of PPP that section 2 lists as left out.
- UDP and raw sockets: a bounded queue per socket.
- The network task and the drivers' interrupts: the mutex gives the grain of
  the steps, register-level code has nothing to model at this level.
- The memory pool: allocation fails or not, at any time, where `SocketTable`
  allocates.
- BSD sockets, text protocols, management data, and DHCPv6's relay: translation
  and parsing without concurrency of their own.
