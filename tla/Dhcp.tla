-------------------------------- MODULE Dhcp --------------------------------
(***************************************************************************)
(* DHCP clients (dhcp/dhcp_client_fsm.c, dhcp/dhcp_client_misc.c), the     *)
(* server of DhcpServer and the link between them: a network that loses,   *)
(* repeats, delays and reorders datagrams, and the ARP exchange by which a *)
(* client finds out that its address is in use (ipv4/arp.c).               *)
(*                                                                         *)
(* There is no clock: a retransmission timer, T1, T2 and the end of a      *)
(* lease may come at any time.  Two timing assumptions are left: a probe   *)
(* is answered within the probe delay, and a datagram does not outlive T1. *)
(***************************************************************************)
EXTENDS DhcpServer

CONSTANTS Hosts,     \* the clients of this stack among Macs; the others are foreign
          Interrupted, \* the hosts whose user stops the client, and whose link changes
          MaxRc,     \* DHCP_CLIENT_REQUEST_MAX_RC
          ProbeNum,  \* DHCP_CLIENT_PROBE_NUM
          InFlight   \* bound on the datagrams of the network

ASSUME HostsAssumption == Hosts \subseteq Macs /\ Interrupted \subseteq Hosts
ASSUME CountsAssumption == MaxRc \in Nat \ {0} /\ ProbeNum \in Nat /\ InFlight \in Nat

VARIABLES client,   \* DhcpClientContext and the address entry of the interface
          net       \* datagrams that may still arrive

vars == <<clientBinding, nextIpAddr, client, net>>

Xids == 1 .. InFlight + 1
States == {"INIT", "SELECTING", "REQUESTING", "INIT_REBOOT", "REBOOTING", "PROBING",
           "ANNOUNCING", "BOUND", "RENEWING", "REBINDING"}

Client == [state : States, running : BOOLEAN, linkState : BOOLEAN,
           transactionId : Xids, retransmitCount : Nat,
           requestedIpAddr : Pool \cup {Unspecified},
           addr : Pool \cup {Unspecified},
           addrState : {"INVALID", "TENTATIVE", "VALID"}, conflict : BOOLEAN]

-----------------------------------------------------------------------------
(* The network.                                                            *)

Smaller(i, j) == IF i < j THEN i ELSE j

\* What the network may hold after messages are sent: they are lost, or enter,
\* and one that is there is lost when there are too many.
Sent(N, messages) ==
    {N} \cup {M \in SUBSET (N \cup messages) :
               Cardinality(M) = Smaller(InFlight, Cardinality(N \cup messages))}

\* What the network holds after a message arrived: it may arrive again.
Arrived(m) == {net, net \ {m}}

\* netGenerateRand: an identifier that no datagram of the client carries.
NewXid(c) == CHOOSE x \in Xids : \A m \in net : m.mac = c => m.xid # x

Datagram(c, type, xid, ip, ciaddr) ==
    [type |-> type, mac |-> c, xid |-> xid, ip |-> ip, ciaddr |-> ciaddr]

-----------------------------------------------------------------------------
(* The client.                                                             *)

\* dhcpClientChangeState
ChangeState(r, s) == [r EXCEPT !.state = s, !.retransmitCount = 0]

\* dhcpClientResetConfig
ResetConfig(r) == [r EXCEPT !.addr = Unspecified, !.addrState = "INVALID"]

\* The identifier of the message that is sent now: the first one has a new one.
XidToSend(c) == IF client[c].retransmitCount = 0 THEN NewXid(c)
                                                 ELSE client[c].transactionId

\* The counter is compared with the limit, and with zero; it is bounded there.
Counted(r) == [r EXCEPT !.retransmitCount = IF @ < MaxRc THEN @ + 1 ELSE @]

SendOf(c, xid, type, ip, ciaddr) ==
    /\ client' = [client EXCEPT ![c] = Counted([@ EXCEPT !.transactionId = xid])]
    /\ net' \in Sent(net, {Datagram(c, type, xid, ip, ciaddr)})

Become(c, r) == client' = [client EXCEPT ![c] = r] /\ UNCHANGED net

\* dhcpClientStateInit, dhcpClientStateInitReboot
StateInit(c) ==
    /\ client[c].running /\ client[c].linkState
    /\ \/ /\ client[c].state = "INIT"
          /\ Become(c, ChangeState(client[c], "SELECTING"))
       \/ /\ client[c].state = "INIT_REBOOT"
          /\ Become(c, ChangeState(client[c], "REBOOTING"))

\* dhcpClientStateSelecting
StateSelecting(c) ==
    /\ client[c].state = "SELECTING"
    /\ SendOf(c, XidToSend(c), "DISCOVER", Unspecified, Unspecified)

\* dhcpClientStateRequesting: the identifier is that of the offer.
StateRequesting(c) ==
    /\ client[c].state = "REQUESTING" /\ client[c].retransmitCount < MaxRc
    /\ SendOf(c, client[c].transactionId, "REQUEST", client[c].requestedIpAddr,
              Unspecified)

\* dhcpClientStateRebooting
StateRebooting(c) ==
    /\ client[c].state = "REBOOTING" /\ client[c].retransmitCount < MaxRc
    /\ SendOf(c, XidToSend(c), "REQUEST", client[c].requestedIpAddr, Unspecified)

\* No answer within the number of attempts: from the beginning.
GiveUp(c) ==
    /\ client[c].state \in {"REQUESTING", "REBOOTING"}
    /\ client[c].retransmitCount >= MaxRc
    /\ Become(c, ChangeState(client[c], "INIT"))

\* arpProcessPacket and arpProcessRequest at the host that receives a probe for
\* an address: it answers if it uses it, and a host that probes for it as well
\* takes notice.
AnswersProbe(d, ip) ==
    client[d].linkState /\ client[d].addr = ip /\ client[d].addrState = "VALID"
\* Mutant: only a host that uses the address already is told of a probe.
ProbesTooNever(d, ip) == FALSE
ProbesToo(d, ip) ==
    client[d].linkState /\ client[d].addr = ip /\ client[d].addrState = "TENTATIVE"

\* arpSendProbe and what comes of it: the state of the hosts after the exchange.
AfterProbe(c) ==
    [d \in Hosts |->
       IF d = c
         THEN Counted([client[c] EXCEPT
                !.conflict = @ \/ \E e \in Hosts \ {c} : AnswersProbe(e, client[c].addr)])
         ELSE [client[d] EXCEPT !.conflict = @ \/ ProbesToo(d, client[c].addr)]]

\* dhcpClientStateProbing, while no conflict is known.
Probe(c) ==
    /\ client[c].state = "PROBING" /\ ~client[c].conflict
    /\ client[c].retransmitCount < ProbeNum
    /\ client' = AfterProbe(c)
    /\ UNCHANGED net

ProbingComplete(c) ==
    /\ client[c].state = "PROBING" /\ ~client[c].conflict
    /\ client[c].retransmitCount >= ProbeNum
    /\ Become(c, ChangeState([client[c] EXCEPT !.addrState = "VALID"], "ANNOUNCING"))

\* The address is in use: it is declined, and configuration starts again.
Decline(c) ==
    /\ client[c].state = "PROBING" /\ client[c].conflict
    /\ client' = [client EXCEPT ![c] =
                    ChangeState([@ EXCEPT !.transactionId = NewXid(c)], "INIT")]
    /\ net' \in Sent(net, {Datagram(c, "DECLINE", NewXid(c),
                                    client[c].requestedIpAddr, Unspecified)})

\* dhcpClientStateAnnouncing: a host that probes for the address, or uses it,
\* takes notice of the announcement.
StateAnnouncing(c) ==
    /\ client[c].state = "ANNOUNCING"
    /\ client' = [d \in Hosts |->
         IF d = c THEN ChangeState(client[c], "BOUND")
         ELSE [client[d] EXCEPT !.conflict =
                 @ \/ ProbesToo(d, client[c].addr) \/ AnswersProbe(d, client[c].addr)]]
    /\ UNCHANGED net

\* dhcpClientStateBound: T1.  No datagram of the past arrives from now on.
StateBound(c) ==
    /\ client[c].state = "BOUND"
    /\ client' = [client EXCEPT ![c] = ChangeState(@, "RENEWING")]
    /\ net' = {m \in net : m.mac # c}

\* dhcpClientStateRenewing and dhcpClientStateRebinding, before T2 and the end.
Extend(c) ==
    /\ client[c].state \in {"RENEWING", "REBINDING"}
    /\ SendOf(c, XidToSend(c), "REQUEST", Unspecified, client[c].addr)

T2(c) ==
    /\ client[c].state = "RENEWING"
    /\ Become(c, ChangeState(client[c], "REBINDING"))

LeaseEnds(c) ==
    /\ client[c].state = "REBINDING"
    /\ Become(c, ChangeState(ResetConfig(client[c]), "INIT"))

Tick(c) == \/ StateInit(c) \/ StateSelecting(c) \/ StateRequesting(c)
           \/ StateRebooting(c) \/ GiveUp(c) \/ Probe(c) \/ ProbingComplete(c)
           \/ Decline(c) \/ StateAnnouncing(c)
           \/ StateBound(c) \/ Extend(c) \/ T2(c) \/ LeaseEnds(c)

-----------------------------------------------------------------------------
(* What the client does with an answer; NoChange when it is discarded.      *)

\* dhcpClientParseOffer
ParseOffer(r, m) ==
    IF r.state = "SELECTING"
      THEN ChangeState([r EXCEPT !.requestedIpAddr = m.ip], "REQUESTING") ELSE r

\* Mutant of ParseAck: the answer of a reboot is handled like that of a renewal.
ParseAckReboot(r, m) ==
    LET s == IF r.state = "REQUESTING" THEN "PROBING" ELSE "BOUND" IN
    IF r.state \in {"REQUESTING", "REBOOTING", "RENEWING", "REBINDING"}
      THEN ChangeState([r EXCEPT !.requestedIpAddr = m.ip, !.addr = m.ip,
                          !.addrState = IF s = "BOUND" THEN "VALID" ELSE "TENTATIVE",
                          !.conflict = FALSE], s)
      ELSE r

\* dhcpClientParseAck: a new address is tentative, a renewed one goes on.
ParseAck(r, m) ==
    CASE r.state \in {"REQUESTING", "REBOOTING"} ->
           ChangeState([r EXCEPT !.requestedIpAddr = m.ip, !.addr = m.ip,
                                 !.addrState = "TENTATIVE", !.conflict = FALSE],
                       "PROBING")
      [] r.state \in {"RENEWING", "REBINDING"} ->
           ChangeState([r EXCEPT !.requestedIpAddr = m.ip, !.addr = m.ip,
                                 !.addrState = "VALID"], "BOUND")
      [] OTHER -> r

\* dhcpClientParseNak
ParseNak(r) ==
    IF r.state \in {"REQUESTING", "REBOOTING", "RENEWING", "REBINDING"}
      THEN ChangeState(ResetConfig(r), "INIT") ELSE r

\* dhcpClientProcessMessage
ClientReceive(m) ==
    LET r == client[m.mac] IN
    /\ m.type \in {"OFFER", "ACK", "NAK"} /\ m.mac \in Hosts
    /\ r.running /\ r.linkState /\ m.xid = r.transactionId
    /\ client' = [client EXCEPT ![m.mac] = CASE m.type = "OFFER" -> ParseOffer(r, m)
                                             [] m.type = "ACK" -> ParseAck(r, m)
                                             [] m.type = "NAK" -> ParseNak(r)]
    /\ net' \in Arrived(m)

-----------------------------------------------------------------------------
(* The calls of the user, and the events of the link.                       *)

\* dhcpClientStart
Start(c) ==
    /\ ~client[c].running
    /\ Become(c, [ResetConfig(client[c]) EXCEPT !.running = TRUE, !.state = "INIT"])

\* dhcpClientStop: the address stays as it is.
Stop(c) ==
    /\ client[c].running
    /\ Become(c, [client[c] EXCEPT !.running = FALSE, !.state = "INIT"])

\* dhcpClientRelease with a lease; without one it does what Stop does.
Release(c) ==
    /\ client[c].running /\ client[c].state \in {"BOUND", "RENEWING", "REBINDING"}
    /\ client' = [client EXCEPT ![c] =
         [ResetConfig(@) EXCEPT !.running = FALSE, !.state = "INIT",
                                !.transactionId = NewXid(c)]]
    /\ net' \in Sent(net, {Datagram(c, "RELEASE", NewXid(c), Unspecified,
                                    client[c].addr)})

\* States that come after a lease in the enumeration DhcpState.
HadLease == {"INIT_REBOOT", "REBOOTING", "PROBING", "ANNOUNCING", "BOUND",
             "RENEWING", "REBINDING"}

\* Mutant: the address is kept when the link changes.
LinkChangeKeepsAddress(c) ==
    Become(c, [client[c] EXCEPT !.linkState = ~@,
                 !.state = IF @ \in HadLease THEN "INIT_REBOOT" ELSE "INIT"])

\* dhcpClientLinkChangeEvent
LinkChange(c) ==
    LET r == IF client[c].running THEN ResetConfig(client[c]) ELSE client[c] IN
    Become(c, [r EXCEPT !.linkState = ~@,
                        !.state = IF @ \in HadLease THEN "INIT_REBOOT" ELSE "INIT"])

-----------------------------------------------------------------------------
(* The system.                                                             *)

FromClient(m) == m.type \in {"DISCOVER", "REQUEST", "DECLINE", "RELEASE"}

ServerReceive(m) ==
    /\ FromClient(m)
    /\ Receive(m)
    /\ \E N \in Arrived(m) : net' \in Sent(N, Parse(m).replies)

\* A client of another stack, which may suggest or request any address.
ForeignMessage(f) ==
    \E type \in {"DISCOVER", "REQUEST"}, ip \in Pool :
        Receive(Datagram(f, type, 1, ip, Unspecified))

Init ==
    /\ ServerInit
    /\ client = [c \in Hosts |->
         [state |-> "INIT", running |-> FALSE, linkState |-> TRUE,
          transactionId |-> 1, retransmitCount |-> 0,
          requestedIpAddr |-> Unspecified, addr |-> Unspecified,
          addrState |-> "INVALID", conflict |-> FALSE]]
    /\ net = {}

Interrupt(c) == c \in Interrupted /\ (Stop(c) \/ Release(c) \/ LinkChange(c))
ClientStep(c) == (Tick(c) \/ Start(c) \/ Interrupt(c)) /\ UNCHANGED serverVars
ClientMessage == (\E m \in net : ClientReceive(m)) /\ UNCHANGED serverVars
ServerMessage == (\E m \in net : ServerReceive(m)) /\ UNCHANGED client
Foreign == (\E f \in Macs \ Hosts : ForeignMessage(f)) /\ UNCHANGED <<client, net>>
LeaseExpires == Expire /\ UNCHANGED <<client, net>>
ServerRestarts == Restart /\ UNCHANGED <<client, net>>

Next == \/ \E c \in Hosts : ClientStep(c)
        \/ ClientMessage \/ ServerMessage \/ Foreign \/ LeaseExpires \/ ServerRestarts

Spec == Init /\ [][Next]_vars

-----------------------------------------------------------------------------

\* Types, and the bound of the network.
TypeOK ==
    /\ ServerTypeOK
    /\ client \in [Hosts -> Client]
    /\ Cardinality(net) <= InFlight
    /\ \A m \in net : m.ip \in Pool \cup {Unspecified} /\ m.xid \in Xids

\* A client that runs has a valid address exactly while it holds a lease: no path
\* out of a lease (the end of it, a NAK, the link, the user) leaves the address
\* behind, and none of them takes it from a client that keeps its lease.
ValidOnlyWithLease ==
    \A c \in Hosts : client[c].running =>
        (client[c].addrState = "VALID" <=>
         client[c].state \in {"ANNOUNCING", "BOUND", "RENEWING", "REBINDING"})

\* The binding of a committed lease stays as it is unless a message of its client
\* arrives, a lease ends or the server restarts: a full table, a request for the
\* address and the release of another client leave it alone.
CommittedIsItsClients ==
    [][\A k \in Entries(clientBinding) :
         LET b == clientBinding[k] IN
         b.validLease =>
            \/ \E j \in Entries(clientBinding') : clientBinding'[j] = b
            \/ LeaseExpires
            \/ Restart
            \/ \E m \in net : FromClient(m) /\ m.mac = b.macAddr /\ Receive(m)
            \/ b.macAddr \notin Hosts /\ ForeignMessage(b.macAddr)]_vars

\* "The client should probe the newly received address" (dhcpClientParseAck): a
\* client never gets to use an address that it did not use before but through
\* PROBING, whatever old answer it takes for one to a request that is pending, as
\* long as none is older than T1.
NewAddressIsProbed ==
    [][\A c \in Hosts :
         client'[c].addrState = "VALID" =>
            \/ client[c].state = "PROBING"
            \/ client[c].addrState = "VALID" /\ client'[c].addr = client[c].addr]_vars

\* The address a client that runs uses on the link.
Used == [c \in Hosts |-> IF client[c].running /\ client[c].addrState = "VALID"
                           THEN client[c].addr ELSE Unspecified]

Uses == INSTANCE AddressUse WITH
    Addresses <- Pool, NoAddress <- Unspecified, uses <- Used

\* No address is used by two clients at a time, and none changes hands without a
\* time when nobody uses it, although the server forgets its bindings, lets a
\* lease end before the client does and sees duplicates of old messages.
ImplementsAddressUse == Uses!Spec
=============================================================================
