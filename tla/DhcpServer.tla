----------------------------- MODULE DhcpServer -----------------------------
(***************************************************************************)
(* The bindings of a DHCP server (dhcp/dhcp_server_misc.c) and what each   *)
(* message does to them.  A handler holds the stack's mutex and is one     *)
(* step.                                                                   *)
(*                                                                         *)
(* clientBinding is kept as the sequence of the entries in use, in the     *)
(* order of their time stamps; an entry of the table is free when the      *)
(* sequence is shorter than the table.                                     *)
(***************************************************************************)
EXTENDS Naturals, Sequences, FiniteSets

CONSTANTS Macs,           \* MAC addresses of the clients
          IpAddrRangeMin, \* first and last address of the pool
          IpAddrRangeMax,
          MaxClients      \* DHCP_SERVER_MAX_CLIENTS

ASSUME PoolAssumption ==
    /\ IpAddrRangeMin \in Nat \ {0} /\ IpAddrRangeMax \in Nat
    /\ IpAddrRangeMin <= IpAddrRangeMax
ASSUME TableAssumption == MaxClients \in Nat \ {0}

VARIABLES clientBinding,  \* bindings, the one stamped first in front
          nextIpAddr      \* the address the search of a free one starts from

serverVars == <<clientBinding, nextIpAddr>>

Unspecified == 0          \* IPV4_UNSPECIFIED_ADDR, or an option that is absent
Pool == IpAddrRangeMin .. IpAddrRangeMax

Binding == [macAddr : Macs, ipAddr : Pool, validLease : BOOLEAN]

\* What a client sends: the requested address option, and the address it uses.
Message == [type : {"DISCOVER", "REQUEST", "DECLINE", "RELEASE"}, mac : Macs,
            xid : Nat, ip : Pool \cup {Unspecified}, ciaddr : Pool \cup {Unspecified}]

-----------------------------------------------------------------------------
(* The table.                                                              *)

Entries(b) == 1 .. Len(b)
FindBindingByMacAddr(b, mac) == {k \in Entries(b) : b[k].macAddr = mac}
FindBindingByIpAddr(b, ip) == {k \in Entries(b) : b[k].ipAddr = ip}

Except(b, k) == SubSeq(b, 1, k - 1) \o SubSeq(b, k + 1, Len(b))

\* The only member of a set that a search returned.
The(S) == CHOOSE k \in S : TRUE

\* Mutant: the oldest entry gives way, committed or not.
EvictableOldest(b) == {k \in Entries(b) : k = 1}

\* The entry that gives way when the table is full: the oldest not committed.
Evictable(b) ==
    {k \in Entries(b) : /\ ~b[k].validLease
                        /\ \A j \in 1 .. k - 1 : b[j].validLease}

\* dhcpServerCreateBinding: whether there is room, and the bindings that stay.
HasRoom(b) == Len(b) < MaxClients \/ Evictable(b) # {}
MakeRoom(b) == IF Len(b) < MaxClients THEN b ELSE Except(b, The(Evictable(b)))

\* dhcpServerGetNextIpAddr: as many addresses are tried, from the next one on and
\* round the pool, as the table has entries.
PoolSize == IpAddrRangeMax - IpAddrRangeMin + 1
\* Mutant: the search goes one past the end of the pool before it wraps.
AfterLate(ip, k) == IpAddrRangeMin + ((ip - IpAddrRangeMin + k) % (PoolSize + 1))
After(ip, k) == IpAddrRangeMin + ((ip - IpAddrRangeMin + k) % PoolSize)
Tried(b) == {k \in 0 .. MaxClients - 1 :
               FindBindingByIpAddr(b, After(nextIpAddr, k)) = {}}
FirstTried(b) == CHOOSE k \in Tried(b) : \A j \in Tried(b) : k <= j

InPool(ip) == ip \in Pool
\* Mutant: an address that is bound is given to a second client that asks for it.
AvailableInPool(b, ip) == InPool(ip)
Available(b, ip) == InPool(ip) /\ FindBindingByIpAddr(b, ip) = {}

-----------------------------------------------------------------------------
(* The handlers.  Each gives the bindings, the next address and the replies. *)

Reply(m, type, ip) ==
    [type |-> type, mac |-> m.mac, xid |-> m.xid, ip |-> ip, ciaddr |-> Unspecified]

Outcome(b, next, replies) == [bindings |-> b, next |-> next, replies |-> replies]

\* A client that has a binding is offered its address, or the one it asks for.
DiscoverAgain(m) ==
    LET k == The(FindBindingByMacAddr(clientBinding, m.mac))
        moved == [clientBinding[k] EXCEPT !.ipAddr = m.ip] IN
    IF Available(clientBinding, m.ip)
      THEN Outcome(Append(Except(clientBinding, k), moved), nextIpAddr,
                   {Reply(m, "OFFER", m.ip)})
      ELSE Outcome(clientBinding, nextIpAddr,
                   {Reply(m, "OFFER", clientBinding[k].ipAddr)})

New(m, ip, committed) ==
    [macAddr |-> m.mac, ipAddr |-> ip, validLease |-> committed]

\* A new client: the entry that gives way is lost even when no address is found.
DiscoverFirst(m) ==
    LET b == MakeRoom(clientBinding)
        ip == IF Available(b, m.ip) THEN m.ip ELSE After(nextIpAddr, FirstTried(b)) IN
    IF ~HasRoom(clientBinding) THEN Outcome(clientBinding, nextIpAddr, {})
    ELSE IF ~Available(b, m.ip) /\ Tried(b) = {}
      THEN Outcome(b, After(nextIpAddr, MaxClients), {})
    ELSE Outcome(Append(b, New(m, ip, FALSE)),
                 IF Available(b, m.ip) THEN nextIpAddr
                                       ELSE After(nextIpAddr, FirstTried(b) + 1),
                 {Reply(m, "OFFER", ip)})

ParseDiscover(m) ==
    IF FindBindingByMacAddr(clientBinding, m.mac) # {}
      THEN DiscoverAgain(m) ELSE DiscoverFirst(m)

\* The address a request is about.
Claimed(m) == IF m.ciaddr # Unspecified THEN m.ciaddr ELSE m.ip

Nak(m) == Outcome(clientBinding, nextIpAddr, {Reply(m, "NAK", Unspecified)})

Commit(m, b) ==
    Outcome(Append(b, New(m, Claimed(m), TRUE)), nextIpAddr,
            {Reply(m, "ACK", Claimed(m))})

\* An address is committed to the client it is bound to, or bound to a client
\* that has none and asks for it.
ParseRequest(m) ==
    LET own == FindBindingByMacAddr(clientBinding, m.mac) IN
    IF own # {}
      THEN IF clientBinding[The(own)].ipAddr = Claimed(m)
             THEN Commit(m, Except(clientBinding, The(own))) ELSE Nak(m)
      ELSE IF Available(clientBinding, Claimed(m)) /\ HasRoom(clientBinding)
             THEN Commit(m, MakeRoom(clientBinding)) ELSE Nak(m)

\* The bindings of the sender for the address it names.
Named(m, ip) == {k \in FindBindingByMacAddr(clientBinding, m.mac) :
                   clientBinding[k].ipAddr = ip}

ParseDecline(m) ==
    Outcome(IF Named(m, m.ip) = {} THEN clientBinding
            ELSE Except(clientBinding, The(Named(m, m.ip))), nextIpAddr, {})

\* Mutant: the binding of the address that is released, whoever releases it.
ParseReleaseAnyone(m) ==
    Outcome([k \in Entries(clientBinding) |->
               IF clientBinding[k].ipAddr = m.ciaddr
                 THEN [clientBinding[k] EXCEPT !.validLease = FALSE]
                 ELSE clientBinding[k]], nextIpAddr, {})

ParseRelease(m) ==
    Outcome([k \in Entries(clientBinding) |->
               IF k \in Named(m, m.ciaddr)
                 THEN [clientBinding[k] EXCEPT !.validLease = FALSE]
                 ELSE clientBinding[k]], nextIpAddr, {})

\* dhcpServerProcessMessage
Parse(m) == CASE m.type = "DISCOVER" -> ParseDiscover(m)
              [] m.type = "REQUEST" -> ParseRequest(m)
              [] m.type = "DECLINE" -> ParseDecline(m)
              [] m.type = "RELEASE" -> ParseRelease(m)

Receive(m) ==
    /\ clientBinding' = Parse(m).bindings
    /\ nextIpAddr' = Parse(m).next

\* dhcpServerTick: a lease ends, at any time.
Expire ==
    \E k \in Entries(clientBinding) :
        /\ clientBinding[k].validLease
        /\ clientBinding' = [clientBinding EXCEPT ![k].validLease = FALSE]
        /\ UNCHANGED nextIpAddr

ServerInit == clientBinding = << >> /\ nextIpAddr = IpAddrRangeMin

\* The host of the server starts again: nothing is persistent.
Restart == clientBinding' = << >> /\ nextIpAddr' = IpAddrRangeMin

ServerNext == (\E m \in Message : Receive(m)) \/ Expire \/ Restart

ServerSpec == ServerInit /\ [][ServerNext]_serverVars

-----------------------------------------------------------------------------

ServerTypeOK ==
    /\ clientBinding \in Seq(Binding) /\ Len(clientBinding) <= MaxClients
    /\ nextIpAddr \in Pool

\* No address is bound to two clients, and no client has two addresses: neither
\* an eviction nor a request for a chosen address gives out one that is taken.
BindingsApart ==
    \A j, k \in Entries(clientBinding) :
        j # k => /\ clientBinding[j].macAddr # clientBinding[k].macAddr
                 /\ clientBinding[j].ipAddr # clientBinding[k].ipAddr
=============================================================================
