----------------------------- MODULE DhcpProofs -----------------------------
(* Proofs about the clients, the server and the network of Dhcp: for every  *)
(* pool, table, set of hosts and capacity of the network.                   *)
EXTENDS Dhcp, SequenceTheorems, FiniteSetTheorems, WellFoundedInduction, TLAPS

-----------------------------------------------------------------------------
(* The bindings of the server, whatever the clients send.                  *)

\* No two entries of b share a client or an address.
Apart(b) ==
    \A j, k \in Entries(b) :
        j # k => /\ b[j].macAddr # b[k].macAddr
                 /\ b[j].ipAddr # b[k].ipAddr

\* Every entry of a is an entry of b.
Within(a, b) == \A j \in Entries(a) : \E i \in Entries(b) : a[j] = b[i]

\* What the handlers keep of the table, and of the next address.
Good(b, next) ==
    /\ b \in Seq(Binding) /\ Len(b) <= MaxClients
    /\ Apart(b)
    /\ next \in Pool

-----------------------------------------------------------------------------
(* Removing and adding an entry.                                            *)

\* What is left when entry k is removed: the others, moved up.
LEMMA ExceptEntries ==
    ASSUME NEW b \in Seq(Binding), NEW k \in Entries(b)
    PROVE  /\ Except(b, k) \in Seq(Binding)
           /\ Len(Except(b, k)) = Len(b) - 1
           /\ \A j \in 1 .. Len(b) - 1 :
                 Except(b, k)[j] = IF j < k THEN b[j] ELSE b[j + 1]
<1> DEFINE l == SubSeq(b, 1, k - 1)
           r == SubSeq(b, k + 1, Len(b))
<1>1. Len(b) \in Nat /\ k \in Nat /\ 1 <= k /\ k <= Len(b)
  BY DEF Entries
<1>2. l \in Seq(Binding) /\ Len(l) = k - 1 /\ \A j \in 1 .. k - 1 : l[j] = b[j]
  BY <1>1
<1>3. /\ r \in Seq(Binding) /\ Len(r) = Len(b) - k
      /\ \A j \in 1 .. Len(b) - k : r[j] = b[k + j]
  BY <1>1
<1>4. Except(b, k) = l \o r
  BY DEF Except
<1> HIDE DEF l, r
<1>5. /\ l \o r \in Seq(Binding)
      /\ Len(l \o r) = Len(l) + Len(r)
      /\ \A j \in 1 .. Len(l) + Len(r) :
            (l \o r)[j] = IF j <= Len(l) THEN l[j] ELSE r[j - Len(l)]
  BY <1>2, <1>3, ConcatProperties
<1>6. ASSUME NEW j \in 1 .. Len(b) - 1
      PROVE  (l \o r)[j] = IF j < k THEN b[j] ELSE b[j + 1]
  <2>1. CASE j < k
    BY <1>1, <1>2, <1>3, <1>5, <2>1
  <2>2. CASE ~(j < k)
    <3>1. (l \o r)[j] = r[j - (k - 1)]
      BY <1>1, <1>2, <1>3, <1>5, <2>2
    <3>2. j - (k - 1) \in 1 .. Len(b) - k /\ k + (j - (k - 1)) = j + 1
      BY <1>1, <2>2
    <3>3. r[j - (k - 1)] = b[k + (j - (k - 1))]
      BY <1>3, <3>2
    <3> QED BY <2>2, <3>1, <3>2, <3>3
  <2> QED BY <2>1, <2>2
<1> QED BY <1>1, <1>2, <1>3, <1>4, <1>5, <1>6

\* The entries that are left are entries of the table, and still apart; none of
\* them is of the client, or of the address, of the one removed.
LEMMA ExceptApart ==
    ASSUME NEW b \in Seq(Binding), NEW k \in Entries(b), Apart(b)
    PROVE  /\ Apart(Except(b, k))
           /\ Within(Except(b, k), b)
           /\ \A j \in Entries(Except(b, k)) :
                 /\ Except(b, k)[j].macAddr # b[k].macAddr
                 /\ Except(b, k)[j].ipAddr # b[k].ipAddr
<1> DEFINE e == Except(b, k)
           at(j) == IF j < k THEN j ELSE j + 1
<1>1. Len(b) \in Nat /\ k \in 1 .. Len(b) /\ Len(e) = Len(b) - 1
  BY ExceptEntries DEF Entries
<1>2. \A j \in 1 .. Len(b) - 1 : at(j) \in 1 .. Len(b) /\ at(j) # k
  BY <1>1
<1>3. \A j \in 1 .. Len(b) - 1 : e[j] = b[at(j)]
  BY ExceptEntries
<1>4. \A i, j \in 1 .. Len(b) - 1 : i # j => at(i) # at(j)
  BY <1>1
<1>5. Entries(e) = 1 .. Len(b) - 1 /\ Entries(b) = 1 .. Len(b)
  BY <1>1 DEF Entries
<1> HIDE DEF e, at
<1>6. Apart(e)
  BY SMTT(30), <1>2, <1>3, <1>4, <1>5 DEF Apart
<1>7. Within(e, b)
  BY <1>2, <1>3, <1>5 DEF Within
<1>8. \A j \in Entries(e) : e[j].macAddr # b[k].macAddr /\ e[j].ipAddr # b[k].ipAddr
  BY <1>2, <1>3, <1>5 DEF Apart
<1> QED BY <1>6, <1>7, <1>8 DEF e

\* A binding whose client and address no entry has may be added.
LEMMA AppendApart ==
    ASSUME NEW b \in Seq(Binding), NEW x \in Binding, Apart(b),
           \A j \in Entries(b) : b[j].macAddr # x.macAddr /\ b[j].ipAddr # x.ipAddr
    PROVE  /\ Append(b, x) \in Seq(Binding)
           /\ Len(Append(b, x)) = Len(b) + 1
           /\ Apart(Append(b, x))
<1> DEFINE a == Append(b, x)
<1>1. Len(b) \in Nat /\ a \in Seq(Binding) /\ Len(a) = Len(b) + 1
  OBVIOUS
<1>2. \A j \in 1 .. Len(b) : a[j] = b[j]
  OBVIOUS
<1>3. a[Len(b) + 1] = x
  OBVIOUS
<1> HIDE DEF a
<1>4. Apart(a)
  BY <1>1, <1>2, <1>3 DEF Apart, Entries
<1> QED BY <1>1, <1>4 DEF a

-----------------------------------------------------------------------------
(* The table at its limit, and the search of an address.                    *)

\* A search that finds something gives an entry.
LEMMA TheMember ==
    ASSUME NEW S, S # {}
    PROVE  The(S) \in S
BY DEF The

\* dhcpServerCreateBinding, when it succeeds: a table with an entry to spare whose
\* entries were there before.
LEMMA RoomMade ==
    ASSUME NEW b \in Seq(Binding), Len(b) <= MaxClients, Apart(b), HasRoom(b)
    PROVE  /\ MakeRoom(b) \in Seq(Binding) /\ Len(MakeRoom(b)) < MaxClients
           /\ Apart(MakeRoom(b))
           /\ Within(MakeRoom(b), b)
<1>1. CASE Len(b) < MaxClients
  BY <1>1 DEF MakeRoom, Within
<1>2. CASE ~(Len(b) < MaxClients)
  <2>1. The(Evictable(b)) \in Entries(b)
    BY <1>2, TheMember DEF HasRoom, Evictable
  <2>2. MakeRoom(b) = Except(b, The(Evictable(b)))
    BY <1>2 DEF MakeRoom
  <2>3. Len(b) \in Nat /\ MaxClients \in Nat /\ Len(b) = MaxClients
    BY <1>2, TableAssumption
  <2> QED BY <2>1, <2>2, <2>3, ExceptEntries, ExceptApart
<1> QED BY <1>1, <1>2

\* An address the search looks at is one of the pool.
LEMMA AfterInPool ==
    ASSUME NEW ip \in Pool, NEW k \in Nat
    PROVE  After(ip, k) \in Pool
<1>1. PoolSize \in Nat /\ PoolSize > 0
  BY PoolAssumption DEF PoolSize
<1>2. ip - IpAddrRangeMin + k \in Nat
  BY PoolAssumption DEF Pool
<1>3. (ip - IpAddrRangeMin + k) % PoolSize \in 0 .. PoolSize - 1
  BY <1>1, <1>2
<1> QED BY <1>3, PoolAssumption DEF After, Pool, PoolSize

\* A set of natural numbers with a member has a least one.
LEMMA LeastNatural ==
    ASSUME NEW T, T \subseteq Nat, T # {}
    PROVE  \E n \in T : \A j \in T : n <= j
<1>1. PICK n \in T : \A j \in T : <<j, n>> \notin OpToRel(<, Nat)
  BY NatLessThanWellFounded, WFMin
<1>2. \A j \in T : ~(j < n)
  BY <1>1 DEF OpToRel
<1>3. n \in Nat /\ \A j \in T : j \in Nat
  OBVIOUS
<1>4. \A j \in T : n <= j
  BY <1>2, <1>3
<1> QED BY <1>4

\* The address the search stops at is of the pool and of no entry.
LEMMA FoundAddress ==
    ASSUME nextIpAddr \in Pool, NEW b \in Seq(Binding), Tried(b) # {}
    PROVE  /\ FirstTried(b) \in Nat
           /\ After(nextIpAddr, FirstTried(b)) \in Pool
           /\ FindBindingByIpAddr(b, After(nextIpAddr, FirstTried(b))) = {}
<1>1. Tried(b) \subseteq Nat
  BY TableAssumption DEF Tried
<1>2. PICK n \in Tried(b) : \A j \in Tried(b) : n <= j
  BY <1>1, LeastNatural
<1>3. FirstTried(b) \in Tried(b)
  BY <1>2 DEF FirstTried
<1> QED BY <1>1, <1>3, AfterInPool DEF Tried

-----------------------------------------------------------------------------
(* The handlers.                                                            *)

\* An entry is added to a table with room.
LEMMA AddGood ==
    ASSUME NEW b \in Seq(Binding), Len(b) < MaxClients, Apart(b),
           NEW x \in Binding, NEW next \in Pool,
           \A j \in Entries(b) : b[j].macAddr # x.macAddr /\ b[j].ipAddr # x.ipAddr
    PROVE  Good(Append(b, x), next)
<1>1. Len(b) \in Nat /\ MaxClients \in Nat
  BY TableAssumption
<1> QED BY <1>1, AppendApart DEF Good

\* The entries keep their clients and addresses; they may end or begin a lease.
LEMMA SameKeysGood ==
    ASSUME NEW b, NEW next, Good(b, next),
           NEW a \in [Entries(b) -> Binding],
           \A k \in Entries(b) : a[k].macAddr = b[k].macAddr /\ a[k].ipAddr = b[k].ipAddr
    PROVE  Good(a, next)
<1>1. Len(b) \in Nat /\ Entries(b) = 1 .. Len(b)
  BY DEF Good, Entries
<1>2. a \in Seq(Binding) /\ Len(a) = Len(b)
  BY <1>1, SeqDef
<1> QED BY <1>1, <1>2 DEF Good, Apart, Entries

\* What an address that is available is.
LEMMA AvailableFree ==
    ASSUME NEW b, NEW ip, Available(b, ip)
    PROVE  ip \in Pool /\ \A j \in Entries(b) : b[j].ipAddr # ip
BY DEF Available, InPool, FindBindingByIpAddr

\* A DISCOVER of a client with a binding: the entry moves to the address it asks
\* for only when that address is available.
LEMMA DiscoverAgainGood ==
    ASSUME NEW m \in Message, Good(clientBinding, nextIpAddr),
           FindBindingByMacAddr(clientBinding, m.mac) # {}
    PROVE  Good(DiscoverAgain(m).bindings, DiscoverAgain(m).next)
<1> DEFINE b == clientBinding
           k == The(FindBindingByMacAddr(b, m.mac))
           moved == [b[k] EXCEPT !.ipAddr = m.ip]
<1>1. k \in Entries(b)
  BY TheMember DEF FindBindingByMacAddr
<1>2. b[k] \in Binding /\ Len(b) \in Nat /\ b \in Seq(Binding)
  BY <1>1 DEF Good, Entries
<1>3. CASE Available(b, m.ip)
  <2>1. DiscoverAgain(m).bindings = Append(Except(b, k), moved)
    BY <1>3 DEF DiscoverAgain, Outcome
  <2>2. DiscoverAgain(m).next = nextIpAddr
    BY <1>3 DEF DiscoverAgain, Outcome
  <2>3. /\ moved \in Binding /\ moved.ipAddr = m.ip
        /\ moved.macAddr = b[k].macAddr
    BY <1>2, <1>3, AvailableFree DEF Binding
  <2>4. /\ Except(b, k) \in Seq(Binding) /\ Len(Except(b, k)) < MaxClients
        /\ Apart(Except(b, k)) /\ Within(Except(b, k), b)
        /\ \A j \in Entries(Except(b, k)) : Except(b, k)[j].macAddr # b[k].macAddr
    BY <1>1, <1>2, ExceptEntries, ExceptApart, TableAssumption DEF Good
  <2>5. \A j \in Entries(Except(b, k)) : Except(b, k)[j].ipAddr # m.ip
    BY <1>3, <2>4, AvailableFree DEF Within
  <2> HIDE DEF b, k, moved
  <2> QED BY <2>1, <2>2, <2>3, <2>4, <2>5, AddGood DEF Good
<1>4. CASE ~Available(b, m.ip)
  BY <1>4 DEF DiscoverAgain, Outcome
<1> QED BY <1>3, <1>4

\* A DISCOVER of a new client: its entry gets an available address, in a table that
\* may first have lost another client's entry.
LEMMA DiscoverFirstGood ==
    ASSUME NEW m \in Message, Good(clientBinding, nextIpAddr),
           FindBindingByMacAddr(clientBinding, m.mac) = {}
    PROVE  Good(DiscoverFirst(m).bindings, DiscoverFirst(m).next)
<1> DEFINE b == MakeRoom(clientBinding)
           searched == After(nextIpAddr, FirstTried(b))
           ip == IF Available(b, m.ip) THEN m.ip ELSE searched
           next == IF Available(b, m.ip) THEN nextIpAddr
                                         ELSE After(nextIpAddr, FirstTried(b) + 1)
<1>1. CASE ~HasRoom(clientBinding)
  BY <1>1 DEF DiscoverFirst, Outcome
<1>2. CASE HasRoom(clientBinding)
  <2>1. /\ b \in Seq(Binding) /\ Len(b) < MaxClients
        /\ Apart(b) /\ Within(b, clientBinding)
    BY <1>2, RoomMade DEF Good
  <2>2. \A j \in Entries(b) : b[j].macAddr # m.mac
    BY <2>1 DEF Within, FindBindingByMacAddr
  <2>3. CASE ~Available(b, m.ip) /\ Tried(b) = {}
    <3>1. /\ DiscoverFirst(m).bindings = b
          /\ DiscoverFirst(m).next = After(nextIpAddr, MaxClients)
      BY <1>2, <2>3 DEF DiscoverFirst, Outcome
    <3>2. After(nextIpAddr, MaxClients) \in Pool
      BY AfterInPool, TableAssumption DEF Good
    <3>3. Len(b) \in Nat /\ MaxClients \in Nat
      BY <2>1, TableAssumption
    <3> HIDE DEF b
    <3> QED BY <2>1, <3>1, <3>2, <3>3 DEF Good
  <2>4. CASE Available(b, m.ip) \/ Tried(b) # {}
    <3>1. /\ DiscoverFirst(m).bindings = Append(b, New(m, ip, FALSE))
          /\ DiscoverFirst(m).next = next
      BY <1>2, <2>4 DEF DiscoverFirst, Outcome
    <3>2. ip \in Pool /\ next \in Pool /\ \A j \in Entries(b) : b[j].ipAddr # ip
      <4>1. CASE Available(b, m.ip)
        BY <4>1, AvailableFree DEF Good
      <4>2. CASE ~Available(b, m.ip)
        <5>1. /\ FirstTried(b) \in Nat /\ searched \in Pool
              /\ FindBindingByIpAddr(b, searched) = {}
          BY <2>1, <2>4, <4>2, FoundAddress DEF Good
        <5>2. After(nextIpAddr, FirstTried(b) + 1) \in Pool
          BY <5>1, AfterInPool DEF Good
        <5> HIDE DEF searched, b
        <5> QED BY <4>2, <5>1, <5>2 DEF FindBindingByIpAddr
      <4> QED BY <4>1, <4>2
    <3> HIDE DEF ip, next, b
    <3>3. /\ New(m, ip, FALSE) \in Binding
          /\ New(m, ip, FALSE).macAddr = m.mac /\ New(m, ip, FALSE).ipAddr = ip
      BY <3>2 DEF New, Binding, Message
    <3> QED BY ZenonT(30), <2>1, <2>2, <3>1, <3>2, <3>3, AddGood
  <2> QED BY <2>3, <2>4
<1> QED BY <1>1, <1>2

\* dhcpServerParseDiscover keeps the table good.
LEMMA DiscoverGood ==
    ASSUME NEW m \in Message, Good(clientBinding, nextIpAddr)
    PROVE  Good(ParseDiscover(m).bindings, ParseDiscover(m).next)
<1>1. CASE FindBindingByMacAddr(clientBinding, m.mac) # {}
  BY <1>1, DiscoverAgainGood DEF ParseDiscover
<1>2. CASE FindBindingByMacAddr(clientBinding, m.mac) = {}
  BY <1>2, DiscoverFirstGood DEF ParseDiscover
<1> QED BY <1>1, <1>2

\* An address is committed that no other entry has, to a client that no other
\* entry has.
LEMMA CommitGood ==
    ASSUME NEW m \in Message, nextIpAddr \in Pool, Claimed(m) \in Pool,
           NEW b \in Seq(Binding), Len(b) < MaxClients, Apart(b),
           \A j \in Entries(b) : b[j].macAddr # m.mac /\ b[j].ipAddr # Claimed(m)
    PROVE  Good(Commit(m, b).bindings, Commit(m, b).next)
<1>1. /\ New(m, Claimed(m), TRUE) \in Binding
      /\ New(m, Claimed(m), TRUE).macAddr = m.mac
      /\ New(m, Claimed(m), TRUE).ipAddr = Claimed(m)
  BY DEF New, Binding, Message
<1>2. /\ Commit(m, b).bindings = Append(b, New(m, Claimed(m), TRUE))
      /\ Commit(m, b).next = nextIpAddr
  BY DEF Commit, Outcome
<1> QED BY ZenonT(30), <1>1, <1>2, AddGood

\* dhcpServerParseRequest keeps the table good: an address is committed to the
\* client that holds it, or to a client without one when it is available.
LEMMA RequestGood ==
    ASSUME NEW m \in Message, Good(clientBinding, nextIpAddr)
    PROVE  Good(ParseRequest(m).bindings, ParseRequest(m).next)
<1> DEFINE b == clientBinding
           own == FindBindingByMacAddr(b, m.mac)
           k == The(own)
<1>1. Good(Nak(m).bindings, Nak(m).next)
  BY DEF Nak, Outcome
<1>2. CASE own # {} /\ b[k].ipAddr = Claimed(m)
  <2>1. k \in Entries(b) /\ b[k].macAddr = m.mac
    BY <1>2, TheMember DEF FindBindingByMacAddr
  <2>2. b \in Seq(Binding) /\ Len(b) \in Nat /\ b[k] \in Binding
    BY <2>1 DEF Good, Entries
  <2>3. ParseRequest(m) = Commit(m, Except(b, k))
    BY <1>2 DEF ParseRequest
  <2>4. Claimed(m) \in Pool
    BY <1>2, <2>2 DEF Binding
  <2>5. /\ Except(b, k) \in Seq(Binding) /\ Len(Except(b, k)) < MaxClients
        /\ Apart(Except(b, k))
        /\ \A j \in Entries(Except(b, k)) :
              /\ Except(b, k)[j].macAddr # m.mac
              /\ Except(b, k)[j].ipAddr # Claimed(m)
    BY <1>2, <2>1, <2>2, ExceptEntries, ExceptApart, TableAssumption DEF Good
  <2> HIDE DEF b, k
  <2> QED BY <2>3, <2>4, <2>5, CommitGood DEF Good
<1>3. CASE own = {} /\ Available(b, Claimed(m)) /\ HasRoom(b)
  <2>1. ParseRequest(m) = Commit(m, MakeRoom(b))
    BY <1>3 DEF ParseRequest
  <2>2. Claimed(m) \in Pool /\ \A j \in Entries(b) : b[j].ipAddr # Claimed(m)
    BY <1>3, AvailableFree
  <2>3. \A j \in Entries(b) : b[j].macAddr # m.mac
    BY <1>3 DEF FindBindingByMacAddr
  <2>4. /\ MakeRoom(b) \in Seq(Binding) /\ Len(MakeRoom(b)) < MaxClients
        /\ Apart(MakeRoom(b)) /\ Within(MakeRoom(b), b)
    BY <1>3, RoomMade DEF Good
  <2>5. \A j \in Entries(MakeRoom(b)) :
           MakeRoom(b)[j].macAddr # m.mac /\ MakeRoom(b)[j].ipAddr # Claimed(m)
    BY <2>2, <2>3, <2>4 DEF Within
  <2> HIDE DEF b
  <2> QED BY <2>1, <2>2, <2>4, <2>5, CommitGood DEF Good
<1>4. CASE ~(own # {} /\ b[k].ipAddr = Claimed(m))
           /\ ~(own = {} /\ Available(b, Claimed(m)) /\ HasRoom(b))
  <2>1. ParseRequest(m) = Nak(m)
    BY <1>4 DEF ParseRequest
  <2> QED BY <1>1, <2>1
<1> QED BY <1>2, <1>3, <1>4

\* dhcpServerParseDecline keeps the table good: it only removes an entry.
LEMMA DeclineGood ==
    ASSUME NEW m \in Message, Good(clientBinding, nextIpAddr)
    PROVE  Good(ParseDecline(m).bindings, ParseDecline(m).next)
<1> DEFINE b == clientBinding
           k == The(Named(m, m.ip))
<1>1. CASE Named(m, m.ip) = {}
  BY <1>1 DEF ParseDecline, Outcome
<1>2. CASE Named(m, m.ip) # {}
  <2>1. k \in Entries(b)
    BY <1>2, TheMember DEF Named, FindBindingByMacAddr
  <2>2. ParseDecline(m).bindings = Except(b, k) /\ ParseDecline(m).next = nextIpAddr
    BY <1>2 DEF ParseDecline, Outcome
  <2>3. b \in Seq(Binding) /\ Len(b) \in Nat /\ MaxClients \in Nat
    BY TableAssumption DEF Good
  <2>4. /\ Except(b, k) \in Seq(Binding) /\ Len(Except(b, k)) <= MaxClients
        /\ Apart(Except(b, k))
    BY <2>1, <2>3, ExceptEntries, ExceptApart DEF Good
  <2> HIDE DEF b, k
  <2> QED BY <2>2, <2>4 DEF Good
<1> QED BY <1>1, <1>2

\* dhcpServerParseRelease keeps the table good: it only ends leases.
LEMMA ReleaseGood ==
    ASSUME NEW m \in Message, Good(clientBinding, nextIpAddr)
    PROVE  Good(ParseRelease(m).bindings, ParseRelease(m).next)
<1> DEFINE b == clientBinding
           a == [k \in Entries(b) |->
                   IF k \in Named(m, m.ciaddr)
                     THEN [b[k] EXCEPT !.validLease = FALSE] ELSE b[k]]
<1>1. ParseRelease(m).bindings = a /\ ParseRelease(m).next = nextIpAddr
  BY DEF ParseRelease, Outcome
<1>2. \A k \in Entries(b) : b[k] \in Binding
  BY DEF Good, Entries
<1>3. \A k \in Entries(b) :
        /\ a[k] \in Binding
        /\ a[k].macAddr = b[k].macAddr /\ a[k].ipAddr = b[k].ipAddr
  BY <1>2 DEF Binding
<1>4. a \in [Entries(b) -> Binding]
  BY <1>3
<1> HIDE DEF a
<1> QED BY <1>1, <1>3, <1>4, SameKeysGood

\* Every message is handled so that the table stays good.
LEMMA ParseGood ==
    ASSUME NEW m \in Message, Good(clientBinding, nextIpAddr)
    PROVE  Good(Parse(m).bindings, Parse(m).next)
<1>1. CASE m.type = "DISCOVER"
  BY <1>1, DiscoverGood DEF Parse
<1>2. CASE m.type = "REQUEST"
  BY <1>2, RequestGood DEF Parse
<1>3. CASE m.type = "DECLINE"
  BY <1>3, DeclineGood DEF Parse
<1>4. CASE m.type = "RELEASE"
  BY <1>4, ReleaseGood DEF Parse
<1> QED BY <1>1, <1>2, <1>3, <1>4 DEF Message

-----------------------------------------------------------------------------
(* The server.                                                              *)

\* The inductive invariant: the two properties of the table, which are inductive
\* together (an address that is given out must be one of the pool).
IInv == Good(clientBinding, nextIpAddr)

\* The server starts with an empty table and the first address of the range.
LEMMA InitIInv == ServerInit => IInv
<1> SUFFICES ASSUME ServerInit PROVE IInv
  OBVIOUS
<1>1. clientBinding = << >> /\ nextIpAddr = IpAddrRangeMin
  BY DEF ServerInit
<1>2. << >> \in Seq(Binding) /\ Len(<< >>) = 0
  OBVIOUS
<1> QED BY <1>1, <1>2, TableAssumption, PoolAssumption DEF IInv, Good, Apart, Entries, Pool

\* A message, an expiry of a lease and a restart keep the table good.
LEMMA NextIInv == IInv /\ [ServerNext]_serverVars => IInv'
<1> SUFFICES ASSUME IInv, [ServerNext]_serverVars PROVE IInv'
  OBVIOUS
<1>1. ASSUME NEW m \in Message, Receive(m) PROVE IInv'
  <2>1. Good(Parse(m).bindings, Parse(m).next)
    BY ParseGood DEF IInv
  <2>2. clientBinding' = Parse(m).bindings /\ nextIpAddr' = Parse(m).next
    BY <1>1 DEF Receive
  <2> QED BY <2>1, <2>2 DEF IInv, Good, Apart, Entries
<1>2. CASE Expire
  <2>1. PICK k \in Entries(clientBinding) :
           clientBinding' = [clientBinding EXCEPT ![k].validLease = FALSE]
    BY <1>2 DEF Expire
  <2>2. nextIpAddr' = nextIpAddr
    BY <1>2 DEF Expire
  <2>3. \A j \in Entries(clientBinding) : clientBinding[j] \in Binding
    BY DEF IInv, Good, Entries
  <2>4. clientBinding \in [Entries(clientBinding) -> Binding]
    BY <2>3 DEF IInv, Good, Entries
  <2>5. /\ clientBinding' \in [Entries(clientBinding) -> Binding]
        /\ \A j \in Entries(clientBinding) :
              /\ clientBinding'[j].macAddr = clientBinding[j].macAddr
              /\ clientBinding'[j].ipAddr = clientBinding[j].ipAddr
    BY <2>1, <2>3, <2>4 DEF Binding
  <2>6. Good(clientBinding', nextIpAddr)
    BY <2>5, SameKeysGood DEF IInv
  <2> QED BY <2>2, <2>6 DEF IInv, Good, Apart, Entries
<1>3. CASE Restart
  <2>1. clientBinding' = << >> /\ nextIpAddr' = IpAddrRangeMin
    BY <1>3 DEF Restart
  <2>2. << >> \in Seq(Binding) /\ Len(<< >>) = 0
    OBVIOUS
  <2> QED BY <2>1, <2>2, TableAssumption, PoolAssumption
          DEF IInv, Good, Apart, Entries, Pool
<1>4. CASE UNCHANGED serverVars
  BY <1>4 DEF IInv, Good, Apart, Entries, serverVars
<1> QED BY <1>1, <1>2, <1>3, <1>4 DEF ServerNext

\* In every reachable state no address is bound to two clients and no client has
\* two bindings, whatever clients send, for every pool, table and number of
\* clients (dhcpServerParseDiscover, dhcpServerParseRequest and what they call).
THEOREM BindingsAreApart == ServerSpec => []BindingsApart
<1>1. IInv => BindingsApart
  BY DEF IInv, Good, Apart, BindingsApart
<1> QED BY <1>1, InitIInv, NextIInv, PTL DEF ServerSpec

\* The table is a list of well-formed bindings of addresses of the pool, within its
\* size, and the search starts in the pool.
THEOREM ServerTypeCorrect == ServerSpec => []ServerTypeOK
<1>1. IInv => ServerTypeOK
  BY DEF IInv, Good, ServerTypeOK
<1> QED BY <1>1, InitIInv, NextIInv, PTL DEF ServerSpec

-----------------------------------------------------------------------------
(* The clients, the server and the network between them.                   *)

\* The states of a client that holds a lease.
Lease == {"ANNOUNCING", "BOUND", "RENEWING", "REBINDING"}
Extending == {"RENEWING", "REBINDING"}

\* The datagrams of the network: an ACK names an address of the pool.
Datagrams ==
    [type : {"DISCOVER", "REQUEST", "DECLINE", "RELEASE", "OFFER", "ACK", "NAK"},
     mac : Macs, xid : Xids, ip : Pool \cup {Unspecified},
     ciaddr : Pool \cup {Unspecified}]
Carried == {m \in Datagrams : m.type = "ACK" => m.ip \in Pool}

NetOK(N) == IsFiniteSet(N) /\ Cardinality(N) <= InFlight /\ N \subseteq Carried

\* What is true of a client by itself, in each state of its lease machine.
Fits(r) ==
    /\ ~r.running => r.state = "INIT"
    /\ r.state \notin {"INIT", "INIT_REBOOT"} => r.linkState
    /\ r.running => (r.addrState = "VALID" <=> r.state \in Lease)
    /\ r.state = "PROBING" => r.addrState = "TENTATIVE"
    /\ r.state \in Lease \cup {"PROBING"} => r.addr \in Pool

\* The host uses its address, or it has probed for it and knows of no conflict.
\* Hosts that never probe (ProbeNum = 0) claim nothing: two of them may use one
\* address.
Holds(r) == r.running /\ r.addrState = "VALID"
Cleared(r) == r.state = "PROBING" /\ ~r.conflict /\ r.retransmitCount > 0
Claims(r) == ProbeNum > 0 /\ (Holds(r) \/ Cleared(r))

\* A datagram of a client that extends the lease of address a.
Renews(m, a) ==
    \/ m.type = "REQUEST" /\ m.ciaddr = a
    \/ m.type = "ACK" /\ m.ip = a
    \/ m.type = "NAK"

ClientsOK == client \in [Hosts -> Client] /\ \A c \in Hosts : Fits(client[c])

ClaimsApart ==
    \A c, d \in Hosts :
        c # d /\ Claims(client[c]) /\ Claims(client[d])
          => client[c].addr # client[d].addr

\* The answers a client in RENEWING or REBINDING may get are about its address.
OnlyRenewals ==
    \A c \in Hosts : client[c].state \in Extending =>
        \A m \in net : m.mac = c => Renews(m, client[c].addr)

\* The inductive invariant.
DInv == /\ Good(clientBinding, nextIpAddr) /\ NetOK(net)
        /\ ClientsOK /\ ClaimsApart /\ OnlyRenewals
-----------------------------------------------------------------------------
(* The network.                                                             *)

\* Identifiers are numbers, and there is one more than the network can hold.
LEMMA XidNumbers ==
    /\ InFlight \in Nat /\ Xids \subseteq Nat /\ 1 \in Xids
    /\ IsFiniteSet(Xids) /\ Cardinality(Xids) = InFlight + 1
<1>1. InFlight \in Nat
  BY CountsAssumption
<1>2. IsFiniteSet(1 .. InFlight + 1) /\ Cardinality(1 .. InFlight + 1) = InFlight + 1
  BY <1>1, FS_Interval
<1> QED BY <1>1, <1>2 DEF Xids

\* Fewer datagrams than identifiers do not carry all of them.
LEMMA XidLeft ==
    ASSUME NEW N, IsFiniteSet(N), NEW X, IsFiniteSet(X),
           Cardinality(N) < Cardinality(X)
    PROVE  \E x \in X : \A m \in N : m.xid # x
<1> SUFFICES ASSUME \A x \in X : \E m \in N : m.xid = x PROVE FALSE
  OBVIOUS
<1> DEFINE f == [x \in X |-> CHOOSE m \in N : m.xid = x]
<1>1. \A x \in X : f[x] \in N /\ f[x].xid = x
  OBVIOUS
<1>2. f \in [X -> N]
  BY <1>1
<1> HIDE DEF f
<1>3. \E x, y \in X : x # y /\ f[x] = f[y]
  <2>1. ASSUME NEW g \in [X -> N] PROVE \E x, y \in X : x # y /\ g[x] = g[y]
    BY FS_PigeonHole
  <2> QED BY <1>2, <2>1
<1> QED BY <1>1, <1>3

\* netGenerateRand has an identifier to choose that no datagram carries.
LEMMA NewXidType ==
    ASSUME NetOK(net), NEW c
    PROVE  NewXid(c) \in Xids
<1>1. Cardinality(net) < Cardinality(Xids)
  <2>1. Cardinality(net) \in Nat
    BY FS_CardinalityType DEF NetOK
  <2> QED BY <2>1, XidNumbers DEF NetOK
<1>2. \E x \in Xids : \A m \in net : m.xid # x
  BY <1>1, XidLeft, XidNumbers DEF NetOK
<1> QED BY <1>2 DEF NewXid

\* Whatever is lost or repeated, the network keeps to its bound, and what it holds
\* was there before or is sent now.
LEMMA SentNet ==
    ASSUME NEW N, NetOK(N), NEW S, IsFiniteSet(S), S \subseteq Carried,
           NEW P \in Sent(N, S)
    PROVE  NetOK(P) /\ P \subseteq N \cup S
<1>1. CASE P = N
  BY <1>1
<1>2. CASE P # N
  <2>1. P \subseteq N \cup S /\ Cardinality(P) = Smaller(InFlight, Cardinality(N \cup S))
    BY <1>2 DEF Sent
  <2>2. IsFiniteSet(N \cup S)
    BY FS_Union DEF NetOK
  <2>3. Cardinality(N \cup S) \in Nat
    BY <2>2, FS_CardinalityType
  <2>4. IsFiniteSet(P)
    BY <2>1, <2>2, FS_Subset
  <2>5. Cardinality(P) <= InFlight
    BY <2>1, <2>3, XidNumbers DEF Smaller
  <2> QED BY <2>1, <2>4, <2>5 DEF NetOK
<1> QED BY <1>1, <1>2

\* Fewer datagrams than before.
LEMMA LessNet ==
    ASSUME NEW N, NetOK(N), NEW P, P \subseteq N
    PROVE  NetOK(P)
<1>1. IsFiniteSet(P) /\ Cardinality(P) <= Cardinality(N)
  BY FS_Subset DEF NetOK
<1>2. Cardinality(P) \in Nat /\ Cardinality(N) \in Nat /\ InFlight \in Nat
  BY <1>1, FS_CardinalityType, XidNumbers DEF NetOK
<1> QED BY <1>1, <1>2 DEF NetOK

\* One datagram of a client.
LEMMA DatagramSent ==
    ASSUME NEW c \in Hosts, NetOK(net), NEW xid \in Xids,
           NEW type \in {"DISCOVER", "REQUEST", "DECLINE", "RELEASE"},
           NEW ip \in Pool \cup {Unspecified}, NEW ciaddr \in Pool \cup {Unspecified},
           NEW P \in Sent(net, {Datagram(c, type, xid, ip, ciaddr)})
    PROVE  /\ NetOK(P)
           /\ P \subseteq net \cup {Datagram(c, type, xid, ip, ciaddr)}
<1>1. Datagram(c, type, xid, ip, ciaddr) \in Carried
  BY HostsAssumption DEF Datagram, Carried, Datagrams
<1>2. IsFiniteSet({Datagram(c, type, xid, ip, ciaddr)})
  BY FS_Singleton
<1> QED BY <1>1, <1>2, SentNet

-----------------------------------------------------------------------------
(* The answers of the server.                                               *)

\* What an answer to m is like: it goes to the sender, an ACK is about the address
\* that was claimed, and only a DISCOVER is offered one.
Answers(m, x) ==
    /\ x \in Carried /\ x.mac = m.mac
    /\ m.type = "REQUEST" =>
          \/ x.type = "ACK" /\ x.ip = Claimed(m)
          \/ x.type = "NAK"

\* An answer of a type and about an address is what it should be.
LEMMA ReplyAnswers ==
    ASSUME NEW m \in Message, m.xid \in Xids,
           NEW type \in {"OFFER", "ACK", "NAK"}, NEW ip \in Pool \cup {Unspecified},
           type = "ACK" => ip \in Pool,
           m.type = "REQUEST" =>
              (type = "ACK" /\ ip = Claimed(m)) \/ type = "NAK"
    PROVE  /\ Answers(m, Reply(m, type, ip))
           /\ IsFiniteSet({Reply(m, type, ip)})
<1>1. Reply(m, type, ip) \in Datagrams
  BY DEF Reply, Datagrams, Message
<1>2. IsFiniteSet({Reply(m, type, ip)})
  BY FS_Singleton
<1> QED BY <1>1, <1>2 DEF Reply, Carried, Answers

\* dhcpServerParseDiscover offers an address of the pool, if it offers one.
LEMMA DiscoverAnswers ==
    ASSUME NEW m \in Message, m.xid \in Xids, m.type = "DISCOVER",
           Good(clientBinding, nextIpAddr)
    PROVE  \/ ParseDiscover(m).replies = {}
           \/ \E ip \in Pool : ParseDiscover(m).replies = {Reply(m, "OFFER", ip)}
<1> DEFINE b == clientBinding
<1>1. CASE FindBindingByMacAddr(b, m.mac) # {}
  <2> DEFINE k == The(FindBindingByMacAddr(b, m.mac))
  <2>1. k \in Entries(b)
    BY <1>1, TheMember DEF FindBindingByMacAddr
  <2>2. b[k] \in Binding
    BY <2>1 DEF Good, Entries
  <2> HIDE DEF k
  <2>6. b[k].ipAddr \in Pool
    BY <2>2 DEF Binding
  <2> USE DEF k
  <2>3. ParseDiscover(m) = DiscoverAgain(m)
    BY <1>1 DEF ParseDiscover
  <2>4. CASE Available(b, m.ip)
    BY <2>3, <2>4, AvailableFree DEF DiscoverAgain, Outcome
  <2>5. CASE ~Available(b, m.ip)
    BY <2>3, <2>5, <2>6 DEF DiscoverAgain, Outcome
  <2> QED BY <2>4, <2>5
<1>2. CASE FindBindingByMacAddr(b, m.mac) = {}
  <2> DEFINE r == MakeRoom(b)
             found == After(nextIpAddr, FirstTried(r))
             ip == IF Available(r, m.ip) THEN m.ip ELSE found
  <2>1. ParseDiscover(m) = DiscoverFirst(m)
    BY <1>2 DEF ParseDiscover
  <2>2. CASE ~HasRoom(b) \/ (~Available(r, m.ip) /\ Tried(r) = {})
    BY <2>1, <2>2 DEF DiscoverFirst, Outcome
  <2>3. CASE HasRoom(b) /\ (Available(r, m.ip) \/ Tried(r) # {})
    <3>1. ParseDiscover(m).replies = {Reply(m, "OFFER", ip)}
      BY <2>1, <2>3 DEF DiscoverFirst, Outcome
    <3>2. r \in Seq(Binding)
      BY <2>3, RoomMade DEF Good
    <3>3. Available(r, m.ip) => m.ip \in Pool
      BY AvailableFree
    <3>4. ~Available(r, m.ip) => found \in Pool
      BY <2>3, <3>2, FoundAddress DEF Good
    <3>5. ip \in Pool
      BY <3>3, <3>4
    <3> QED BY <3>1, <3>5
  <2> QED BY <2>2, <2>3
<1> QED BY <1>1, <1>2

\* dhcpServerParseRequest acknowledges the claimed address, one of the pool, or
\* refuses.
LEMMA RequestAnswers ==
    ASSUME NEW m \in Message, m.xid \in Xids, Good(clientBinding, nextIpAddr)
    PROVE  \/ ParseRequest(m).replies = {Reply(m, "NAK", Unspecified)}
           \/ /\ Claimed(m) \in Pool
              /\ ParseRequest(m).replies = {Reply(m, "ACK", Claimed(m))}
<1> DEFINE b == clientBinding
           own == FindBindingByMacAddr(b, m.mac)
           k == The(own)
<1>1. CASE own # {} /\ b[k].ipAddr = Claimed(m)
  <2>1. k \in Entries(b)
    BY <1>1, TheMember DEF FindBindingByMacAddr
  <2>2. b[k] \in Binding
    BY <2>1 DEF Good, Entries
  <2>3. Claimed(m) \in Pool
    BY <1>1, <2>2 DEF Binding
  <2> QED BY <1>1, <2>3 DEF ParseRequest, Commit, Outcome
<1>2. CASE own = {} /\ Available(b, Claimed(m)) /\ HasRoom(b)
  <2>1. Claimed(m) \in Pool
    BY <1>2, AvailableFree
  <2> QED BY <1>2, <2>1 DEF ParseRequest, Commit, Outcome
<1>3. CASE /\ ~(own # {} /\ b[k].ipAddr = Claimed(m))
           /\ ~(own = {} /\ Available(b, Claimed(m)) /\ HasRoom(b))
  BY <1>3 DEF ParseRequest, Nak, Outcome
<1> QED BY <1>1, <1>2, <1>3

\* Every answer of the server is one to the message.
LEMMA RepliesAnswer ==
    ASSUME NEW m \in Message, m.xid \in Xids, Good(clientBinding, nextIpAddr)
    PROVE  /\ IsFiniteSet(Parse(m).replies)
           /\ \A x \in Parse(m).replies : Answers(m, x)
<1>1. CASE m.type = "DISCOVER"
  <2>1. Parse(m) = ParseDiscover(m)
    BY <1>1 DEF Parse
  <2>2. CASE Parse(m).replies = {}
    BY <2>2, FS_EmptySet
  <2>3. CASE \E ip \in Pool : Parse(m).replies = {Reply(m, "OFFER", ip)}
    <3>1. PICK ip \in Pool : Parse(m).replies = {Reply(m, "OFFER", ip)}
      BY <2>3
    <3>2. /\ Answers(m, Reply(m, "OFFER", ip))
          /\ IsFiniteSet({Reply(m, "OFFER", ip)})
      BY <1>1, ReplyAnswers
    <3> QED BY <3>1, <3>2
  <2> QED BY <1>1, <2>1, <2>2, <2>3, DiscoverAnswers
<1>2. CASE m.type = "REQUEST"
  <2>1. Parse(m) = ParseRequest(m)
    BY <1>2 DEF Parse
  <2>2. CASE Parse(m).replies = {Reply(m, "NAK", Unspecified)}
    <3>1. /\ Answers(m, Reply(m, "NAK", Unspecified))
          /\ IsFiniteSet({Reply(m, "NAK", Unspecified)})
      BY ReplyAnswers
    <3> QED BY <2>2, <3>1
  <2>3. CASE /\ Claimed(m) \in Pool
             /\ Parse(m).replies = {Reply(m, "ACK", Claimed(m))}
    <3>1. /\ Answers(m, Reply(m, "ACK", Claimed(m)))
          /\ IsFiniteSet({Reply(m, "ACK", Claimed(m))})
      BY <2>3, ReplyAnswers
    <3> QED BY <2>3, <3>1
  <2> QED BY <2>1, <2>2, <2>3, RequestAnswers
<1>3. CASE m.type \in {"DECLINE", "RELEASE"}
  <2>1. Parse(m).replies = {}
    BY <1>3 DEF Parse, ParseDecline, ParseRelease, Outcome
  <2> QED BY <2>1, FS_EmptySet
<1> QED BY <1>1, <1>2, <1>3 DEF Message
-----------------------------------------------------------------------------
(* The hosts.                                                               *)

\* A step of a host from r to s is in order: it fits its new state, and it claims
\* no address that it did not claim before.
Evolves(r, s) ==
    /\ s \in Client /\ Fits(s)
    /\ Claims(s) => Claims(r) /\ s.addr = r.addr

\* A step of host c alone, with what it does to the network.
OneStep(c, s) ==
    /\ client' = [client EXCEPT ![c] = s]
    /\ Evolves(client[c], s)
    /\ NetOK(net')
    /\ \A m \in net' : m \in net \/ m.mac = c
    /\ s.state \in Extending => \A m \in net' : m.mac = c => Renews(m, s.addr)

\* What the steps of the hosts keep.
HostsInv == NetOK(net) /\ ClientsOK /\ ClaimsApart /\ OnlyRenewals

\* A host that claims nothing new leaves the claims of all apart.
LEMMA EvolvesApart ==
    ASSUME ClientsOK, ClaimsApart, NEW f \in [Hosts -> Client], client' = f,
           \A d \in Hosts : Evolves(client[d], f[d])
    PROVE  ClientsOK' /\ ClaimsApart'
<1>1. ClientsOK'
  BY DEF ClientsOK, Evolves
<1>2. ASSUME NEW c \in Hosts, NEW d \in Hosts, c # d, Claims(f[c]), Claims(f[d])
      PROVE  f[c].addr # f[d].addr
  <2>1. /\ Claims(client[c]) /\ f[c].addr = client[c].addr
        /\ Claims(client[d]) /\ f[d].addr = client[d].addr
    BY <1>2 DEF Evolves
  <2> QED BY <1>2, <2>1 DEF ClaimsApart
<1>3. ClaimsApart'
  BY <1>2 DEF ClaimsApart
<1> QED BY <1>1, <1>3

\* The others do not move when one host does.
LEMMA OneStepOthers ==
    ASSUME ClientsOK, NEW c \in Hosts, NEW s, OneStep(c, s)
    PROVE  /\ client' \in [Hosts -> Client]
           /\ client'[c] = s
           /\ \A d \in Hosts : d # c => client'[d] = client[d]
           /\ \A d \in Hosts : Evolves(client[d], client'[d])
<1>1. /\ client \in [Hosts -> Client] /\ client' = [client EXCEPT ![c] = s]
      /\ s \in Client
  BY DEF ClientsOK, OneStep, Evolves
<1>2. /\ client' \in [Hosts -> Client] /\ client'[c] = s
      /\ \A d \in Hosts : d # c => client'[d] = client[d]
  BY <1>1
<1>3. \A d \in Hosts : Evolves(client[d], client[d])
  BY DEF Evolves, ClientsOK
<1>4. Evolves(client[c], client'[c])
  BY <1>2 DEF OneStep
<1> QED BY <1>2, <1>3, <1>4

\* A step of one host keeps the invariant of the hosts.
LEMMA OneStepKeeps ==
    ASSUME HostsInv, NEW c \in Hosts, NEW s, OneStep(c, s)
    PROVE  HostsInv'
<1>1. ClientsOK' /\ ClaimsApart'
  BY OneStepOthers, EvolvesApart DEF HostsInv
<1>2. OnlyRenewals'
  <2> SUFFICES ASSUME NEW d \in Hosts, client'[d].state \in Extending,
                      NEW m \in net', m.mac = d
               PROVE  Renews(m, client'[d].addr)
    BY DEF OnlyRenewals
  <2>1. CASE d = c
    BY <2>1, OneStepOthers DEF HostsInv, OneStep
  <2>2. CASE d # c
    BY <2>2, OneStepOthers DEF HostsInv, OneStep, OnlyRenewals
  <2> QED BY <2>1, <2>2
<1> QED BY <1>1, <1>2 DEF HostsInv, OneStep

\* A step that sends nothing, of a host that extends no lease or goes on with it.
LEMMA BecomeStep ==
    ASSUME HostsInv, NEW c \in Hosts, NEW s, Become(c, s), Evolves(client[c], s),
           s.state \in Extending =>
              client[c].state \in Extending /\ s.addr = client[c].addr
    PROVE  OneStep(c, s)
BY DEF Become, OneStep, HostsInv, OnlyRenewals

\* A step that sends one datagram.
LEMMA SendStep ==
    ASSUME HostsInv, NEW c \in Hosts, NEW s, client' = [client EXCEPT ![c] = s],
           NEW type \in {"DISCOVER", "REQUEST", "DECLINE", "RELEASE"}, NEW xid \in Xids,
           NEW ip \in Pool \cup {Unspecified}, NEW ciaddr \in Pool \cup {Unspecified},
           net' \in Sent(net, {Datagram(c, type, xid, ip, ciaddr)}),
           Evolves(client[c], s),
           s.state \in Extending =>
              /\ client[c].state \in Extending /\ s.addr = client[c].addr
              /\ type = "REQUEST" /\ ciaddr = s.addr
    PROVE  OneStep(c, s)
<1> DEFINE x == Datagram(c, type, xid, ip, ciaddr)
<1>1. NetOK(net') /\ net' \subseteq net \cup {x}
  BY DatagramSent DEF HostsInv
<1>2. x.mac = c /\ x.type = type /\ x.ciaddr = ciaddr
  BY DEF Datagram
<1> HIDE DEF x
<1>3. ASSUME s.state \in Extending, NEW m \in net', m.mac = c
      PROVE  Renews(m, s.addr)
  <2>1. CASE m \in net
    BY <1>3, <2>1 DEF HostsInv, OnlyRenewals
  <2>2. CASE m = x
    BY <1>2, <1>3, <2>2 DEF Renews
  <2> QED BY <1>1, <2>1, <2>2
<1>4. \A m \in net' : m \in net \/ m.mac = c
  BY <1>1, <1>2
<1> QED BY <1>1, <1>3, <1>4 DEF OneStep

\* A host of the invariant.
LEMMA HostFits ==
    ASSUME HostsInv, NEW c \in Hosts
    PROVE  /\ client[c] \in Client /\ Fits(client[c])
           /\ MaxRc \in Nat /\ ProbeNum \in Nat /\ Unspecified \notin Pool
BY CountsAssumption, PoolAssumption DEF HostsInv, ClientsOK, Pool, Unspecified

\* dhcpClientChangeState to a state without a lease claims nothing.
LEMMA ChangeStateEvolves ==
    ASSUME NEW r \in Client, Fits(r), r.linkState, r.running,
           NEW t \in {"INIT", "SELECTING", "REQUESTING", "REBOOTING"},
           r.addrState # "VALID"
    PROVE  Evolves(r, ChangeState(r, t)) /\ ChangeState(r, t).state = t
<1> DEFINE s == ChangeState(r, t)
<1>1. s \in Client
  BY DEF s, ChangeState, Client, States
<1>2. /\ s.state = t /\ s.running /\ s.linkState
      /\ s.addrState # "VALID"
  BY DEF s, ChangeState, Client
<1> HIDE DEF s
<1>3. Fits(s)
  BY <1>2 DEF Fits, Lease
<1>4. ~Claims(s)
  BY <1>2 DEF Claims, Holds, Cleared
<1>5. Evolves(r, s)
  BY <1>1, <1>3, <1>4 DEF Evolves
<1> QED BY <1>2, <1>5 DEF s

\* The first step after the client is started or its link is up.
LEMMA StateInitStep ==
    ASSUME HostsInv, NEW c \in Hosts, StateInit(c)
    PROVE  \E s : OneStep(c, s)
<1> DEFINE r == client[c]
<1>1. r \in Client /\ Fits(r)
  BY HostFits
<1>2. r.running /\ r.linkState /\ r.state \in {"INIT", "INIT_REBOOT"}
  BY DEF StateInit
<1>3. r.addrState # "VALID"
  BY <1>1, <1>2 DEF Fits, Lease
<1>4. CASE Become(c, ChangeState(r, "SELECTING"))
  <2> DEFINE s == ChangeState(r, "SELECTING")
  <2>1. Evolves(r, s) /\ s.state = "SELECTING"
    BY <1>1, <1>2, <1>3, ChangeStateEvolves
  <2> HIDE DEF s
  <2>2. OneStep(c, s)
    BY <1>4, <2>1, BecomeStep DEF Extending, s
  <2> QED BY <2>2
<1>5. CASE Become(c, ChangeState(r, "REBOOTING"))
  <2> DEFINE s == ChangeState(r, "REBOOTING")
  <2>1. Evolves(r, s) /\ s.state = "REBOOTING"
    BY <1>1, <1>2, <1>3, ChangeStateEvolves
  <2> HIDE DEF s
  <2>2. OneStep(c, s)
    BY <1>5, <2>1, BecomeStep DEF Extending, s
  <2> QED BY <2>2
<1> QED BY <1>4, <1>5 DEF StateInit

\* A retransmission: the state and the address stay, and only a client that has
\* begun to count counts on.
LEMMA SendOfStep ==
    ASSUME HostsInv, NEW c \in Hosts, client[c].state # "PROBING", NEW xid \in Xids,
           NEW type \in {"DISCOVER", "REQUEST", "DECLINE", "RELEASE"},
           NEW ip \in Pool \cup {Unspecified}, NEW ciaddr \in Pool \cup {Unspecified},
           SendOf(c, xid, type, ip, ciaddr),
           client[c].state \in Extending => type = "REQUEST" /\ ciaddr = client[c].addr
    PROVE  \E s : OneStep(c, s)
<1> DEFINE r == client[c]
           q == [r EXCEPT !.transactionId = xid]
           s == Counted(q)
<1>1. r \in Client /\ Fits(r) /\ MaxRc \in Nat
  BY HostFits
<1>2. /\ q \in Client
      /\ q.running = r.running /\ q.state = r.state /\ q.linkState = r.linkState
      /\ q.addr = r.addr /\ q.addrState = r.addrState
  BY <1>1 DEF Client
<1> HIDE DEF q
<1>3. /\ s \in Client
      /\ s.running = q.running /\ s.state = q.state /\ s.linkState = q.linkState
      /\ s.addr = q.addr /\ s.addrState = q.addrState
  BY <1>1, <1>2 DEF Counted, Client
<1>4. client' = [client EXCEPT ![c] = s]
  BY DEF SendOf, s, q
<1> HIDE DEF s
<1>5. Evolves(r, s)
  BY <1>1, <1>2, <1>3 DEF Evolves, Fits, Claims, Holds, Cleared
<1>6. net' \in Sent(net, {Datagram(c, type, xid, ip, ciaddr)})
  BY DEF SendOf
<1>7. OneStep(c, s)
  BY <1>2, <1>3, <1>4, <1>5, <1>6, SendStep
<1> QED BY <1>7
\* The identifier of a message is one of the identifiers.
LEMMA XidToSendType ==
    ASSUME HostsInv, NEW c \in Hosts
    PROVE  XidToSend(c) \in Xids /\ client[c].transactionId \in Xids
<1>1. NewXid(c) \in Xids
  BY NewXidType DEF HostsInv
<1>2. client[c].transactionId \in Xids
  BY HostFits DEF Client
<1> QED BY <1>1, <1>2 DEF XidToSend

\* dhcpClientStateSelecting, Requesting, Rebooting, Renewing and Rebinding, when
\* they send; in the last two the REQUEST names the address of the lease.
LEMMA SendsStep ==
    ASSUME HostsInv, NEW c \in Hosts,
           StateSelecting(c) \/ StateRequesting(c) \/ StateRebooting(c) \/ Extend(c)
    PROVE  \E s : OneStep(c, s)
<1> DEFINE r == client[c]
<1>1. r \in Client /\ Fits(r)
  BY HostFits
<1>2. /\ r.requestedIpAddr \in Pool \cup {Unspecified}
      /\ r.addr \in Pool \cup {Unspecified}
  BY <1>1 DEF Client
<1>3. XidToSend(c) \in Xids /\ r.transactionId \in Xids
  BY XidToSendType
<1>4. CASE StateSelecting(c)
  <2>1. /\ r.state = "SELECTING"
        /\ SendOf(c, XidToSend(c), "DISCOVER", Unspecified, Unspecified)
    BY <1>4 DEF StateSelecting
  <2> QED BY <1>3, <2>1, SendOfStep DEF Extending
<1>5. CASE StateRequesting(c)
  <2>1. /\ r.state = "REQUESTING"
        /\ SendOf(c, r.transactionId, "REQUEST", r.requestedIpAddr, Unspecified)
    BY <1>5 DEF StateRequesting
  <2> QED BY <1>2, <1>3, <2>1, SendOfStep DEF Extending
<1>6. CASE StateRebooting(c)
  <2>1. /\ r.state = "REBOOTING"
        /\ SendOf(c, XidToSend(c), "REQUEST", r.requestedIpAddr, Unspecified)
    BY <1>6 DEF StateRebooting
  <2> QED BY <1>2, <1>3, <2>1, SendOfStep DEF Extending
<1>7. CASE Extend(c)
  <2>1. /\ r.state # "PROBING"
        /\ SendOf(c, XidToSend(c), "REQUEST", Unspecified, r.addr)
    BY <1>7 DEF Extend
  <2> QED BY <1>2, <1>3, <2>1, SendOfStep
<1> QED BY <1>4, <1>5, <1>6, <1>7

\* No answer: the client starts again, without an address.
LEMMA GiveUpStep ==
    ASSUME HostsInv, NEW c \in Hosts, GiveUp(c)
    PROVE  \E s : OneStep(c, s)
<1> DEFINE r == client[c]
           s == ChangeState(r, "INIT")
<1>1. r \in Client /\ Fits(r)
  BY HostFits
<1>2. r.running /\ r.linkState /\ r.addrState # "VALID"
  BY <1>1 DEF GiveUp, Fits, Lease
<1>3. Evolves(r, s) /\ s.state = "INIT"
  BY <1>1, <1>2, ChangeStateEvolves
<1>4. Become(c, s)
  BY DEF GiveUp
<1> HIDE DEF s
<1>5. OneStep(c, s)
  BY <1>3, <1>4, BecomeStep DEF Extending
<1> QED BY <1>5

\* T2 changes nothing but the state.
LEMMA T2Step ==
    ASSUME HostsInv, NEW c \in Hosts, T2(c)
    PROVE  \E s : OneStep(c, s)
<1> DEFINE r == client[c]
           s == ChangeState(r, "REBINDING")
<1>1. r \in Client /\ Fits(r) /\ r.state = "RENEWING"
  BY HostFits DEF T2
<1>2. /\ s \in Client /\ s.state = "REBINDING"
      /\ s.running = r.running /\ s.linkState = r.linkState
      /\ s.addr = r.addr /\ s.addrState = r.addrState
  BY <1>1 DEF ChangeState, Client, States
<1>3. Become(c, s)
  BY DEF T2
<1> HIDE DEF s
<1>4. Evolves(r, s)
  BY <1>1, <1>2 DEF Evolves, Fits, Lease, Claims, Holds, Cleared
<1>5. OneStep(c, s)
  BY <1>1, <1>2, <1>3, <1>4, BecomeStep DEF Extending
<1> QED BY <1>5

\* A client whose address is gone claims nothing, if its state and its link agree.
LEMMA ResetEvolves ==
    ASSUME NEW r, NEW s \in Client, s.addrState = "INVALID",
           s.state \in {"INIT", "INIT_REBOOT"}, ~s.running => s.state = "INIT"
    PROVE  Evolves(r, s)
BY DEF Evolves, Fits, Lease, Claims, Holds, Cleared

\* The end of the lease takes the address away.
LEMMA LeaseEndsStep ==
    ASSUME HostsInv, NEW c \in Hosts, LeaseEnds(c)
    PROVE  \E s : OneStep(c, s)
<1> DEFINE r == client[c]
           s == ChangeState(ResetConfig(r), "INIT")
<1>1. r \in Client /\ Fits(r) /\ r.state = "REBINDING"
  BY HostFits DEF LeaseEnds
<1>2. /\ s \in Client /\ s.state = "INIT" /\ s.addrState = "INVALID"
      /\ s.running = r.running
  BY <1>1 DEF ChangeState, ResetConfig, Client, States
<1>3. Become(c, s)
  BY DEF LeaseEnds
<1> HIDE DEF s
<1>4. Evolves(r, s)
  BY <1>1, <1>2, ResetEvolves DEF Fits
<1>5. OneStep(c, s)
  BY <1>2, <1>3, <1>4, BecomeStep DEF Extending
<1> QED BY <1>5

\* The address becomes valid: it was probed for, and no conflict was found.
LEMMA ProbingCompleteStep ==
    ASSUME HostsInv, NEW c \in Hosts, ProbingComplete(c)
    PROVE  \E s : OneStep(c, s)
<1> DEFINE r == client[c]
           s == ChangeState([r EXCEPT !.addrState = "VALID"], "ANNOUNCING")
<1>1. /\ r \in Client /\ Fits(r) /\ r.state = "PROBING"
      /\ ~r.conflict /\ r.retransmitCount >= ProbeNum /\ ProbeNum \in Nat
  BY HostFits DEF ProbingComplete
<1>2. r.retransmitCount \in Nat
  BY <1>1 DEF Client
<1>3. ProbeNum > 0 => Claims(r)
  BY <1>1, <1>2 DEF Claims, Cleared
<1>4. /\ s \in Client /\ s.state = "ANNOUNCING" /\ s.addrState = "VALID"
      /\ s.running = r.running /\ s.linkState = r.linkState /\ s.addr = r.addr
  BY <1>1 DEF ChangeState, Client, States
<1>5. Become(c, s)
  BY DEF ProbingComplete
<1> HIDE DEF s
<1>6. Evolves(r, s)
  BY <1>1, <1>3, <1>4 DEF Evolves, Fits, Lease, Claims
<1>7. OneStep(c, s)
  BY <1>4, <1>5, <1>6, BecomeStep DEF Extending
<1> QED BY <1>7

\* An address in use is declined.
LEMMA DeclineStep ==
    ASSUME HostsInv, NEW c \in Hosts, Decline(c)
    PROVE  \E s : OneStep(c, s)
<1> DEFINE r == client[c]
           q == [r EXCEPT !.transactionId = NewXid(c)]
           s == ChangeState(q, "INIT")
<1>1. r \in Client /\ Fits(r) /\ r.state = "PROBING"
  BY HostFits DEF Decline
<1>2. NewXid(c) \in Xids
  BY NewXidType DEF HostsInv
<1>3. r.running /\ r.linkState /\ r.addrState # "VALID"
  BY <1>1 DEF Fits
<1>4. /\ q \in Client /\ q.running = r.running /\ q.linkState = r.linkState
      /\ q.state = r.state /\ q.addr = r.addr /\ q.addrState = r.addrState
      /\ r.requestedIpAddr \in Pool \cup {Unspecified}
  BY <1>1, <1>2 DEF Client
<1> HIDE DEF q
<1>5. /\ s \in Client /\ s.state = "INIT" /\ s.running /\ s.addrState # "VALID"
  BY <1>3, <1>4 DEF ChangeState, Client, States
<1>6. /\ client' = [client EXCEPT ![c] = s]
      /\ net' \in Sent(net, {Datagram(c, "DECLINE", NewXid(c), r.requestedIpAddr,
                                      Unspecified)})
  BY DEF Decline, q
<1> HIDE DEF s
<1>7. Evolves(r, s)
  BY <1>5 DEF Evolves, Fits, Lease, Claims, Holds, Cleared
<1>8. OneStep(c, s)
  BY <1>2, <1>4, <1>5, <1>6, <1>7, SendStep DEF Extending
<1> QED BY <1>8

\* T1: nothing of the past is left in the network.
LEMMA StateBoundStep ==
    ASSUME HostsInv, NEW c \in Hosts, StateBound(c)
    PROVE  \E s : OneStep(c, s)
<1> DEFINE r == client[c]
           s == ChangeState(r, "RENEWING")
<1>1. r \in Client /\ Fits(r) /\ r.state = "BOUND"
  BY HostFits DEF StateBound
<1>2. /\ s \in Client /\ s.state = "RENEWING"
      /\ s.running = r.running /\ s.linkState = r.linkState
      /\ s.addr = r.addr /\ s.addrState = r.addrState
  BY <1>1 DEF ChangeState, Client, States
<1>3. client' = [client EXCEPT ![c] = s] /\ net' = {m \in net : m.mac # c}
  BY DEF StateBound
<1> HIDE DEF s
<1>4. Evolves(r, s)
  BY <1>1, <1>2 DEF Evolves, Fits, Lease, Claims, Holds, Cleared
<1>5. net' \subseteq net /\ \A m \in net' : m.mac # c
  BY <1>3
<1>6. NetOK(net')
  BY <1>5, LessNet DEF HostsInv
<1>7. OneStep(c, s)
  BY <1>3, <1>4, <1>5, <1>6 DEF OneStep
<1> QED BY <1>7

\* The calls of the user.
LEMMA UserStep ==
    ASSUME HostsInv, NEW c \in Hosts, Start(c) \/ Stop(c) \/ Release(c)
    PROVE  \E s : OneStep(c, s)
<1> DEFINE r == client[c]
<1>1. r \in Client /\ Fits(r)
  BY HostFits
<1>2. CASE Start(c)
  <2> DEFINE s == [ResetConfig(r) EXCEPT !.running = TRUE, !.state = "INIT"]
  <2>1. s \in Client /\ s.state = "INIT" /\ s.addrState = "INVALID"
    BY <1>1 DEF ResetConfig, Client, States
  <2>2. Become(c, s)
    BY <1>2 DEF Start
  <2> HIDE DEF s
  <2>3. Evolves(r, s)
    BY <2>1, ResetEvolves
  <2>4. OneStep(c, s)
    BY <2>1, <2>2, <2>3, BecomeStep DEF Extending
  <2> QED BY <2>4
<1>3. CASE Stop(c)
  <2> DEFINE s == [r EXCEPT !.running = FALSE, !.state = "INIT"]
  <2>1. s \in Client /\ s.state = "INIT" /\ ~s.running
    BY <1>1 DEF Client, States
  <2>2. Become(c, s)
    BY <1>3 DEF Stop
  <2> HIDE DEF s
  <2>3. Evolves(r, s)
    BY <2>1 DEF Evolves, Fits, Lease, Claims, Holds, Cleared
  <2>4. OneStep(c, s)
    BY <2>1, <2>2, <2>3, BecomeStep DEF Extending
  <2> QED BY <2>4
<1>4. CASE Release(c)
  <2> DEFINE s == [ResetConfig(r) EXCEPT !.running = FALSE, !.state = "INIT",
                                         !.transactionId = NewXid(c)]
  <2>1. NewXid(c) \in Xids
    BY NewXidType DEF HostsInv
  <2>2. s \in Client /\ s.state = "INIT" /\ s.addrState = "INVALID"
    BY <1>1, <2>1 DEF ResetConfig, Client, States
  <2>3. /\ client' = [client EXCEPT ![c] = s]
        /\ net' \in Sent(net, {Datagram(c, "RELEASE", NewXid(c), Unspecified, r.addr)})
        /\ r.addr \in Pool \cup {Unspecified}
    BY <1>1, <1>4 DEF Release, Client
  <2> HIDE DEF s
  <2>4. Evolves(r, s)
    BY <2>2, ResetEvolves
  <2>5. OneStep(c, s)
    BY <2>1, <2>2, <2>3, <2>4, SendStep DEF Extending
  <2> QED BY <2>5
<1> QED BY <1>2, <1>3, <1>4

\* The link: a client that runs loses its address, one that does not has none to use.
LEMMA LinkChangeStep ==
    ASSUME HostsInv, NEW c \in Hosts, LinkChange(c)
    PROVE  \E s : OneStep(c, s)
<1> DEFINE r == client[c]
           q == IF r.running THEN ResetConfig(r) ELSE r
           t == IF q.state \in HadLease THEN "INIT_REBOOT" ELSE "INIT"
           s == [q EXCEPT !.linkState = ~@,
                          !.state = IF @ \in HadLease THEN "INIT_REBOOT" ELSE "INIT"]
<1>1. r \in Client /\ Fits(r)
  BY HostFits
<1>2. /\ q \in Client /\ q.running = r.running /\ q.state = r.state
      /\ q.running => q.addrState = "INVALID"
  BY <1>1 DEF ResetConfig, Client
<1>3. Become(c, s)
  BY DEF LinkChange
<1> HIDE DEF q
<1>4. /\ s \in Client /\ s.state = t /\ s.running = r.running
      /\ s.addrState = q.addrState
  BY <1>2 DEF Client, States
<1>5. ~r.running => t = "INIT"
  BY <1>1, <1>2 DEF Fits, HadLease
<1> HIDE DEF s
<1>6. s.state \in {"INIT", "INIT_REBOOT"}
  BY <1>4
<1> HIDE DEF t
<1>7. Evolves(r, s)
  BY <1>2, <1>4, <1>5, <1>6 DEF Evolves, Fits, Lease, Claims, Holds, Cleared
<1>8. OneStep(c, s)
  BY <1>3, <1>6, <1>7, BecomeStep DEF Extending
<1> QED BY <1>8
\* An answer that is heeded: a new address is not claimed yet, and the address of a
\* lease that is extended is the one it had.
LEMMA ClientReceiveStep ==
    ASSUME HostsInv, NEW m \in net, ClientReceive(m)
    PROVE  \E s : m.mac \in Hosts /\ OneStep(m.mac, s)
<1> DEFINE c == m.mac
           r == client[c]
           s == CASE m.type = "OFFER" -> ParseOffer(r, m)
                  [] m.type = "ACK" -> ParseAck(r, m)
                  [] m.type = "NAK" -> ParseNak(r)
<1>1. /\ c \in Hosts /\ m.type \in {"OFFER", "ACK", "NAK"}
      /\ r.running /\ r.linkState
      /\ net' \in Arrived(m)
  BY DEF ClientReceive
<1>2. client' = [client EXCEPT ![c] = s]
  BY DEF ClientReceive
<1>3. r \in Client /\ Fits(r)
  BY <1>1, HostFits
<1>4. m.ip \in Pool \cup {Unspecified} /\ (m.type = "ACK" => m.ip \in Pool)
  BY DEF HostsInv, NetOK, Carried, Datagrams
<1>5. net' \subseteq net
  BY <1>1 DEF Arrived
<1>6. NetOK(net')
  BY <1>5, LessNet DEF HostsInv
<1>7. r.state \in Extending => \A x \in net : x.mac = c => Renews(x, r.addr)
  BY <1>1 DEF HostsInv, OnlyRenewals
<1>8. Evolves(r, s) /\ (s.state \in Extending => r.state \in Extending /\ s.addr = r.addr)
  <2>1. CASE s = r
    BY <1>3, <2>1 DEF Evolves
  <2>2. CASE m.type = "OFFER" /\ r.state = "SELECTING"
    <3> DEFINE q == [r EXCEPT !.requestedIpAddr = m.ip]
    <3>1. /\ q \in Client /\ q.running = r.running /\ q.linkState = r.linkState
          /\ q.state = r.state /\ q.addrState = r.addrState
      BY <1>3, <1>4, <2>2 DEF Client
    <3>2. s = ChangeState(q, "REQUESTING")
      BY <2>2 DEF ParseOffer
    <3> HIDE DEF q, s
    <3>3. /\ s \in Client /\ s.state = "REQUESTING" /\ s.running = r.running
          /\ s.linkState = r.linkState /\ s.addrState = r.addrState
      BY <3>1, <3>2 DEF ChangeState, Client, States
    <3> QED BY <1>1, <1>3, <2>2, <3>3
            DEF Evolves, Fits, Lease, Claims, Holds, Cleared, Extending
  <2>3. CASE m.type = "ACK" /\ r.state \in {"REQUESTING", "REBOOTING"}
    <3> DEFINE q == [r EXCEPT !.requestedIpAddr = m.ip, !.addr = m.ip,
                              !.addrState = "TENTATIVE", !.conflict = FALSE]
    <3>1. /\ q \in Client /\ q.running = r.running /\ q.linkState = r.linkState
          /\ q.addr = m.ip /\ q.addrState = "TENTATIVE"
      BY <1>3, <1>4, <2>3 DEF Client
    <3>2. s = ChangeState(q, "PROBING")
      BY <2>3 DEF ParseAck
    <3> HIDE DEF q, s
    <3>3. /\ s \in Client /\ s.state = "PROBING" /\ s.running = r.running
          /\ s.linkState = r.linkState /\ s.addrState = "TENTATIVE"
          /\ s.addr = m.ip /\ s.retransmitCount = 0
      BY <3>1, <3>2 DEF ChangeState, Client, States
    <3> QED BY <1>1, <1>4, <2>3, <3>3
            DEF Evolves, Fits, Lease, Claims, Holds, Cleared, Extending
  <2>4. CASE m.type = "ACK" /\ r.state \in Extending
    <3> DEFINE q == [r EXCEPT !.requestedIpAddr = m.ip, !.addr = m.ip,
                              !.addrState = "VALID"]
    <3>1. /\ q \in Client /\ q.running = r.running /\ q.linkState = r.linkState
          /\ q.addr = m.ip /\ q.addrState = "VALID"
      BY <1>3, <1>4, <2>4 DEF Client
    <3>2. s = ChangeState(q, "BOUND")
      BY <2>4 DEF ParseAck, Extending
    <3>3. m.ip = r.addr
      BY <1>7, <2>4 DEF Renews
    <3>4. ProbeNum > 0 => Claims(r)
      BY <1>1, <1>3, <2>4 DEF Fits, Lease, Extending, Claims, Holds
    <3> HIDE DEF q, s
    <3>5. /\ s \in Client /\ s.state = "BOUND" /\ s.running = r.running
          /\ s.linkState = r.linkState /\ s.addrState = "VALID" /\ s.addr = m.ip
      BY <3>1, <3>2 DEF ChangeState, Client, States
    <3> QED BY <1>1, <1>4, <2>4, <3>3, <3>4, <3>5
            DEF Evolves, Fits, Lease, Extending, Claims
  <2>5. CASE m.type = "NAK" /\ s # r
    <3>1. s = ChangeState(ResetConfig(r), "INIT")
      BY <2>5 DEF ParseNak
    <3> HIDE DEF s
    <3>2. s \in Client /\ s.state = "INIT" /\ s.addrState = "INVALID"
      BY <1>3, <3>1 DEF ChangeState, ResetConfig, Client, States
    <3> QED BY <3>2, ResetEvolves DEF Extending
  <2>6. CASE m.type = "OFFER" /\ r.state # "SELECTING"
    <3>1. s = r
      BY <2>6 DEF ParseOffer
    <3> QED BY <2>1, <3>1
  <2>7. CASE /\ m.type = "ACK"
             /\ r.state \notin {"REQUESTING", "REBOOTING"} /\ r.state \notin Extending
    <3>1. s = r
      BY <2>7 DEF ParseAck, Extending
    <3> QED BY <2>1, <3>1
  <2> QED BY <1>1, <2>1, <2>2, <2>3, <2>4, <2>5, <2>6, <2>7
<1> HIDE DEF s
<1>9. OneStep(c, s)
  BY <1>1, <1>2, <1>5, <1>6, <1>7, <1>8 DEF OneStep
<1> QED BY <1>1, <1>9

\* A host that takes notice of a conflict.
LEMMA NoticedEvolves ==
    ASSUME NEW r \in Client, Fits(r), NEW known \in BOOLEAN,
           r.conflict => known
    PROVE  LET s == [r EXCEPT !.conflict = known]
           IN  /\ Evolves(r, s)
               /\ s.state = r.state /\ s.addr = r.addr /\ s.running = r.running
               /\ s.addrState = r.addrState /\ s.conflict = known
<1> DEFINE s == [r EXCEPT !.conflict = known]
<1>1. /\ s \in Client /\ s.state = r.state /\ s.addr = r.addr /\ s.conflict = known
      /\ s.running = r.running /\ s.linkState = r.linkState
      /\ s.addrState = r.addrState /\ s.retransmitCount = r.retransmitCount
  BY DEF Client
<1> HIDE DEF s
<1>2. Evolves(r, s)
  BY <1>1 DEF Evolves, Fits, Claims, Holds, Cleared
<1> QED BY <1>1, <1>2 DEF s

\* Announcing: the host keeps the address, the others at most learn of it.
LEMMA AnnouncingStep ==
    ASSUME HostsInv, NEW c \in Hosts, StateAnnouncing(c)
    PROVE  /\ HostsInv'
           /\ Evolves(client[c], client'[c])
           /\ \A d \in Hosts : d # c =>
                 /\ client'[d].addr = client[d].addr
                 /\ client'[d].running = client[d].running
                 /\ client'[d].addrState = client[d].addrState
<1> DEFINE r == client[c]
           s == ChangeState(r, "BOUND")
           told(d) == client[d].conflict \/ ProbesToo(d, r.addr) \/ AnswersProbe(d, r.addr)
           f == [d \in Hosts |-> IF d = c THEN s
                                 ELSE [client[d] EXCEPT !.conflict = told(d)]]
<1>1. r \in Client /\ Fits(r) /\ r.state = "ANNOUNCING"
  BY HostFits DEF StateAnnouncing
<1>2. client' = f /\ net' = net
  BY DEF StateAnnouncing
<1>3. /\ s \in Client /\ s.state = "BOUND"
      /\ s.running = r.running /\ s.linkState = r.linkState
      /\ s.addr = r.addr /\ s.addrState = r.addrState
  BY <1>1 DEF ChangeState, Client, States
<1>4. f[c] = s
  OBVIOUS
<1>5. \A d \in Hosts : d # c => f[d] = [client[d] EXCEPT !.conflict = told(d)]
  OBVIOUS
<1> HIDE DEF s
<1>6. Evolves(r, s)
  BY <1>1, <1>3 DEF Evolves, Fits, Lease, Claims, Holds, Cleared
<1>7. \A d \in Hosts : told(d) \in BOOLEAN /\ (client[d].conflict => told(d))
  <2> TAKE d \in Hosts
  <2>1. client[d].conflict \in BOOLEAN
    BY HostFits DEF Client
  <2> QED BY <2>1
<1> HIDE DEF told
<1>8. ASSUME NEW d \in Hosts, d # c
      PROVE  /\ Evolves(client[d], f[d])
             /\ f[d].state = client[d].state /\ f[d].addr = client[d].addr
             /\ f[d].running = client[d].running
             /\ f[d].addrState = client[d].addrState
  <2>1. f[d] = [client[d] EXCEPT !.conflict = told(d)]
    BY <1>5, <1>8
  <2>2. client[d] \in Client /\ Fits(client[d])
    BY HostFits
  <2> HIDE DEF f
  <2> QED BY <1>7, <2>1, <2>2, NoticedEvolves
<1>9. \A d \in Hosts : Evolves(client[d], f[d])
  BY <1>4, <1>6, <1>8
<1>10. f \in [Hosts -> Client]
  <2>1. \A d \in Hosts : f[d] \in Client
    BY <1>9 DEF Evolves
  <2> QED BY <2>1
<1> HIDE DEF f
<1>11. ClientsOK' /\ ClaimsApart'
  BY <1>2, <1>9, <1>10, EvolvesApart DEF HostsInv
<1>12. OnlyRenewals'
  <2>1. \A d \in Hosts : client'[d].state \in Extending =>
           d # c /\ client[d].state \in Extending /\ client'[d].addr = client[d].addr
    BY <1>2, <1>3, <1>4, <1>8 DEF Extending
  <2> QED BY <1>2, <2>1 DEF HostsInv, OnlyRenewals
<1>13. HostsInv'
  BY <1>2, <1>11, <1>12 DEF HostsInv, NetOK
<1> QED BY <1>2, <1>4, <1>6, <1>8, <1>13

\* A probe: the host that sends it knows of no conflict only when no host uses the
\* address, and every host that probes for the same address now knows of one.
LEMMA ProbeStep ==
    ASSUME HostsInv, NEW c \in Hosts, Probe(c)
    PROVE  /\ HostsInv'
           /\ \A d \in Hosts :
                 /\ client'[d].addr = client[d].addr
                 /\ client'[d].running = client[d].running
                 /\ client'[d].addrState = client[d].addrState
<1> DEFINE r == client[c]
           used == r.conflict \/ \E e \in Hosts \ {c} : AnswersProbe(e, r.addr)
           q == [r EXCEPT !.conflict = used]
           s == Counted(q)
           told(d) == client[d].conflict \/ ProbesToo(d, r.addr)
<1>1. r \in Client /\ Fits(r) /\ r.state = "PROBING" /\ MaxRc \in Nat
  BY HostFits DEF Probe
<1>2. net' = net /\ client' = AfterProbe(c)
  BY DEF Probe
<1>3. client' = [d \in Hosts |-> IF d = c THEN s
                                 ELSE [client[d] EXCEPT !.conflict = told(d)]]
  BY <1>2 DEF AfterProbe
<1>4. used \in BOOLEAN /\ (r.conflict => used)
  <2>1. r.conflict \in BOOLEAN
    BY <1>1 DEF Client
  <2> QED BY <2>1
<1>5. client'[c] = s
  BY <1>3
<1>6. \A d \in Hosts : d # c => client'[d] = [client[d] EXCEPT !.conflict = told(d)]
  BY <1>3
<1>7. \A e \in Hosts : e # c /\ AnswersProbe(e, r.addr) => used
  OBVIOUS
<1> HIDE DEF used
<1>8. /\ q \in Client /\ q.state = r.state /\ q.addr = r.addr /\ q.conflict = used
      /\ q.running = r.running /\ q.linkState = r.linkState
      /\ q.addrState = r.addrState
  BY <1>1, <1>4 DEF Client
<1> HIDE DEF q
<1>9. /\ s \in Client /\ s.state = r.state /\ s.addr = r.addr /\ s.conflict = used
      /\ s.running = r.running /\ s.linkState = r.linkState
      /\ s.addrState = r.addrState
  BY <1>1, <1>8 DEF Counted, Client
<1> HIDE DEF s
<1>10. \A d \in Hosts : told(d) \in BOOLEAN /\ (client[d].conflict => told(d))
  <2> TAKE d \in Hosts
  <2>1. client[d].conflict \in BOOLEAN
    BY HostFits DEF Client
  <2> QED BY <2>1
<1>11. \A d \in Hosts : ProbesToo(d, r.addr) => told(d)
  OBVIOUS
<1> HIDE DEF told
<1>12. ASSUME NEW d \in Hosts, d # c
       PROVE  /\ Evolves(client[d], client'[d])
              /\ client'[d].state = client[d].state /\ client'[d].addr = client[d].addr
              /\ client'[d].running = client[d].running
              /\ client'[d].addrState = client[d].addrState
              /\ client'[d].conflict = told(d)
  <2>1. client'[d] = [client[d] EXCEPT !.conflict = told(d)]
    BY <1>6, <1>12
  <2>2. client[d] \in Client /\ Fits(client[d])
    BY HostFits
  <2> QED BY <1>10, <2>1, <2>2, NoticedEvolves
<1>13. ClientsOK'
  <2>1. \A d \in Hosts : client'[d] \in Client /\ Fits(client'[d])
    BY <1>1, <1>5, <1>9, <1>12 DEF Evolves, Fits
  <2>2. client' \in [Hosts -> Client]
    BY <1>3, <2>1
  <2> QED BY <2>1, <2>2 DEF ClientsOK
<1>14. ASSUME NEW d \in Hosts, d # c, Claims(client'[c]), Claims(client'[d])
       PROVE  client'[c].addr # client'[d].addr
  <2>1. ~used
    BY <1>1, <1>5, <1>9, <1>14 DEF Claims, Holds, Cleared, Fits
  <2>2. client[d] \in Client /\ Fits(client[d])
    BY HostFits
  <2>3. CASE Holds(client'[d])
    <3>1. client[d].running /\ client[d].addrState = "VALID"
      BY <1>12, <1>14, <2>3 DEF Holds
    <3>2. client[d].linkState
      BY <2>2, <3>1 DEF Fits, Lease
    <3>3. client[d].addr # r.addr
      BY <1>7, <1>14, <2>1, <3>1, <3>2 DEF AnswersProbe
    <3> QED BY <1>5, <1>9, <1>12, <1>14, <3>3
  <2>4. CASE Cleared(client'[d])
    <3>1. client[d].state = "PROBING" /\ ~told(d)
      BY <1>12, <1>14, <2>4 DEF Cleared
    <3>2. client[d].linkState /\ client[d].addrState = "TENTATIVE"
      BY <2>2, <3>1 DEF Fits
    <3>3. client[d].addr # r.addr
      BY <1>11, <3>1, <3>2 DEF ProbesToo
    <3> QED BY <1>5, <1>9, <1>12, <1>14, <3>3
  <2> QED BY <1>14, <2>3, <2>4 DEF Claims
<1>15. ASSUME NEW d \in Hosts, NEW e \in Hosts, d # e, d # c, e # c,
              Claims(client'[d]), Claims(client'[e])
       PROVE  client'[d].addr # client'[e].addr
  <2>1. /\ Claims(client[d]) /\ client'[d].addr = client[d].addr
        /\ Claims(client[e]) /\ client'[e].addr = client[e].addr
    BY <1>12, <1>15 DEF Evolves
  <2> QED BY <1>15, <2>1 DEF HostsInv, ClaimsApart
<1>16. ClaimsApart'
  <2> SUFFICES ASSUME NEW d \in Hosts, NEW e \in Hosts, d # e,
                      Claims(client'[d]), Claims(client'[e])
               PROVE  client'[d].addr # client'[e].addr
    BY DEF ClaimsApart
  <2>1. CASE d = c
    BY <1>14, <2>1
  <2>2. CASE e = c
    BY <1>14, <2>2
  <2>3. CASE d # c /\ e # c
    BY <1>15, <2>3
  <2> QED BY <2>1, <2>2, <2>3
<1>17. OnlyRenewals'
  <2>1. \A d \in Hosts : client'[d].state = client[d].state /\ client'[d].addr = client[d].addr
    BY <1>5, <1>9, <1>12
  <2> QED BY <1>2, <2>1 DEF HostsInv, OnlyRenewals
<1>18. HostsInv'
  BY <1>2, <1>13, <1>16, <1>17 DEF HostsInv, NetOK
<1> QED BY <1>5, <1>9, <1>12, <1>18
\* A step of a client is a step of one host, an announcement or a probe.
LEMMA ClientStepCases ==
    ASSUME HostsInv, NEW c \in Hosts,
           Tick(c) \/ Start(c) \/ Interrupt(c)
    PROVE  (\E s : OneStep(c, s)) \/ StateAnnouncing(c) \/ Probe(c)
<1>1. CASE StateInit(c)
  BY <1>1, StateInitStep
<1>2. CASE StateSelecting(c) \/ StateRequesting(c) \/ StateRebooting(c) \/ Extend(c)
  BY <1>2, SendsStep
<1>3. CASE GiveUp(c)
  BY <1>3, GiveUpStep
<1>4. CASE ProbingComplete(c)
  BY <1>4, ProbingCompleteStep
<1>5. CASE Decline(c)
  BY <1>5, DeclineStep
<1>6. CASE StateBound(c)
  BY <1>6, StateBoundStep
<1>7. CASE T2(c)
  BY <1>7, T2Step
<1>8. CASE LeaseEnds(c)
  BY <1>8, LeaseEndsStep
<1>9. CASE Start(c) \/ Stop(c) \/ Release(c)
  BY <1>9, UserStep
<1>10. CASE LinkChange(c)
  BY <1>10, LinkChangeStep
<1> QED BY <1>1, <1>2, <1>3, <1>4, <1>5, <1>6, <1>7, <1>8, <1>9, <1>10
        DEF Tick, Interrupt

\* What a client sent is a message as the server knows it.
LEMMA FromClientMessage ==
    ASSUME NetOK(net), NEW m \in net, FromClient(m)
    PROVE  m \in Message /\ m.xid \in Xids
<1>1. m \in Datagrams /\ m.type \in {"DISCOVER", "REQUEST", "DECLINE", "RELEASE"}
  BY DEF NetOK, Carried, FromClient
<1> QED BY <1>1, XidNumbers DEF Datagrams, Message

\* The server answers a client that extends its lease about the address of it.
LEMMA ServerMessageHosts ==
    ASSUME HostsInv, Good(clientBinding, nextIpAddr), ServerMessage
    PROVE  HostsInv'
<1>1. PICK m \in net : ServerReceive(m)
  BY DEF ServerMessage
<1>2. client' = client
  BY DEF ServerMessage
<1>3. FromClient(m) /\ \E N \in Arrived(m) : net' \in Sent(N, Parse(m).replies)
  BY <1>1 DEF ServerReceive
<1>4. PICK N \in Arrived(m) : net' \in Sent(N, Parse(m).replies)
  BY <1>3
<1>5. N \subseteq net
  BY DEF Arrived
<1>6. NetOK(N)
  BY <1>5, LessNet DEF HostsInv
<1>7. m \in Message /\ m.xid \in Xids
  BY <1>3, FromClientMessage DEF HostsInv
<1>8. /\ IsFiniteSet(Parse(m).replies)
      /\ \A x \in Parse(m).replies : Answers(m, x)
  BY <1>7, RepliesAnswer
<1>9. Parse(m).replies \subseteq Carried
  BY <1>8 DEF Answers
<1>10. NetOK(net') /\ net' \subseteq N \cup Parse(m).replies
  BY <1>4, <1>6, <1>8, <1>9, SentNet
<1>11. ASSUME NEW d \in Hosts, client[d].state \in Extending, NEW x \in net', x.mac = d
       PROVE  Renews(x, client[d].addr)
  <2>1. CASE x \in net
    BY <1>11, <2>1 DEF HostsInv, OnlyRenewals
  <2>2. CASE x \in Parse(m).replies
    <3>1. Answers(m, x)
      BY <1>8, <2>2
    <3>2. m.mac = d
      BY <1>11, <3>1 DEF Answers
    <3>3. m.type = "REQUEST" /\ m.ciaddr = client[d].addr
      BY <1>3, <1>11, <3>2 DEF HostsInv, OnlyRenewals, Renews, FromClient
    <3>4. client[d].addr \in Pool /\ Unspecified \notin Pool
      BY <1>11, HostFits DEF Fits, Lease, Extending
    <3>5. Claimed(m) = client[d].addr
      BY <3>3, <3>4 DEF Claimed
    <3> QED BY <3>1, <3>3, <3>5 DEF Answers, Renews
  <2> QED BY <1>5, <1>10, <2>1, <2>2
<1>12. OnlyRenewals'
  BY <1>2, <1>11 DEF OnlyRenewals
<1> QED BY <1>2, <1>10, <1>12 DEF HostsInv, ClientsOK, ClaimsApart, NetOK

-----------------------------------------------------------------------------
(* The invariant.                                                           *)

\* The steps of the server are steps of ServerSpec.
LEMMA ServerSteps ==
    ASSUME HostsInv, Next
    PROVE  [ServerNext]_serverVars
<1>1. CASE (\E c \in Hosts : ClientStep(c)) \/ ClientMessage
  BY <1>1 DEF ClientStep, ClientMessage
<1>2. CASE ServerMessage
  <2>1. PICK m \in net : FromClient(m) /\ Receive(m)
    BY <1>2 DEF ServerMessage, ServerReceive
  <2>2. m \in Message
    BY <2>1, FromClientMessage DEF HostsInv
  <2> QED BY <2>1, <2>2 DEF ServerNext
<1>3. CASE Foreign
  <2>1. PICK f \in Macs \ Hosts : ForeignMessage(f)
    BY <1>3 DEF Foreign
  <2>2. PICK type \in {"DISCOVER", "REQUEST"}, ip \in Pool :
           Receive(Datagram(f, type, 1, ip, Unspecified))
    BY <2>1 DEF ForeignMessage
  <2>3. Datagram(f, type, 1, ip, Unspecified) \in Message
    BY DEF Datagram, Message
  <2> QED BY <2>2, <2>3 DEF ServerNext
<1>4. CASE LeaseExpires \/ ServerRestarts
  BY <1>4 DEF LeaseExpires, ServerRestarts, ServerNext
<1> QED BY <1>1, <1>2, <1>3, <1>4 DEF Next

\* Nothing has been sent and no host has an address.
LEMMA InitDInv == Init => DInv
<1> SUFFICES ASSUME Init PROVE DInv
  OBVIOUS
<1> DEFINE r == [state |-> "INIT", running |-> FALSE, linkState |-> TRUE,
                 transactionId |-> 1, retransmitCount |-> 0,
                 requestedIpAddr |-> Unspecified, addr |-> Unspecified,
                 addrState |-> "INVALID", conflict |-> FALSE]
<1>1. Good(clientBinding, nextIpAddr)
  BY InitIInv DEF Init, IInv
<1>2. net = {} /\ client = [c \in Hosts |-> r]
  BY DEF Init
<1>3. NetOK(net)
  BY <1>2, FS_EmptySet, XidNumbers DEF NetOK
<1>4. r \in Client /\ Fits(r) /\ ~Claims(r) /\ r.state \notin Extending
  BY XidNumbers
     DEF Client, States, Fits, Lease, Claims, Holds, Cleared, Extending
<1> HIDE DEF r
<1>5. client \in [Hosts -> Client] /\ \A c \in Hosts : client[c] = r
  BY <1>2, <1>4
<1> QED BY <1>1, <1>3, <1>4, <1>5 DEF DInv, ClientsOK, ClaimsApart, OnlyRenewals

\* Every step keeps the hosts' part of the invariant.
LEMMA NextHosts ==
    ASSUME DInv, Next
    PROVE  HostsInv'
<1>1. HostsInv
  BY DEF DInv, HostsInv
<1>2. CASE \E c \in Hosts : ClientStep(c)
  <2>1. PICK c \in Hosts : ClientStep(c)
    BY <1>2
  <2>2. (\E s : OneStep(c, s)) \/ StateAnnouncing(c) \/ Probe(c)
    BY <1>1, <2>1, ClientStepCases DEF ClientStep
  <2> QED BY <1>1, <2>2, OneStepKeeps, AnnouncingStep, ProbeStep
<1>3. CASE ClientMessage
  <2>1. PICK m \in net : ClientReceive(m)
    BY <1>3 DEF ClientMessage
  <2> QED BY <1>1, <2>1, ClientReceiveStep, OneStepKeeps
<1>4. CASE ServerMessage
  BY <1>1, <1>4, ServerMessageHosts DEF DInv
<1>5. CASE Foreign \/ LeaseExpires \/ ServerRestarts
  <2>1. client' = client /\ net' = net
    BY <1>5 DEF Foreign, LeaseExpires, ServerRestarts
  <2> QED BY <1>1, <2>1 DEF HostsInv, NetOK, ClientsOK, ClaimsApart, OnlyRenewals
<1> QED BY <1>2, <1>3, <1>4, <1>5 DEF Next

\* The invariant is inductive.
LEMMA NextDInv == DInv /\ [Next]_vars => DInv'
<1> SUFFICES ASSUME DInv, [Next]_vars PROVE DInv'
  OBVIOUS
<1>1. CASE Next
  <2>1. HostsInv'
    BY <1>1, NextHosts
  <2>2. [ServerNext]_serverVars
    BY <1>1, ServerSteps DEF DInv, HostsInv
  <2>3. Good(clientBinding, nextIpAddr)'
    BY <2>2, NextIInv DEF DInv, IInv
  <2> QED BY <2>1, <2>3 DEF DInv, HostsInv
<1>2. CASE UNCHANGED vars
  BY <1>2 DEF vars, DInv, Good, Apart, Entries, NetOK, ClientsOK, ClaimsApart,
              OnlyRenewals
<1> QED BY <1>1, <1>2

\* The invariant holds in every reachable state.
LEMMA DInvariant == Spec => []DInv
BY InitDInv, NextDInv, PTL DEF Spec

-----------------------------------------------------------------------------
(* The theorems.                                                            *)

\* Every variable keeps its type: an identifier that is in no datagram can always
\* be chosen, and what is in the network stays within its capacity.
THEOREM TypeCorrect == Spec => []TypeOK
<1>1. DInv => TypeOK
  BY DEF DInv, Good, NetOK, Carried, Datagrams, ClientsOK, TypeOK, ServerTypeOK
<1> QED BY <1>1, DInvariant, PTL

\* A client that runs has a valid address exactly while it holds a lease
\* (dhcp_client_fsm.c, dhcpClientParseAck, dhcpClientParseNak, dhcpClientLinkChangeEvent).
THEOREM LeaseMeansValid == Spec => []ValidOnlyWithLease
<1>1. DInv => ValidOnlyWithLease
  BY DEF DInv, ClientsOK, Fits, Lease, ValidOnlyWithLease
<1> QED BY <1>1, DInvariant, PTL

\* The server keeps its table apart among clients that retry, stop and come back,
\* over a network that loses and repeats.
THEOREM BindingsStayApart == Spec => []BindingsApart
<1>1. DInv => BindingsApart
  BY DEF DInv, Good, Apart, BindingsApart
<1> QED BY <1>1, DInvariant, PTL
-----------------------------------------------------------------------------
(* The addresses in use: Dhcp implements AddressUse.                        *)

\* The address a host of state r uses.
UsedOf(r) == IF Holds(r) THEN r.addr ELSE Unspecified

\* What the refinement mapping says of each host.
LEMMA UsedAt ==
    /\ Used = [c \in Hosts |-> UsedOf(client[c])]
    /\ Used' = [c \in Hosts |-> UsedOf(client'[c])]
BY DEF Used, UsedOf, Holds

\* A host that moves by itself takes an address nobody uses, leaves the one it had,
\* or uses what it used.
LEMMA OneMoves ==
    ASSUME ProbeNum > 0, HostsInv, NEW c \in Hosts, Evolves(client[c], client'[c]),
           \A d \in Hosts : d # c => /\ client'[d].addr = client[d].addr
                                     /\ client'[d].running = client[d].running
                                     /\ client'[d].addrState = client[d].addrState
    PROVE  [Uses!Next]_Used
<1> DEFINE r == client[c]
           s == client'[c]
<1>1. \A d \in Hosts : d # c => UsedOf(client'[d]) = UsedOf(client[d])
  BY DEF UsedOf, Holds
<1>2. Used' = [Used EXCEPT ![c] = UsedOf(s)]
  BY <1>1, UsedAt
<1>3. Used[c] = UsedOf(r) /\ Used'[c] = UsedOf(s)
  BY UsedAt
<1>4. r \in Client /\ Fits(r) /\ Unspecified \notin Pool
  BY HostFits
<1>5. CASE UsedOf(s) = UsedOf(r)
  <2>1. Used' = Used
    BY <1>2, <1>5, UsedAt
  <2> QED BY <2>1
<1>6. CASE UsedOf(s) # UsedOf(r) /\ ~Holds(s)
  <2>1. UsedOf(s) = Unspecified
    BY <1>6 DEF UsedOf
  <2>2. Uses!Leave(c)
    BY <1>2, <1>3, <1>6, <2>1 DEF Uses!Leave
  <2> QED BY <1>3, <1>6, <2>2 DEF Uses!Next
<1>7. CASE UsedOf(s) # UsedOf(r) /\ Holds(s)
  <2>1. Claims(r) /\ s.addr = r.addr
    BY <1>7 DEF Evolves, Claims
  <2>2. ~Holds(r)
    BY <1>7, <2>1 DEF UsedOf
  <2>3. UsedOf(r) = Unspecified /\ UsedOf(s) = r.addr
    BY <1>7, <2>1, <2>2 DEF UsedOf
  <2>4. r.addr \in Pool
    BY <1>4, <2>1, <2>2 DEF Claims, Cleared, Fits
  <2>5. ASSUME NEW d \in Hosts PROVE Used[d] # r.addr
    <3>1. CASE ~Holds(client[d])
      BY <1>4, <2>4, <3>1, UsedAt DEF UsedOf
    <3>2. CASE Holds(client[d])
      <4>1. d # c /\ Claims(client[d])
        BY <2>2, <3>2 DEF Claims
      <4>2. client[d].addr # r.addr
        BY <2>1, <4>1 DEF HostsInv, ClaimsApart
      <4> QED BY <3>2, <4>2, UsedAt DEF UsedOf
    <3> QED BY <3>1, <3>2
  <2>6. Uses!Take(c, r.addr)
    BY <1>2, <1>3, <2>3, <2>5 DEF Uses!Take
  <2> QED BY <1>3, <1>7, <2>4, <2>6 DEF Uses!Next
<1> QED BY <1>5, <1>6, <1>7

\* Nobody uses another address when no host changes.
LEMMA NobodyMoves ==
    ASSUME \A d \in Hosts : /\ client'[d].addr = client[d].addr
                            /\ client'[d].running = client[d].running
                            /\ client'[d].addrState = client[d].addrState
    PROVE  [Uses!Next]_Used
<1>1. \A d \in Hosts : UsedOf(client'[d]) = UsedOf(client[d])
  BY DEF UsedOf, Holds
<1>2. Used' = Used
  BY <1>1, UsedAt
<1> QED BY <1>2

\* At first nobody uses an address.
LEMMA InitUses == Init => Uses!Init
<1> SUFFICES ASSUME Init PROVE Uses!Init
  OBVIOUS
<1>1. \A c \in Hosts : ~Holds(client[c])
  BY DEF Init, Holds
<1>2. Used = [c \in Hosts |-> Unspecified]
  BY <1>1, UsedAt DEF UsedOf
<1> QED BY <1>2 DEF Uses!Init

\* Every step of the system is a step of the abstract specification, or no step.
LEMMA NextUses == ProbeNum > 0 /\ DInv /\ [Next]_vars => [Uses!Next]_Used
<1> SUFFICES ASSUME ProbeNum > 0, DInv, [Next]_vars PROVE [Uses!Next]_Used
  OBVIOUS
<1>1. HostsInv
  BY DEF DInv, HostsInv
<1>2. ASSUME NEW c \in Hosts, NEW s, OneStep(c, s) PROVE [Uses!Next]_Used
  <2>1. /\ Evolves(client[c], client'[c])
        /\ \A d \in Hosts : d # c => client'[d] = client[d]
    BY <1>1, <1>2, OneStepOthers DEF HostsInv
  <2> QED BY <1>1, <2>1, OneMoves
<1>3. CASE \E c \in Hosts : ClientStep(c)
  <2>1. PICK c \in Hosts : ClientStep(c)
    BY <1>3
  <2>2. (\E s : OneStep(c, s)) \/ StateAnnouncing(c) \/ Probe(c)
    BY <1>1, <2>1, ClientStepCases DEF ClientStep
  <2>3. CASE StateAnnouncing(c)
    BY <1>1, <2>3, AnnouncingStep, OneMoves
  <2>4. CASE Probe(c)
    BY <1>1, <2>4, ProbeStep, NobodyMoves
  <2> QED BY <1>2, <2>2, <2>3, <2>4
<1>4. CASE ClientMessage
  <2>1. PICK m \in net : ClientReceive(m)
    BY <1>4 DEF ClientMessage
  <2> QED BY <1>1, <1>2, <2>1, ClientReceiveStep
<1>5. CASE client' = client
  BY <1>5, NobodyMoves
<1>6. CASE ServerMessage \/ Foreign \/ LeaseExpires \/ ServerRestarts \/ UNCHANGED vars
  BY <1>5, <1>6 DEF ServerMessage, Foreign, LeaseExpires, ServerRestarts, vars
<1> QED BY <1>3, <1>4, <1>6 DEF Next

\* Hosts that probe before they use an address use each address one at a time, and
\* an address passes from one to another only through a time when nobody uses it:
\* the clients, the server and the network implement AddressUse, for every number
\* of hosts, probes, retries and addresses, whatever is lost or repeated, although
\* the server forgets its bindings and ends a lease before the client does.
THEOREM AddressesAreUsedByOne ==
    ASSUME ProbeNum > 0
    PROVE  Spec => ImplementsAddressUse
<1>1. DInv /\ [Next]_vars => [Uses!Next]_Used
  BY NextUses
<1> QED BY <1>1, InitUses, DInvariant, PTL DEF Spec, ImplementsAddressUse, Uses!Spec

-----------------------------------------------------------------------------
(* A committed lease.                                                       *)

\* An entry is still in the table.
Stays(x, b) == \E j \in Entries(b) : b[j] = x

\* Removing another entry, and adding one, leave an entry in the table.
LEMMA ExceptStays ==
    ASSUME NEW b \in Seq(Binding), NEW i \in Entries(b), NEW k \in Entries(b), i # k
    PROVE  Stays(b[k], Except(b, i))
<1> DEFINE e == Except(b, i)
           at == IF k < i THEN k ELSE k - 1
<1>1. Len(b) \in Nat /\ i \in 1 .. Len(b) /\ k \in 1 .. Len(b) /\ Len(e) = Len(b) - 1
  BY ExceptEntries DEF Entries
<1>2. at \in 1 .. Len(b) - 1
  BY <1>1
<1>3. e[at] = IF at < i THEN b[at] ELSE b[at + 1]
  BY <1>2, ExceptEntries
<1>4. e[at] = b[k]
  BY <1>1, <1>3
<1> HIDE DEF e, at
<1> QED BY <1>1, <1>2, <1>4 DEF Stays, Entries, e

\* Adding an entry leaves the others in the table.
LEMMA AppendStays ==
    ASSUME NEW b \in Seq(Binding), NEW x, NEW y \in Binding, Stays(x, b)
    PROVE  Stays(x, Append(b, y))
<1>1. PICK j \in 1 .. Len(b) : b[j] = x
  BY DEF Stays, Entries
<1>2. /\ Len(b) \in Nat /\ Len(Append(b, y)) = Len(b) + 1
      /\ Append(b, y)[j] = b[j]
  BY <1>1
<1> QED BY <1>1, <1>2 DEF Stays, Entries

\* A full table makes room at the cost of an entry without a lease.
LEMMA RoomStays ==
    ASSUME NEW b \in Seq(Binding), HasRoom(b), NEW k \in Entries(b), b[k].validLease
    PROVE  Stays(b[k], MakeRoom(b))
<1>1. CASE Len(b) < MaxClients
  BY <1>1 DEF MakeRoom, Stays
<1>2. CASE ~(Len(b) < MaxClients)
  <2>1. The(Evictable(b)) \in Evictable(b)
    BY <1>2, TheMember DEF HasRoom
  <2>2. The(Evictable(b)) \in Entries(b) /\ The(Evictable(b)) # k
    BY <2>1 DEF Evictable
  <2> QED BY <1>2, <2>2, ExceptStays DEF MakeRoom
<1> QED BY <1>1, <1>2

\* A message of one client leaves the committed binding of another alone.
LEMMA ParseStays ==
    ASSUME NEW m \in Message, Good(clientBinding, nextIpAddr),
           NEW k \in Entries(clientBinding), clientBinding[k].validLease,
           clientBinding[k].macAddr # m.mac
    PROVE  Stays(clientBinding[k], Parse(m).bindings)
<1> DEFINE b == clientBinding
           own == The(FindBindingByMacAddr(b, m.mac))
<1>1. b \in Seq(Binding) /\ b[k] \in Binding
  BY DEF Good, Entries
<1>2. Stays(b[k], b)
  BY DEF Stays
<1>3. FindBindingByMacAddr(b, m.mac) # {} => own \in Entries(b) /\ own # k
  BY TheMember DEF FindBindingByMacAddr
<1>4. FindBindingByMacAddr(b, m.mac) # {} =>
         Except(b, own) \in Seq(Binding) /\ Stays(b[k], Except(b, own))
  BY <1>1, <1>3, ExceptEntries, ExceptStays
<1>5. HasRoom(b) => MakeRoom(b) \in Seq(Binding) /\ Stays(b[k], MakeRoom(b))
  BY <1>1, RoomMade, RoomStays DEF Good
<1>6. CASE m.type = "DISCOVER"
  <2>1. Parse(m) = ParseDiscover(m)
    BY <1>6 DEF Parse
  <2>2. CASE FindBindingByMacAddr(b, m.mac) # {}
    <3> DEFINE moved == [b[own] EXCEPT !.ipAddr = m.ip]
    <3>1. ParseDiscover(m) = DiscoverAgain(m)
      BY <2>2 DEF ParseDiscover
    <3>2. CASE Available(b, m.ip)
      <4>1. Parse(m).bindings = Append(Except(b, own), moved)
        BY <2>1, <3>1, <3>2 DEF DiscoverAgain, Outcome
      <4>2. b[own] \in Binding
        BY <1>1, <1>3, <2>2 DEF Entries
      <4>3. moved \in Binding
        BY <3>2, <4>2, AvailableFree DEF Binding
      <4>4. Except(b, own) \in Seq(Binding) /\ Stays(b[k], Except(b, own))
        BY <1>4, <2>2
      <4> HIDE DEF moved, own
      <4> QED BY <4>1, <4>3, <4>4, AppendStays
    <3>3. CASE ~Available(b, m.ip)
      BY <1>2, <2>1, <3>1, <3>3 DEF DiscoverAgain, Outcome
    <3> QED BY <3>2, <3>3
  <2>3. CASE FindBindingByMacAddr(b, m.mac) = {}
    <3> DEFINE r == MakeRoom(b)
               found == After(nextIpAddr, FirstTried(r))
               ip == IF Available(r, m.ip) THEN m.ip ELSE found
    <3>1. ParseDiscover(m) = DiscoverFirst(m)
      BY <2>3 DEF ParseDiscover
    <3>2. CASE ~HasRoom(b)
      BY <1>2, <2>1, <3>1, <3>2 DEF DiscoverFirst, Outcome
    <3>3. CASE HasRoom(b) /\ ~Available(r, m.ip) /\ Tried(r) = {}
      BY <1>5, <2>1, <3>1, <3>3 DEF DiscoverFirst, Outcome
    <3>4. CASE HasRoom(b) /\ (Available(r, m.ip) \/ Tried(r) # {})
      <4>1. Parse(m).bindings = Append(r, New(m, ip, FALSE))
        <5>1. DiscoverFirst(m).bindings = Append(r, New(m, ip, FALSE))
          BY <3>4 DEF DiscoverFirst, Outcome
        <5> QED BY <2>1, <3>1, <5>1
      <4>2. Available(r, m.ip) => m.ip \in Pool
        BY AvailableFree
      <4>3. ~Available(r, m.ip) => found \in Pool
        BY <1>5, <3>4, FoundAddress DEF Good
      <4>4. ip \in Pool
        BY <4>2, <4>3
      <4> HIDE DEF ip
      <4>5. New(m, ip, FALSE) \in Binding
        BY <4>4 DEF New, Binding, Message
      <4> HIDE DEF r
      <4> QED BY <1>5, <3>4, <4>1, <4>5, AppendStays DEF r
    <3> QED BY <3>2, <3>3, <3>4
  <2> QED BY <2>2, <2>3
<1>7. CASE m.type = "REQUEST"
  <2> DEFINE mine == FindBindingByMacAddr(b, m.mac)
  <2>1. Parse(m) = ParseRequest(m)
    BY <1>7 DEF Parse
  <2>2. ASSUME NEW t \in Seq(Binding), Stays(b[k], t), Claimed(m) \in Pool
        PROVE  Stays(b[k], Commit(m, t).bindings)
    <3>1. New(m, Claimed(m), TRUE) \in Binding
      BY <2>2 DEF New, Binding, Message
    <3>2. Commit(m, t).bindings = Append(t, New(m, Claimed(m), TRUE))
      BY DEF Commit, Outcome
    <3> QED BY <2>2, <3>1, <3>2, AppendStays
  <2>3. CASE mine # {} /\ b[own].ipAddr = Claimed(m)
    <3>1. Parse(m) = Commit(m, Except(b, own))
      BY <2>1, <2>3 DEF ParseRequest
    <3>2. b[own] \in Binding
      BY <1>1, <1>3, <2>3 DEF Entries
    <3>3. Claimed(m) \in Pool
      BY <2>3, <3>2 DEF Binding
    <3> QED BY <1>4, <2>2, <2>3, <3>1, <3>3
  <2>4. CASE mine = {} /\ Available(b, Claimed(m)) /\ HasRoom(b)
    <3>1. Parse(m) = Commit(m, MakeRoom(b))
      BY <2>1, <2>4 DEF ParseRequest
    <3>2. Claimed(m) \in Pool
      BY <2>4, AvailableFree
    <3> QED BY <1>5, <2>2, <2>4, <3>1, <3>2
  <2>5. CASE /\ ~(mine # {} /\ b[own].ipAddr = Claimed(m))
             /\ ~(mine = {} /\ Available(b, Claimed(m)) /\ HasRoom(b))
    BY <1>2, <2>1, <2>5 DEF ParseRequest, Nak, Outcome
  <2> QED BY <2>3, <2>4, <2>5
<1>8. CASE m.type = "DECLINE"
  <2>1. Parse(m).bindings = IF Named(m, m.ip) = {} THEN b
                            ELSE Except(b, The(Named(m, m.ip)))
    BY <1>8 DEF Parse, ParseDecline, Outcome
  <2>2. CASE Named(m, m.ip) = {}
    BY <1>2, <2>1, <2>2
  <2>3. CASE Named(m, m.ip) # {}
    <3>1. The(Named(m, m.ip)) \in Entries(b) /\ The(Named(m, m.ip)) # k
      BY <2>3, TheMember DEF Named, FindBindingByMacAddr
    <3> QED BY <1>1, <2>1, <2>3, <3>1, ExceptStays
  <2> QED BY <2>2, <2>3
<1>9. CASE m.type = "RELEASE"
  <2> DEFINE a == [j \in Entries(b) |->
                     IF j \in Named(m, m.ciaddr)
                       THEN [b[j] EXCEPT !.validLease = FALSE] ELSE b[j]]
  <2>1. Parse(m).bindings = a
    BY <1>9 DEF Parse, ParseRelease, Outcome
  <2>2. a[k] = b[k]
    BY DEF Named, FindBindingByMacAddr
  <2>3. Entries(a) = Entries(b)
    <3>1. \A j \in Entries(b) : b[j] \in Binding
      BY <1>1 DEF Entries
    <3>2. \A j \in Entries(b) : a[j] \in Binding
      BY <3>1 DEF Binding
    <3>3. a \in [Entries(b) -> Binding]
      BY <3>2
    <3>4. Len(b) \in Nat /\ Entries(b) = 1 .. Len(b)
      BY <1>1 DEF Entries
    <3> HIDE DEF a
    <3>5. Len(a) = Len(b)
      BY <3>3, <3>4, SeqDef
    <3> QED BY <3>4, <3>5 DEF Entries
  <2> QED BY <2>1, <2>2, <2>3 DEF Stays
<1> QED BY <1>6, <1>7, <1>8, <1>9 DEF Message

\* The binding of a committed lease stays unless a message of its client arrives, a
\* lease ends or the server restarts (dhcpServerCreateBinding evicts no committed
\* entry, dhcpServerParseRequest and dhcpServerParseRelease look for the sender's).
THEOREM CommittedLeasesAreKept == Spec => CommittedIsItsClients
<1> DEFINE Kept == \A k \in Entries(clientBinding) :
                      LET b == clientBinding[k] IN
                      b.validLease =>
                        \/ \E j \in Entries(clientBinding') : clientBinding'[j] = b
                        \/ LeaseExpires
                        \/ Restart
                        \/ \E m \in net : FromClient(m) /\ m.mac = b.macAddr /\ Receive(m)
                        \/ b.macAddr \notin Hosts /\ ForeignMessage(b.macAddr)
<1>1. ASSUME DInv, Next PROVE Kept
  <2>1. CASE (\E c \in Hosts : ClientStep(c)) \/ ClientMessage
    BY <2>1 DEF ClientStep, ClientMessage, serverVars
  <2>2. CASE ServerMessage
    <3>1. PICK m \in net : FromClient(m) /\ Receive(m)
      BY <2>2 DEF ServerMessage, ServerReceive
    <3>2. m \in Message
      BY <1>1, <3>1, FromClientMessage DEF DInv
    <3>3. ASSUME NEW k \in Entries(clientBinding), clientBinding[k].validLease,
                 m.mac # clientBinding[k].macAddr
          PROVE  \E j \in Entries(clientBinding') : clientBinding'[j] = clientBinding[k]
      <4>1. Stays(clientBinding[k], Parse(m).bindings)
        BY <1>1, <3>2, <3>3, ParseStays DEF DInv
      <4> QED BY <3>1, <4>1 DEF Stays, Receive
    <3> QED BY <3>1, <3>3
  <2>3. CASE Foreign
    <3>1. PICK f \in Macs \ Hosts : ForeignMessage(f)
      BY <2>3 DEF Foreign
    <3>2. PICK type \in {"DISCOVER", "REQUEST"}, ip \in Pool :
             Receive(Datagram(f, type, 1, ip, Unspecified))
      BY <3>1 DEF ForeignMessage
    <3> DEFINE m == Datagram(f, type, 1, ip, Unspecified)
    <3>3. m \in Message /\ m.mac = f
      BY DEF Datagram, Message
    <3>4. Receive(m)
      BY <3>2
    <3> HIDE DEF m
    <3>5. ASSUME NEW k \in Entries(clientBinding), clientBinding[k].validLease,
                 f # clientBinding[k].macAddr
          PROVE  \E j \in Entries(clientBinding') : clientBinding'[j] = clientBinding[k]
      <4>1. Stays(clientBinding[k], Parse(m).bindings)
        BY <1>1, <3>3, <3>5, ParseStays DEF DInv
      <4> QED BY <3>4, <4>1 DEF Stays, Receive
    <3> QED BY <3>1, <3>5
  <2>4. CASE LeaseExpires
    BY <2>4
  <2>5. CASE ServerRestarts
    BY <2>5 DEF ServerRestarts
  <2> QED BY <1>1, <2>1, <2>2, <2>3, <2>4, <2>5 DEF Next
<1>2. DInv /\ [Next]_vars => [Kept]_vars
  BY <1>1
<1> QED BY <1>2, DInvariant, PTL DEF Spec, CommittedIsItsClients

-----------------------------------------------------------------------------
(* Addresses are probed before they are used.                               *)

\* A host that has a valid address after a step had it before, or has probed for it.
Probed(r, s) ==
    s.addrState = "VALID" =>
        r.state = "PROBING" \/ (r.addrState = "VALID" /\ s.addr = r.addr)

\* What the steps of a host do to its address.
LEMMA HostProbed ==
    ASSUME HostsInv, NEW c \in Hosts, Tick(c) \/ Start(c) \/ Interrupt(c)
    PROVE  \A d \in Hosts : Probed(client[d], client'[d])
<1> DEFINE r == client[c]
<1>1. r \in Client /\ client \in [Hosts -> Client] /\ \A d \in Hosts : client[d] \in Client
  BY DEF HostsInv, ClientsOK
<1>2. ASSUME NEW s, client' = [client EXCEPT ![c] = s],
             s.addrState = "VALID" => r.state = "PROBING" \/ (r.addrState = "VALID" /\ s.addr = r.addr)
      PROVE  \A d \in Hosts : Probed(client[d], client'[d])
  BY <1>1, <1>2 DEF Probed
<1>3. ASSUME NEW q \in Client, NEW t \in States
      PROVE  /\ ChangeState(q, t).addr = q.addr
             /\ ChangeState(q, t).addrState = q.addrState
  BY <1>3 DEF ChangeState, Client
<1>4. ASSUME NEW q \in Client, NEW t \in States
      PROVE  ChangeState(ResetConfig(q), t).addrState # "VALID"
  BY <1>4 DEF ChangeState, ResetConfig, Client
<1>5. ASSUME NEW type, NEW xid, NEW ip, NEW ciaddr, SendOf(c, xid, type, ip, ciaddr)
      PROVE  \A d \in Hosts : Probed(client[d], client'[d])
  <2> DEFINE s == Counted([r EXCEPT !.transactionId = xid])
  <2>1. client' = [client EXCEPT ![c] = s]
    BY <1>5 DEF SendOf
  <2>2. s.addr = r.addr /\ s.addrState = r.addrState
    BY <1>1 DEF Counted, Client
  <2> HIDE DEF s
  <2> QED BY <1>2, <2>1, <2>2
<1>6. CASE StateInit(c)
  BY <1>1, <1>2, <1>3, <1>6 DEF StateInit, Become, States
<1>7. CASE StateSelecting(c) \/ StateRequesting(c) \/ StateRebooting(c) \/ Extend(c)
  BY <1>5, <1>7 DEF StateSelecting, StateRequesting, StateRebooting, Extend
<1>8. CASE GiveUp(c) \/ T2(c)
  BY <1>1, <1>2, <1>3, <1>8 DEF GiveUp, T2, Become, States
<1>9. CASE ProbingComplete(c)
  <2> DEFINE s == ChangeState([r EXCEPT !.addrState = "VALID"], "ANNOUNCING")
  <2>1. client' = [client EXCEPT ![c] = s] /\ r.state = "PROBING"
    BY <1>9 DEF ProbingComplete, Become
  <2>2. s.addrState = "VALID" => r.state = "PROBING" \/ (r.addrState = "VALID" /\ s.addr = r.addr)
    BY <2>1
  <2> HIDE DEF s
  <2> QED BY <1>2, <2>1, <2>2
<1>10. CASE Decline(c)
  <2> DEFINE s == ChangeState([r EXCEPT !.transactionId = NewXid(c)], "INIT")
  <2>1. client' = [client EXCEPT ![c] = s] /\ r.state = "PROBING"
    BY <1>10 DEF Decline
  <2>2. s.addrState = "VALID" => r.state = "PROBING" \/ (r.addrState = "VALID" /\ s.addr = r.addr)
    BY <2>1
  <2> HIDE DEF s
  <2> QED BY <1>2, <2>1, <2>2
<1>11. CASE StateBound(c)
  BY <1>1, <1>2, <1>3, <1>11 DEF StateBound, States
<1>12. CASE LeaseEnds(c)
  BY <1>1, <1>2, <1>4, <1>12 DEF LeaseEnds, Become, States
<1>13. CASE Probe(c)
  <2>1. r.state = "PROBING" /\ client' = AfterProbe(c)
    BY <1>13 DEF Probe
  <2>2. ASSUME NEW d \in Hosts, d # c
        PROVE  client'[d].addr = client[d].addr /\ client'[d].addrState = client[d].addrState
    <3>1. client'[d] = [client[d] EXCEPT !.conflict = @ \/ ProbesToo(d, client[c].addr)]
      BY <2>1, <2>2 DEF AfterProbe
    <3> QED BY <1>1, <3>1 DEF Client
  <2> QED BY <2>1, <2>2 DEF Probed
<1>14. CASE StateAnnouncing(c)
  <2> DEFINE s == ChangeState(r, "BOUND")
  <2>1. \A d \in Hosts : client'[d] = IF d = c THEN s ELSE
           [client[d] EXCEPT !.conflict = @ \/ ProbesToo(d, client[c].addr)
                                            \/ AnswersProbe(d, client[c].addr)]
    BY <1>14 DEF StateAnnouncing
  <2>2. s.addr = r.addr /\ s.addrState = r.addrState
    BY <1>1, <1>3 DEF States
  <2> HIDE DEF s
  <2>3. ASSUME NEW d \in Hosts
        PROVE  client'[d].addr = client[d].addr /\ client'[d].addrState = client[d].addrState
    BY <1>1, <2>1, <2>2, <2>3 DEF Client
  <2> QED BY <2>3 DEF Probed
<1>15. CASE Start(c)
  <2> DEFINE s == [ResetConfig(r) EXCEPT !.running = TRUE, !.state = "INIT"]
  <2>1. client' = [client EXCEPT ![c] = s]
    BY <1>15 DEF Start, Become
  <2>2. s.addrState # "VALID"
    BY <1>1 DEF ResetConfig, Client
  <2> HIDE DEF s
  <2> QED BY <1>2, <2>1, <2>2
<1>16. CASE Stop(c)
  <2> DEFINE s == [r EXCEPT !.running = FALSE, !.state = "INIT"]
  <2>1. client' = [client EXCEPT ![c] = s]
    BY <1>16 DEF Stop, Become
  <2>2. s.addr = r.addr /\ s.addrState = r.addrState
    BY <1>1 DEF Client
  <2> HIDE DEF s
  <2> QED BY <1>2, <2>1, <2>2
<1>17. CASE Release(c)
  <2> DEFINE s == [ResetConfig(r) EXCEPT !.running = FALSE, !.state = "INIT",
                                         !.transactionId = NewXid(c)]
  <2>1. client' = [client EXCEPT ![c] = s]
    BY <1>17 DEF Release
  <2>2. s.addrState # "VALID"
    BY <1>1 DEF ResetConfig, Client
  <2> HIDE DEF s
  <2> QED BY <1>2, <2>1, <2>2
<1>18. CASE LinkChange(c)
  <2> DEFINE q == IF r.running THEN ResetConfig(r) ELSE r
             s == [q EXCEPT !.linkState = ~@,
                            !.state = IF @ \in HadLease THEN "INIT_REBOOT" ELSE "INIT"]
  <2>1. client' = [client EXCEPT ![c] = s]
    BY <1>18 DEF LinkChange, Become
  <2>2. s.addr = q.addr /\ s.addrState = q.addrState
    BY <1>1 DEF ResetConfig, Client
  <2>3. q = r \/ q.addrState # "VALID"
    BY <1>1 DEF ResetConfig, Client
  <2> HIDE DEF s, q
  <2> QED BY <1>2, <2>1, <2>2, <2>3
<1> QED BY <1>6, <1>7, <1>8, <1>9, <1>10, <1>11, <1>12, <1>13, <1>14, <1>15, <1>16,
           <1>17, <1>18 DEF Tick, Interrupt

\* What an answer of the server does to the address of a host: one that extends a
\* lease is about the address of that lease (OnlyRenewals).
LEMMA AnswerProbed ==
    ASSUME HostsInv, NEW m \in net, ClientReceive(m)
    PROVE  \A d \in Hosts : Probed(client[d], client'[d])
<1> DEFINE c == m.mac
           r == client[c]
           s == CASE m.type = "OFFER" -> ParseOffer(r, m)
                  [] m.type = "ACK" -> ParseAck(r, m)
                  [] m.type = "NAK" -> ParseNak(r)
<1>1. c \in Hosts /\ m.type \in {"OFFER", "ACK", "NAK"} /\ r.running
  BY DEF ClientReceive
<1>2. client' = [client EXCEPT ![c] = s]
  BY DEF ClientReceive
<1>3. /\ client \in [Hosts -> Client] /\ r \in Client /\ Fits(r)
  BY <1>1, HostFits DEF HostsInv, ClientsOK
<1>4. r.state \in Extending => Renews(m, r.addr)
  BY <1>1 DEF HostsInv, OnlyRenewals
<1>5. s.addrState = "VALID" => r.addrState = "VALID" /\ s.addr = r.addr
  <2>1. CASE m.type = "OFFER"
    <3>1. s = r \/ s = ChangeState([r EXCEPT !.requestedIpAddr = m.ip], "REQUESTING")
      BY <2>1 DEF ParseOffer
    <3> HIDE DEF s
    <3> QED BY <1>3, <3>1 DEF ChangeState, Client
  <2>2. CASE m.type = "ACK" /\ r.state \in {"REQUESTING", "REBOOTING"}
    <3>1. s = ChangeState([r EXCEPT !.requestedIpAddr = m.ip, !.addr = m.ip,
                                    !.addrState = "TENTATIVE", !.conflict = FALSE],
                          "PROBING")
      BY <2>2 DEF ParseAck
    <3> HIDE DEF s
    <3> QED BY <1>3, <3>1 DEF ChangeState, Client
  <2>3. CASE m.type = "ACK" /\ r.state \in Extending
    <3>1. s = ChangeState([r EXCEPT !.requestedIpAddr = m.ip, !.addr = m.ip,
                                    !.addrState = "VALID"], "BOUND")
      BY <2>3 DEF ParseAck, Extending
    <3>2. m.ip = r.addr
      BY <1>4, <2>3 DEF Renews
    <3>3. r.addrState = "VALID"
      BY <1>1, <1>3, <2>3 DEF Fits, Lease, Extending
    <3> HIDE DEF s
    <3>4. s.addr = m.ip
      BY <1>3, <3>1 DEF ChangeState, Client
    <3> QED BY <3>2, <3>3, <3>4
  <2>4. CASE m.type = "ACK" /\ r.state \notin {"REQUESTING", "REBOOTING"} \cup Extending
    BY <2>4 DEF ParseAck, Extending
  <2>5. CASE m.type = "NAK"
    <3>1. s = r \/ s = ChangeState(ResetConfig(r), "INIT")
      BY <2>5 DEF ParseNak
    <3> HIDE DEF s
    <3> QED BY <1>3, <3>1 DEF ChangeState, ResetConfig, Client
  <2> QED BY <1>1, <2>1, <2>2, <2>3, <2>4, <2>5
<1> HIDE DEF s
<1> QED BY <1>1, <1>2, <1>3, <1>5 DEF Probed

\* A valid address is not replaced by another one without probes (dhcpClientParseAck),
\* as long as no datagram outlives T1.
THEOREM NewAddressesAreProbed == Spec => NewAddressIsProbed
<1> DEFINE Through == \A c \in Hosts :
                        client'[c].addrState = "VALID" =>
                           \/ client[c].state = "PROBING"
                           \/ client[c].addrState = "VALID" /\ client'[c].addr = client[c].addr
<1>1. ASSUME DInv, Next PROVE Through
  <2>1. HostsInv
    BY <1>1 DEF DInv, HostsInv
  <2>2. CASE \E c \in Hosts : ClientStep(c)
    BY <2>1, <2>2, HostProbed DEF ClientStep, Probed
  <2>3. CASE ClientMessage
    BY <2>1, <2>3, AnswerProbed DEF ClientMessage, Probed
  <2>4. CASE ServerMessage \/ Foreign \/ LeaseExpires \/ ServerRestarts
    BY <2>4 DEF ServerMessage, Foreign, LeaseExpires, ServerRestarts
  <2> QED BY <1>1, <2>2, <2>3, <2>4 DEF Next
<1>2. DInv /\ [Next]_vars => [Through]_vars
  BY <1>1
<1> QED BY <1>2, DInvariant, PTL DEF Spec, NewAddressIsProbed
=============================================================================
