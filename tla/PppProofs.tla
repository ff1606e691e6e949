------------------------------ MODULE PppProofs ------------------------------
(***************************************************************************)
(* What holds of a PPP link for all settings of its ends, all counters and *)
(* limits, and every loss, timeout and call: IPCP is at work only on an    *)
(* open and authenticated link, the interface is up exactly as long as     *)
(* IPCP is open, and everything keeps to its range.                        *)
(*                                                                         *)
(* The argument: the tables of ppp_fsm.c signal the layer above exactly    *)
(* when they enter and leave Opened (Sound); from this each handler keeps  *)
(* the phase, the automata of LCP, IPCP and PAP and the state of the       *)
(* interface in step (Layers, Follows), whatever packets come; and a       *)
(* packet of PAP tells whether its sender knows the password (PacketsOf).  *)
(***************************************************************************)
EXTENDS Ppp, SequenceTheorems, TLAPS

Codes == {"ConfigureReq", "ConfigureAck", "ConfigureNak", "ConfigureRej",
          "TerminateReq", "TerminateAck", "AuthReq", "AuthAck", "AuthNak"}

Id == 0 .. IdModulus - 1

OptionSet == [auth : BOOLEAN, ip : Addresses, dns : BOOLEAN]

Packets == [protocol : {"lcp", "ipcp", "pap"}, code : Codes, id : Id,
            options : OptionSet]

\* The packets of an end that knows the password (pw) or does not.
PacketsOf(pw) ==
    {q \in Packets : q.protocol = "pap" /\ q.code = "AuthReq" => q.options.auth = pw}

PapFsm == [state : {"Initial", "ReqSent", "AckRcvd", "NakRcvd"}, id : Id,
           count : 0 .. MaxRequests]

Context ==
    [phase : {"Dead", "Establish", "Authenticate", "Network", "Terminate"},
     lcp : Fsm, ipcp : Fsm, pap : PapFsm,
     localAuthDone : BOOLEAN, peerAuthDone : BOOLEAN, peerAuth : BOOLEAN,
     localIp : Addresses, peerIp : Addresses, dnsRejected : BOOLEAN,
     addr : Addresses, gateway : Addresses, linkUp : BOOLEAN,
     authenticates : BOOLEAN, allowsPap : BOOLEAN, password : BOOLEAN,
     out : Seq(Packets)]

-----------------------------------------------------------------------------
(* The tables of the automaton.                                            *)

Layer == {"tlu", "tld", "tlf"}
Shared == {"ircConf", "ircTerm", "zrc", "scr", "str", "sca", "scn", "scj",
            "ack", "sta"}

\* A step calls the layer above last, and at most once.
WellFormed(step) ==
    /\ step.to \in States
    /\ Len(step.does) \in 0 .. 3
    /\ \A n \in 1 .. Len(step.does) :
          \/ step.does[n] \in Shared
          \/ n = Len(step.does) /\ step.does[n] \in Layer

Calls(step, does) == Len(step.does) > 0 /\ step.does[Len(step.does)] = does

\* What the layers rely on: This-Layer-Up is called exactly when Opened is
\* entered, This-Layer-Down exactly when it is left, This-Layer-Finished on the
\* way to a state of rest, and an automaton at rest answers nothing.
Sound(s, step) ==
    /\ WellFormed(step)
    /\ Calls(step, "tlu") <=> s # "Opened" /\ step.to = "Opened"
    /\ Calls(step, "tld") <=> s = "Opened" /\ step.to # "Opened"
    /\ Calls(step, "tlf") => s # "Opened" /\ step.to \in {"Closed", "Stopped"}
    /\ s = "Initial" => step.to = "Initial" /\ Len(step.does) = 0
    /\ s # "Initial" => step.to # "Initial"
    /\ step.to # "Starting"

LEMMA CloseSound ==
    ASSUME NEW s \in States, s # "Starting"
    PROVE  Sound(s, CloseEvent(s))
BY DEF States, Negotiating, CloseEvent, Sound, WellFormed, Calls, Layer, Shared, Step, To

LEMMA TimeoutSound ==
    ASSUME NEW s \in States, s # "Starting", NEW count \in Nat
    PROVE  Sound(s, TimeoutEvent(s, count))
BY DEF States, Timed, TimeoutEvent, Sound, WellFormed, Calls, Layer, Shared, Step, To

LEMMA AcceptableSound ==
    ASSUME NEW s \in States, s # "Starting"
    PROVE  Sound(s, RcvConfigureReqAcceptable(s))
BY DEF States, RcvConfigureReqAcceptable, Sound, WellFormed, Calls, Layer, Shared, Step, To

LEMMA RefusedSound ==
    ASSUME NEW s \in States, s # "Starting", NEW no \in {"scn", "scj"}
    PROVE  Sound(s, RcvConfigureReqRefused(s, no))
BY DEF States, RcvConfigureReqRefused, Sound, WellFormed, Calls, Layer, Shared, Step, To

LEMMA AckSound ==
    ASSUME NEW s \in States, s # "Starting"
    PROVE  Sound(s, RcvConfigureAckEvent(s))
BY DEF States, RcvConfigureAckEvent, Sound, WellFormed, Calls, Layer, Shared, Step, To

LEMMA NakSound ==
    ASSUME NEW s \in States, s # "Starting"
    PROVE  Sound(s, RcvConfigureNakEvent(s))
BY DEF States, RcvConfigureNakEvent, Sound, WellFormed, Calls, Layer, Shared, Step, To

LEMMA TerminateReqSound ==
    ASSUME NEW s \in States, s # "Starting"
    PROVE  Sound(s, RcvTerminateReqEvent(s))
BY DEF States, Negotiating, RcvTerminateReqEvent, Sound, WellFormed, Calls, Layer, Shared, Step, To

LEMMA TerminateAckSound ==
    ASSUME NEW s \in States, s # "Starting"
    PROVE  Sound(s, RcvTerminateAckEvent(s))
BY DEF States, RcvTerminateAckEvent, Sound, WellFormed, Calls, Layer, Shared, Step, To

LEMMA CatastrophicSound ==
    ASSUME NEW s \in States, s # "Starting"
    PROVE  Sound(s, RcvCodeRejCatastrophic(s))
BY DEF States, Timed, RcvCodeRejCatastrophic, Sound, WellFormed, Calls, Layer, Shared, Step, To

-----------------------------------------------------------------------------
(* What a callback that is not for the layer above does to a context.      *)

Readable(m) == m.id \in Id /\ m.options \in OptionSet

\* A context that sends what its end may send.
Honest(c) == c \in Context /\ c.out \in Seq(PacketsOf(c.password))

\* The numbers, the output and the configuration may differ.
Alike(c, d) ==
    /\ Honest(d)
    /\ d.phase = c.phase /\ d.linkUp = c.linkUp
    /\ d.lcp.state = c.lcp.state /\ d.ipcp.state = c.ipcp.state
    /\ d.pap.state = c.pap.state
    /\ d.localAuthDone = c.localAuthDone /\ d.peerAuthDone = c.peerAuthDone
    /\ d.authenticates = c.authenticates /\ d.allowsPap = c.allowsPap
    /\ d.password = c.password

LEMMA Numbers ==
    /\ IdModulus \in Nat /\ IdModulus > 0 /\ MaxRequests \in Nat
    /\ MaxConfigure \in Nat /\ MaxTerminate \in Nat /\ 0 \in Id
    /\ Unspecified \in Addresses /\ NoOptions \in OptionSet
<1>1. Unspecified \in Addresses BY DEF Addresses
<1>2. NoOptions \in OptionSet BY <1>1 DEF NoOptions, OptionSet
<1>3. /\ IdModulus \in Nat /\ IdModulus > 0 /\ MaxRequests \in Nat
      /\ MaxConfigure \in Nat /\ MaxTerminate \in Nat
  BY CountsAssumption
<1>. QED BY <1>1, <1>2, <1>3 DEF Id

LEMMA PacketsOfType ==
    ASSUME NEW pw
    PROVE  PacketsOf(pw) \subseteq Packets
BY DEF PacketsOf

LEMMA AlikeTransitive ==
    ASSUME NEW c, NEW d, NEW x, Alike(c, d), Alike(d, x)
    PROVE  Alike(c, x)
BY DEF Alike

LEMMA SendAlike ==
    ASSUME NEW c, Honest(c), NEW protocol \in {"lcp", "ipcp", "pap"},
           NEW code \in Codes, NEW id \in Id, NEW options \in OptionSet,
           protocol = "pap" /\ code = "AuthReq" => options.auth = c.password
    PROVE  /\ Alike(c, Send(c, protocol, code, id, options))
           /\ Send(c, protocol, code, id, options).pap = c.pap
<1>. DEFINE q == Packet(protocol, code, id, options)
            d == Send(c, protocol, code, id, options)
<1>1. q \in PacketsOf(c.password) BY DEF Packet, PacketsOf, Packets
<1>2. d = [c EXCEPT !.out = Append(c.out, q)] BY DEF Send
<1>3. c \in Context /\ c.out \in Seq(PacketsOf(c.password)) BY DEF Honest
<1>. HIDE DEF q, d
<1>4. /\ Append(c.out, q) \in Seq(PacketsOf(c.password))
      /\ Append(c.out, q) \in Seq(Packets)
  BY <1>1, <1>3 DEF Context, PacketsOf
<1>5. d \in Context BY <1>2, <1>3, <1>4 DEF Context
<1>6. /\ d.out = Append(c.out, q) /\ d.password = c.password /\ d.phase = c.phase
      /\ d.linkUp = c.linkUp /\ d.lcp = c.lcp /\ d.ipcp = c.ipcp /\ d.pap = c.pap
      /\ d.localAuthDone = c.localAuthDone /\ d.peerAuthDone = c.peerAuthDone
      /\ d.authenticates = c.authenticates /\ d.allowsPap = c.allowsPap
  BY <1>2, <1>3 DEF Context
<1>. QED BY <1>4, <1>5, <1>6 DEF Alike, Honest, d

LEMMA NextIdAlike ==
    ASSUME NEW c, Honest(c), NEW p \in {"lcp", "ipcp", "pap"}
    PROVE  Alike(c, NextId(c, p)) /\ NextId(c, p)[p].id \in Id
<1>0. c[p].id \in Nat BY Numbers DEF Honest, Context, Fsm, PapFsm, Id
<1>. DEFINE k == c[p].id
<1>. HIDE DEF k
<1>1. (c[p].id + 1) % IdModulus \in Id
  <2>1. k \in Nat BY <1>0 DEF k
  <2>2. (k + 1) % IdModulus \in 0 .. IdModulus - 1 BY <2>1, Numbers
  <2>. QED BY <2>2 DEF k, Id
<1>2. CASE p = "lcp" BY <1>1, <1>2 DEF NextId, Honest, Alike, Context, Fsm, Id
<1>3. CASE p = "ipcp" BY <1>1, <1>3 DEF NextId, Honest, Alike, Context, Fsm, Id
<1>4. CASE p = "pap" BY <1>1, <1>4 DEF NextId, Honest, Alike, Context, PapFsm, Id
<1>. QED BY <1>2, <1>3, <1>4

LEMMA CountedAlike ==
    ASSUME NEW c, Honest(c), NEW p \in {"lcp", "ipcp", "pap"}
    PROVE  Alike(c, Counted(c, p))
<1>. DEFINE n == IF c[p].count > 0 THEN c[p].count - 1 ELSE 0
<1>1. Counted(c, p) = [c EXCEPT ![p].count = n] BY DEF Counted
<1>2. CASE p = "lcp"
  <2>1. n \in (0 .. MaxConfigure) \union (0 .. MaxTerminate)
    BY <1>2, Numbers DEF Honest, Context, Fsm
  <2>. HIDE DEF n
  <2>. QED BY <1>1, <1>2, <2>1 DEF Honest, Alike, Context, Fsm
<1>3. CASE p = "ipcp"
  <2>1. n \in (0 .. MaxConfigure) \union (0 .. MaxTerminate)
    BY <1>3, Numbers DEF Honest, Context, Fsm
  <2>. HIDE DEF n
  <2>. QED BY <1>1, <1>3, <2>1 DEF Honest, Alike, Context, Fsm
<1>4. CASE p = "pap"
  <2>1. n \in 0 .. MaxRequests BY <1>4, Numbers DEF Honest, Context, PapFsm
  <2>. HIDE DEF n
  <2>. QED BY <1>1, <1>4, <2>1 DEF Honest, Alike, Context, PapFsm
<1>. QED BY <1>2, <1>3, <1>4

LEMMA SendRequestAlike ==
    ASSUME NEW c, Honest(c), NEW p \in {"lcp", "ipcp", "pap"}, NEW code \in Codes,
           NEW options \in OptionSet,
           p = "pap" /\ code = "AuthReq" => options.auth = c.password
    PROVE  Alike(c, SendRequest(c, p, code, options))
<1>. DEFINE n == NextId(c, p)
            x == Send(n, p, code, n[p].id, options)
<1>1. Alike(c, n) /\ n[p].id \in Id BY NextIdAlike
<1>2. Honest(n) /\ n.password = c.password BY <1>1 DEF Alike
<1>3. Alike(n, x) BY <1>1, <1>2, SendAlike
<1>4. Alike(x, Counted(x, p)) BY <1>3, CountedAlike DEF Alike
<1>5. SendRequest(c, p, code, options) = Counted(x, p) BY DEF SendRequest
<1>. QED BY <1>1, <1>3, <1>4, <1>5, AlikeTransitive

LEMMA OptionsType ==
    ASSUME NEW c \in Context, NEW p
    PROVE  Options(c, p) \in OptionSet
BY Numbers DEF Options, NoOptions, OptionSet, Context

LEMMA SendConfigureAckAlike ==
    ASSUME NEW c, Honest(c), NEW p \in {"lcp", "ipcp"}, NEW m, Readable(m)
    PROVE  Alike(c, SendConfigureAck(c, p, m))
<1>. DEFINE s == Send(c, p, "ConfigureAck", m.id, m.options)
            l == s.peerAuth \/ m.options.auth
<1>1. Alike(c, s) BY SendAlike DEF Readable, Codes
<1>2. m.options.auth \in BOOLEAN /\ m.options.ip \in Addresses
  BY DEF Readable, OptionSet
<1>3. Honest(s) BY <1>1 DEF Alike
<1>. HIDE DEF s
<1>4. CASE p = "lcp"
  <2>1. SendConfigureAck(c, p, m) = [s EXCEPT !.peerAuth = l]
    BY <1>4 DEF SendConfigureAck, s
  <2>2. l \in BOOLEAN BY <1>2
  <2>. HIDE DEF l
  <2>. QED BY <1>1, <1>3, <2>1, <2>2 DEF Alike, Honest, Context
<1>5. CASE p = "ipcp"
  <2>1. SendConfigureAck(c, p, m) = [s EXCEPT !.peerIp = m.options.ip]
    BY <1>5 DEF SendConfigureAck, s
  <2>. QED BY <1>1, <1>2, <1>3, <2>1 DEF Alike, Honest, Context
<1>. QED BY <1>4, <1>5

LEMMA CountSet ==
    ASSUME NEW c, Honest(c), NEW p \in {"lcp", "ipcp"},
           NEW n \in (0 .. MaxConfigure) \union (0 .. MaxTerminate)
    PROVE  Alike(c, [c EXCEPT ![p].count = n])
<1>1. CASE p = "lcp" BY <1>1 DEF Honest, Alike, Context, Fsm
<1>2. CASE p = "ipcp" BY <1>2 DEF Honest, Alike, Context, Fsm
<1>. QED BY <1>1, <1>2

LEMMA SharedAlike ==
    ASSUME NEW c, Honest(c), NEW p \in {"lcp", "ipcp"}, NEW does \in Shared,
           NEW m, Readable(m)
    PROVE  Alike(c, Common(c, p, does, m))
<1>. DEFINE d == Common(c, p, does, m)
<1>1. c \in Context BY DEF Honest
<1>2. CASE does \in {"ircConf", "ircTerm", "zrc"}
  <2>1. \A n \in {MaxConfigure, MaxTerminate, 0} :
           n \in (0 .. MaxConfigure) \union (0 .. MaxTerminate)
    BY Numbers
  <2>2. \/ d = [c EXCEPT ![p].count = MaxConfigure]
        \/ d = [c EXCEPT ![p].count = MaxTerminate]
        \/ d = [c EXCEPT ![p].count = 0]
    BY <1>2 DEF Common
  <2>. QED BY <2>1, <2>2, CountSet
<1>3. CASE does = "scr"
  <2>1. d = SendRequest(c, p, "ConfigureReq", Options(c, p)) BY <1>3 DEF Common
  <2>. QED BY <1>1, <2>1, OptionsType, SendRequestAlike DEF Codes
<1>4. CASE does = "str"
  <2>1. d = SendRequest(c, p, "TerminateReq", NoOptions) BY <1>4 DEF Common
  <2>. QED BY <2>1, Numbers, SendRequestAlike DEF Codes
<1>5. CASE does = "sca"
  BY <1>5, SendConfigureAckAlike DEF Common
<1>6. CASE does = "scn"
  <2>1. d = Send(c, p, "ConfigureNak", m.id, [NoOptions EXCEPT !.ip = c.peerIp])
    BY <1>6 DEF Common, SendConfigureNak
  <2>2. [NoOptions EXCEPT !.ip = c.peerIp] \in OptionSet
    BY <1>1, Numbers DEF OptionSet, Context
  <2>. QED BY <2>1, <2>2, SendAlike DEF Codes, Readable
<1>7. CASE does = "scj"
  <2>1. d = Send(c, p, "ConfigureRej", m.id, [m.options EXCEPT !.ip = Unspecified])
    BY <1>7 DEF Common, SendConfigureRej
  <2>2. [m.options EXCEPT !.ip = Unspecified] \in OptionSet
    BY Numbers DEF OptionSet, Readable
  <2>. QED BY <2>1, <2>2, SendAlike DEF Codes, Readable
<1>8. CASE does = "ack"
  <2>1. d = Send(c, p, "TerminateAck", m.id, NoOptions) BY <1>8 DEF Common
  <2>. QED BY <2>1, Numbers, SendAlike DEF Codes, Readable
<1>9. CASE does = "sta"
  <2>. DEFINE n == NextId(c, p)
  <2>1. d = Send(n, p, "TerminateAck", n[p].id, NoOptions) BY <1>9 DEF Common
  <2>2. Alike(c, n) /\ n[p].id \in Id BY NextIdAlike
  <2>3. Honest(n) BY <2>2 DEF Alike
  <2>. HIDE DEF n
  <2>4. Alike(n, d) BY <2>1, <2>2, <2>3, Numbers, SendAlike DEF Codes
  <2>. QED BY <2>2, <2>4, AlikeTransitive
<1>. QED BY <1>2, <1>3, <1>4, <1>5, <1>6, <1>7, <1>8, <1>9 DEF Shared

-----------------------------------------------------------------------------
(* IPCP: the interface follows the automaton.                              *)

LEMMA IpcpNthIs ==
    ASSUME NEW c, NEW step, NEW n, NEW m
    PROVE  IpcpNth(c, step, n, m) =
              IF n <= Len(step.does) THEN IpcpDo(c, step.does[n], m) ELSE c
<1>1. \A does : (CHOOSE y \in {IpcpDo(d, does, m) : d \in {c}} : TRUE)
                   = IpcpDo(c, does, m)
  OBVIOUS
<1>2. CASE n <= Len(step.does)
  <2>1. IpcpNth(c, step, n, m) =
           CHOOSE y \in {IpcpDo(d, step.does[n], m) : d \in {c}} : TRUE
    BY <1>2 DEF IpcpNth, Once
  <2>. QED BY <2>1, <1>1, <1>2
<1>3. CASE ~(n <= Len(step.does)) BY <1>3 DEF IpcpNth
<1>. QED BY <1>2, <1>3

LEMMA IpcpDoShared ==
    ASSUME NEW c, Honest(c), NEW does \in Shared, NEW m, Readable(m)
    PROVE  Alike(c, IpcpDo(c, does, m))
<1>1. IpcpDo(c, does, m) = Common(c, "ipcp", does, m) BY DEF IpcpDo, Shared
<1>. QED BY <1>1, SharedAlike

LEMMA AlikeReflexive ==
    ASSUME NEW c, Honest(c)
    PROVE  Alike(c, c)
BY DEF Alike

\* The callbacks up to the last but one, and what the last then does.
LEMMA IpcpRuns ==
    ASSUME NEW c, NEW step, WellFormed(step), NEW m, Readable(m),
           Honest([c EXCEPT !.ipcp.state = step.to])
    PROVE  \E d : /\ Alike([c EXCEPT !.ipcp.state = step.to], d)
                  /\ \/ /\ \A x \in Layer : ~Calls(step, x)
                        /\ Ipcp(c, step, m) = d
                     \/ \E x \in Layer : /\ Calls(step, x)
                                         /\ Ipcp(c, step, m) = IpcpDo(d, x, m)
<1>. DEFINE a == [c EXCEPT !.ipcp.state = step.to]
            x1 == IpcpNth(a, step, 1, m)
            x2 == IpcpNth(x1, step, 2, m)
            x3 == IpcpNth(x2, step, 3, m)
            n == Len(step.does)
<1>1. Ipcp(c, step, m) = x3 BY DEF Ipcp
<1>2. /\ x1 = IF 1 <= n THEN IpcpDo(a, step.does[1], m) ELSE a
      /\ x2 = IF 2 <= n THEN IpcpDo(x1, step.does[2], m) ELSE x1
      /\ x3 = IF 3 <= n THEN IpcpDo(x2, step.does[3], m) ELSE x2
  BY IpcpNthIs
<1>3. /\ n \in 0 .. 3
      /\ \A k \in 1 .. n : step.does[k] \in Shared \/ (k = n /\ step.does[k] \in Layer)
  BY DEF WellFormed
<1>4. Alike(a, a) BY AlikeReflexive
<1>5. \A x \in Layer : Calls(step, x) <=> n > 0 /\ step.does[n] = x
  BY DEF Calls
<1>6. \A x \in Layer : x \notin Shared BY DEF Layer, Shared
<1>. HIDE DEF a, x1, x2, x3, n
<1>7. \A d, k : k \in 1 .. n /\ Alike(a, d) /\ step.does[k] \in Shared
                  => Alike(a, IpcpDo(d, step.does[k], m))
  <2>. SUFFICES ASSUME NEW d, NEW k, Alike(a, d), step.does[k] \in Shared
                PROVE  Alike(a, IpcpDo(d, step.does[k], m))
    OBVIOUS
  <2>1. Honest(d) BY DEF Alike
  <2>. QED BY <2>1, IpcpDoShared, AlikeTransitive
<1>8. CASE n = 0 BY <1>1, <1>2, <1>4, <1>5, <1>8 DEF a
<1>9. CASE n = 1
  <2>1. x3 = IpcpDo(a, step.does[1], m) BY <1>2, <1>9
  <2>2. CASE step.does[1] \in Layer BY <1>1, <1>4, <1>5, <1>9, <2>1, <2>2 DEF a
  <2>3. CASE step.does[1] \in Shared
    <3>1. Alike(a, x3) BY <1>4, <1>7, <1>9, <2>1, <2>3
    <3>2. \A x \in Layer : ~Calls(step, x) BY <1>5, <1>6, <1>9, <2>3
    <3>. QED BY <1>1, <3>1, <3>2 DEF a
  <2>. QED BY <1>3, <1>9, <2>2, <2>3
<1>10. CASE n = 2
  <2>1. x3 = IpcpDo(x1, step.does[2], m) /\ x1 = IpcpDo(a, step.does[1], m)
    BY <1>2, <1>10
  <2>2. Alike(a, x1) BY <1>3, <1>4, <1>7, <1>10, <2>1
  <2>3. CASE step.does[2] \in Layer BY <1>1, <1>5, <1>10, <2>1, <2>2, <2>3 DEF a
  <2>4. CASE step.does[2] \in Shared
    <3>1. Alike(a, x3) BY <1>7, <1>10, <2>1, <2>2, <2>4
    <3>2. \A x \in Layer : ~Calls(step, x) BY <1>5, <1>6, <1>10, <2>4
    <3>. QED BY <1>1, <3>1, <3>2 DEF a
  <2>. QED BY <1>3, <1>10, <2>3, <2>4
<1>11. CASE n = 3
  <2>1. /\ x3 = IpcpDo(x2, step.does[3], m) /\ x2 = IpcpDo(x1, step.does[2], m)
        /\ x1 = IpcpDo(a, step.does[1], m)
    BY <1>2, <1>11
  <2>2. step.does[1] \in Shared /\ step.does[2] \in Shared BY <1>3, <1>11
  <2>3. Alike(a, x1) BY <1>4, <1>7, <1>11, <2>1, <2>2
  <2>4. Alike(a, x2) BY <1>7, <1>11, <2>1, <2>2, <2>3
  <2>5. CASE step.does[3] \in Layer BY <1>1, <1>5, <1>11, <2>1, <2>4, <2>5 DEF a
  <2>6. CASE step.does[3] \in Shared
    <3>1. Alike(a, x3) BY <1>7, <1>11, <2>1, <2>4, <2>6
    <3>2. \A x \in Layer : ~Calls(step, x) BY <1>5, <1>6, <1>11, <2>6
    <3>. QED BY <1>1, <3>1, <3>2 DEF a
  <2>. QED BY <1>3, <1>11, <2>5, <2>6
<1>. QED BY <1>3, <1>8, <1>9, <1>10, <1>11

\* Nothing but IPCP, the interface and the output has changed.
OnlyIpcp(c, d) ==
    /\ Honest(d)
    /\ d.phase = c.phase /\ d.lcp.state = c.lcp.state /\ d.pap.state = c.pap.state
    /\ d.localAuthDone = c.localAuthDone /\ d.peerAuthDone = c.peerAuthDone
    /\ d.authenticates = c.authenticates /\ d.allowsPap = c.allowsPap
    /\ d.password = c.password

\* The two directions of "the interface is up exactly as long as IPCP is open".
Shows(c) == c.ipcp.state = "Opened" => c.linkUp
Follows(c) == c.linkUp => c.ipcp.state = "Opened"

LEMMA IpcpEnters ==
    ASSUME NEW c, Honest(c), NEW to \in States
    PROVE  LET a == [c EXCEPT !.ipcp.state = to] IN
           OnlyIpcp(c, a) /\ a.ipcp.state = to /\ a.linkUp = c.linkUp
BY DEF Honest, OnlyIpcp, Context, Fsm

\* What the last callback of a step makes of a context.
LEMMA IpcpLayerIs ==
    ASSUME NEW c, Honest(c), NEW x \in Layer, NEW m
    PROVE  LET d == IpcpDo(c, x, m) IN
           /\ OnlyIpcp(c, d) /\ d.ipcp.state = c.ipcp.state
           /\ x = "tlu" => d.linkUp
           /\ x = "tld" => ~d.linkUp
           /\ x = "tlf" => d.linkUp = c.linkUp
<1>1. c \in Context BY DEF Honest
<1>2. CASE x = "tlu"
  <2>1. IpcpDo(c, x, m) = [c EXCEPT !.addr = c.localIp, !.gateway = c.peerIp,
                                    !.linkUp = TRUE]
    BY <1>2 DEF IpcpDo
  <2>. QED BY <1>1, <1>2, <2>1 DEF OnlyIpcp, Honest, Context
<1>3. CASE x = "tld"
  <2>1. IpcpDo(c, x, m) = [c EXCEPT !.linkUp = FALSE] BY <1>3 DEF IpcpDo
  <2>. QED BY <1>1, <1>3, <2>1 DEF OnlyIpcp, Honest, Context
<1>4. CASE x = "tlf"
  <2>1. IpcpDo(c, x, m) = c BY <1>4 DEF IpcpDo
  <2>. QED BY <1>1, <1>4, <2>1 DEF OnlyIpcp, Honest, Context
<1>. QED BY <1>2, <1>3, <1>4 DEF Layer

\* The whole step.
LEMMA IpcpIs ==
    ASSUME NEW c, Honest(c), NEW step, WellFormed(step), NEW m, Readable(m)
    PROVE  LET d == Ipcp(c, step, m) IN
           /\ OnlyIpcp(c, d) /\ d.ipcp.state = step.to
           /\ Calls(step, "tlu") => d.linkUp
           /\ Calls(step, "tld") => ~d.linkUp
           /\ ~Calls(step, "tlu") /\ ~Calls(step, "tld") => d.linkUp = c.linkUp
<1>. DEFINE a == [c EXCEPT !.ipcp.state = step.to]
            r == Ipcp(c, step, m)
<1>1. OnlyIpcp(c, a) /\ a.ipcp.state = step.to /\ a.linkUp = c.linkUp
  BY IpcpEnters DEF WellFormed
<1>2. Honest(a) BY <1>1 DEF OnlyIpcp
<1>3. PICK d : /\ Alike(a, d)
               /\ \/ (\A x \in Layer : ~Calls(step, x)) /\ r = d
                  \/ \E x \in Layer : Calls(step, x) /\ r = IpcpDo(d, x, m)
  BY <1>2, IpcpRuns
<1>4. /\ Honest(d) /\ OnlyIpcp(c, d) /\ d.ipcp.state = step.to /\ d.linkUp = c.linkUp
  BY <1>1, <1>3 DEF Alike, OnlyIpcp
<1>5. \A x, y \in Layer : Calls(step, x) /\ Calls(step, y) => x = y BY DEF Calls
<1>. HIDE DEF a, r
<1>6. CASE (\A x \in Layer : ~Calls(step, x)) /\ r = d
  BY <1>4, <1>6 DEF Layer, r
<1>7. ASSUME NEW x \in Layer, Calls(step, x), r = IpcpDo(d, x, m)
      PROVE  /\ OnlyIpcp(c, r) /\ r.ipcp.state = step.to
             /\ Calls(step, "tlu") => r.linkUp
             /\ Calls(step, "tld") => ~r.linkUp
             /\ ~Calls(step, "tlu") /\ ~Calls(step, "tld") => r.linkUp = c.linkUp
  <2>1. /\ OnlyIpcp(d, r) /\ r.ipcp.state = d.ipcp.state
        /\ x = "tlu" => r.linkUp
        /\ x = "tld" => ~r.linkUp
        /\ x = "tlf" => r.linkUp = d.linkUp
    BY <1>4, <1>7, IpcpLayerIs
  <2>2. OnlyIpcp(c, r) BY <1>4, <2>1 DEF OnlyIpcp
  <2>3. CASE x = "tlu"
    <3>1. ~Calls(step, "tld") BY <1>5, <1>7, <2>3 DEF Layer
    <3>. QED BY <1>4, <1>7, <2>1, <2>2, <2>3, <3>1
  <2>4. CASE x = "tld"
    <3>1. ~Calls(step, "tlu") BY <1>5, <1>7, <2>4 DEF Layer
    <3>. QED BY <1>4, <1>7, <2>1, <2>2, <2>4, <3>1
  <2>5. CASE x = "tlf"
    <3>1. ~Calls(step, "tlu") /\ ~Calls(step, "tld") BY <1>5, <1>7, <2>5 DEF Layer
    <3>. QED BY <1>4, <1>7, <2>1, <2>2, <2>5, <3>1
  <2>. QED BY <2>3, <2>4, <2>5 DEF Layer
<1>. QED BY <1>3, <1>6, <1>7 DEF r

LEMMA IpcpSound ==
    ASSUME NEW c, Honest(c), Shows(c), NEW step, Sound(c.ipcp.state, step),
           NEW m, Readable(m)
    PROVE  LET d == Ipcp(c, step, m) IN
           /\ OnlyIpcp(c, d) /\ d.ipcp.state = step.to /\ Shows(d)
           /\ Follows(c) => Follows(d)
<1>. DEFINE d == Ipcp(c, step, m)
<1>1. /\ OnlyIpcp(c, d) /\ d.ipcp.state = step.to
      /\ Calls(step, "tlu") => d.linkUp
      /\ Calls(step, "tld") => ~d.linkUp
      /\ ~Calls(step, "tlu") /\ ~Calls(step, "tld") => d.linkUp = c.linkUp
  BY IpcpIs DEF Sound
<1>2. /\ Calls(step, "tlu") <=> c.ipcp.state # "Opened" /\ step.to = "Opened"
      /\ Calls(step, "tld") <=> c.ipcp.state = "Opened" /\ step.to # "Opened"
  BY DEF Sound
<1>. HIDE DEF d
<1>3. Shows(d) /\ (Follows(c) => Follows(d)) BY <1>1, <1>2 DEF Shows, Follows
<1>. QED BY <1>1, <1>3 DEF d

LEMMA NoPacketReadable == Readable(NoPacket)
BY Numbers DEF Readable, NoPacket, Packet

LEMMA IpcpOpenIs ==
    ASSUME NEW c, Honest(c), c.ipcp.state = "Initial"
    PROVE  LET d == IpcpOpen(c) IN
           OnlyIpcp(c, d) /\ d.ipcp.state = "ReqSent" /\ d.linkUp = c.linkUp
<1>. DEFINE s1 == OpenEvent("Initial")
            o == Ipcp(c, s1, NoPacket)
            s2 == UpEvent("Starting")
            d == Ipcp(o, s2, NoPacket)
<1>1. /\ WellFormed(s1) /\ s1.to = "Starting"
      /\ ~Calls(s1, "tlu") /\ ~Calls(s1, "tld")
  BY DEF OpenEvent, To, Step, WellFormed, Calls, States
<1>2. /\ WellFormed(s2) /\ s2.to = "ReqSent"
      /\ ~Calls(s2, "tlu") /\ ~Calls(s2, "tld")
  BY DEF UpEvent, To, Step, WellFormed, Calls, States, Shared
<1>. HIDE DEF s1, s2
<1>3. OnlyIpcp(c, o) /\ o.ipcp.state = "Starting" /\ o.linkUp = c.linkUp
  BY <1>1, IpcpIs, NoPacketReadable
<1>4. Honest(o) BY <1>3 DEF OnlyIpcp
<1>5. IpcpOpen(c) = d BY <1>3 DEF IpcpOpen, s1, s2
<1>. HIDE DEF o
<1>6. OnlyIpcp(o, d) /\ d.ipcp.state = "ReqSent" /\ d.linkUp = o.linkUp
  BY <1>2, <1>4, IpcpIs, NoPacketReadable
<1>. QED BY <1>3, <1>5, <1>6 DEF OnlyIpcp

LEMMA IpcpCloseIs ==
    ASSUME NEW c, Honest(c), c.ipcp.state # "Starting"
    PROVE  LET d == IpcpClose(c) IN
           /\ OnlyIpcp(c, d) /\ d.ipcp.state = "Initial"
           /\ Follows(c) => ~d.linkUp
<1>. DEFINE s1 == DownEvent(c.ipcp.state)
            o == Ipcp(c, s1, NoPacket)
            s2 == CloseEvent(o.ipcp.state)
            d == Ipcp(o, s2, NoPacket)
<1>1. c.ipcp.state \in States BY DEF Honest, Context, Fsm
<1>2. /\ WellFormed(s1) /\ s1.to \in {"Initial", "Starting"}
      /\ ~Calls(s1, "tlu")
      /\ Calls(s1, "tld") <=> c.ipcp.state = "Opened"
  BY <1>1 DEF DownEvent, Negotiating, To, Step, WellFormed, Calls, States, Layer
<1>. HIDE DEF s1
<1>3. /\ OnlyIpcp(c, o) /\ o.ipcp.state = s1.to
      /\ c.ipcp.state = "Opened" => ~o.linkUp
      /\ c.ipcp.state # "Opened" => o.linkUp = c.linkUp
  BY <1>2, IpcpIs, NoPacketReadable
<1>4. Honest(o) BY <1>3 DEF OnlyIpcp
<1>5. /\ WellFormed(s2) /\ s2.to = "Initial"
      /\ ~Calls(s2, "tlu") /\ ~Calls(s2, "tld")
  BY <1>2, <1>3 DEF CloseEvent, Negotiating, To, Step, WellFormed, Calls, States, Layer
<1>6. IpcpClose(c) = d BY DEF IpcpClose, s1
<1>. HIDE DEF o, s2
<1>7. OnlyIpcp(o, d) /\ d.ipcp.state = "Initial" /\ d.linkUp = o.linkUp
  BY <1>4, <1>5, IpcpIs, NoPacketReadable
<1>. QED BY <1>3, <1>6, <1>7 DEF OnlyIpcp, Follows

\* A packet of IPCP leaves an automaton at rest where it is, and another at work.
LEMMA IpcpPacketSound ==
    ASSUME NEW c, Honest(c), Shows(c), c.ipcp.state # "Starting", NEW m \in Packets
    PROVE  LET d == IpcpProcessPacket(c, m) IN
           /\ OnlyIpcp(c, d) /\ Shows(d) /\ d.ipcp.state # "Starting"
           /\ c.ipcp.state = "Initial" <=> d.ipcp.state = "Initial"
           /\ Follows(c) => Follows(d)
<1>. DEFINE r == IpcpProcessPacket(c, m)
            s == c.ipcp.state
            Claim(d) == /\ OnlyIpcp(c, d) /\ Shows(d) /\ d.ipcp.state # "Starting"
                        /\ c.ipcp.state = "Initial" <=> d.ipcp.state = "Initial"
                        /\ Follows(c) => Follows(d)
<1>1. s \in States /\ s # "Starting" BY DEF Honest, Context, Fsm
<1>2. Readable(m) BY DEF Readable, Packets
<1>3. ASSUME NEW b, OnlyIpcp(c, b), b.ipcp.state = s, b.linkUp = c.linkUp,
             NEW step, Sound(s, step)
      PROVE  Claim(Ipcp(b, step, m))
  <2>1. Honest(b) BY <1>3 DEF OnlyIpcp
  <2>2. Shows(b) /\ (Follows(c) <=> Follows(b)) BY <1>3 DEF Shows, Follows
  <2>. DEFINE d == Ipcp(b, step, m)
  <2>3. /\ OnlyIpcp(b, d) /\ d.ipcp.state = step.to /\ Shows(d)
        /\ Follows(b) => Follows(d)
    BY <1>2, <1>3, <2>1, <2>2, IpcpSound
  <2>. HIDE DEF d
  <2>4. /\ s = "Initial" <=> step.to = "Initial"
        /\ step.to # "Starting"
    BY <1>3 DEF Sound
  <2>5. OnlyIpcp(c, d) BY <1>3, <2>3 DEF OnlyIpcp
  <2>. QED BY <2>2, <2>3, <2>4, <2>5 DEF d
<1>4. OnlyIpcp(c, c) BY DEF OnlyIpcp
<1>5. CASE m.code = "ConfigureReq"
  <2>1. r = Ipcp(c, IpcpConfigureReq(s, m), m) BY <1>5 DEF IpcpProcessPacket
  <2>2. \/ IpcpConfigureReq(s, m) = RcvConfigureReqRefused(s, "scj")
        \/ IpcpConfigureReq(s, m) = RcvConfigureReqRefused(s, "scn")
        \/ IpcpConfigureReq(s, m) = RcvConfigureReqAcceptable(s)
    BY DEF IpcpConfigureReq
  <2>3. Sound(s, IpcpConfigureReq(s, m)) BY <1>1, <2>2, RefusedSound, AcceptableSound
  <2>. QED BY <1>3, <1>4, <2>1, <2>3
<1>6. CASE m.code = "ConfigureAck" /\ m.id = c.ipcp.id
  <2>1. r = Ipcp(c, RcvConfigureAckEvent(s), m) BY <1>6 DEF IpcpProcessPacket
  <2>. QED BY <1>1, <1>3, <1>4, <2>1, AckSound
<1>7. CASE m.code = "ConfigureNak" /\ m.id = c.ipcp.id
  <2>. DEFINE b == [c EXCEPT !.localIp = m.options.ip]
  <2>1. r = Ipcp(b, RcvConfigureNakEvent(s), m) BY <1>7 DEF IpcpProcessPacket
  <2>2. m.options.ip \in Addresses BY DEF Packets, OptionSet
  <2>3. OnlyIpcp(c, b) /\ b.ipcp.state = s /\ b.linkUp = c.linkUp
    BY <2>2 DEF OnlyIpcp, Honest, Context
  <2>. HIDE DEF b
  <2>. QED BY <1>1, <1>3, <2>1, <2>3, NakSound
<1>8. CASE m.code = "ConfigureRej" /\ m.id = c.ipcp.id
  <2>. DEFINE v == c.dnsRejected \/ m.options.dns
              b == [c EXCEPT !.dnsRejected = v]
  <2>1. r = Ipcp(b, RcvConfigureNakEvent(s), m) BY <1>8 DEF IpcpProcessPacket
  <2>2. v \in BOOLEAN OBVIOUS
  <2>. HIDE DEF v
  <2>3. OnlyIpcp(c, b) /\ b.ipcp.state = s /\ b.linkUp = c.linkUp
    BY <2>2 DEF OnlyIpcp, Honest, Context
  <2>. HIDE DEF b
  <2>. QED BY <1>1, <1>3, <2>1, <2>3, NakSound
<1>9. CASE m.code = "TerminateReq"
  <2>1. r = Ipcp(c, RcvTerminateReqEvent(s), m) BY <1>9 DEF IpcpProcessPacket
  <2>. QED BY <1>1, <1>3, <1>4, <2>1, TerminateReqSound
<1>10. CASE m.code = "TerminateAck"
  <2>1. r = Ipcp(c, RcvTerminateAckEvent(s), m) BY <1>10 DEF IpcpProcessPacket
  <2>. QED BY <1>1, <1>3, <1>4, <2>1, TerminateAckSound
<1>11. CASE /\ m.code \notin {"ConfigureReq", "TerminateReq", "TerminateAck"}
            /\ m.code \in {"ConfigureAck", "ConfigureNak", "ConfigureRej"}
                  => m.id # c.ipcp.id
  <2>1. r = c BY <1>11 DEF IpcpProcessPacket
  <2>. QED BY <1>1, <1>4, <2>1
<1>. QED BY <1>5, <1>6, <1>7, <1>8, <1>9, <1>10, <1>11

-----------------------------------------------------------------------------
(* LCP: phase, automata and interface stay in step.                        *)

LEMMA LcpNthIs ==
    ASSUME NEW c, NEW step, NEW n, NEW m
    PROVE  LcpNth(c, step, n, m) =
              IF n <= Len(step.does) THEN LcpDo(c, step.does[n], m) ELSE c
<1>1. \A does : (CHOOSE y \in {LcpDo(d, does, m) : d \in {c}} : TRUE)
                   = LcpDo(c, does, m)
  OBVIOUS
<1>2. CASE n <= Len(step.does)
  <2>1. LcpNth(c, step, n, m) =
           CHOOSE y \in {LcpDo(d, step.does[n], m) : d \in {c}} : TRUE
    BY <1>2 DEF LcpNth, Once
  <2>. QED BY <2>1, <1>1, <1>2
<1>3. CASE ~(n <= Len(step.does)) BY <1>3 DEF LcpNth
<1>. QED BY <1>2, <1>3

LEMMA LcpDoShared ==
    ASSUME NEW c, Honest(c), NEW does \in Shared, NEW m, Readable(m)
    PROVE  Alike(c, LcpDo(c, does, m))
<1>1. LcpDo(c, does, m) = Common(c, "lcp", does, m) BY DEF LcpDo, Shared
<1>. QED BY <1>1, SharedAlike

LEMMA LcpRuns ==
    ASSUME NEW c, NEW step, WellFormed(step), NEW m, Readable(m),
           Honest([c EXCEPT !.lcp.state = step.to])
    PROVE  \E d : /\ Alike([c EXCEPT !.lcp.state = step.to], d)
                  /\ \/ /\ \A x \in Layer : ~Calls(step, x)
                        /\ Lcp(c, step, m) = d
                     \/ \E x \in Layer : /\ Calls(step, x)
                                         /\ Lcp(c, step, m) = LcpDo(d, x, m)
<1>. DEFINE a == [c EXCEPT !.lcp.state = step.to]
            x1 == LcpNth(a, step, 1, m)
            x2 == LcpNth(x1, step, 2, m)
            x3 == LcpNth(x2, step, 3, m)
            n == Len(step.does)
<1>1. Lcp(c, step, m) = x3 BY DEF Lcp
<1>2. /\ x1 = IF 1 <= n THEN LcpDo(a, step.does[1], m) ELSE a
      /\ x2 = IF 2 <= n THEN LcpDo(x1, step.does[2], m) ELSE x1
      /\ x3 = IF 3 <= n THEN LcpDo(x2, step.does[3], m) ELSE x2
  BY LcpNthIs
<1>3. /\ n \in 0 .. 3
      /\ \A k \in 1 .. n : step.does[k] \in Shared \/ (k = n /\ step.does[k] \in Layer)
  BY DEF WellFormed
<1>4. Alike(a, a) BY AlikeReflexive
<1>5. \A x \in Layer : Calls(step, x) <=> n > 0 /\ step.does[n] = x
  BY DEF Calls
<1>6. \A x \in Layer : x \notin Shared BY DEF Layer, Shared
<1>. HIDE DEF a, x1, x2, x3, n
<1>7. \A d, k : k \in 1 .. n /\ Alike(a, d) /\ step.does[k] \in Shared
                  => Alike(a, LcpDo(d, step.does[k], m))
  <2>. SUFFICES ASSUME NEW d, NEW k, Alike(a, d), step.does[k] \in Shared
                PROVE  Alike(a, LcpDo(d, step.does[k], m))
    OBVIOUS
  <2>1. Honest(d) BY DEF Alike
  <2>. QED BY <2>1, LcpDoShared, AlikeTransitive
<1>8. CASE n = 0 BY <1>1, <1>2, <1>4, <1>5, <1>8 DEF a
<1>9. CASE n = 1
  <2>1. x3 = LcpDo(a, step.does[1], m) BY <1>2, <1>9
  <2>2. CASE step.does[1] \in Layer BY <1>1, <1>4, <1>5, <1>9, <2>1, <2>2 DEF a
  <2>3. CASE step.does[1] \in Shared
    <3>1. Alike(a, x3) BY <1>4, <1>7, <1>9, <2>1, <2>3
    <3>2. \A x \in Layer : ~Calls(step, x) BY <1>5, <1>6, <1>9, <2>3
    <3>. QED BY <1>1, <3>1, <3>2 DEF a
  <2>. QED BY <1>3, <1>9, <2>2, <2>3
<1>10. CASE n = 2
  <2>1. x3 = LcpDo(x1, step.does[2], m) /\ x1 = LcpDo(a, step.does[1], m)
    BY <1>2, <1>10
  <2>2. Alike(a, x1) BY <1>3, <1>4, <1>7, <1>10, <2>1
  <2>3. CASE step.does[2] \in Layer BY <1>1, <1>5, <1>10, <2>1, <2>2, <2>3 DEF a
  <2>4. CASE step.does[2] \in Shared
    <3>1. Alike(a, x3) BY <1>7, <1>10, <2>1, <2>2, <2>4
    <3>2. \A x \in Layer : ~Calls(step, x) BY <1>5, <1>6, <1>10, <2>4
    <3>. QED BY <1>1, <3>1, <3>2 DEF a
  <2>. QED BY <1>3, <1>10, <2>3, <2>4
<1>11. CASE n = 3
  <2>1. /\ x3 = LcpDo(x2, step.does[3], m) /\ x2 = LcpDo(x1, step.does[2], m)
        /\ x1 = LcpDo(a, step.does[1], m)
    BY <1>2, <1>11
  <2>2. step.does[1] \in Shared /\ step.does[2] \in Shared BY <1>3, <1>11
  <2>3. Alike(a, x1) BY <1>4, <1>7, <1>11, <2>1, <2>2
  <2>4. Alike(a, x2) BY <1>7, <1>11, <2>1, <2>2, <2>3
  <2>5. CASE step.does[3] \in Layer BY <1>1, <1>5, <1>11, <2>1, <2>4, <2>5 DEF a
  <2>6. CASE step.does[3] \in Shared
    <3>1. Alike(a, x3) BY <1>7, <1>11, <2>1, <2>4, <2>6
    <3>2. \A x \in Layer : ~Calls(step, x) BY <1>5, <1>6, <1>11, <2>6
    <3>. QED BY <1>1, <3>1, <3>2 DEF a
  <2>. QED BY <1>3, <1>11, <2>5, <2>6
<1>. QED BY <1>3, <1>8, <1>9, <1>10, <1>11

\* The phase and the automata of LCP, IPCP and PAP.
Layers(c) ==
    /\ c.lcp.state # "Starting" /\ c.ipcp.state # "Starting"
    /\ c.phase \in {"Authenticate", "Network"} => c.lcp.state = "Opened"
    /\ c.phase = "Dead" => c.lcp.state = "Initial"
    /\ c.ipcp.state # "Initial" => c.phase = "Network"
    /\ c.phase = "Network" => c.localAuthDone
    /\ c.pap.state = "ReqSent" => c.phase = "Authenticate" /\ ~c.peerAuthDone
    /\ Shows(c)

\* The settings are kept.
SameSettings(c, d) ==
    /\ d.authenticates = c.authenticates /\ d.allowsPap = c.allowsPap
    /\ d.password = c.password

\* What every handler does with a context that is in step; shown: the peer has
\* just shown that it knows the password.
Keeps(c, d, shown) ==
    /\ Honest(d) /\ Layers(d) /\ SameSettings(c, d)
    /\ d.localAuthDone /\ d.authenticates => c.localAuthDone \/ shown
    /\ Follows(c) => Follows(d)
    /\ c.phase = "Dead" => d.phase = "Dead"

LEMMA EnterNetworkIs ==
    ASSUME NEW c, Honest(c), c.ipcp.state = "Initial"
    PROVE  LET d == EnterNetwork(c) IN
           /\ ~(c.localAuthDone /\ c.peerAuthDone) => d = c
           /\ c.localAuthDone /\ c.peerAuthDone =>
                 /\ Honest(d) /\ SameSettings(c, d)
                 /\ d.phase = "Network" /\ d.ipcp.state = "ReqSent"
                 /\ d.lcp.state = c.lcp.state /\ d.pap.state = c.pap.state
                 /\ d.localAuthDone = c.localAuthDone /\ d.peerAuthDone = c.peerAuthDone
                 /\ d.linkUp = c.linkUp
<1>. DEFINE n == [c EXCEPT !.phase = "Network"]
            d == IpcpOpen(n)
<1>1. /\ Honest(n) /\ SameSettings(c, n) /\ n.phase = "Network"
      /\ n.ipcp.state = "Initial" /\ n.linkUp = c.linkUp
      /\ n.lcp.state = c.lcp.state /\ n.pap.state = c.pap.state
      /\ n.localAuthDone = c.localAuthDone /\ n.peerAuthDone = c.peerAuthDone
  BY DEF Honest, Context, SameSettings
<1>2. EnterNetwork(c) = IF c.localAuthDone /\ c.peerAuthDone THEN d ELSE c
  BY DEF EnterNetwork
<1>. HIDE DEF n
<1>3. OnlyIpcp(n, d) /\ d.ipcp.state = "ReqSent" /\ d.linkUp = n.linkUp
  BY <1>1, IpcpOpenIs
<1>. HIDE DEF d
<1>. QED BY <1>1, <1>2, <1>3 DEF OnlyIpcp, SameSettings

LEMMA PapSendAuthReqAlike ==
    ASSUME NEW c, Honest(c)
    PROVE  Alike(c, PapSendAuthReq(c))
<1>. DEFINE o == [NoOptions EXCEPT !.auth = c.password]
<1>1. c.password \in BOOLEAN BY DEF Honest, Context
<1>2. o \in OptionSet /\ o.auth = c.password BY <1>1, Numbers DEF OptionSet
<1>3. PapSendAuthReq(c) = SendRequest(c, "pap", "AuthReq", o) BY DEF PapSendAuthReq
<1>. HIDE DEF o
<1>. QED BY <1>2, <1>3, SendRequestAlike DEF Codes

\* PAP starts when the peer asked for it.
LEMMA PapStartAuthIs ==
    ASSUME NEW c, Honest(c)
    PROVE  LET d == PapStartAuth(c) IN
           /\ Honest(d) /\ SameSettings(c, d) /\ d.phase = c.phase
           /\ d.lcp.state = c.lcp.state /\ d.ipcp.state = c.ipcp.state
           /\ d.linkUp = c.linkUp /\ d.localAuthDone = c.localAuthDone
           /\ d.peerAuthDone = c.peerAuthDone
           /\ ~c.peerAuth => d.pap.state = c.pap.state
<1>. DEFINE a == [c EXCEPT !.pap.count = MaxRequests]
            r == PapSendAuthReq(a)
            d == [r EXCEPT !.pap.state = "ReqSent"]
<1>1. Alike(c, a) BY Numbers DEF Alike, Honest, Context, PapFsm
<1>2. Alike(a, r) BY <1>1, PapSendAuthReqAlike DEF Alike
<1>3. Alike(c, r) BY <1>1, <1>2, AlikeTransitive
<1>4. PapStartAuth(c) = IF c.peerAuth THEN d ELSE c BY DEF PapStartAuth
<1>. HIDE DEF a, r
<1>5. Honest(r) BY <1>3 DEF Alike
<1>6. /\ Honest(d) /\ SameSettings(r, d) /\ d.phase = r.phase
      /\ d.lcp.state = r.lcp.state /\ d.ipcp.state = r.ipcp.state
      /\ d.linkUp = r.linkUp /\ d.localAuthDone = r.localAuthDone
      /\ d.peerAuthDone = r.peerAuthDone
  BY <1>5 DEF Honest, Context, PapFsm, SameSettings
<1>. HIDE DEF d
<1>. QED BY <1>3, <1>4, <1>6 DEF Alike, SameSettings

\* A context whose LCP has just changed its state: what the callback for the
\* layer above then makes of it.
LEMMA LcpUpSound ==
    ASSUME NEW c, Honest(c), c.lcp.state = "Opened", c.ipcp.state = "Initial",
           c.phase \notin {"Dead", "Authenticate", "Network"}, c.pap.state # "ReqSent"
    PROVE  LET d == LcpThisLayerUp(c) IN
           /\ Keeps(c, d, FALSE) /\ d.lcp.state = "Opened"
<1>. DEFINE u == c.authenticates
            q == c.peerAuth
            x == [c EXCEPT !.localAuthDone = ~u, !.peerAuthDone = ~q]
            y == [x EXCEPT !.phase = "Authenticate"]
            z == PapStartAuth(y)
            n == IF u \/ q THEN z ELSE x
            r == LcpThisLayerUp(c)
<1>1. u \in BOOLEAN /\ q \in BOOLEAN BY DEF Honest, Context
<1>2. /\ Honest(x) /\ SameSettings(c, x) /\ x.phase = c.phase
      /\ x.lcp.state = "Opened" /\ x.ipcp.state = "Initial" /\ x.linkUp = c.linkUp
      /\ x.pap.state = c.pap.state /\ x.peerAuth = q
      /\ x.localAuthDone <=> ~u
      /\ x.peerAuthDone <=> ~q
  BY <1>1 DEF Honest, Context, SameSettings
<1>3. r = EnterNetwork(n) BY DEF LcpThisLayerUp
<1>. HIDE DEF x
<1>4. /\ Honest(y) /\ SameSettings(x, y) /\ y.phase = "Authenticate"
      /\ y.lcp.state = "Opened" /\ y.ipcp.state = "Initial" /\ y.linkUp = x.linkUp
      /\ y.pap.state = x.pap.state /\ y.peerAuth = x.peerAuth
      /\ y.localAuthDone = x.localAuthDone /\ y.peerAuthDone = x.peerAuthDone
  BY <1>2 DEF Honest, Context, SameSettings
<1>. HIDE DEF y
<1>5. /\ Honest(z) /\ SameSettings(y, z) /\ z.phase = y.phase
      /\ z.lcp.state = y.lcp.state /\ z.ipcp.state = y.ipcp.state
      /\ z.linkUp = y.linkUp /\ z.localAuthDone = y.localAuthDone
      /\ z.peerAuthDone = y.peerAuthDone
      /\ ~y.peerAuth => z.pap.state = y.pap.state
  BY <1>4, PapStartAuthIs
<1>. HIDE DEF z
<1>6. CASE u \/ q
  <2>1. n = z BY <1>6
  <2>2. z.ipcp.state = "Initial" BY <1>4, <1>5
  <2>3. ~(z.localAuthDone /\ z.peerAuthDone) BY <1>2, <1>4, <1>5, <1>6
  <2>4. r = z BY <1>3, <1>5, <2>1, <2>2, <2>3, EnterNetworkIs
  <2>5. z.pap.state = "ReqSent" => ~z.peerAuthDone BY <1>2, <1>4, <1>5
  <2>6. Layers(z) BY <1>4, <1>5, <2>5 DEF Layers, Shows
  <2>7. SameSettings(c, z) BY <1>2, <1>4, <1>5 DEF SameSettings
  <2>8. z.localAuthDone => ~z.authenticates
    BY <1>2, <1>4, <1>5, <2>7 DEF SameSettings
  <2>9. Follows(c) => Follows(z) BY <1>2, <1>4, <1>5 DEF Follows
  <2>. QED BY <1>4, <1>5, <2>4, <2>6, <2>7, <2>8, <2>9 DEF Keeps
<1>7. CASE ~u /\ ~q
  <2>1. n = x BY <1>7
  <2>2. x.localAuthDone /\ x.peerAuthDone BY <1>2, <1>7
  <2>10. r = EnterNetwork(x) BY <1>3, <2>1
  <2>. HIDE DEF r
  <2>3. /\ Honest(r) /\ SameSettings(x, r)
        /\ r.phase = "Network" /\ r.ipcp.state = "ReqSent"
        /\ r.lcp.state = x.lcp.state /\ r.pap.state = x.pap.state
        /\ r.linkUp = x.linkUp /\ r.localAuthDone = x.localAuthDone
    BY <1>2, <2>2, <2>10, EnterNetworkIs
  <2>4. Layers(r) BY <1>2, <2>2, <2>3 DEF Layers, Shows
  <2>5. SameSettings(c, r) BY <1>2, <2>3 DEF SameSettings
  <2>6. ~r.authenticates BY <1>7, <2>5 DEF SameSettings
  <2>7. Follows(c) => Follows(r) BY <1>2, <2>3 DEF Follows
  <2>. QED BY <1>2, <2>3, <2>4, <2>5, <2>6, <2>7 DEF Keeps, r
<1>. QED BY <1>6, <1>7

LEMMA LcpDownSound ==
    ASSUME NEW c, Honest(c), c.lcp.state \notin {"Initial", "Starting", "Opened"},
           c.ipcp.state # "Starting", c.phase # "Dead"
    PROVE  Keeps(c, LcpThisLayerDown(c), FALSE)
<1>. DEFINE a == [c EXCEPT !.phase = "Terminate"]
            o == IpcpClose(a)
            d == [o EXCEPT !.pap.state = "Initial"]
<1>1. /\ Honest(a) /\ SameSettings(c, a) /\ a.phase = "Terminate"
      /\ a.lcp.state = c.lcp.state /\ a.ipcp.state = c.ipcp.state
      /\ a.linkUp = c.linkUp /\ a.localAuthDone = c.localAuthDone
  BY DEF Honest, Context, SameSettings
<1>2. LcpThisLayerDown(c) = d BY DEF LcpThisLayerDown
<1>. HIDE DEF a
<1>3. /\ OnlyIpcp(a, o) /\ o.ipcp.state = "Initial"
      /\ Follows(a) => ~o.linkUp
  BY <1>1, IpcpCloseIs
<1>. HIDE DEF o
<1>4. Honest(o) BY <1>3 DEF OnlyIpcp
<1>5. /\ Honest(d) /\ SameSettings(o, d) /\ d.phase = o.phase
      /\ d.lcp.state = o.lcp.state /\ d.ipcp.state = o.ipcp.state
      /\ d.pap.state = "Initial" /\ d.linkUp = o.linkUp
      /\ d.localAuthDone = o.localAuthDone
  BY <1>4 DEF Honest, Context, PapFsm, SameSettings
<1>. HIDE DEF d
<1>6. /\ o.phase = a.phase /\ o.lcp.state = a.lcp.state
      /\ o.localAuthDone = a.localAuthDone /\ SameSettings(a, o)
  BY <1>3 DEF OnlyIpcp, SameSettings
<1>7. Layers(d) BY <1>1, <1>3, <1>5, <1>6 DEF Layers, Shows
<1>8. SameSettings(c, d) BY <1>1, <1>5, <1>6 DEF SameSettings
<1>9. d.localAuthDone = c.localAuthDone BY <1>1, <1>5, <1>6
<1>10. Follows(c) => Follows(d) BY <1>1, <1>3, <1>5 DEF Follows
<1>. QED BY <1>2, <1>5, <1>7, <1>8, <1>9, <1>10 DEF Keeps

LEMMA LcpFinishedSound ==
    ASSUME NEW c, Honest(c), c.lcp.state \in {"Closed", "Stopped"},
           c.ipcp.state = "Initial", c.pap.state # "ReqSent"
    PROVE  Keeps(c, LcpThisLayerFinished(c), FALSE)
<1>. DEFINE t == DownEvent(CloseEvent(c.lcp.state).to).to
            d == [c EXCEPT !.lcp.state = t, !.phase = "Dead"]
<1>1. t = "Initial" BY DEF DownEvent, CloseEvent, Negotiating, To, Step
<1>2. LcpThisLayerFinished(c) = d BY DEF LcpThisLayerFinished
<1>. HIDE DEF t
<1>3. /\ Honest(d) /\ SameSettings(c, d) /\ d.phase = "Dead"
      /\ d.lcp.state = "Initial" /\ d.ipcp.state = c.ipcp.state
      /\ d.pap.state = c.pap.state /\ d.linkUp = c.linkUp
      /\ d.localAuthDone = c.localAuthDone
  BY <1>1 DEF Honest, Context, Fsm, States, SameSettings
<1>. HIDE DEF d
<1>4. Layers(d) BY <1>3 DEF Layers, Shows
<1>5. Follows(c) => Follows(d) BY <1>3 DEF Follows
<1>. QED BY <1>2, <1>3, <1>4, <1>5 DEF Keeps

LEMMA KeepsFrom ==
    ASSUME NEW c, NEW d, NEW r, NEW shown, Keeps(d, r, shown), SameSettings(c, d),
           d.phase = c.phase, d.localAuthDone = c.localAuthDone,
           d.ipcp.state = c.ipcp.state, d.linkUp = c.linkUp
    PROVE  Keeps(c, r, shown)
BY DEF Keeps, SameSettings, Follows

LEMMA LcpEnters ==
    ASSUME NEW c, Honest(c), NEW to \in States
    PROVE  LET a == [c EXCEPT !.lcp.state = to] IN
           /\ Honest(a) /\ SameSettings(c, a) /\ a.lcp.state = to
           /\ a.phase = c.phase /\ a.linkUp = c.linkUp
           /\ a.ipcp.state = c.ipcp.state /\ a.pap.state = c.pap.state
           /\ a.localAuthDone = c.localAuthDone /\ a.peerAuthDone = c.peerAuthDone
BY DEF Honest, SameSettings, Context, Fsm

LEMMA LcpSound ==
    ASSUME NEW c, Honest(c), Layers(c), NEW step, Sound(c.lcp.state, step),
           NEW m, Readable(m)
    PROVE  Keeps(c, Lcp(c, step, m), FALSE)
<1>. DEFINE s == c.lcp.state
            to == step.to
            a == [c EXCEPT !.lcp.state = step.to]
            r == Lcp(c, step, m)
<1>1. WellFormed(step) /\ to \in States BY DEF Sound, WellFormed
<1>2. /\ Honest(a) /\ SameSettings(c, a) /\ a.lcp.state = to
      /\ a.phase = c.phase /\ a.linkUp = c.linkUp
      /\ a.ipcp.state = c.ipcp.state /\ a.pap.state = c.pap.state
      /\ a.localAuthDone = c.localAuthDone /\ a.peerAuthDone = c.peerAuthDone
  BY <1>1, LcpEnters
<1>3. PICK d : /\ Alike(a, d)
               /\ \/ (\A x \in Layer : ~Calls(step, x)) /\ r = d
                  \/ \E x \in Layer : Calls(step, x) /\ r = LcpDo(d, x, m)
  BY <1>1, <1>2, LcpRuns
<1>. HIDE DEF a, r
<1>4. /\ Honest(d) /\ SameSettings(c, d) /\ d.lcp.state = to
      /\ d.phase = c.phase /\ d.linkUp = c.linkUp
      /\ d.ipcp.state = c.ipcp.state /\ d.pap.state = c.pap.state
      /\ d.localAuthDone = c.localAuthDone /\ d.peerAuthDone = c.peerAuthDone
  BY <1>2, <1>3 DEF Alike, SameSettings
<1>5. /\ Calls(step, "tlu") <=> s # "Opened" /\ to = "Opened"
      /\ Calls(step, "tld") <=> s = "Opened" /\ to # "Opened"
      /\ Calls(step, "tlf") => s # "Opened" /\ to \in {"Closed", "Stopped"}
      /\ s = "Initial" => to = "Initial"
      /\ s # "Initial" => to # "Initial"
      /\ to # "Starting"
  BY DEF Sound
<1>6. /\ s # "Starting" /\ c.ipcp.state # "Starting"
      /\ c.phase \in {"Authenticate", "Network"} => s = "Opened"
      /\ c.phase = "Dead" => s = "Initial"
      /\ c.ipcp.state # "Initial" => c.phase = "Network"
      /\ c.pap.state = "ReqSent" => c.phase = "Authenticate" /\ ~c.peerAuthDone
      /\ Shows(c)
  BY DEF Layers
<1>. HIDE DEF s, to
<1>7. CASE (\A x \in Layer : ~Calls(step, x)) /\ r = d
  <2>1. to = "Opened" <=> s = "Opened" BY <1>5, <1>7 DEF Layer
  <2>2. Shows(d) BY <1>4, <1>6 DEF Shows
  <2>3. Layers(d) BY <1>4, <1>5, <1>6, <2>1, <2>2 DEF Layers
  <2>4. Follows(c) => Follows(d) BY <1>4 DEF Follows
  <2>. QED BY <1>4, <1>7, <2>3, <2>4 DEF Keeps, r
<1>8. ASSUME NEW x \in Layer, Calls(step, x), r = LcpDo(d, x, m)
      PROVE  Keeps(d, r, FALSE)
  <2>1. CASE x = "tlu"
    <3>1. r = LcpThisLayerUp(d) BY <1>8, <2>1 DEF LcpDo
    <3>2. s # "Opened" /\ to = "Opened" BY <1>5, <1>8, <2>1
    <3>3. c.phase \notin {"Dead", "Authenticate", "Network"}
      BY <1>5, <1>6, <3>2
    <3>. QED BY <1>4, <1>6, <3>1, <3>2, <3>3, LcpUpSound
  <2>2. CASE x = "tld"
    <3>1. r = LcpThisLayerDown(d) BY <1>8, <2>2 DEF LcpDo
    <3>2. s = "Opened" /\ to # "Opened" BY <1>5, <1>8, <2>2
    <3>3. to \notin {"Initial", "Starting", "Opened"} BY <1>5, <3>2
    <3>. QED BY <1>4, <1>6, <3>1, <3>2, <3>3, LcpDownSound
  <2>3. CASE x = "tlf"
    <3>1. r = LcpThisLayerFinished(d) BY <1>8, <2>3 DEF LcpDo
    <3>2. s # "Opened" /\ to \in {"Closed", "Stopped"} BY <1>5, <1>8, <2>3
    <3>. QED BY <1>4, <1>6, <3>1, <3>2, LcpFinishedSound
  <2>. QED BY <2>1, <2>2, <2>3 DEF Layer
<1>9. ASSUME Keeps(d, r, FALSE)
      PROVE  Keeps(c, r, FALSE)
  BY <1>4, <1>9, KeepsFrom
<1>. QED BY <1>3, <1>7, <1>8, <1>9 DEF r

LEMMA LcpCloseSound ==
    ASSUME NEW c, Honest(c), Layers(c)
    PROVE  Keeps(c, LcpClose(c), FALSE)
<1>1. c.lcp.state \in States /\ c.lcp.state # "Starting"
  BY DEF Honest, Layers, Context, Fsm
<1>. QED BY <1>1, CloseSound, LcpSound, NoPacketReadable DEF LcpClose

LEMMA KeepsReflexive ==
    ASSUME NEW c, Honest(c), Layers(c), NEW shown
    PROVE  Keeps(c, c, shown)
BY DEF Keeps, SameSettings

LEMMA KeepsShown ==
    ASSUME NEW c, NEW d, Keeps(c, d, FALSE), NEW shown
    PROVE  Keeps(c, d, shown)
BY DEF Keeps

LEMMA LcpPacketSound ==
    ASSUME NEW c, Honest(c), Layers(c), NEW m \in Packets
    PROVE  Keeps(c, LcpProcessPacket(c, m), FALSE)
<1>. DEFINE r == LcpProcessPacket(c, m)
            s == c.lcp.state
<1>1. s \in States /\ s # "Starting" BY DEF Honest, Layers, Context, Fsm
<1>2. Readable(m) BY DEF Readable, Packets
<1>3. \A step : Sound(s, step) => Keeps(c, Lcp(c, step, m), FALSE)
  BY <1>2, LcpSound
<1>4. CASE m.code = "ConfigureReq"
  <2>1. \/ r = Lcp(c, RcvConfigureReqRefused(s, "scj"), m)
        \/ r = Lcp(c, RcvConfigureReqAcceptable(s), m)
    BY <1>4 DEF LcpProcessPacket
  <2>. QED BY <1>1, <1>3, <2>1, RefusedSound, AcceptableSound
<1>5. CASE m.code = "ConfigureAck" /\ m.id = c.lcp.id
  <2>1. r = Lcp(c, RcvConfigureAckEvent(s), m) BY <1>5 DEF LcpProcessPacket
  <2>. QED BY <1>1, <1>3, <2>1, AckSound
<1>6. CASE m.code = "ConfigureRej" /\ m.id = c.lcp.id
  <2>1. r = Lcp(c, RcvCodeRejCatastrophic(s), m) BY <1>6 DEF LcpProcessPacket
  <2>. QED BY <1>1, <1>3, <2>1, CatastrophicSound
<1>7. CASE m.code = "TerminateReq"
  <2>1. r = Lcp(c, RcvTerminateReqEvent(s), m) BY <1>7 DEF LcpProcessPacket
  <2>. QED BY <1>1, <1>3, <2>1, TerminateReqSound
<1>8. CASE m.code = "TerminateAck"
  <2>1. r = Lcp(c, RcvTerminateAckEvent(s), m) BY <1>8 DEF LcpProcessPacket
  <2>. QED BY <1>1, <1>3, <2>1, TerminateAckSound
<1>9. CASE /\ m.code \notin {"ConfigureReq", "TerminateReq", "TerminateAck"}
           /\ m.code \in {"ConfigureAck", "ConfigureRej"} => m.id # c.lcp.id
  <2>1. r = c BY <1>9 DEF LcpProcessPacket
  <2>. QED BY <2>1, KeepsReflexive
<1>. QED BY <1>4, <1>5, <1>6, <1>7, <1>8, <1>9

\* IPCP alone: its automaton stays at rest, or at work.
LEMMA IpcpKeeps ==
    ASSUME NEW c, Honest(c), Layers(c), NEW d, OnlyIpcp(c, d), Shows(d),
           d.ipcp.state # "Starting",
           c.ipcp.state = "Initial" <=> d.ipcp.state = "Initial",
           Follows(c) => Follows(d), NEW shown
    PROVE  Keeps(c, d, shown)
<1>0. SameSettings(c, d) /\ Honest(d) BY DEF OnlyIpcp, SameSettings
<1>1. d.peerAuthDone = c.peerAuthDone /\ d.localAuthDone = c.localAuthDone
  BY DEF OnlyIpcp
<1>2. d.phase = c.phase /\ d.lcp.state = c.lcp.state /\ d.pap.state = c.pap.state
  BY DEF OnlyIpcp
<1>3. Layers(d) BY <1>1, <1>2 DEF Layers
<1>. QED BY <1>0, <1>1, <1>2, <1>3 DEF Keeps

-----------------------------------------------------------------------------
(* PAP and the frames.                                                     *)

LEMMA PapEnters ==
    ASSUME NEW c, Honest(c), Layers(c), c.phase = "Authenticate",
           NEW b, Honest(b), SameSettings(c, b), NEW shown,
           b.phase = c.phase, b.lcp.state = c.lcp.state, b.ipcp.state = c.ipcp.state,
           b.linkUp = c.linkUp, b.pap.state = "ReqSent" => ~b.peerAuthDone,
           b.localAuthDone => c.localAuthDone \/ shown
    PROVE  Keeps(c, EnterNetwork(b), shown)
<1>. DEFINE r == EnterNetwork(b)
<1>1. /\ c.ipcp.state = "Initial" /\ c.lcp.state = "Opened"
      /\ b.ipcp.state = "Initial" /\ b.lcp.state = "Opened"
  BY DEF Layers
<1>2. CASE b.localAuthDone /\ b.peerAuthDone
  <2>1. /\ Honest(r) /\ SameSettings(b, r) /\ r.phase = "Network"
        /\ r.ipcp.state = "ReqSent" /\ r.lcp.state = b.lcp.state
        /\ r.pap.state = b.pap.state /\ r.linkUp = b.linkUp
        /\ r.localAuthDone = b.localAuthDone
    BY <1>1, <1>2, EnterNetworkIs
  <2>. HIDE DEF r
  <2>2. Layers(r) BY <1>1, <1>2, <2>1 DEF Layers, Shows
  <2>3. SameSettings(c, r) BY <2>1 DEF SameSettings
  <2>4. Follows(c) => Follows(r) BY <1>1, <2>1 DEF Follows
  <2>. QED BY <1>2, <2>1, <2>2, <2>3, <2>4 DEF Keeps, r
<1>3. CASE ~(b.localAuthDone /\ b.peerAuthDone)
  <2>1. r = b BY <1>1, <1>3, EnterNetworkIs
  <2>2. Layers(b) BY <1>1 DEF Layers, Shows
  <2>3. Follows(c) => Follows(b) BY <1>1 DEF Follows
  <2>. QED BY <2>1, <2>2, <2>3 DEF Keeps
<1>. QED BY <1>2, <1>3

\* An authentication in the phase of the network changes nothing else.
LEMMA PapStays ==
    ASSUME NEW c, Honest(c), Layers(c), c.phase = "Network",
           NEW b, Honest(b), SameSettings(c, b), NEW shown,
           b.phase = c.phase, b.lcp.state = c.lcp.state, b.ipcp.state = c.ipcp.state,
           b.linkUp = c.linkUp, b.pap.state # "ReqSent",
           b.localAuthDone => c.localAuthDone \/ shown,
           c.localAuthDone => b.localAuthDone
    PROVE  Keeps(c, b, shown)
<1>1. Layers(b) BY DEF Layers, Shows
<1>2. Follows(c) => Follows(b) BY DEF Follows
<1>. QED BY <1>1, <1>2 DEF Keeps

\* A correct password is one that the peer knows.
LEMMA PapAuthReqSound ==
    ASSUME NEW c, Honest(c), Layers(c), c.phase \in {"Authenticate", "Network"},
           NEW pw \in BOOLEAN, NEW m \in PacketsOf(pw),
           m.protocol = "pap", m.code = "AuthReq"
    PROVE  Keeps(c, PapProcessAuthReq(c, m), pw)
<1>. DEFINE r == PapProcessAuthReq(c, m)
            x == Send(c, "pap", "AuthAck", m.id, NoOptions)
            b == [x EXCEPT !.localAuthDone = TRUE]
            n == Send(c, "pap", "AuthNak", m.id, NoOptions)
<1>1. m \in Packets /\ m.options.auth = pw BY DEF PacketsOf
<1>2. m.id \in Id BY <1>1 DEF Packets
<1>3. Alike(c, x) /\ x.pap = c.pap BY <1>2, Numbers, SendAlike DEF Codes
<1>4. Alike(c, n) BY <1>2, Numbers, SendAlike DEF Codes
<1>5. CASE ~c.authenticates
  <2>1. r = c BY <1>5 DEF PapProcessAuthReq
  <2>. QED BY <2>1, KeepsReflexive
<1>6. CASE c.authenticates /\ m.options.auth
  <2>1. r = IF c.phase = "Authenticate" THEN EnterNetwork(b) ELSE b
    BY <1>6 DEF PapProcessAuthReq
  <2>. HIDE DEF x
  <2>2. Honest(x) BY <1>3 DEF Alike
  <2>3. /\ Honest(b) /\ SameSettings(x, b) /\ b.phase = x.phase
        /\ b.lcp.state = x.lcp.state /\ b.ipcp.state = x.ipcp.state
        /\ b.linkUp = x.linkUp /\ b.pap.state = x.pap.state
        /\ b.peerAuthDone = x.peerAuthDone /\ b.localAuthDone
    BY <2>2 DEF Honest, Context, SameSettings
  <2>. HIDE DEF b, r
  <2>4. /\ SameSettings(c, b) /\ b.phase = c.phase
        /\ b.lcp.state = c.lcp.state /\ b.ipcp.state = c.ipcp.state
        /\ b.linkUp = c.linkUp /\ b.pap.state = c.pap.state
        /\ b.peerAuthDone = c.peerAuthDone
    BY <1>3, <2>3 DEF Alike, SameSettings
  <2>5. b.pap.state = "ReqSent" => c.phase = "Authenticate" /\ ~b.peerAuthDone
    BY <2>4 DEF Layers
  <2>6. pw BY <1>1, <1>6
  <2>7. CASE c.phase = "Authenticate"
    <3>1. r = EnterNetwork(b) BY <2>1, <2>7
    <3>. QED BY <2>3, <2>4, <2>5, <2>6, <2>7, <3>1, PapEnters DEF r
  <2>8. CASE c.phase = "Network"
    <3>1. r = b BY <2>1, <2>8
    <3>. QED BY <2>3, <2>4, <2>5, <2>6, <2>8, <3>1, PapStays DEF r
  <2>. QED BY <2>7, <2>8
<1>7. CASE c.authenticates /\ ~m.options.auth
  <2>1. r = LcpClose(n) BY <1>7 DEF PapProcessAuthReq
  <2>. HIDE DEF n
  <2>2. Honest(n) BY <1>4 DEF Alike
  <2>3. n.peerAuthDone = c.peerAuthDone /\ n.linkUp = c.linkUp
    BY <1>4 DEF Alike
  <2>4. Layers(n) BY <1>4, <2>3 DEF Alike, Layers, Shows
  <2>5. Keeps(n, LcpClose(n), FALSE) BY <2>2, <2>4, LcpCloseSound
  <2>6. Keeps(c, LcpClose(n), FALSE)
    BY <1>4, <2>5, KeepsFrom DEF Alike, SameSettings
  <2>. QED BY <2>1, <2>6, KeepsShown
<1>. QED BY <1>5, <1>6, <1>7

LEMMA PapAuthAckSound ==
    ASSUME NEW c, Honest(c), Layers(c), c.phase \in {"Authenticate", "Network"}
    PROVE  Keeps(c, PapProcessAuthAck(c), FALSE)
<1>. DEFINE b == [c EXCEPT !.pap.state = "AckRcvd", !.peerAuthDone = TRUE]
            r == PapProcessAuthAck(c)
<1>1. r = IF c.phase = "Authenticate" THEN EnterNetwork(b) ELSE b
  BY DEF PapProcessAuthAck
<1>2. /\ Honest(b) /\ SameSettings(c, b) /\ b.phase = c.phase
      /\ b.lcp.state = c.lcp.state /\ b.ipcp.state = c.ipcp.state
      /\ b.linkUp = c.linkUp /\ b.pap.state = "AckRcvd"
      /\ b.localAuthDone = c.localAuthDone
  BY DEF Honest, Context, PapFsm, SameSettings
<1>. HIDE DEF b, r
<1>3. CASE c.phase = "Authenticate"
  <2>1. r = EnterNetwork(b) BY <1>1, <1>3
  <2>. QED BY <1>2, <1>3, <2>1, PapEnters DEF r
<1>4. CASE c.phase = "Network"
  <2>1. r = b BY <1>1, <1>4
  <2>. QED BY <1>2, <1>4, <2>1, PapStays DEF r
<1>. QED BY <1>3, <1>4

\* PAP gives up: the link is closed.
LEMMA PapCloses ==
    ASSUME NEW c, Honest(c), Layers(c), NEW t \in {"Initial", "NakRcvd"}
    PROVE  Keeps(c, LcpClose([c EXCEPT !.pap.state = t]), FALSE)
<1>. DEFINE b == [c EXCEPT !.pap.state = t]
<1>1. /\ Honest(b) /\ SameSettings(c, b) /\ b.phase = c.phase
      /\ b.lcp.state = c.lcp.state /\ b.ipcp.state = c.ipcp.state
      /\ b.linkUp = c.linkUp /\ b.pap.state # "ReqSent"
      /\ b.localAuthDone = c.localAuthDone
  BY DEF Honest, Context, PapFsm, SameSettings
<1>. HIDE DEF b
<1>2. Layers(b) BY <1>1 DEF Layers, Shows
<1>3. Keeps(b, LcpClose(b), FALSE) BY <1>1, <1>2, LcpCloseSound
<1>4. Keeps(c, LcpClose(b), FALSE) BY <1>1, <1>3, KeepsFrom
<1>. QED BY <1>4 DEF b

LEMMA PapPacketSound ==
    ASSUME NEW c, Honest(c), Layers(c), NEW pw \in BOOLEAN, NEW m \in PacketsOf(pw),
           m.protocol = "pap"
    PROVE  Keeps(c, PapProcessPacket(c, m), pw)
<1>. DEFINE r == PapProcessPacket(c, m)
<1>1. CASE c.phase \notin {"Authenticate", "Network"}
  <2>1. r = c BY <1>1 DEF PapProcessPacket
  <2>. QED BY <2>1, KeepsReflexive
<1>2. CASE c.phase \in {"Authenticate", "Network"} /\ m.code = "AuthReq"
  <2>1. r = PapProcessAuthReq(c, m) BY <1>2 DEF PapProcessPacket
  <2>. QED BY <1>2, <2>1, PapAuthReqSound
<1>3. CASE /\ c.phase \in {"Authenticate", "Network"}
           /\ m.code = "AuthAck" /\ c.peerAuth /\ m.id = c.pap.id
  <2>1. r = PapProcessAuthAck(c) BY <1>3 DEF PapProcessPacket
  <2>. QED BY <1>3, <2>1, PapAuthAckSound, KeepsShown
<1>4. CASE /\ c.phase \in {"Authenticate", "Network"}
           /\ m.code = "AuthNak" /\ c.peerAuth /\ m.id = c.pap.id
  <2>1. r = LcpClose([c EXCEPT !.pap.state = "NakRcvd"])
    BY <1>4 DEF PapProcessPacket
  <2>. QED BY <2>1, PapCloses, KeepsShown
<1>5. CASE /\ c.phase \in {"Authenticate", "Network"} /\ m.code # "AuthReq"
           /\ m.code \in {"AuthAck", "AuthNak"} => ~(c.peerAuth /\ m.id = c.pap.id)
  <2>1. r = c BY <1>5 DEF PapProcessPacket
  <2>. QED BY <2>1, KeepsReflexive
<1>. QED BY <1>1, <1>2, <1>3, <1>4, <1>5

\* Whatever the frame.
LEMMA FrameSound ==
    ASSUME NEW c, Honest(c), Layers(c), NEW pw \in BOOLEAN, NEW m \in PacketsOf(pw)
    PROVE  Keeps(c, PppProcessFrame(c, m), pw)
<1>. DEFINE r == PppProcessFrame(c, m)
<1>1. m \in Packets BY DEF PacketsOf
<1>2. CASE m.protocol = "lcp"
  <2>1. r = LcpProcessPacket(c, m) BY <1>2 DEF PppProcessFrame
  <2>. QED BY <1>1, <2>1, LcpPacketSound, KeepsShown
<1>3. CASE m.protocol = "ipcp"
  <2>. DEFINE d == IpcpProcessPacket(c, m)
  <2>1. r = d BY <1>3 DEF PppProcessFrame
  <2>2. Shows(c) /\ c.ipcp.state # "Starting" BY DEF Layers
  <2>3. /\ OnlyIpcp(c, d) /\ Shows(d) /\ d.ipcp.state # "Starting"
        /\ c.ipcp.state = "Initial" <=> d.ipcp.state = "Initial"
        /\ Follows(c) => Follows(d)
    BY <1>1, <2>2, IpcpPacketSound
  <2>. HIDE DEF d
  <2>. QED BY <2>1, <2>3, IpcpKeeps
<1>4. CASE m.protocol = "pap"
  <2>1. r = PapProcessPacket(c, m) BY <1>4 DEF PppProcessFrame
  <2>. QED BY <1>4, <2>1, PapPacketSound
<1>. QED BY <1>1, <1>2, <1>3, <1>4 DEF Packets

-----------------------------------------------------------------------------
(* Timers and calls.                                                       *)

LEMMA AlikeKeeps ==
    ASSUME NEW c, Honest(c), Layers(c), NEW d, Alike(c, d)
    PROVE  Keeps(c, d, FALSE)
<1>1. d.peerAuthDone = c.peerAuthDone /\ d.localAuthDone = c.localAuthDone
  BY DEF Alike
<1>2. d.ipcp.state = "Opened" => d.linkUp BY DEF Alike, Layers, Shows
<1>3. Layers(d) BY <1>1, <1>2 DEF Alike, Layers, Shows
<1>4. Follows(c) => Follows(d) BY DEF Alike, Follows
<1>. QED BY <1>1, <1>3, <1>4 DEF Alike, Keeps, SameSettings

LEMMA LcpTickSound ==
    ASSUME NEW c, Honest(c), Layers(c)
    PROVE  Keeps(c, Lcp(c, TimeoutEvent(c.lcp.state, c.lcp.count), NoPacket), FALSE)
<1>1. c.lcp \in Fsm /\ c.lcp.state # "Starting" BY DEF Honest, Layers, Context
<1>2. c.lcp.state \in States /\ c.lcp.count \in Nat BY <1>1, Numbers DEF Fsm
<1>3. Sound(c.lcp.state, TimeoutEvent(c.lcp.state, c.lcp.count))
  BY <1>1, <1>2, TimeoutSound
<1>. QED BY <1>3, LcpSound, NoPacketReadable

LEMMA IpcpTickSound ==
    ASSUME NEW c, Honest(c), Layers(c)
    PROVE  Keeps(c, Ipcp(c, TimeoutEvent(c.ipcp.state, c.ipcp.count), NoPacket), FALSE)
<1>. DEFINE step == TimeoutEvent(c.ipcp.state, c.ipcp.count)
            d == Ipcp(c, step, NoPacket)
<1>1. c.ipcp \in Fsm /\ c.ipcp.state # "Starting" /\ Shows(c)
  BY DEF Honest, Layers, Context
<1>2. c.ipcp.state \in States /\ c.ipcp.count \in Nat BY <1>1, Numbers DEF Fsm
<1>3. Sound(c.ipcp.state, step) BY <1>1, <1>2, TimeoutSound
<1>. HIDE DEF step
<1>4. /\ OnlyIpcp(c, d) /\ d.ipcp.state = step.to /\ Shows(d)
      /\ Follows(c) => Follows(d)
  BY <1>1, <1>3, IpcpSound, NoPacketReadable
<1>5. /\ step.to # "Starting"
      /\ c.ipcp.state = "Initial" <=> step.to = "Initial"
  BY <1>3 DEF Sound
<1>. HIDE DEF d
<1>6. Keeps(c, d, FALSE) BY <1>4, <1>5, IpcpKeeps
<1>. QED BY <1>6 DEF d, step

LEMMA PapTickSound ==
    ASSUME NEW c, Honest(c), Layers(c)
    PROVE  /\ Keeps(c, PapSendAuthReq(c), FALSE)
           /\ Keeps(c, LcpClose([c EXCEPT !.pap.state = "Initial"]), FALSE)
BY PapSendAuthReqAlike, AlikeKeeps, PapCloses

LEMMA NewFsmType == NewFsm \in Fsm /\ NewFsm \in PapFsm
<1>1. 0 \in (0 .. MaxConfigure) \union (0 .. MaxTerminate) /\ 0 \in 0 .. MaxRequests
  BY Numbers
<1>. QED BY <1>1, Numbers DEF NewFsm, Fsm, PapFsm, States, Id

LEMMA PreparedIs ==
    ASSUME NEW c, Honest(c)
    PROVE  LET d == [Prepared(c) EXCEPT !.phase = "Establish"] IN
           /\ Honest(d) /\ SameSettings(c, d) /\ d.phase = "Establish"
           /\ d.lcp.state = "Initial" /\ d.ipcp.state = "Initial"
           /\ d.pap.state = "Initial" /\ d.linkUp = c.linkUp
           /\ ~d.localAuthDone
<1>1. /\ NewFsm \in Fsm /\ NewFsm \in PapFsm /\ NewFsm.state = "Initial"
  BY NewFsmType DEF NewFsm
<1>. QED BY <1>1 DEF Prepared, Honest, Context, SameSettings

LEMMA ConnectSound ==
    ASSUME NEW c, Honest(c)
    PROVE  LET d == LcpOpen(Prepared(c)) IN
           /\ Honest(d) /\ Layers(d) /\ SameSettings(c, d)
           /\ ~d.localAuthDone /\ d.linkUp = c.linkUp
<1>. DEFINE p == [Prepared(c) EXCEPT !.phase = "Establish"]
            s1 == OpenEvent("Initial")
            a == [p EXCEPT !.lcp.state = s1.to]
            o == Lcp(p, s1, NoPacket)
            s2 == UpEvent("Starting")
            b == [o EXCEPT !.lcp.state = s2.to]
            d == Lcp(o, s2, NoPacket)
            Half(x, y) == /\ Honest(y) /\ SameSettings(x, y) /\ y.phase = x.phase
                          /\ y.ipcp.state = x.ipcp.state /\ y.pap.state = x.pap.state
                          /\ y.linkUp = x.linkUp /\ y.localAuthDone = x.localAuthDone
<1>1. /\ Honest(p) /\ SameSettings(c, p) /\ p.phase = "Establish"
      /\ p.lcp.state = "Initial" /\ p.ipcp.state = "Initial"
      /\ p.pap.state = "Initial" /\ p.linkUp = c.linkUp
      /\ ~p.localAuthDone
  BY PreparedIs
<1>2. Prepared(c).lcp.state = "Initial" BY DEF Prepared, NewFsm, Honest, Context
<1>3. /\ WellFormed(s1) /\ s1.to = "Starting" /\ s1.to \in States
      /\ \A x \in Layer : ~Calls(s1, x)
  BY DEF OpenEvent, To, Step, WellFormed, Calls, States, Layer
<1>4. /\ WellFormed(s2) /\ s2.to = "ReqSent" /\ s2.to \in States
      /\ \A x \in Layer : ~Calls(s2, x)
  BY DEF UpEvent, To, Step, WellFormed, Calls, States, Shared, Layer
<1>. HIDE DEF p, s1, s2
<1>5. /\ Honest(a) /\ SameSettings(p, a) /\ a.lcp.state = "Starting"
      /\ a.phase = p.phase /\ a.linkUp = p.linkUp
      /\ a.ipcp.state = p.ipcp.state /\ a.pap.state = p.pap.state
      /\ a.localAuthDone = p.localAuthDone
  BY <1>1, <1>3, LcpEnters
<1>6. Alike(a, o) BY <1>3, <1>5, LcpRuns, NoPacketReadable
<1>7. Half(p, o) /\ o.lcp.state = "Starting"
  BY <1>5, <1>6 DEF Alike, SameSettings
<1>8. LcpOpen(Prepared(c)) = d
  BY <1>2, <1>7 DEF LcpOpen, p, s1, s2
<1>. HIDE DEF a, o
<1>9. /\ Honest(b) /\ SameSettings(o, b) /\ b.lcp.state = "ReqSent"
      /\ b.phase = o.phase /\ b.linkUp = o.linkUp
      /\ b.ipcp.state = o.ipcp.state /\ b.pap.state = o.pap.state
      /\ b.localAuthDone = o.localAuthDone
  BY <1>4, <1>7, LcpEnters
<1>10. Alike(b, d) BY <1>4, <1>9, LcpRuns, NoPacketReadable
<1>11. Half(o, d) /\ d.lcp.state = "ReqSent"
  BY <1>9, <1>10 DEF Alike, SameSettings
<1>. HIDE DEF d
<1>12. /\ Honest(d) /\ SameSettings(c, d) /\ d.phase = "Establish"
       /\ d.lcp.state = "ReqSent" /\ d.ipcp.state = "Initial"
       /\ d.pap.state = "Initial" /\ d.linkUp = c.linkUp
       /\ ~d.localAuthDone
  BY <1>1, <1>7, <1>11 DEF SameSettings
<1>13. Layers(d) BY <1>12 DEF Layers, Shows
<1>. QED BY <1>8, <1>12, <1>13

-----------------------------------------------------------------------------
(* The link.                                                               *)

Users == {"idle", "connecting", "connected", "closing", "aborting"}

\* An end: in step, nothing left to send, and content with its peer only if the
\* peer knows the password; what it has sent tells whether it knows one.
EndInv(e) ==
    /\ Honest(ctx[e]) /\ Layers(ctx[e]) /\ ctx[e].out = << >>
    /\ wire[e] \in Seq(PacketsOf(ctx[e].password))
    /\ ctx[e].localAuthDone /\ ctx[e].authenticates => ctx[Peer(e)].password

\* As long as no call is aborted by its timeout the interface follows IPCP, and
\* a user that is to call pppConnect finds the link dead.
UserInv(e) ==
    /\ Follows(ctx[e])
    /\ user[e] \in {"idle", "aborting"} => ctx[e].phase = "Dead"

FaultKinds == {"lost", "early", "timeout"}

Typed ==
    /\ ctx \in [Ends -> Context] /\ wire \in [Ends -> Seq(Packets)]
    /\ user \in [Ends -> Users]
    /\ faults \in [FaultKinds -> Nat]

IInv ==
    /\ Typed
    /\ \A e \in Ends : EndInv(e)
    /\ faults["timeout"] = 0 => \A e \in Ends : UserInv(e)

LEMMA PeerIs ==
    ASSUME NEW e \in Ends
    PROVE  /\ Peer(e) \in Ends /\ Peer(e) # e /\ Peer(Peer(e)) = e
           /\ \A x \in Ends : x = e \/ x = Peer(e)
<1>1. PICK f \in Ends : Ends \ {e} = {f} BY EndsAssumption
<1>2. \A x \in Ends : x # e <=> x = f BY <1>1
<1>3. Peer(e) = f BY <1>2 DEF Peer
<1>4. Peer(f) = e BY <1>2 DEF Peer
<1>. QED BY <1>2, <1>3, <1>4

LEMMA InitialLink ==
    Init => IInv
<1>. SUFFICES ASSUME Init PROVE IInv OBVIOUS
<1>1. PICK s \in Setups : ctx = [e \in Ends |-> Fresh(s[e])] BY DEF Init
<1>2. \A e \in Ends : s[e] \in Setup BY SetupsAssumption
<1>3. ASSUME NEW e \in Ends
      PROVE  s[e].addr \in Addresses /\ s[e].gateway \in Addresses
  <2>. DEFINE A == {{r[x].addr, r[x].gateway} : r \in Setups, x \in Ends}
  <2>1. {s[e].addr, s[e].gateway} \in A OBVIOUS
  <2>2. Addresses = {Unspecified} \union UNION A BY DEF Addresses
  <2>. HIDE DEF A
  <2>. QED BY <2>1, <2>2
<1>4. NewFsm \in Fsm /\ NewFsm \in PapFsm /\ NewFsm.state = "Initial"
  BY NewFsmType DEF NewFsm
<1>5. \A S : << >> \in Seq(S) OBVIOUS
<1>6. ASSUME NEW e \in Ends
      PROVE  /\ ctx[e] \in Context /\ Honest(ctx[e]) /\ Layers(ctx[e])
             /\ ctx[e].out = << >> /\ ~ctx[e].localAuthDone /\ ~ctx[e].linkUp
             /\ ctx[e].phase = "Dead"
  <2>. DEFINE c == ctx[e]
  <2>1. c = Fresh(s[e]) BY <1>1
  <2>2. s[e] \in Setup /\ s[e].addr \in Addresses /\ s[e].gateway \in Addresses
    BY <1>2, <1>3
  <2>. HIDE DEF c
  <2>3. c \in Context BY <1>4, <1>5, <2>1, <2>2, Numbers DEF Fresh, Context, Setup
  <2>4. /\ c.phase = "Dead" /\ c.lcp = NewFsm /\ c.ipcp = NewFsm /\ c.pap = NewFsm
        /\ ~c.localAuthDone /\ ~c.linkUp /\ c.out = << >>
    BY <2>1 DEF Fresh
  <2>5. Honest(c) BY <1>5, <2>3, <2>4 DEF Honest
  <2>6. Layers(c) BY <1>4, <2>4 DEF Layers, Shows
  <2>. QED BY <2>3, <2>4, <2>5, <2>6 DEF c
<1>7. /\ wire = [e \in Ends |-> << >>] /\ user = [e \in Ends |-> "idle"]
      /\ faults = [f \in FaultKinds |-> 0]
  BY DEF Init, FaultKinds
<1>8. ctx \in [Ends -> Context] BY <1>1, <1>6
<1>9. Typed BY <1>5, <1>7, <1>8 DEF Typed, Users
<1>10. \A e \in Ends : EndInv(e) BY <1>5, <1>6, <1>7 DEF EndInv
<1>11. \A e \in Ends : UserInv(e) BY <1>6 DEF UserInv, Follows
<1>. QED BY <1>9, <1>10, <1>11 DEF IInv

\* End e is left with c, before being on the lines.
LEMMA BecomesLink ==
    ASSUME Typed, \A x \in Ends : EndInv(x), NEW e \in Ends,
           NEW c, Honest(c), Layers(c), SameSettings(ctx[e], c),
           c.localAuthDone /\ c.authenticates => ctx[Peer(e)].password,
           NEW before \in [Ends -> Seq(Packets)],
           \A x \in Ends : before[x] \in Seq(PacketsOf(ctx[x].password)),
           Becomes(e, c, before)
    PROVE  /\ ctx' \in [Ends -> Context] /\ wire' \in [Ends -> Seq(Packets)]
           /\ \A x \in Ends : EndInv(x)'
           /\ ctx' = [ctx EXCEPT ![e] = [c EXCEPT !.out = << >>]]
           /\ \A x \in Ends \ {e} : ctx'[x] = ctx[x]
           /\ ctx'[e].phase = c.phase /\ ctx'[e].linkUp = c.linkUp
           /\ ctx'[e].ipcp.state = c.ipcp.state
<1>. DEFINE d == [c EXCEPT !.out = << >>]
            w == before[e] \o c.out
<1>1. ctx' = [ctx EXCEPT ![e] = d] /\ wire' = [before EXCEPT ![e] = w]
  BY DEF Becomes
<1>2. c \in Context /\ c.out \in Seq(PacketsOf(c.password)) BY DEF Honest
<1>3. c.password = ctx[e].password /\ c.authenticates = ctx[e].authenticates
  BY DEF SameSettings
<1>0. \A S : << >> \in Seq(S) OBVIOUS
<1>4. /\ d \in Context /\ d.out = << >> /\ d.password = c.password
      /\ d.phase = c.phase /\ d.linkUp = c.linkUp /\ d.lcp = c.lcp
      /\ d.ipcp = c.ipcp /\ d.pap = c.pap /\ d.localAuthDone = c.localAuthDone
      /\ d.peerAuthDone = c.peerAuthDone /\ d.authenticates = c.authenticates
  BY <1>0, <1>2 DEF Context
<1>. HIDE DEF d
<1>5. Honest(d) BY <1>0, <1>4 DEF Honest
<1>6. Layers(d) BY <1>4 DEF Layers, Shows
<1>7. w \in Seq(PacketsOf(ctx[e].password)) BY <1>2, <1>3
<1>8. w \in Seq(Packets) BY <1>2 DEF Context
<1>. HIDE DEF w
<1>9. ctx \in [Ends -> Context] BY DEF Typed
<1>10. /\ ctx' \in [Ends -> Context] /\ wire' \in [Ends -> Seq(Packets)]
       /\ ctx'[e] = d /\ wire'[e] = w
       /\ \A x \in Ends \ {e} : ctx'[x] = ctx[x] /\ wire'[x] = before[x]
  BY <1>1, <1>4, <1>8, <1>9
<1>11. \A x \in Ends : ctx'[x].password = ctx[x].password
  BY <1>3, <1>4, <1>10
<1>12. ASSUME NEW x \in Ends
       PROVE  EndInv(x)'
  <2>0. Peer(x) \in Ends BY PeerIs
  <2>1. ctx'[Peer(x)].password = ctx[Peer(x)].password BY <1>11, <2>0
  <2>2. CASE x = e
    <3>1. wire'[e] \in Seq(PacketsOf(ctx'[e].password)) BY <1>7, <1>10, <1>11
    <3>2. ctx'[e].localAuthDone /\ ctx'[e].authenticates => ctx'[Peer(e)].password
      BY <1>4, <1>10, <2>1, <2>2
    <3>. QED BY <1>4, <1>5, <1>6, <1>10, <2>2, <3>1, <3>2 DEF EndInv
  <2>3. CASE x # e
    <3>1. EndInv(x) OBVIOUS
    <3>2. ctx'[x] = ctx[x] /\ wire'[x] = before[x] BY <1>10, <2>3
    <3>. QED BY <2>1, <3>1, <3>2 DEF EndInv
  <2>. QED BY <2>2, <2>3
<1>. QED BY <1>1, <1>4, <1>10, <1>12 DEF d

\* A step in which end e keeps what it has to, with user and faults as they may be.
LEMMA KeptLink ==
    ASSUME IInv, NEW e \in Ends, NEW c,
           NEW shown, shown => ctx[Peer(e)].password, Keeps(ctx[e], c, shown),
           NEW before \in [Ends -> Seq(Packets)],
           \A x \in Ends : before[x] \in Seq(PacketsOf(ctx[x].password)),
           Becomes(e, c, before),
           user' \in [Ends -> Users], faults' \in [FaultKinds -> Nat],
           \A x \in Ends : user'[x] \in {"idle", "aborting"} =>
                              user[x] \in {"idle", "aborting"},
           faults'["timeout"] = 0 => faults["timeout"] = 0
    PROVE  IInv'
<1>1. /\ Typed /\ \A x \in Ends : EndInv(x)
      /\ faults["timeout"] = 0 => \A x \in Ends : UserInv(x)
  BY DEF IInv
<1>2. /\ Honest(c) /\ Layers(c) /\ SameSettings(ctx[e], c)
      /\ Follows(ctx[e]) => Follows(c)
      /\ ctx[e].phase = "Dead" => c.phase = "Dead"
      /\ c.localAuthDone /\ c.authenticates => ctx[e].localAuthDone \/ shown
  BY DEF Keeps
<1>3. EndInv(e) BY <1>1
<1>4. c.localAuthDone /\ c.authenticates => ctx[Peer(e)].password
  BY <1>2, <1>3 DEF EndInv, SameSettings
<1>5. /\ ctx' \in [Ends -> Context] /\ wire' \in [Ends -> Seq(Packets)]
      /\ \A x \in Ends : EndInv(x)'
      /\ \A x \in Ends \ {e} : ctx'[x] = ctx[x]
      /\ ctx'[e].phase = c.phase /\ ctx'[e].linkUp = c.linkUp
      /\ ctx'[e].ipcp.state = c.ipcp.state
  BY <1>1, <1>2, <1>4, BecomesLink
<1>6. ASSUME faults'["timeout"] = 0, NEW x \in Ends
      PROVE  UserInv(x)'
  <2>1. UserInv(x) BY <1>1, <1>6
  <2>2. CASE x = e BY <1>2, <1>5, <2>1, <2>2 DEF UserInv, Follows
  <2>3. CASE x # e BY <1>5, <2>1, <2>3 DEF UserInv, Follows
  <2>. QED BY <2>2, <2>3
<1>7. Typed' BY <1>5 DEF Typed
<1>. QED BY <1>5, <1>6, <1>7 DEF IInv

LEMMA LineIs ==
    ASSUME IInv, NEW e \in Ends
    PROVE  /\ ctx[e] \in Context /\ Honest(ctx[e]) /\ Layers(ctx[e])
           /\ wire[e] \in Seq(PacketsOf(ctx[e].password))
           /\ wire[e] \in Seq(Packets)
           /\ wire \in [Ends -> Seq(Packets)] /\ user \in [Ends -> Users]
           /\ faults \in [FaultKinds -> Nat]
           /\ ctx \in [Ends -> Context]
BY DEF IInv, Typed, EndInv

LEMMA FaultIs ==
    ASSUME IInv, NEW f \in FaultKinds, Fault(f)
    PROVE  /\ faults' \in [FaultKinds -> Nat]
           /\ faults'["timeout"] = 0 => faults["timeout"] = 0 /\ f # "timeout"
<1>1. faults \in [FaultKinds -> Nat] BY DEF IInv, Typed
<1>2. faults' = [faults EXCEPT ![f] = @ + 1] BY DEF Fault
<1>3. \A n \in Nat : n + 1 \in Nat /\ n + 1 # 0 OBVIOUS
<1>4. faults' \in [FaultKinds -> Nat] BY <1>1, <1>2, <1>3
<1>5. "timeout" \in FaultKinds BY DEF FaultKinds
<1>6. CASE f = "timeout" BY <1>1, <1>2, <1>3, <1>4, <1>5, <1>6
<1>7. CASE f # "timeout" BY <1>1, <1>2, <1>4, <1>5, <1>7
<1>. QED BY <1>4, <1>6, <1>7

\* The oldest packet leaves the line.
LEMMA TailOfLine ==
    ASSUME IInv, NEW e \in Ends, wire[e] # << >>
    PROVE  /\ Head(wire[e]) \in PacketsOf(ctx[e].password)
           /\ [wire EXCEPT ![e] = Tail(@)] \in [Ends -> Seq(Packets)]
           /\ \A x \in Ends :
                 [wire EXCEPT ![e] = Tail(@)][x] \in Seq(PacketsOf(ctx[x].password))
<1>1. \A x \in Ends : wire[x] \in Seq(PacketsOf(ctx[x].password)) BY LineIs
<1>2. wire \in [Ends -> Seq(Packets)] BY LineIs
<1>3. /\ Head(wire[e]) \in PacketsOf(ctx[e].password)
      /\ Tail(wire[e]) \in Seq(PacketsOf(ctx[e].password))
      /\ Tail(wire[e]) \in Seq(Packets)
  BY <1>1, <1>2, HeadTailProperties
<1>. QED BY <1>1, <1>2, <1>3

LEMMA FrameLink ==
    ASSUME IInv, NEW e \in Ends, Frame(e)
    PROVE  IInv'
<1>. DEFINE f == Peer(e)
            m == Head(wire[f])
            before == [wire EXCEPT ![f] = Tail(@)]
            pw == ctx[f].password
            c == PppProcessFrame(ctx[e], m)
<1>1. f \in Ends BY PeerIs
<1>2. wire[f] # << >> /\ Becomes(e, c, before) /\ UNCHANGED <<user, faults>>
  BY DEF Frame
<1>3. /\ m \in PacketsOf(pw) /\ before \in [Ends -> Seq(Packets)]
      /\ \A x \in Ends : before[x] \in Seq(PacketsOf(ctx[x].password))
  BY <1>1, <1>2, TailOfLine
<1>4. pw \in BOOLEAN BY <1>1, LineIs DEF Context
<1>5. pw => ctx[Peer(e)].password OBVIOUS
<1>. HIDE DEF f, m, before, pw
<1>6. Keeps(ctx[e], c, pw) BY <1>3, <1>4, LineIs, FrameSound
<1>7. user' \in [Ends -> Users] /\ faults' \in [FaultKinds -> Nat] BY <1>2, LineIs
<1>. HIDE DEF c
<1>. QED BY <1>2, <1>3, <1>5, <1>6, <1>7, KeptLink

LEMMA LoseLink ==
    ASSUME IInv, NEW e \in Ends, Lose(e)
    PROVE  IInv'
<1>1. /\ wire[e] # << >> /\ wire' = [wire EXCEPT ![e] = Tail(@)]
      /\ Fault("lost") /\ UNCHANGED <<ctx, user>>
  BY DEF Lose
<1>2. "lost" \in FaultKinds BY DEF FaultKinds
<1>3. /\ wire' \in [Ends -> Seq(Packets)]
      /\ \A x \in Ends : wire'[x] \in Seq(PacketsOf(ctx[x].password))
  BY <1>1, TailOfLine
<1>4. /\ faults' \in [FaultKinds -> Nat]
      /\ faults'["timeout"] = 0 => faults["timeout"] = 0
  BY <1>1, <1>2, FaultIs
<1>5. /\ Typed /\ \A x \in Ends : EndInv(x)
      /\ faults["timeout"] = 0 => \A x \in Ends : UserInv(x)
  BY DEF IInv
<1>6. Typed' BY <1>1, <1>3, <1>4, <1>5 DEF Typed
<1>7. \A x \in Ends : EndInv(x)' BY <1>1, <1>3, <1>5 DEF EndInv
<1>8. (\A x \in Ends : UserInv(x)) => \A x \in Ends : UserInv(x)'
  BY <1>1 DEF UserInv
<1>. QED BY <1>4, <1>5, <1>6, <1>7, <1>8 DEF IInv

LEMMA ElapsedIs ==
    ASSUME IInv, NEW p, Elapsed(p)
    PROVE  /\ faults' \in [FaultKinds -> Nat]
           /\ faults'["timeout"] = 0 => faults["timeout"] = 0
<1>1. CASE UNCHANGED faults BY <1>1 DEF IInv, Typed
<1>2. CASE Fault("early") BY <1>2, FaultIs DEF FaultKinds
<1>. QED BY <1>1, <1>2 DEF Elapsed

\* A timer of end e expires and leaves c.
LEMMA TickLink ==
    ASSUME IInv, NEW e \in Ends, NEW p, Elapsed(p), NEW c, Becomes(e, c, wire),
           Keeps(ctx[e], c, FALSE), UNCHANGED user
    PROVE  IInv'
<1>1. /\ wire \in [Ends -> Seq(Packets)] /\ user' \in [Ends -> Users]
      /\ \A x \in Ends : wire[x] \in Seq(PacketsOf(ctx[x].password))
  BY LineIs
<1>. QED BY <1>1, ElapsedIs, KeptLink

LEMMA TimersLink ==
    ASSUME IInv, NEW e \in Ends, LcpTick(e) \/ IpcpTick(e) \/ PapTick(e)
    PROVE  IInv'
<1>1. Honest(ctx[e]) /\ Layers(ctx[e]) BY LineIs
<1>2. CASE LcpTick(e)
  <2>. DEFINE c == Lcp(ctx[e], TimeoutEvent(ctx[e].lcp.state, ctx[e].lcp.count), NoPacket)
  <2>1. Elapsed("lcp") /\ Becomes(e, c, wire) /\ UNCHANGED user BY <1>2 DEF LcpTick
  <2>2. Keeps(ctx[e], c, FALSE) BY <1>1, LcpTickSound
  <2>. HIDE DEF c
  <2>. QED BY <2>1, <2>2, TickLink
<1>3. CASE IpcpTick(e)
  <2>. DEFINE c == Ipcp(ctx[e], TimeoutEvent(ctx[e].ipcp.state, ctx[e].ipcp.count), NoPacket)
  <2>1. Elapsed("ipcp") /\ Becomes(e, c, wire) /\ UNCHANGED user BY <1>3 DEF IpcpTick
  <2>2. Keeps(ctx[e], c, FALSE) BY <1>1, IpcpTickSound
  <2>. HIDE DEF c
  <2>. QED BY <2>1, <2>2, TickLink
<1>4. CASE PapTick(e)
  <2>. DEFINE c == IF ctx[e].pap.count > 0
                     THEN PapSendAuthReq(ctx[e])
                     ELSE LcpClose([ctx[e] EXCEPT !.pap.state = "Initial"])
  <2>1. Elapsed("pap") /\ Becomes(e, c, wire) /\ UNCHANGED user BY <1>4 DEF PapTick
  <2>2. Keeps(ctx[e], c, FALSE) BY <1>1, PapTickSound
  <2>. HIDE DEF c
  <2>. QED BY <2>1, <2>2, TickLink
<1>. QED BY <1>2, <1>3, <1>4

LEMMA CloseLink ==
    ASSUME IInv, NEW e \in Ends, Close(e)
    PROVE  IInv'
<1>. DEFINE c == LcpClose(ctx[e])
<1>1. /\ Becomes(e, c, wire) /\ user' = [user EXCEPT ![e] = "closing"]
      /\ UNCHANGED faults
  BY DEF Close
<1>2. Keeps(ctx[e], c, FALSE) BY LineIs, LcpCloseSound
<1>3. /\ wire \in [Ends -> Seq(Packets)]
      /\ \A x \in Ends : wire[x] \in Seq(PacketsOf(ctx[x].password))
      /\ faults' \in [FaultKinds -> Nat]
  BY <1>1, LineIs
<1>4. /\ user' \in [Ends -> Users]
      /\ \A x \in Ends : user'[x] \in {"idle", "aborting"} =>
                            user[x] \in {"idle", "aborting"}
  BY <1>1, LineIs DEF Users
<1>. HIDE DEF c
<1>. QED BY <1>1, <1>2, <1>3, <1>4, KeptLink

\* What a context prepared anew is: while no call was aborted the interface is
\* down when pppConnect is called.
LEMMA ConnectLink ==
    ASSUME IInv, NEW e \in Ends, Connect(e)
    PROVE  IInv'
<1>. DEFINE c == LcpOpen(Prepared(ctx[e]))
<1>1. /\ user[e] = "idle" \/ ~ctx[e].linkUp
      /\ Becomes(e, c, wire) /\ user' = [user EXCEPT ![e] = "connecting"]
      /\ UNCHANGED faults
  BY DEF Connect
<1>2. Honest(ctx[e]) /\ Layers(ctx[e]) BY LineIs
<1>3. /\ Honest(c) /\ Layers(c) /\ SameSettings(ctx[e], c)
      /\ ~c.localAuthDone /\ c.linkUp = ctx[e].linkUp
  BY <1>2, ConnectSound
<1>4. /\ wire \in [Ends -> Seq(Packets)]
      /\ \A x \in Ends : wire[x] \in Seq(PacketsOf(ctx[x].password))
      /\ faults' \in [FaultKinds -> Nat]
  BY <1>1, LineIs
<1>5. /\ user' \in [Ends -> Users] /\ user'[e] = "connecting"
      /\ \A x \in Ends \ {e} : user'[x] = user[x]
  BY <1>1, LineIs DEF Users
<1>. HIDE DEF c
<1>6. /\ Typed /\ \A x \in Ends : EndInv(x)
      /\ faults["timeout"] = 0 => \A x \in Ends : UserInv(x)
  BY DEF IInv
<1>7. /\ ctx' \in [Ends -> Context] /\ wire' \in [Ends -> Seq(Packets)]
      /\ \A x \in Ends : EndInv(x)'
      /\ \A x \in Ends \ {e} : ctx'[x] = ctx[x]
      /\ ctx'[e].linkUp = c.linkUp
  BY <1>1, <1>3, <1>4, <1>6, BecomesLink
<1>8. ASSUME faults'["timeout"] = 0, NEW x \in Ends
      PROVE  UserInv(x)'
  <2>1. UserInv(x) BY <1>1, <1>6, <1>8
  <2>2. CASE x = e
    <3>1. ~ctx[e].linkUp BY <1>1, <1>2, <2>1, <2>2 DEF UserInv, Follows, Layers
    <3>. QED BY <1>3, <1>5, <1>7, <2>2, <3>1 DEF UserInv, Follows
  <2>3. CASE x # e BY <1>5, <1>7, <2>1, <2>3 DEF UserInv, Follows
  <2>. QED BY <2>2, <2>3
<1>9. Typed' BY <1>4, <1>5, <1>7 DEF Typed
<1>. QED BY <1>7, <1>8, <1>9 DEF IInv

\* A step of the user alone, to where the link is dead or a call was aborted.
LEMMA UserLink ==
    ASSUME IInv, NEW e \in Ends, NEW at \in Users, user' = [user EXCEPT ![e] = at],
           UNCHANGED <<ctx, wire>>, faults' \in [FaultKinds -> Nat],
           faults'["timeout"] = 0 =>
               /\ faults["timeout"] = 0
               /\ at \in {"idle", "aborting"} => ctx[e].phase = "Dead"
    PROVE  IInv'
<1>1. /\ Typed /\ \A x \in Ends : EndInv(x)
      /\ faults["timeout"] = 0 => \A x \in Ends : UserInv(x)
  BY DEF IInv
<1>2. /\ user' \in [Ends -> Users] /\ user'[e] = at
      /\ \A x \in Ends \ {e} : user'[x] = user[x]
  BY LineIs
<1>3. Typed' BY <1>1, <1>2 DEF Typed
<1>4. \A x \in Ends : EndInv(x)' BY <1>1 DEF EndInv
<1>5. ASSUME faults'["timeout"] = 0, NEW x \in Ends
      PROVE  UserInv(x)'
  <2>1. UserInv(x) BY <1>1, <1>5
  <2>2. CASE x = e BY <1>2, <1>5, <2>1, <2>2 DEF UserInv, Follows
  <2>3. CASE x # e BY <1>2, <2>1, <2>3 DEF UserInv, Follows
  <2>. QED BY <2>2, <2>3
<1>. QED BY <1>3, <1>4, <1>5 DEF IInv

LEMMA ReturnsLink ==
    ASSUME IInv, NEW e \in Ends,
           ConnectReturns(e) \/ ConnectFails(e) \/ CloseReturns(e) \/ TimesOut(e)
    PROVE  IInv'
<1>1. faults \in [FaultKinds -> Nat] BY LineIs
<1>2. CASE ConnectReturns(e)
  <2>1. user' = [user EXCEPT ![e] = "connected"] /\ UNCHANGED <<ctx, wire, faults>>
    BY <1>2 DEF ConnectReturns
  <2>2. "connected" \in Users BY DEF Users
  <2>. QED BY <1>1, <2>1, <2>2, UserLink
<1>3. CASE ConnectFails(e)
  <2>1. /\ user' = [user EXCEPT ![e] = "aborting"] /\ UNCHANGED <<ctx, wire, faults>>
        /\ ctx[e].phase = "Dead"
    BY <1>3 DEF ConnectFails
  <2>2. "aborting" \in Users BY DEF Users
  <2>. QED BY <1>1, <2>1, <2>2, UserLink
<1>4. CASE CloseReturns(e)
  <2>1. /\ user' = [user EXCEPT ![e] = "idle"] /\ UNCHANGED <<ctx, wire, faults>>
        /\ ctx[e].phase = "Dead"
    BY <1>4 DEF CloseReturns
  <2>2. "idle" \in Users BY DEF Users
  <2>. QED BY <1>1, <2>1, <2>2, UserLink
<1>5. CASE TimesOut(e)
  <2>1. /\ user' = [user EXCEPT ![e] = "aborting"] /\ UNCHANGED <<ctx, wire>>
        /\ Fault("timeout")
    BY <1>5 DEF TimesOut
  <2>2. "aborting" \in Users /\ "timeout" \in FaultKinds BY DEF Users, FaultKinds
  <2>3. faults' \in [FaultKinds -> Nat] /\ faults'["timeout"] # 0
    BY <2>1, <2>2, FaultIs
  <2>. QED BY <2>1, <2>2, <2>3, UserLink
<1>. QED BY <1>2, <1>3, <1>4, <1>5

\* An abort leaves the automata in Initial, the interface as it was.
LEMMA AbortLink ==
    ASSUME IInv, NEW e \in Ends, Abort(e)
    PROVE  IInv'
<1>. DEFINE a == ctx[e]
            d == [a EXCEPT !.phase = "Dead", !.lcp.state = "Initial",
                           !.ipcp.state = "Initial", !.pap.state = "Initial"]
<1>1. /\ user[e] = "aborting" /\ user' = [user EXCEPT ![e] = "idle"]
      /\ UNCHANGED <<wire, faults>>
  BY DEF Abort
<1>2. /\ a \in Context /\ Honest(a) /\ Layers(a) /\ ctx \in [Ends -> Context]
  BY LineIs
<1>3. ctx' = [ctx EXCEPT ![e] = d] BY <1>2, ZenonT(60) DEF Abort
<1>4. /\ Typed /\ \A x \in Ends : EndInv(x)
      /\ faults["timeout"] = 0 => \A x \in Ends : UserInv(x)
  BY DEF IInv
<1>5. a.out = << >> /\ EndInv(e) BY <1>4 DEF EndInv
<1>. HIDE DEF a
<1>6. d \in Context BY <1>2 DEF Context, Fsm, PapFsm, States
<1>7. /\ d.phase = "Dead" /\ d.lcp.state = "Initial" /\ d.ipcp.state = "Initial"
      /\ d.pap.state = "Initial" /\ d.out = a.out /\ d.password = a.password
      /\ d.authenticates = a.authenticates /\ d.localAuthDone = a.localAuthDone
      /\ d.linkUp = a.linkUp
  BY <1>2 DEF Context, Fsm, PapFsm
<1>. HIDE DEF d
<1>8. Honest(d) BY <1>2, <1>6, <1>7 DEF Honest
<1>9. Layers(d) BY <1>7 DEF Layers, Shows
<1>10. /\ ctx' \in [Ends -> Context] /\ ctx'[e] = d
       /\ \A x \in Ends \ {e} : ctx'[x] = ctx[x]
  BY <1>2, <1>3, <1>6
<1>11. \A x \in Ends : ctx'[x].password = ctx[x].password BY <1>7, <1>10 DEF a
<1>12. ASSUME NEW x \in Ends
       PROVE  EndInv(x)'
  <2>1. ctx'[Peer(x)].password = ctx[Peer(x)].password BY <1>11, PeerIs
  <2>2. CASE x = e
    BY <1>1, <1>5, <1>7, <1>8, <1>9, <1>10, <2>1, <2>2 DEF EndInv, a
  <2>3. CASE x # e
    <3>1. EndInv(x) /\ ctx'[x] = ctx[x] BY <1>4, <1>10, <2>3
    <3>. QED BY <1>1, <2>1, <3>1 DEF EndInv
  <2>. QED BY <2>2, <2>3
<1>13. /\ user' \in [Ends -> Users]
       /\ \A x \in Ends \ {e} : user'[x] = user[x]
  BY <1>1, LineIs DEF Users
<1>14. ASSUME faults'["timeout"] = 0, NEW x \in Ends
       PROVE  UserInv(x)'
  <2>1. UserInv(x) BY <1>1, <1>4, <1>14
  <2>2. CASE x = e
    <3>1. a.phase = "Dead" /\ Follows(a) BY <1>1, <2>1, <2>2 DEF UserInv, a
    <3>2. ~a.linkUp BY <1>2, <3>1 DEF Follows, Layers
    <3>. QED BY <1>7, <1>10, <2>2, <3>2 DEF UserInv, Follows
  <2>3. CASE x # e BY <1>10, <1>13, <2>1, <2>3 DEF UserInv, Follows
  <2>. QED BY <2>2, <2>3
<1>15. Typed' BY <1>1, <1>4, <1>10, <1>13 DEF Typed
<1>. QED BY <1>12, <1>14, <1>15 DEF IInv

LEMMA LinkInvariant ==
    Spec => []IInv
<1>1. ASSUME IInv, [Next]_vars
      PROVE  IInv'
  <2>1. CASE UNCHANGED vars
    BY <1>1, <2>1 DEF vars, IInv, Typed, EndInv, UserInv
  <2>2. ASSUME NEW e \in Ends, Frame(e) PROVE IInv' BY <1>1, <2>2, FrameLink
  <2>3. ASSUME NEW e \in Ends, Lose(e) PROVE IInv' BY <1>1, <2>3, LoseLink
  <2>4. ASSUME NEW e \in Ends, LcpTick(e) \/ IpcpTick(e) \/ PapTick(e)
        PROVE  IInv'
    BY <1>1, <2>4, TimersLink
  <2>5. ASSUME NEW e \in Ends, Connect(e) PROVE IInv' BY <1>1, <2>5, ConnectLink
  <2>6. ASSUME NEW e \in Ends, Close(e) PROVE IInv' BY <1>1, <2>6, CloseLink
  <2>7. ASSUME NEW e \in Ends,
               ConnectReturns(e) \/ ConnectFails(e) \/ CloseReturns(e) \/ TimesOut(e)
        PROVE  IInv'
    BY <1>1, <2>7, ReturnsLink
  <2>8. ASSUME NEW e \in Ends, Abort(e) PROVE IInv' BY <1>1, <2>8, AbortLink
  <2>. QED BY <1>1, <2>1, <2>2, <2>3, <2>4, <2>5, <2>6, <2>7, <2>8 DEF Next
<1>. QED BY <1>1, InitialLink, PTL DEF Spec

-----------------------------------------------------------------------------
(* The theorems.                                                           *)

\* Phases, automata, identifiers, restart counters and addresses stay in their
\* ranges, nothing a handler sends is left behind, and the timer of PAP runs in
\* the phase of authentication only, where alone papTick acts on it.
THEOREM TypeCorrect == Spec => []TypeOK
<1>1. IInv => TypeOK
  <2>. SUFFICES ASSUME IInv PROVE TypeOK OBVIOUS
  <2>1. ASSUME NEW e \in Ends
        PROVE  LET c == ctx[e] IN
               /\ c.phase \in {"Dead", "Establish", "Authenticate", "Network", "Terminate"}
               /\ {c.lcp, c.ipcp} \subseteq Fsm
               /\ c.pap.state \in {"Initial", "ReqSent", "AckRcvd", "NakRcvd"}
               /\ c.pap.state = "ReqSent" => c.phase = "Authenticate"
               /\ c.pap.count \in 0 .. MaxRequests
               /\ {c.localIp, c.peerIp, c.addr, c.gateway} \subseteq Addresses
               /\ c.out = << >>
    <3>1. ctx[e] \in Context /\ Layers(ctx[e]) BY LineIs
    <3>2. ctx[e].out = << >> BY DEF IInv, EndInv
    <3>3. ctx[e].pap.state = "ReqSent" => ctx[e].phase = "Authenticate"
      BY <3>1 DEF Layers
    <3>. QED BY <3>1, <3>2, <3>3 DEF Context, PapFsm
  <2>2. user \in [Ends -> {"idle", "connecting", "connected", "closing", "aborting"}]
    BY DEF IInv, Typed, Users
  <2>. QED BY <2>1, <2>2 DEF TypeOK
<1>. QED BY <1>1, LinkInvariant, PTL

\* For all settings of the two ends, and whatever is lost, delayed, retried or
\* left on the line by a former connection: an end lets IPCP work only while LCP
\* is open and in the network phase, and, if it wants its peer to authenticate
\* itself, only with one that knows the password (lcpThisLayerUp,
\* lcpThisLayerDown, papProcessAuthReq, papProcessAuthAck).
THEOREM NetworkAuthenticated == Spec => []NetworkIsAuthenticated
<1>1. IInv => NetworkIsAuthenticated
  <2>. SUFFICES ASSUME IInv, NEW e \in Ends, ctx[e].ipcp.state # "Initial"
                PROVE  /\ ctx[e].lcp.state = "Opened" /\ ctx[e].phase = "Network"
                       /\ ctx[e].authenticates => ctx[Peer(e)].password
    BY DEF NetworkIsAuthenticated
  <2>1. /\ ctx[e].phase = "Network" /\ ctx[e].lcp.state = "Opened"
        /\ ctx[e].localAuthDone
    BY LineIs DEF Layers
  <2>2. EndInv(e) BY DEF IInv
  <2>. QED BY <2>1, <2>2 DEF EndInv
<1>. QED BY <1>1, LinkInvariant, PTL

\* For all settings: the interface is up whenever IPCP is open, and, as long as
\* no call of pppConnect or pppClose has ended by its timeout, only then
\* (ipcpThisLayerUp, ipcpThisLayerDown, and every path that leaves Opened).
THEOREM LinkFollows == Spec => []LinkFollowsIpcp
<1>1. IInv => LinkFollowsIpcp
  <2>. SUFFICES ASSUME IInv, NEW e \in Ends
                PROVE  /\ ctx[e].ipcp.state = "Opened" => ctx[e].linkUp
                       /\ faults["timeout"] = 0 /\ ctx[e].linkUp =>
                             ctx[e].ipcp.state = "Opened"
    BY DEF LinkFollowsIpcp
  <2>1. Shows(ctx[e]) BY LineIs DEF Layers
  <2>2. faults["timeout"] = 0 => UserInv(e) BY DEF IInv
  <2>. QED BY <2>1, <2>2 DEF Shows, UserInv, Follows
<1>. QED BY <1>1, LinkInvariant, PTL

=============================================================================
