-------------------------------- MODULE Ppp --------------------------------
(***************************************************************************)
(* Two ends of a PPP link that both run this stack: LCP, authentication by *)
(* PAP, IPCP (src/ppp), and the users that call pppConnect and pppClose.   *)
(* Packets go over a serial line, in order, and may be lost.  A frame, a   *)
(* timer and a call hold the mutex of the stack: each is one step.         *)
(***************************************************************************)
EXTENDS PppFsm, Sequences

CONSTANTS Ends,          \* the two ends
          Setups,        \* the settings of both ends a run starts from
          MaxTrouble,    \* bound on the faults and the calls of pppConnect of an end
          MaxConfigure, MaxTerminate,  \* PPP_MAX_CONFIGURE, PPP_MAX_TERMINATE
          MaxRequests,   \* PAP_MAX_REQUESTS
          IdModulus      \* number of identifiers (256)

ASSUME EndsAssumption == Ends # {} /\ \A e \in Ends : \E f \in Ends : Ends \ {e} = {f}

ASSUME CountsAssumption ==
    /\ MaxTrouble \in Nat
    /\ MaxConfigure \in Nat \ {0} /\ MaxTerminate \in Nat \ {0}
    /\ MaxRequests \in Nat \ {0} /\ IdModulus \in Nat \ {0}

\* What the user of an end has configured.
Setup == [authenticates : BOOLEAN, allowsPap : BOOLEAN, password : BOOLEAN,
          addr : STRING, gateway : STRING]

ASSUME SetupsAssumption == Setups \subseteq [Ends -> Setup]

VARIABLES ctx,       \* the PPP context of each end
          wire,      \* what each end has sent and the line has not delivered
          user,      \* where the user of each end is
          connects,  \* calls of pppConnect an end has made
          faults     \* packets lost, timeouts that came before the answer, and
                     \* calls that ended by the timeout of pppSetTimeout

vars == <<ctx, wire, user, connects, faults>>

Unspecified == "0.0.0.0"

Peer(e) == CHOOSE f \in Ends : f # e

-----------------------------------------------------------------------------
(* Packets and the sending of them.  out collects what a step sends.       *)

Packet(protocol, code, id, options) ==
    [protocol |-> protocol, code |-> code, id |-> id, options |-> options]
NoOptions == [auth |-> FALSE, ip |-> Unspecified, dns |-> FALSE]

Send(c, protocol, code, id, options) ==
    [c EXCEPT !.out = Append(@, Packet(protocol, code, id, options))]

\* F(x), where x is evaluated once.
Once(F(_), x) == CHOOSE y \in {F(z) : z \in {x}} : TRUE

\* The identifier changes with every packet that is not an answer; requests
\* count down, not below zero.
NextId(c, p) == [c EXCEPT ![p].id = (@ + 1) % IdModulus]

\* Mutant: the last retry is repeated for ever.
CountedToOne(c, p) == [c EXCEPT ![p].count = IF @ > 1 THEN @ - 1 ELSE @]

Counted(c, p) == [c EXCEPT ![p].count = IF @ > 0 THEN @ - 1 ELSE 0]

\* What an end asks for. Of the options of LCP the one that may be refused, and
\* of those of IPCP the address and the addresses of DNS servers.
Options(c, p) ==
    IF p = "lcp" THEN [NoOptions EXCEPT !.auth = c.authenticates]
                 ELSE [NoOptions EXCEPT !.ip = c.localIp, !.dns = ~c.dnsRejected]

SendRequest(c, p, code, options) ==
    LET n == NextId(c, p) IN Counted(Send(n, p, code, n[p].id, options), p)

\* The answer to a request acknowledged as a whole, and what it makes of the
\* peer's configuration.
SendConfigureAck(c, p, m) ==
    LET s == Send(c, p, "ConfigureAck", m.id, m.options)
    IN  IF p = "lcp" THEN [s EXCEPT !.peerAuth = @ \/ m.options.auth]
                     ELSE [s EXCEPT !.peerIp = m.options.ip]

\* Mutant: the address this end has itself.
SendConfigureNakOwn(c, p, m) ==
    Send(c, p, "ConfigureNak", m.id, [NoOptions EXCEPT !.ip = c.localIp])

\* An IPCP address of zero is answered by the address this end would give.
SendConfigureNak(c, p, m) ==
    Send(c, p, "ConfigureNak", m.id, [NoOptions EXCEPT !.ip = c.peerIp])

SendConfigureRej(c, p, m) ==
    Send(c, p, "ConfigureRej", m.id, [m.options EXCEPT !.ip = Unspecified])

\* The callbacks that are the same for every protocol p; m is the packet that
\* caused the event.
Common(c, p, does, m) ==
    CASE does = "ircConf" -> [c EXCEPT ![p].count = MaxConfigure]
      [] does = "ircTerm" -> [c EXCEPT ![p].count = MaxTerminate]
      [] does = "zrc"     -> [c EXCEPT ![p].count = 0]
      [] does = "scr"     -> SendRequest(c, p, "ConfigureReq", Options(c, p))
      [] does = "str"     -> SendRequest(c, p, "TerminateReq", NoOptions)
      [] does = "sca"     -> SendConfigureAck(c, p, m)
      [] does = "scn"     -> SendConfigureNak(c, p, m)
      [] does = "scj"     -> SendConfigureRej(c, p, m)
      [] does = "ack"     -> Send(c, p, "TerminateAck", m.id, NoOptions)
      [] does = "sta"     -> LET n == NextId(c, p)
                             IN  Send(n, p, "TerminateAck", n[p].id, NoOptions)

-----------------------------------------------------------------------------
(* IPCP.                                                                   *)

IpcpDo(c, does, m) ==
    CASE does = "tlu" -> [c EXCEPT !.addr = c.localIp, !.gateway = c.peerIp,
                                   !.linkUp = TRUE]
      [] does = "tld" -> [c EXCEPT !.linkUp = FALSE]
      [] does = "tlf" -> c
      [] OTHER        -> Common(c, "ipcp", does, m)

\* The n-th callback of a step, if it has as many.
IpcpNth(c, step, n, m) ==
    IF n <= Len(step.does) THEN Once(LAMBDA d : IpcpDo(d, step.does[n], m), c) ELSE c

\* No step has more than three.  tlu, tld and tlf are called after the change of state, which the other
\* callbacks do not look at: here the change comes first.
Ipcp(c, step, m) ==
    LET Nth(d, n) == IpcpNth(d, step, n, m)
    IN  Nth(Nth(Nth([c EXCEPT !.ipcp.state = step.to], 1), 2), 3)

NoPacket == Packet("none", "none", 0, NoOptions)

IpcpOpen(c) ==
    LET o == Ipcp(c, OpenEvent(c.ipcp.state), NoPacket)
    IN  Ipcp(o, UpEvent(o.ipcp.state), NoPacket)

IpcpClose(c) ==
    LET d == Ipcp(c, DownEvent(c.ipcp.state), NoPacket)
    IN  Ipcp(d, CloseEvent(d.ipcp.state), NoPacket)

\* The options of DNS servers are not known to the receiver: they are rejected,
\* before an address is looked at.
IpcpConfigureReq(s, m) ==
    CASE m.options.dns -> RcvConfigureReqRefused(s, "scj")
      [] ~m.options.dns /\ m.options.ip = Unspecified -> RcvConfigureReqRefused(s, "scn")
      [] OTHER -> RcvConfigureReqAcceptable(s)

\* A Nak or Reject is looked at in any state, before the automaton is asked.
IpcpProcessPacket(c, m) ==
    LET s == c.ipcp.state IN
    CASE m.code = "ConfigureReq" -> Ipcp(c, IpcpConfigureReq(s, m), m)
      [] m.code = "ConfigureAck" /\ m.id = c.ipcp.id -> Ipcp(c, RcvConfigureAckEvent(s), m)
      [] m.code = "ConfigureNak" /\ m.id = c.ipcp.id ->
             Ipcp([c EXCEPT !.localIp = m.options.ip], RcvConfigureNakEvent(s), m)
      [] m.code = "ConfigureRej" /\ m.id = c.ipcp.id ->
             Ipcp([c EXCEPT !.dnsRejected = @ \/ m.options.dns], RcvConfigureNakEvent(s), m)
      [] m.code = "TerminateReq" -> Ipcp(c, RcvTerminateReqEvent(s), m)
      [] m.code = "TerminateAck" -> Ipcp(c, RcvTerminateAckEvent(s), m)
      [] OTHER -> c

-----------------------------------------------------------------------------
(* PAP and LCP.                                                            *)

PapSendAuthReq(c) ==
    SendRequest(c, "pap", "AuthReq", [NoOptions EXCEPT !.auth = c.password])

PapStartAuth(c) ==
    IF c.peerAuth
      THEN [PapSendAuthReq([c EXCEPT !.pap.count = MaxRequests]) EXCEPT !.pap.state = "ReqSent"]
      ELSE c

\* Mutant: one end is content.
EnterNetworkEarly(c) ==
    IF c.localAuthDone \/ c.peerAuthDone
      THEN IpcpOpen([c EXCEPT !.phase = "Network"])
      ELSE c

\* The network phase begins when both ends are content with each other.
EnterNetwork(c) ==
    IF c.localAuthDone /\ c.peerAuthDone
      THEN IpcpOpen([c EXCEPT !.phase = "Network"])
      ELSE c

LcpThisLayerUp(c) ==
    LET d == [c EXCEPT !.localAuthDone = ~c.authenticates,
                       !.peerAuthDone  = ~c.peerAuth]
    IN  EnterNetwork(IF c.authenticates \/ c.peerAuth
                       THEN PapStartAuth([d EXCEPT !.phase = "Authenticate"])
                       ELSE d)

\* Mutant: authentication goes on.
LcpThisLayerDownOnly(c) == IpcpClose([c EXCEPT !.phase = "Terminate"])

LcpThisLayerDown(c) ==
    [IpcpClose([c EXCEPT !.phase = "Terminate"]) EXCEPT !.pap.state = "Initial"]

\* pppCloseEvent and pppDownEvent: from where this is called neither does more
\* than change the state.
LcpThisLayerFinished(c) ==
    [c EXCEPT !.lcp.state = DownEvent(CloseEvent(@).to).to, !.phase = "Dead"]

LcpDo(c, does, m) ==
    CASE does = "tlu" -> LcpThisLayerUp(c)
      [] does = "tld" -> LcpThisLayerDown(c)
      [] does = "tlf" -> LcpThisLayerFinished(c)
      [] OTHER        -> Common(c, "lcp", does, m)

LcpNth(c, step, n, m) ==
    IF n <= Len(step.does) THEN Once(LAMBDA d : LcpDo(d, step.does[n], m), c) ELSE c

Lcp(c, step, m) ==
    LET Nth(d, n) == LcpNth(d, step, n, m)
    IN  Nth(Nth(Nth([c EXCEPT !.lcp.state = step.to], 1), 2), 3)

LcpOpen(c) ==
    LET o == Lcp([c EXCEPT !.phase = "Establish"], OpenEvent(c.lcp.state), NoPacket)
    IN  Lcp(o, UpEvent(o.lcp.state), NoPacket)

LcpClose(c) == Lcp(c, CloseEvent(c.lcp.state), NoPacket)

\* An end that may not use PAP rejects the request to authenticate itself, which
\* ends the link.
LcpProcessPacket(c, m) ==
    LET s == c.lcp.state IN
    CASE m.code = "ConfigureReq" ->
             Lcp(c, IF m.options.auth /\ ~c.allowsPap
                      THEN RcvConfigureReqRefused(s, "scj")
                      ELSE RcvConfigureReqAcceptable(s), m)
      [] m.code = "ConfigureAck" /\ m.id = c.lcp.id -> Lcp(c, RcvConfigureAckEvent(s), m)
      [] m.code = "ConfigureRej" /\ m.id = c.lcp.id -> Lcp(c, RcvCodeRejCatastrophic(s), m)
      [] m.code = "TerminateReq" -> Lcp(c, RcvTerminateReqEvent(s), m)
      [] m.code = "TerminateAck" -> Lcp(c, RcvTerminateAckEvent(s), m)
      [] OTHER -> c

\* The password of a request is checked by a callback of the application.
PapProcessAuthReq(c, m) ==
    CASE ~c.authenticates -> c
      [] c.authenticates /\ m.options.auth ->
             LET d == [Send(c, "pap", "AuthAck", m.id, NoOptions) EXCEPT !.localAuthDone = TRUE]
             IN  IF c.phase = "Authenticate" THEN EnterNetwork(d) ELSE d
      [] OTHER -> LcpClose(Send(c, "pap", "AuthNak", m.id, NoOptions))

PapProcessAuthAck(c) ==
    LET d == [c EXCEPT !.pap.state = "AckRcvd", !.peerAuthDone = TRUE]
    IN  IF c.phase = "Authenticate" THEN EnterNetwork(d) ELSE d

PapProcessPacket(c, m) ==
    IF c.phase \notin {"Authenticate", "Network"} THEN c
    ELSE CASE m.code = "AuthReq" -> PapProcessAuthReq(c, m)
           [] m.code = "AuthAck" /\ c.peerAuth /\ m.id = c.pap.id -> PapProcessAuthAck(c)
           [] m.code = "AuthNak" /\ c.peerAuth /\ m.id = c.pap.id ->
                  LcpClose([c EXCEPT !.pap.state = "NakRcvd"])
           [] OTHER -> c

PppProcessFrame(c, m) ==
    CASE m.protocol = "lcp"  -> LcpProcessPacket(c, m)
      [] m.protocol = "ipcp" -> IpcpProcessPacket(c, m)
      [] m.protocol = "pap"  -> PapProcessPacket(c, m)

-----------------------------------------------------------------------------
(* Steps.                                                                  *)

\* End e is left with context c and puts on the line what c holds; before is
\* what was on the lines.
Becomes(e, c, before) ==
    \E d \in {c} : /\ ctx' = [ctx EXCEPT ![e] = [d EXCEPT !.out = << >>]]
                   /\ wire' = [before EXCEPT ![e] = @ \o d.out]

Frame(e) ==
    LET f == Peer(e) IN
    /\ wire[f] # << >>
    /\ Becomes(e, PppProcessFrame(ctx[e], Head(wire[f])), [wire EXCEPT ![f] = Tail(@)])
    /\ UNCHANGED <<user, connects, faults>>

\* The bound: a fault counts like a call of pppConnect.
Within(f, n) == \A e \in Ends : f["lost"] + f["early"] + f["timeout"] + n[e] <= MaxTrouble

Fault(f) ==
    /\ faults' = [faults EXCEPT ![f] = @ + 1]
    /\ Within(faults', connects)

Lose(e) ==
    /\ wire[e] # << >>
    /\ wire' = [wire EXCEPT ![e] = Tail(@)]
    /\ Fault("lost")
    /\ UNCHANGED <<ctx, user, connects>>

\* A restart time has passed. What was sent has been answered, unless it
\* comes too early.
Elapsed(p) ==
    \/ /\ \A e \in Ends : \A i \in DOMAIN wire[e] : wire[e][i].protocol # p
       /\ UNCHANGED faults
    \/ Fault("early")

LcpTick(e) ==
    /\ ctx[e].lcp.state \in Timed
    /\ Elapsed("lcp")
    /\ Becomes(e, Lcp(ctx[e], TimeoutEvent(ctx[e].lcp.state, ctx[e].lcp.count), NoPacket), wire)
    /\ UNCHANGED <<user, connects>>

IpcpTick(e) ==
    /\ ctx[e].ipcp.state \in Timed
    /\ Elapsed("ipcp")
    /\ Becomes(e, Ipcp(ctx[e], TimeoutEvent(ctx[e].ipcp.state, ctx[e].ipcp.count), NoPacket), wire)
    /\ UNCHANGED <<user, connects>>

PapTick(e) ==
    /\ ctx[e].pap.state = "ReqSent"
    /\ Elapsed("pap")
    /\ Becomes(e, IF ctx[e].pap.count > 0
                    THEN PapSendAuthReq(ctx[e])
                    ELSE LcpClose([ctx[e] EXCEPT !.pap.state = "Initial"]), wire)
    /\ UNCHANGED <<user, connects>>

NewFsm == [state |-> "Initial", id |-> 0, count |-> 0]

\* The context pppConnect prepares: all but the settings, the configuration of
\* the interface and the state of its link.
Prepared(c) ==
    [c EXCEPT !.phase = "Dead", !.lcp = NewFsm, !.ipcp = NewFsm, !.pap = NewFsm,
              !.localAuthDone = FALSE, !.peerAuthDone = FALSE, !.peerAuth = FALSE,
              !.localIp = c.addr, !.peerIp = c.gateway, !.dnsRejected = FALSE]

Connect(e) ==
    /\ \/ user[e] = "idle"
       \/ user[e] = "connected" /\ ~ctx[e].linkUp
    /\ Becomes(e, LcpOpen(Prepared(ctx[e])), wire)
    /\ user' = [user EXCEPT ![e] = "connecting"]
    /\ connects' = [connects EXCEPT ![e] = @ + 1]
    /\ Within(faults, connects')
    /\ UNCHANGED faults

\* The loops of pppConnect and pppClose look at the context without the mutex.
ConnectReturns(e) ==
    /\ user[e] = "connecting"
    /\ ctx[e].phase = "Network" /\ ctx[e].ipcp.state = "Opened"
    /\ user' = [user EXCEPT ![e] = "connected"]
    /\ UNCHANGED <<ctx, wire, connects, faults>>

ConnectFails(e) ==
    /\ user[e] = "connecting"
    /\ ctx[e].phase = "Dead"
    /\ user' = [user EXCEPT ![e] = "aborting"]
    /\ UNCHANGED <<ctx, wire, connects, faults>>

Close(e) ==
    /\ user[e] = "connected"
    /\ Becomes(e, LcpClose(ctx[e]), wire)
    /\ user' = [user EXCEPT ![e] = "closing"]
    /\ UNCHANGED <<connects, faults>>

CloseReturns(e) ==
    /\ user[e] = "closing" /\ ctx[e].phase = "Dead"
    /\ user' = [user EXCEPT ![e] = "idle"]
    /\ UNCHANGED <<ctx, wire, connects, faults>>

\* The timeout of either call.
TimesOut(e) ==
    /\ user[e] \in {"connecting", "closing"}
    /\ user' = [user EXCEPT ![e] = "aborting"]
    /\ Fault("timeout")
    /\ UNCHANGED <<ctx, wire, connects>>

\* The error path of both calls, once they have the mutex.
Abort(e) ==
    /\ user[e] = "aborting"
    /\ ctx' = [ctx EXCEPT ![e].phase = "Dead", ![e].lcp.state = "Initial",
                          ![e].ipcp.state = "Initial", ![e].pap.state = "Initial"]
    /\ user' = [user EXCEPT ![e] = "idle"]
    /\ UNCHANGED <<wire, connects, faults>>

\* The settings of an end, with a context that pppInit has cleared.
Fresh(s) ==
    [phase |-> "Dead", lcp |-> NewFsm, ipcp |-> NewFsm, pap |-> NewFsm,
     localAuthDone |-> FALSE, peerAuthDone |-> FALSE, peerAuth |-> FALSE,
     localIp |-> Unspecified, peerIp |-> Unspecified, dnsRejected |-> FALSE,
     addr |-> s.addr, gateway |-> s.gateway, linkUp |-> FALSE,
     authenticates |-> s.authenticates, allowsPap |-> s.allowsPap,
     password |-> s.password, out |-> << >>]

Init ==
    /\ \E s \in Setups : ctx = [e \in Ends |-> Fresh(s[e])]
    /\ wire = [e \in Ends |-> << >>]
    /\ user = [e \in Ends |-> "idle"]
    /\ connects = [e \in Ends |-> 0]
    /\ faults = [f \in {"lost", "early", "timeout"} |-> 0]

Next ==
    \E e \in Ends :
        \/ Frame(e) \/ Lose(e)
        \/ LcpTick(e) \/ IpcpTick(e) \/ PapTick(e)
        \/ Connect(e) \/ ConnectReturns(e) \/ ConnectFails(e)
        \/ Close(e) \/ CloseReturns(e) \/ TimesOut(e) \/ Abort(e)

Spec == Init /\ [][Next]_vars

\* The line, the loops of the calls and the periodic pppTick go on.  A timer
\* that is due again and again expires, whatever the other end sends meanwhile.
System(e) ==
    Frame(e) \/ ConnectReturns(e) \/ ConnectFails(e) \/ CloseReturns(e) \/ Abort(e)
Tick(e) == (LcpTick(e) \/ IpcpTick(e) \/ PapTick(e)) /\ faults' = faults

Fairness == /\ WF_vars(\E e \in Ends : System(e))
            /\ \A e \in Ends : SF_vars(Tick(e))
FairSpec == Spec /\ Fairness

-----------------------------------------------------------------------------
(* Properties.                                                             *)

Addresses ==
    {Unspecified} \union UNION {{s[e].addr, s[e].gateway} : s \in Setups, e \in Ends}
Fsm == [state : States, id : 0 .. IdModulus - 1,
        count : (0 .. MaxConfigure) \union (0 .. MaxTerminate)]

\* Automata, identifiers, restart counters and addresses keep to their ranges, and
\* the timer of PAP runs in the phase of authentication only.
TypeOK ==
    /\ \A e \in Ends :
         LET c == ctx[e] IN
         /\ c.phase \in {"Dead", "Establish", "Authenticate", "Network", "Terminate"}
         /\ {c.lcp, c.ipcp} \subseteq Fsm
         /\ c.pap.state \in {"Initial", "ReqSent", "AckRcvd", "NakRcvd"}
         /\ c.pap.state = "ReqSent" => c.phase = "Authenticate"
         /\ c.pap.count \in 0 .. MaxRequests
         /\ {c.localIp, c.peerIp, c.addr, c.gateway} \subseteq Addresses
         /\ c.out = << >>
    /\ user \in [Ends -> {"idle", "connecting", "connected", "closing", "aborting"}]

\* IPCP is at work only on an open link in the network phase, and never with a
\* peer that has to authenticate itself and cannot: not after a link that was
\* renegotiated, nor with what a former connection left on the line
\* (lcpThisLayerUp, lcpThisLayerDown, papProcessAuthReq, papProcessAuthAck).
NetworkIsAuthenticated ==
    \A e \in Ends : ctx[e].ipcp.state # "Initial" =>
        /\ ctx[e].lcp.state = "Opened" /\ ctx[e].phase = "Network"
        /\ ctx[e].authenticates => ctx[Peer(e)].password

Quiet == \A e \in Ends : wire[e] = << >>

\* When both ends have opened IPCP and nothing is on the line, each routes to
\* the address the other has taken, and they have taken two
\* (ipcpParseIpAddressOption, ipcpProcessConfigureNak, ipcpThisLayerUp).
AddressesAgree ==
    (Quiet /\ \A e \in Ends : ctx[e].ipcp.state = "Opened") =>
        \A e \in Ends : /\ ctx[e].addr = ctx[Peer(e)].gateway
                        /\ ctx[e].addr \notin {Unspecified, ctx[Peer(e)].addr}

\* The interface is up exactly as long as IPCP is open (ipcpThisLayerUp,
\* ipcpThisLayerDown), unless a call was aborted by its timeout: pppConnect
\* decides to abort without the mutex, and resets an automaton that has opened
\* meanwhile without This-Layer-Down.
LinkFollowsIpcp ==
    \A e \in Ends :
        /\ ctx[e].ipcp.state = "Opened" => ctx[e].linkUp
        /\ faults["timeout"] = 0 /\ ctx[e].linkUp => ctx[e].ipcp.state = "Opened"

NoFaults == \A f \in DOMAIN faults : faults[f] = 0

Settled ==
    Quiet /\ \A e \in Ends : /\ {ctx[e].lcp.state, ctx[e].ipcp.state} \intersect Timed = {}
                             /\ ctx[e].pap.state # "ReqSent" /\ user[e] # "aborting"

\* A link on which nothing was lost is not left half open: when no packet and
\* no timer is outstanding, either end is open only with the other, however
\* their connects and closes crossed (the tables of ppp_fsm.c).
NoHalfOpenLink ==
    (Settled /\ NoFaults) =>
        \A e \in Ends : ctx[e].lcp.state = "Opened" => ctx[Peer(e)].lcp.state = "Opened"

\* Without faults pppConnect returns, also with an infinite timeout: the link
\* opens or the restart counters run out.
ConnectEnds ==
    \A e \in Ends : user[e] = "connecting" ~> user[e] # "connecting" \/ ~NoFaults

\* pppClose returns, whatever is lost and whether or not the peer still answers.
CloseEnds == \A e \in Ends : user[e] = "closing" ~> user[e] # "closing"
=============================================================================
