------------------------------- MODULE PppFsm -------------------------------
(***************************************************************************)
(* The automaton that LCP and the network control protocols share          *)
(* (ppp/ppp_fsm.c).  An event in a state gives the next state and the      *)
(* callbacks the automaton makes, in their order:                          *)
(*   tlu, tld, tlf     This-Layer-Up, -Down, -Finished                     *)
(*   ircConf, ircTerm  set the restart counter for Configure or Terminate  *)
(*   zrc               zero the restart counter                            *)
(*   scr, str          send Configure-Request, Terminate-Request           *)
(*   sca, scn, scj     answer a Configure-Request by Ack, Nak or Reject    *)
(*   sta, ack          send Terminate-Ack on one's own, or as an answer    *)
(* This-Layer-Started only traces and is left out.                         *)
(***************************************************************************)
EXTENDS Naturals

States == {"Initial", "Starting", "Closed", "Stopped", "Closing", "Stopping",
           "ReqSent", "AckRcvd", "AckSent", "Opened"}

\* The states in which the restart timer runs.
Timed == {"Closing", "Stopping", "ReqSent", "AckRcvd", "AckSent"}
Negotiating == {"ReqSent", "AckRcvd", "AckSent"}

Step(state, does) == [to |-> state, does |-> does]
To(state) == Step(state, << >>)

UpEvent(s) ==
    CASE s = "Initial"  -> Step("Closed", << >>)
      [] s = "Starting" -> Step("ReqSent", <<"ircConf", "scr">>)
      [] OTHER          -> To(s)

DownEvent(s) ==
    CASE s \in {"Closed", "Closing"}                            -> To("Initial")
      [] s \in {"Stopped", "Stopping"} \union Negotiating       -> To("Starting")
      [] s = "Opened"                                           -> Step("Starting", <<"tld">>)
      [] OTHER                                                  -> To(s)

OpenEvent(s) ==
    CASE s = "Initial" -> To("Starting")
      [] s = "Closed"  -> Step("ReqSent", <<"ircConf", "scr">>)
      [] s = "Closing" -> To("Stopping")
      [] OTHER         -> To(s)

CloseEvent(s) ==
    CASE s = "Starting"       -> Step("Initial", <<"tlf">>)
      [] s = "Stopped"        -> To("Closed")
      [] s = "Stopping"       -> To("Closing")
      [] s \in Negotiating    -> Step("Closing", <<"ircTerm", "str">>)
      [] s = "Opened"         -> Step("Closing", <<"ircTerm", "str", "tld">>)
      [] OTHER                -> To(s)

\* Mutant: an end that has acknowledged does not repeat its own request.
TimeoutEventQuietly(s, count) ==
    CASE count > 0 /\ s \in {"Closing", "Stopping"} -> Step(s, <<"str">>)
      [] count > 0 /\ s \in {"ReqSent", "AckRcvd"}  -> Step("ReqSent", <<"scr">>)
      [] count = 0 /\ s = "Closing"                 -> Step("Closed", <<"tlf">>)
      [] count = 0 /\ s \in Timed \ {"Closing"}     -> Step("Stopped", <<"tlf">>)
      [] OTHER                                      -> To(s)

\* count: the restart counter.
TimeoutEvent(s, count) ==
    CASE count > 0 /\ s \in {"Closing", "Stopping"} -> Step(s, <<"str">>)
      [] count > 0 /\ s \in {"ReqSent", "AckRcvd"}  -> Step("ReqSent", <<"scr">>)
      [] count > 0 /\ s = "AckSent"                 -> Step(s, <<"scr">>)
      [] count = 0 /\ s = "Closing"                 -> Step("Closed", <<"tlf">>)
      [] count = 0 /\ s \in Timed \ {"Closing"}     -> Step("Stopped", <<"tlf">>)
      [] OTHER                                      -> To(s)

\* Mutant: the layer above is not told that the link is renegotiated.
RcvConfigureReqUntold(s) ==
    CASE s = "Closed"               -> Step(s, <<"sta">>)
      [] s = "Stopped"              -> Step("AckSent", <<"ircConf", "scr", "sca">>)
      [] s \in {"ReqSent", "AckSent"} -> Step("AckSent", <<"sca">>)
      [] s = "AckRcvd"              -> Step("Opened", <<"sca", "tlu">>)
      [] s = "Opened"               -> Step("AckSent", <<"scr", "sca">>)
      [] OTHER                      -> To(s)

\* A Configure-Request whose options are all acceptable.
RcvConfigureReqAcceptable(s) ==
    CASE s = "Closed"               -> Step(s, <<"sta">>)
      [] s = "Stopped"              -> Step("AckSent", <<"ircConf", "scr", "sca">>)
      [] s \in {"ReqSent", "AckSent"} -> Step("AckSent", <<"sca">>)
      [] s = "AckRcvd"              -> Step("Opened", <<"sca", "tlu">>)
      [] s = "Opened"               -> Step("AckSent", <<"scr", "sca", "tld">>)
      [] OTHER                      -> To(s)

\* A Configure-Request to be answered by no: a Nak or a Reject.
RcvConfigureReqRefused(s, no) ==
    CASE s = "Closed"                 -> Step(s, <<"sta">>)
      [] s = "Stopped"                -> Step("ReqSent", <<"ircConf", "scr", no>>)
      [] s \in {"ReqSent", "AckSent"} -> Step("ReqSent", <<no>>)
      [] s = "AckRcvd"                -> Step(s, <<no>>)
      [] s = "Opened"                 -> Step("ReqSent", <<"scr", no, "tld">>)
      [] OTHER                        -> To(s)

RcvConfigureAckEvent(s) ==
    CASE s \in {"Closed", "Stopped"} -> Step(s, <<"sta">>)
      [] s = "ReqSent"               -> Step("AckRcvd", <<"ircConf">>)
      [] s = "AckRcvd"               -> Step("ReqSent", <<"scr">>)
      [] s = "AckSent"               -> Step("Opened", <<"ircConf", "tlu">>)
      [] s = "Opened"                -> Step("ReqSent", <<"scr", "tld">>)
      [] OTHER                       -> To(s)

\* Also the event of a Configure-Reject.
RcvConfigureNakEvent(s) ==
    CASE s \in {"Closed", "Stopped"}  -> Step(s, <<"sta">>)
      [] s \in {"ReqSent", "AckSent"} -> Step(s, <<"ircConf", "scr">>)
      [] s = "AckRcvd"                -> Step("ReqSent", <<"scr">>)
      [] s = "Opened"                 -> Step("ReqSent", <<"scr", "tld">>)
      [] OTHER                        -> To(s)

\* Mutant: the request to terminate is answered and not obeyed.
RcvTerminateReqAnswered(s) == IF s \in {"Initial", "Starting"} THEN To(s) ELSE Step(s, <<"ack">>)

RcvTerminateReqEvent(s) ==
    CASE s \in {"Closed", "Stopped", "Closing", "Stopping"} -> Step(s, <<"ack">>)
      [] s \in Negotiating -> Step("ReqSent", <<"ack">>)
      [] s = "Opened"      -> Step("Stopping", <<"zrc", "ack", "tld">>)
      [] OTHER             -> To(s)

RcvTerminateAckEvent(s) ==
    CASE s = "Closing"  -> Step("Closed", <<"tlf">>)
      [] s = "Stopping" -> Step("Stopped", <<"tlf">>)
      [] s = "AckRcvd"  -> To("ReqSent")
      [] s = "Opened"   -> Step("ReqSent", <<"scr", "tld">>)
      [] OTHER          -> To(s)

\* The peer rejects something that cannot be done without.
RcvCodeRejCatastrophic(s) ==
    CASE s \in {"Closed", "Stopped"}   -> Step(s, <<"tlf">>)
      [] s = "Closing"                 -> Step("Closed", <<"tlf">>)
      [] s \in Timed \ {"Closing"}     -> Step("Stopped", <<"tlf">>)
      [] s = "Opened"                  -> Step("Stopping", <<"ircTerm", "str", "tld">>)
      [] OTHER                         -> To(s)
=============================================================================
