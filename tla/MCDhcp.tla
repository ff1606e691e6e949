------------------------------- MODULE MCDhcp -------------------------------
(* An instance of Dhcp for TLC, and the view that tells its states apart.   *)
EXTENDS Dhcp

\* Fields that are overwritten before they are read again count as one value.
\* Of an identifier it counts whether it is the current one of the client: only
\* then is an answer that carries it heeded, now or later.
Heeded(r) == r.running /\ r.state \notin {"INIT", "SELECTING"}
ViewOf(r) ==
    [r EXCEPT
       !.transactionId = 0,
       !.requestedIpAddr = IF Heeded(r) THEN @ ELSE Unspecified,
       !.conflict = @ /\ r.state = "PROBING",
       !.addr = IF r.state = "INIT" /\ r.addrState = "TENTATIVE" THEN 0 ELSE @]
Current(m) == m.mac \in Hosts /\ m.xid = client[m.mac].transactionId
Live == {m \in net : Current(m) \/ m.type \notin {"OFFER", "ACK", "NAK"}}
View == <<clientBinding, nextIpAddr, [c \in Hosts |-> ViewOf(client[c])],
          {[m EXCEPT !.xid = IF Current(m) THEN 1 ELSE 0] : m \in Live}>>
=============================================================================
