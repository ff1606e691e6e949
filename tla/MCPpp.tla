------------------------------- MODULE MCPpp -------------------------------
(* Four links for Ppp: a server that gives its client an address, two      *)
(* ends that authenticate each other, one with a wrong password, a client  *)
(* that may not use PAP, and two ends with addresses of their own.         *)
EXTENDS Ppp

MCEnds == {"a", "b"}

Server == [authenticates |-> TRUE, allowsPap |-> TRUE, password |-> TRUE,
           addr |-> "x", gateway |-> "y"]
Client == [Server EXCEPT !.authenticates = FALSE, !.addr = Unspecified, !.gateway = Unspecified]
Other  == [Server EXCEPT !.addr = "y", !.gateway = "x"]

Link(s, t) == [e \in MCEnds |-> IF e = "a" THEN s ELSE t]

MCSetups ==
    {Link(Server, Client),
     Link(Server, [Other EXCEPT !.password = FALSE]),
     Link(Server, [Client EXCEPT !.allowsPap = FALSE]),
     Link([Server EXCEPT !.authenticates = FALSE], [Other EXCEPT !.authenticates = FALSE])}
=============================================================================
