------------------------------ MODULE MCTcpPair ------------------------------
(* Instances of TcpPair for TLC: a client "c" and a server "s".            *)
EXTENDS TcpPair

ClientServer == {"c", "s"}
NoEnd == {}
Server == {"s"}
Client == {"c"}
InitialSeq == [e \in ClientServer |-> IF e = "c" THEN 10 ELSE 30]
Upload3 == [e \in ClientServer |-> IF e = "c" THEN 3 ELSE 0]
NoData == [e \in ClientServer |-> 0]
Download1 == [e \in ClientServer |-> IF e = "s" THEN 1 ELSE 0]
OneByte == [e \in ClientServer |-> IF e = "c" THEN 1 ELSE 0]
NoStrays == [e \in ClientServer |-> {}]
\* To the server: a SYN that is not the client's, inside the window of the
\* connection, and an ACK of what the server never sent.
OldSegments ==
    [e \in ClientServer |->
        IF e = "c" THEN {}
        ELSE {[flags |-> {"SYN"}, seq |-> 11, ack |-> 0, wnd |-> 2, data |-> << >>],
              [flags |-> {"ACK"}, seq |-> 11, ack |-> 99, wnd |-> 2, data |-> << >>]}]

\* What the theorems of TcpEndsProofs assume of the strays holds here.
ASSUME OldSegmentsAssumption == StraysAreOld
=============================================================================
