---------------------------- MODULE MCSocketTable ----------------------------
(* Instances of SocketTable for TLC: a listener and one or two more sockets. *)
EXTENDS SocketTable

OneConnection == {0, 1}
TwoConnections == {0, 1, 2}
Levels == {"acked", "full"}
ReadyEvents == {"RX_READY"}

\* One thread serves, reads, writes and shuts down, the other connects.
ServerAndClient ==
    [t \in {"a", "b"} |->
        IF t = "a" THEN {"accept", "receive", "send", "poll", "shutTx"}
                   ELSE {"connect"}]
\* One thread accepts and shuts down.
ServerOnly == [t \in {"a"} |-> {"accept", "shutTx"}]

\* States that differ only in the events of a socket on which no thread is in a
\* call are alike: every call sets the mask, the flags and the event anew.
InUse(i) == \E t \in Threads : thread[t] # Idle /\ thread[t].on = i
Visible(i) ==
    IF InUse(i) THEN sock[i]
    ELSE [sock[i] EXCEPT !.eventMask = {}, !.eventFlags = {}, !.event = FALSE,
                         !.userEvent = None]
View == <<[i \in Sockets |-> Visible(i)], timeWait, held, thread, signalled,
          shared, recycled>>
=============================================================================
