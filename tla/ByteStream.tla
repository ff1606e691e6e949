----------------------------- MODULE ByteStream -----------------------------
(***************************************************************************)
(* What a TCP connection promises the users of its two ends: each reads    *)
(* the bytes the other wrote, in order and without gaps, and is told the   *)
(* stream has ended only after its last byte.  Either end may be left      *)
(* alone at any time: its connection is over and nothing more is promised. *)
(***************************************************************************)
EXTENDS Integers, Sequences

CONSTANTS Ends, Lost

VARIABLES
    written,     \* how many bytes each end wrote: the bytes are 1, 2, 3 ...
    delivered,   \* what each end read
    finished,    \* the ends that promised to write no more
    eos,         \* the ends that were told the stream of their peer ended
    over         \* the ends whose connection is over

vars == <<written, delivered, finished, eos, over>>

Peer(e) == CHOOSE p \in Ends : p # e

Init ==
    /\ written = [e \in Ends |-> 0]
    /\ delivered = [e \in Ends |-> << >>]
    /\ finished = {} /\ eos = {}
    /\ over \subseteq Ends

Begin(e) == /\ over' = over \ {e}
            /\ delivered[e] = << >> /\ written[e] = 0
            /\ UNCHANGED <<written, delivered, finished, eos>>

Write(e) == /\ e \notin finished \cup over
            /\ written'[e] > written[e]
            /\ written' = [written EXCEPT ![e] = written'[e]]
            /\ UNCHANGED <<delivered, finished, eos, over>>

Finish(e) == /\ e \notin over
             /\ finished' = finished \cup {e}
             /\ UNCHANGED <<written, delivered, eos, over>>

\* The next n bytes of the peer.
Read(e) == \E n \in 1 .. written[Peer(e)] - Len(delivered[e]) :
              /\ delivered' = [delivered EXCEPT
                    ![e] = @ \o [i \in 1 .. n |-> Len(@) + i]]
              /\ UNCHANGED <<written, finished, eos, over>>

\* What a user reads after the connection is over may be lost.
ReadLost(e) == \E n \in 1 .. written[Peer(e)] - Len(delivered[e]) :
                  /\ e \in over
                  /\ delivered' = [delivered EXCEPT
                        ![e] = @ \o [i \in 1 .. n |-> Lost]]
                  /\ UNCHANGED <<written, finished, eos, over>>

EndOfStream(e) == /\ Peer(e) \in finished
                  /\ Len(delivered[e]) = written[Peer(e)]
                  /\ eos' = eos \cup {e}
                  /\ UNCHANGED <<written, delivered, finished, over>>

Leave(e) == /\ over' = over \cup {e}
            /\ UNCHANGED <<written, delivered, finished, eos>>

Next == \E e \in Ends : \/ Begin(e) \/ Write(e) \/ Finish(e) \/ Read(e)
                        \/ ReadLost(e) \/ EndOfStream(e) \/ Leave(e)

Spec == Init /\ [][Next]_vars
=============================================================================
