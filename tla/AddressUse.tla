----------------------------- MODULE AddressUse -----------------------------
(* What address configuration promises the hosts of a link: an address is  *)
(* used by one of them at a time, and passes from one to another only      *)
(* through a time when nobody uses it.                                     *)
CONSTANTS Hosts, Addresses, NoAddress

VARIABLE uses   \* the address each host uses, or NoAddress

Init == uses = [h \in Hosts |-> NoAddress]

Take(h, a) ==
    /\ uses[h] = NoAddress
    /\ \A d \in Hosts : uses[d] # a
    /\ uses' = [uses EXCEPT ![h] = a]

Leave(h) ==
    /\ uses[h] # NoAddress
    /\ uses' = [uses EXCEPT ![h] = NoAddress]

Next == \E h \in Hosts : /\ uses'[h] # uses[h]
                         /\ Leave(h) \/ \E a \in Addresses : Take(h, a)

Spec == Init /\ [][Next]_uses
=============================================================================
