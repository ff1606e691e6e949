------------------------------- MODULE TcpSeq -------------------------------
(***************************************************************************)
(* Sequence numbers as core/tcp.h compares them: unsigned integers of a    *)
(* fixed width (2^32 in the code, Modulus here) whose difference is read   *)
(* as a signed integer.                                                    *)
(***************************************************************************)
EXTENDS Integers

CONSTANT Modulus

ASSUME ModulusAssumption ==
    /\ Modulus \in Nat \ {0}
    /\ Modulus % 2 = 0

SeqNum == 0 .. Modulus - 1

\* The sequence number n places after that of the start of a stream.
Wrap(n) == n % Modulus

\* TCP_CMP_SEQ(a, b): (int32_t) (a - b).
CmpSeq(a, b) ==
    LET d == Wrap(a - b)
    IN  IF d + d >= Modulus THEN d - Modulus ELSE d
=============================================================================
