\* A whole turn of the sequence numbers; the buffer does not divide the modulus.
SPECIFICATION Spec
CONSTANTS
  Modulus = 32
  Irs = 9
  Start = 28
  Length = 10
  Mss = 3
  RxBufferSize = 6
  MaxSackBlocks = 2
INVARIANTS
  UnreadBytesAreRight
CHECK_DEADLOCK FALSE
