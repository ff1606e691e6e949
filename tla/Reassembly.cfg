\* The window moves across the wrap-around; the buffer divides the modulus.
SPECIFICATION Spec
CONSTANTS
  Modulus = 32
  Irs = 9
  Start = 17
  Length = 10
  Mss = 3
  RxBufferSize = 8
  MaxSackBlocks = 2
INVARIANTS
  UnreadBytesAreRight
  OnlyReceivedIsAcknowledged
  BlocksAreApart
  NoGapUnlessWrapped
CHECK_DEADLOCK FALSE
