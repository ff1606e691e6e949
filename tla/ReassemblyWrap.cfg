\* As Reassembly.cfg: the merge of blocks at the wrap-around.
SPECIFICATION Spec
CONSTANTS
  Modulus = 32
  Irs = 9
  Start = 17
  Length = 10
  Mss = 3
  RxBufferSize = 8
  MaxSackBlocks = 2
INVARIANTS
  InOrderDataIsTaken
CHECK_DEADLOCK FALSE
