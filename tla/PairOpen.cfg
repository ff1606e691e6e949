\* Active, passive and simultaneous opens, old segments about; the server gives up.
SPECIFICATION Spec
CONSTANTS
  Mss = 1
  TxBufferSize = 2
  RxBufferSize = 2
  MaxRetries = 1
  Ends <- ClientServer
  Active <- ClientServer
  Passive <- Server
  Iss <- InitialSeq
  WriteLimit <- NoData
  Shutters <- NoEnd
  Followers <- NoEnd
  Closers <- Server
  Strays <- OldSegments
INVARIANTS
  EndsAgree
CHECK_DEADLOCK FALSE
