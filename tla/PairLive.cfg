\* A connection opened and closed at once, by either end.
SPECIFICATION FairSpec
CONSTANTS
  Mss = 1
  TxBufferSize = 2
  RxBufferSize = 2
  MaxRetries = 1
  Ends <- ClientServer
  Active <- Client
  Passive <- Server
  Iss <- InitialSeq
  WriteLimit <- NoData
  Shutters <- ClientServer
  Followers <- NoEnd
  Closers <- NoEnd
  Strays <- NoStrays
PROPERTIES
  TransientStatesEnd
CHECK_DEADLOCK FALSE
