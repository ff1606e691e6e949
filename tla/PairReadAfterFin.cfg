\* The server writes one byte and both shut down.
SPECIFICATION EstablishedSpec
CONSTANTS
  Mss = 1
  TxBufferSize = 2
  RxBufferSize = 2
  MaxRetries = 1
  Ends <- ClientServer
  Active <- Client
  Passive <- Server
  Iss <- InitialSeq
  WriteLimit <- Download1
  Shutters <- ClientServer
  Followers <- Server
  Closers <- NoEnd
  Strays <- NoStrays
INVARIANTS
  ReadsReturnTheStream
CHECK_DEADLOCK FALSE
