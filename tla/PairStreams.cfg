\* The client writes one byte; both users may shut down at any time.
SPECIFICATION EstablishedSpec
CONSTANTS
  Mss = 1
  TxBufferSize = 2
  RxBufferSize = 2
  MaxRetries = 1
  Ends <- ClientServer
  Active <- Client
  Passive <- Server
  Iss <- InitialSeq
  WriteLimit <- OneByte
  Shutters <- ClientServer
  Followers <- NoEnd
  Closers <- NoEnd
  Strays <- NoStrays
INVARIANTS
  FlightIsQueued
  FinishedMeansReceived
PROPERTIES
  ImplementsByteStream
CHECK_DEADLOCK FALSE
