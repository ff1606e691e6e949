\* Three bytes in segments of one or two through a window of two, then a shutdown.
SPECIFICATION FairEstablishedSpec
CONSTANTS
  Mss = 2
  TxBufferSize = 2
  RxBufferSize = 2
  MaxRetries = 1
  Ends <- ClientServer
  Active <- Client
  Passive <- Server
  Iss <- InitialSeq
  WriteLimit <- Upload3
  Shutters <- Client
  Followers <- NoEnd
  Closers <- NoEnd
  Strays <- NoStrays
INVARIANTS
  TypeOK
  ReceiveAccounting
  NoOverrun
  FlightIsQueued
PROPERTIES
  ImplementsByteStream
  WindowNeverShrinks
  BufferDrains
CHECK_DEADLOCK FALSE
