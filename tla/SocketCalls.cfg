\* Two threads, one connection at a time, every kind of wait.
SPECIFICATION Spec
CONSTANTS
  Sockets <- OneConnection
  Listener = 0
  Peers = {"p"}
  Threads = {"a", "b"}
  Backlog = 1
  TxLevels <- Levels
  Calls <- ServerAndClient
  PollMask <- ReadyEvents
  Timed = {"b"}
VIEW View
INVARIANTS
  TypeOK
  NoWakeupIsLost
  ClosedSocketWakes
  WokenFindsItsEvent
CHECK_DEADLOCK FALSE
