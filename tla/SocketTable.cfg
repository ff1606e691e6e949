\* A server with a queue of two SYNs, two clients, and a table they fill.
SPECIFICATION FairSpec
CONSTANTS
  Sockets <- TwoConnections
  Listener = 0
  Peers = {"p", "q"}
  Threads = {"a"}
  Backlog = 2
  TxLevels = {"acked"}
  Calls <- ServerOnly
  PollMask <- ReadyEvents
  Timed = {}
INVARIANTS
  ConnectionIsUnique
  NoDescriptorIsLost
PROPERTIES
  LiveSocketIsKept
  AcceptorIsServed
CHECK_DEADLOCK FALSE
