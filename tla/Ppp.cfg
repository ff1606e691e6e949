CONSTANTS
  Ends <- MCEnds
  Setups <- MCSetups
  MaxTrouble = 2
  MaxConfigure = 2
  MaxTerminate = 2
  MaxRequests = 1
  IdModulus = 8
SPECIFICATION FairSpec
INVARIANTS
  TypeOK
  NetworkIsAuthenticated
  AddressesAgree
  LinkFollowsIpcp
  NoHalfOpenLink
PROPERTIES
  ConnectEnds
  CloseEnds
CHECK_DEADLOCK FALSE
