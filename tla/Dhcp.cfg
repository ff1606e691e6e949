CONSTANTS
  c = c
  d = d
  f = f
  Macs = {c, d, f}
  Hosts = {c, d}
  Interrupted = {c}
  IpAddrRangeMin = 1
  IpAddrRangeMax = 2
  MaxClients = 2
  MaxRc = 1
  ProbeNum = 1
  InFlight = 1
SPECIFICATION Spec
VIEW View
INVARIANTS
  TypeOK
  BindingsApart
  ValidOnlyWithLease
PROPERTIES
  CommittedIsItsClients
  NewAddressIsProbed
  ImplementsAddressUse
