SPECIFICATION FairSpec
CONSTANTS
  Server = {s, t, u}
  Datagram = {s}
  s = s
  t = t
  u = u
  PORT_RANGE_LO = 10000
  PORT_RANGE_HI = 10001
  Free = Free
  Other = Other
  Unset = Unset
  Interfaces <- Hosts
  MayExit = TRUE
INVARIANTS
  TypeOK
  BoundToItsPort
  PrintsItsPort
  FailsOnlyWhenFull
  PrintsInterfaceAddress
PROPERTIES
  StartsOrFails
CHECK_DEADLOCK FALSE
