SPECIFICATION FairSpec

CONSTANTS
  c1 = c1
  c2 = c2
  c3 = c3
  Connections = {c1, c2, c3}
  MaxConnections = 2

INVARIANTS
  RegistryHasNoDeadSocket
  NothingFreedInUse

PROPERTIES
  CoordinatorStops

CHECK_DEADLOCK FALSE
