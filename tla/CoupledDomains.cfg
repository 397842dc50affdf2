SPECIFICATION FairSpec

CONSTANTS
  a = a
  b = b
  w1 = w1
  LimitOf <- NoLimit
  WorkerOf <- SameWorker
  Policy <- MCEagerPolicy
  Throttles = {FALSE}
  MaxDelay = 0
  Period = 1
  MaxBoot = 1
  Capacity = 2
  PossibleCouplings <- BothWays
  CapabilityChoices <- MCSupported
  Requests <- MCRequests
  Domains = {1, 2}
  Devices = {a, b}
  Members <- SharedMember
  Temperatures = {1, 5}

INVARIANTS
  PressureIsFelt
  HotNeverHealthy

PROPERTIES
  MutualRestrictionHolds
  CalmDomainsRecover
