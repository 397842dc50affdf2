SPECIFICATION Spec

CONSTANTS
  a = a
  b = b
  w1 = w1
  LimitOf <- NoLimit
  WorkerOf <- SameWorker
  Policy <- MCPolicy
  Throttles = {TRUE, FALSE}
  MaxDelay = 0
  Period = 1
  MaxBoot = 1
  Capacity = 2
  PossibleCouplings <- NoCouplings
  CapabilityChoices <- MCSupported
  Requests <- MCRequests
  Domains = {1}
  Devices = {a}
  Members <- OneMember
  Temperatures = {1, 5}

INVARIANTS
  HeatIsOutlived
