SPECIFICATION Spec

CONSTANTS
  a = a
  b = b
  w1 = w1
  LimitOf <- NoLimit
  WorkerOf <- SameWorker
  Policy <- MCExplicitPolicy
  Throttles = {TRUE, FALSE}
  MaxDelay = 0
  Period = 1
  MaxBoot = 2
  Capacity = 3
  PossibleCouplings <- NoCouplings
  CapabilityChoices <- MCCapabilities
  Requests <- MCRequests
  Domains = {1}
  Devices = {a}
  Members <- OneMember
  Temperatures = {1, 3, 5, 7}

INVARIANTS
  TypeOK
  AdmissionIsSafe

PROPERTIES
  RecoveryIsEarned
  DeratingNeverExpands
