CONSTANTS
  d1 = d1  w1 = w1  w2 = w2  p0 = p0  p1 = p1  t1 = t1  t2 = t2
  NoWorker = NoWorker  DefaultPolicy = p0  PolicyOf <- MCOwnPolicy
  Domains = {d1}
  Workers = {w1, w2}
  Policies = {p0, p1}
  MaxActions = 1
  MaxWorkers = 2
  MaxVerifications = 2
  MaxBoot = 2
  MaxDeviceGeneration = 2
  MaxDomainGeneration = 2
  MaxPolicyGeneration = 2
  MaxTopology = 2
  MaxCapability = 2
  MaxSequence = 2
  MaxTime = 2
  Callers = {t1, t2}
SPECIFICATION Spec
INVARIANTS VerifiedOnce CancelledNeverRan MembersFencedByDomain UsableEvidenceIsCurrent KnownActionsDieWithTheirBoot
PROPERTIES KeepsContract NothingProvenAfterShutdown
SYMMETRY MCSymmetry
CONSTRAINT Explored
