SPECIFICATION Spec

CONSTANTS
  t1 = t1
  t2 = t2
  Threads = {t1}
  Nobody = Nobody
  Nothing = Nothing
  Torn = Torn
  Domains = {1}
  InitialEpoch = 1
  MaxGeneration = 1
  MaxActions = 1
  MaxRuns = 3
  MaxCommands = 4
  PossibleParents <- NoCouplings
  PossibleCouplings <- NoCouplings

INVARIANTS
  ReportsReachTheirAction

CHECK_DEADLOCK FALSE
