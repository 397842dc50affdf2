SPECIFICATION Spec

CONSTANTS
  t1 = t1
  t2 = t2
  Threads = {t1, t2}
  Nobody = Nobody
  Nothing = Nothing
  Torn = Torn
  Domains = {1}
  InitialEpoch = 1
  MaxGeneration = 2
  MaxActions = 1
  MaxRuns = 2
  MaxCommands = 4
  PossibleParents <- NoCouplings
  PossibleCouplings <- NoCouplings

INVARIANTS
  AnsweredIsDurable

CHECK_DEADLOCK FALSE
