SPECIFICATION FairSpec

CONSTANTS
  t1 = t1
  t2 = t2
  Threads = {t1, t2}
  Nobody = Nobody
  Nothing = Nothing
  Torn = Torn
  Domains = {1, 2}
  InitialEpoch = 1
  MaxGeneration = 2
  MaxActions = 1
  MaxRuns = 2
  MaxCommands = 3
  PossibleParents <- MCParents
  PossibleCouplings <- MCCouplings

INVARIANTS
  LiveAuthorityIsOfThisRun
  FileIsSelfContained
  AnsweredWasFlushed

PROPERTIES
  StoreIsAtomic
  CommandsAreAnswered

CHECK_DEADLOCK FALSE
