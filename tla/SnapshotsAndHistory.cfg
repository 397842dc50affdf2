SPECIFICATION Spec

CONSTANTS
  t1 = t1
  t2 = t2
  v1 = v1
  a = a
  Threads = {t1, t2}
  Main = Main
  Nobody = Nobody
  Nothing = Nothing
  Domains = {1, 2}
  Devices = {v1}
  Labels = {a}
  Verdicts <- MCVerdicts
  BlindVerdicts <- MCBlindVerdicts
  MaxHistory = 2
  HasPath = TRUE
  PossibleCouplings <- MCCouplings
  MaxGeneration = 2
  MaxSequence = 3
  MaxTopology = 5
  MaxRuns = 2

INVARIANTS
  SnapshotIsSound
  HistoryIsFaithful

PROPERTIES
  ReadersNeverGoBack
  BumpsKeepTheDefinition

SYMMETRY MCSymmetry

CONSTRAINT Explored

CHECK_DEADLOCK FALSE
