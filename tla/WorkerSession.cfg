SPECIFICATION FairSpec

CONSTANTS
  worker = worker
  first = first
  second = second
  driver = driver
  Processes = {first, second}
  Drivers = {driver}
  Workers = {worker}
  WorkerOf <- MCWorkerOf
  BootOf <- MCBootOf
  Rounds <- MCRounds
  DriverKinds = {"QUERY_REQUEST", "DISCONNECT"}
  RequestRoom = 1
  AnswerRoom = 4

INVARIANTS
  AnswersInStep
  ReadyHasHalf
  TrustedIsCurrent

PROPERTIES
  HeldMovesForward
  ProcessesSettle
  StopReachesAll

CHECK_DEADLOCK FALSE
