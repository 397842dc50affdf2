SPECIFICATION ESpec

CONSTANTS
  Capabilities = 2
  MaxString = 2
  MaxDevices = 2
  MaxIntents = 2
  MaxCollection = 2
  MaxFile = 1120
  MaxRecords = 20
  MaxRecord = 400
  MaxText = 2
  MaxRestrictions = 2
  Most <- MCMost
  Fillings = {"bare", "some", "full"}
  Messages <- MCMessages
  States <- MCStates
  HandWritten <- MCHandWritten
  Alterations = {0, 1, 255}

INVARIANTS
  WrittenIsRead
  DamagedFileIsRefused
  NothingIsPassedOver
  OthersWorkIsJudged

CHECK_DEADLOCK FALSE
