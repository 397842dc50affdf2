SPECIFICATION FairSpec

CONSTANTS
  Outboxes <- MCOutboxes
  Versions = {1, 2}
  MaxPayload = 1
  Pieces = {3, 64}
  Changes = {2, 255}

INVARIANT FailsForTheReason

PROPERTIES
  FramesArriveAsSent
  NothingIsAwaitedInVain

CHECK_DEADLOCK FALSE
