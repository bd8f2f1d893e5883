SPECIFICATION FairSpec
CONSTANTS
  DmaBufferSize = 6
  NotificationsPerBuffer = 2
  Rate = 3
  Second = 2
  HnsPerMs = 2
  ULong = 16
  EosPositions = {0, 1, 2, 3, 4, 5}
  MaxLag = 3
  MaxTicks = 4
  MaxSessions = 2
INVARIANTS
  PacketsTransferred
  PausedIsQuiet
  EndNotPassed
PROPERTIES
  ReadsAdvance
  CompletionSignalled
  EndSignalled
CHECK_DEADLOCK FALSE
