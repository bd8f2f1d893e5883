SPECIFICATION FairSpec
CONSTANTS
  FrameCount = 2
  ItemCount = 2
  WorkerCount = 2
  FrameSizes = {2}
  WriteSizes = {1, 2}
  MaxOffered = 7
  MaxSessions = 1
INVARIANTS
  StoppedSavedAll
  SavedOnce
PROPERTIES
  ImplementsLog
  FrameReleased
  DrainEnds
CHECK_DEADLOCK FALSE
