SPECIFICATION RenderSpec
CONSTANTS
  FrameCount = 2
  ItemCount = 4
  WorkerCount = 2
  DmaSize = 2
  FrameFactor = 1
  FrameSizes <- MCFrameSizes
  WriteSizes = {1, 2}
  Displacements = {1, 2, 3}
  MaxOffered = 8
  MaxSessions = 2
INVARIANTS
  CursorInFrame
  ItemOwnedOnce
  UsedFrameHasSave
  StoppedIsQuiescent
  WritesFitFrames
CHECK_DEADLOCK FALSE
