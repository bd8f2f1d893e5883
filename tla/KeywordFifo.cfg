SPECIFICATION FairSpec
CONSTANTS
  Keywords = {k1, k2}
  Keyword1 = k1
  PoolSize = 2
  SiblingRuns = FALSE
  ResetsOverlap = FALSE
  MaxPackets = 4
INVARIANTS
  EntryInOnePlace
  FifoConsecutive
  QueueNotAhead
  StartsEmpty
PROPERTIES
  ReadsInOrder
  DpcEnds
CHECK_DEADLOCK FALSE
