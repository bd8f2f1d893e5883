SPECIFICATION ListFairSpec
CONSTANTS
  Events = {e1, e2}
  Entries = {n1, n2, n3}
  Head = Head
INVARIANTS
  ListOK
PROPERTIES
  WalkSignalsAll
  WalkEnds
  OnlyFreeStrandsCursor
CHECK_DEADLOCK FALSE
