SPECIFICATION Spec
CONSTANTS
  Links = {l1, l2}
  Objects = {o1, o2}
  NameOf <- MCNameOf
  Notifiers = {n1}
  WorkerThreads = {w1}
  NoLink = NoLink
  NoObject = NoObject
  NoPort = NoPort
  MaxOpened = 1
SYMMETRY SidebandSymmetry
INVARIANTS
  RefsCounted
  FiltersFollowDevice
  CacheCurrent
  CleanupComplete
  TaskWillBeServed
CHECK_DEADLOCK FALSE
