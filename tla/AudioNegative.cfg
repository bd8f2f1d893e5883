SPECIFICATION Spec
CONSTANTS
  Streams = {s1}
  ShortMax = 15
  ULong = 8192
  EqBands = 1
  Volumes = {50}
  Samples <- MCSamples
INVARIANTS
  ScaleIsPercentage
CHECK_DEADLOCK FALSE
