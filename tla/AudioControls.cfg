SPECIFICATION Spec
CONSTANTS
  Streams = {s1, s2}
  ShortMax = 15
  ULong = 8192
  EqBands = 1
  Volumes = {0, 50, 100, 101}
  Samples <- MCTwoSamples
SYMMETRY AudioSymmetry
INVARIANTS
  PositiveScaled
  MuteTakesHold
CHECK_DEADLOCK FALSE
