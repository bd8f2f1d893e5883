SPECIFICATION Spec
CONSTANTS
  Devices = {d1, d2, d3}
SYMMETRY DeviceSymmetry
INVARIANTS
  AudioFilesReachPortClass
CHECK_DEADLOCK FALSE
