SPECIFICATION Spec
CONSTANTS
  Devices = {d1, d2, d3, d4}
SYMMETRY DeviceSymmetry
INVARIANTS
  InstancesCounted
  OneAdapter
CHECK_DEADLOCK FALSE
