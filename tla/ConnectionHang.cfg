SPECIFICATION Spec
CONSTANTS
  Devices = {d1, d2}
  NoDevice = NoDevice
  MayLeave = FALSE
  MaxPictures = 0
SYMMETRY DeviceSymmetry
CHECK_DEADLOCK FALSE
INVARIANTS NoDeadlock
