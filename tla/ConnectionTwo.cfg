SPECIFICATION Spec
CONSTANTS
  Devices = {d1, d2}
  NoDevice = NoDevice
  MayLeave = FALSE
  MaxPictures = 1
SYMMETRY DeviceSymmetry
CHECK_DEADLOCK FALSE
INVARIANTS TypeOK OpenIsRegistered SelectHasAnswer
