SPECIFICATION LooperSpec
CONSTANTS
  Devices = {d1}
  NoDevice = NoDevice
  MayLeave = TRUE
  MaxPictures = 2
CHECK_DEADLOCK FALSE
INVARIANTS ReleaseClosesCamera
PROPERTIES EveryWaitEnds GoneIsClosed
