SPECIFICATION CameraSpec
CONSTANTS
  Frames = {1, 2, 3, 4}
  CapThreads = {c1}
  Callbacks = {k1}
  Windows = {}
  NULL = NULL
  MAX_FRAME = 1
  FRAME_POOL_SZ = 1
  MaxStarts = 1
  MaxSets = 3
CHECK_DEADLOCK FALSE
PROPERTY SetterReturns
VIEW UpToFrames
