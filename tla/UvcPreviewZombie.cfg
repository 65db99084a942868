SPECIFICATION Spec
CONSTANTS
  Frames = {1, 2, 3, 4, 5}
  CapThreads = {c1}
  Callbacks = {}
  Windows = {}
  NULL = NULL
  MAX_FRAME = 1
  FRAME_POOL_SZ = 1
  MaxStarts = 1
  MaxSets = 1
CHECK_DEADLOCK FALSE
INVARIANT NoCaptureThreadAfterStop
