SPECIFICATION Spec
CONSTANTS
  Frames = {1, 2, 3, 4, 5, 6, 7, 8, 9, 10, 11, 12}
  CapThreads = {c1, c2}
  Callbacks = {k1}
  Windows = {w1}
  NULL = NULL
  MAX_FRAME = 1
  FRAME_POOL_SZ = 2
  MaxStarts = 2
  MaxSets = 1
CHECK_DEADLOCK FALSE
VIEW FramesView
INVARIANTS TypeOK FrameOwnership FramesInHand LostPerStart FrameMemoryBound NoMissedPreviewFrame StoppedIsDrained
