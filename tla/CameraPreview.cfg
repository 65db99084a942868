SPECIFICATION ThreadSpec
CONSTANTS
  MaxCalls = 3
  MaxRecorder = 1
  MaxFaults = 1
INVARIANTS TypeOK AwaitIsAnswered DisplayIsPrimary RemovedIsGone ReleasedAll PictureAnswered
PROPERTIES StartReturns
CHECK_DEADLOCK FALSE
