SPECIFICATION Spec
CONSTANTS
  MaxCalls = 2
  MaxFailures = 0
INVARIANT RemovedHasNoKeyFrame
CHECK_DEADLOCK FALSE
