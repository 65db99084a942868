SPECIFICATION CaptureSpec
CONSTANTS
  MaxCalls = 2
  MaxFailures = 1
INVARIANTS TypeOK CrashHasCause IsRecordingIsTrue
PROPERTIES ImplementsRecorder StoppedRecordingEnds CloseFreesRecorder
CHECK_DEADLOCK FALSE
