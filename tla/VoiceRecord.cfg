SPECIFICATION LooperSpec
CONSTANTS
  Takes = {t1, t2}
  NoTake = NoTake
  RECORD_INTERVAL = 8
  COUNTDOWN = 2
  AskPermission = TRUE
CHECK_DEADLOCK FALSE
INVARIANTS TypeOK SendingWillEnd TimeLimitArmed IdleIsQuiet FinishedRight NothingLeftBehind MaxVoiceTime
PROPERTIES RecordingEnds
