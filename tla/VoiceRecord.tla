---------------------------- MODULE VoiceRecord ----------------------------
(***************************************************************************)
(* Voice messages: AudioRecordManager (app/.../radio/AudioRecordManager),  *)
(* driven by the touch events of RecordAudioButton through                 *)
(* LeaveMessageFragment and MainPresenter.                                 *)
(*                                                                         *)
(* Everything runs on the main thread: an action is one touch event, one   *)
(* callback of the system or one message of mHandler. What interleaves is  *)
(* time: delayed messages and Runnables outlive the state that posted      *)
(* them. The unit of time is half a second, and the handler is on time, in *)
(* any order among the messages of one instant.                            *)
(* The volume meter (event 2, which only reads an amplitude and posts      *)
(* itself again) is left out.                                              *)
(***************************************************************************)
EXTENDS Integers

CONSTANTS Takes,           \* recordings that are made: one audio file each
          NoTake,
          RECORD_INTERVAL, \* longest recording
          COUNTDOWN,       \* seconds of countdown at its end
          AskPermission    \* RECORD_AUDIO is not granted yet at the start

Second == 2
HalfSecond == 1
TooShort == 2 * Second

\* What message 9 says: the recording is long enough to keep, or not.
Keep == 1
Drop == 0

ASSUME VoiceAssumption ==
  /\ NoTake \notin Takes /\ NoTake # "unstarted" /\ "unstarted" \notin Takes
  /\ COUNTDOWN \in Nat \ {0}
  /\ RECORD_INTERVAL \in Nat /\ RECORD_INTERVAL > COUNTDOWN * Second
  /\ AskPermission \in BOOLEAN

VARIABLES
  mCurAudioState,  \* "idle", "record", "sending", "cancel" or "timer"
  mMediaRecorder,  \* the take it was started for, "unstarted", or NoTake (null)
  recording,       \* takes whose MediaRecorder runs, referenced or not
  mAudioPath,      \* the take whose file it names, or NoTake
  clock,           \* time since smStartRecTime
  queue,           \* mHandler's delayed messages; no two of them are the same
  focus,           \* mAfChangeListener is registered with the AudioManager
  files,           \* takes whose file exists
  length,          \* how long each take was recorded
  finished,        \* onFinish calls for each file: how many (2: several), last duration
  tip,             \* what LeaveMessageFragment shows
  finger, permission, \* of the user and of the system
  disturbed          \* history: MediaRecorder refused to start, or the user pressed again
                     \* while a recording was being finished

recorderVars == <<mMediaRecorder, recording, mAudioPath, clock, files, focus>>
userVars     == <<finger, permission>>
vars == <<mCurAudioState, recorderVars, queue, length, finished, tip, userVars, disturbed>>

MaxClock == RECORD_INTERVAL + 2 * Second

Init ==
  /\ mCurAudioState = "idle" /\ mMediaRecorder = NoTake /\ recording = {}
  /\ mAudioPath = NoTake /\ clock = MaxClock /\ queue = {} /\ focus = FALSE
  /\ files = {} /\ length = [t \in Takes |-> 0]
  /\ finished = [p \in Takes \cup {NoTake} |-> [calls |-> 0, duration |-> 0]]
  /\ tip = "none" /\ finger = "up"
  /\ permission = IF AskPermission THEN "unasked" ELSE "granted"
  /\ disturbed = FALSE

-----------------------------------------------------------------------------
(* What the handlers of the states are made of. *)

Message(what, arg, delay) == [what |-> what, arg |-> arg, delay |-> delay]
Post(m)      == queue' = queue \cup {m}
Without(q, what) == {m \in q : m.what # what}
Enter(s)     == mCurAudioState' = s
Fresh        == {t \in Takes \ (files \cup recording \cup {mAudioPath}) :
                   length[t] = 0 /\ finished[t].calls = 0}

\* Mutant: the time limit is not posted.
startRec_NotArmed(q) ==
  \E t \in Fresh :
    /\ mMediaRecorder' = t /\ recording' = recording \cup {t}
    /\ mAudioPath' = t /\ files' = files \cup {t}
    /\ queue' = q
\* startRec. A refused start leaves mMediaRecorder without a recording, with
\* mAudioPath already set or still naming the previous file; no limit is armed.
startRec(q) ==
  \E t \in Fresh :
    \/ /\ mMediaRecorder' = t /\ recording' = recording \cup {t}
       /\ mAudioPath' = t /\ files' = files \cup {t}
       /\ queue' = q \cup {Message("timeout", COUNTDOWN,
                                     RECORD_INTERVAL - COUNTDOWN * Second)}
    \/ /\ mMediaRecorder' = "unstarted"
       /\ mAudioPath' \in {t, mAudioPath}
       /\ queue' = q
       /\ UNCHANGED <<recording, files>>

\* stopRec. stop() may throw: for a recorder that never started, or one that
\* has recorded (almost) nothing; mMediaRecorder is then not cleared.
stopRec ==
  /\ recording' = recording \ {mMediaRecorder}
  /\ IF mMediaRecorder \in Takes /\ mMediaRecorder \in recording
       THEN mMediaRecorder' \in {NoTake} \cup
              {t \in {mMediaRecorder} : length[t] < Second}
       ELSE UNCHANGED mMediaRecorder
  /\ focus' = FALSE

finishRecord == finished' = [finished EXCEPT ![mAudioPath] =
                   [calls |-> IF @.calls = 0 THEN 1 ELSE 2, duration |-> clock]]
\* Mutant: the file of a dropped recording stays.
deleteAudioFile_Not == UNCHANGED files
deleteAudioFile == files' = files \ {mAudioPath}
\* Mutant: the countdown is not removed.
destroyView_KeepsCountdown(q) == queue' = q /\ tip' = "none"
\* destroyView removes the pending countdown and hides the tip.
destroyView(q) == queue' = Without(q, "timeout") /\ tip' = "none"

\* Mutant: the recorder is not stopped.
dropRecording_NoStop ==
  /\ destroyView(queue) /\ deleteAudioFile
  /\ Enter("idle")
  /\ UNCHANGED <<mMediaRecorder, recording, focus, mAudioPath, clock, length, finished>>
\* stopRec, destroyView, deleteAudioFile, back to idle: the recording is dropped.
dropRecording ==
  /\ stopRec /\ destroyView(queue) /\ deleteAudioFile
  /\ Enter("idle")
  /\ UNCHANGED <<mAudioPath, clock, length, finished>>

\* Mutant: the state is not left.
finishLater_Stays(q) ==
  /\ queue' = q \cup {Message("finish", 0, HalfSecond)}
  /\ UNCHANGED <<mCurAudioState, recorderVars, length, finished>>
\* postDelayed(stopRec; finishRecord; destroyView), and idle at once.
finishLater(q) ==
  /\ queue' = q \cup {Message("finish", 0, HalfSecond)}
  /\ Enter("idle")
  /\ UNCHANGED <<recorderVars, length, finished>>

Pending(what) == {m \in queue : m.what = what}

ignore == UNCHANGED <<mCurAudioState, recorderVars, queue, length, finished, tip>>

-----------------------------------------------------------------------------
(* The events, each by the state that handles it. *)

\* Mutant: a new recording may start while one is being sent.
start_WhileSending ==
  /\ mCurAudioState \in {"idle", "sending"}
  /\ startRec(queue)
  /\ clock' = 0 /\ focus' = TRUE /\ tip' = "recording"
  /\ Enter("record")
  /\ UNCHANGED <<length, finished>>
\* Event 1, after startRecord replaced the focus listener.
start ==
  IF mCurAudioState = "idle"
    THEN /\ startRec(queue)
         /\ clock' = 0 /\ focus' = TRUE /\ tip' = "recording"
         /\ Enter("record")
         /\ UNCHANGED <<length, finished>>
    ELSE /\ focus' = FALSE
         /\ UNCHANGED <<mCurAudioState, mMediaRecorder, recording, mAudioPath, clock, files,
                        queue, length, finished, tip>>

willCancel ==
  IF mCurAudioState \in {"record", "timer"}
    THEN /\ Enter("cancel") /\ tip' = "cancel"
         /\ UNCHANGED <<recorderVars, queue, length, finished>>
    ELSE ignore

continueRecord ==
  IF mCurAudioState = "cancel"
    THEN /\ Enter("record") /\ tip' = "recording"
         /\ UNCHANGED <<recorderVars, queue, length, finished>>
    ELSE ignore

\* Event 5: a short recording is dropped, a longer one finished, half a second later.
stopRecord ==
  CASE mCurAudioState = "record" ->
         /\ Post(Message("send", IF clock < TooShort THEN Drop ELSE Keep, HalfSecond))
         /\ tip' = IF clock < TooShort THEN "short" ELSE tip
         /\ Enter("sending")
         /\ UNCHANGED <<recorderVars, length, finished>>
    [] mCurAudioState = "timer" -> finishLater(Without(queue, "timeout")) /\ UNCHANGED tip
    [] mCurAudioState = "cancel" -> dropRecording
    [] OTHER -> ignore

\* Event 6.
focusLoss ==
  IF mCurAudioState \in {"record", "timer", "cancel"}
    THEN dropRecording
    ELSE /\ focus' = FALSE
         /\ UNCHANGED <<mCurAudioState, mMediaRecorder, recording, mAudioPath, clock, files,
                        queue, length, finished, tip>>

\* Mutant: the countdown goes on below zero.
timeout_OffByOne(counter, q) ==
  /\ mCurAudioState \in {"record", "timer", "cancel"}
  /\ queue' = q \cup {Message("timeout", counter - 1, Second)}
  /\ tip' = "countdown" /\ Enter("timer")
  /\ UNCHANGED <<recorderVars, length, finished>>
\* Mutant: at the limit the state that is about to cancel waits for the finger.
timeout_CancelWaits(counter, q) ==
  CASE mCurAudioState \in {"record", "timer", "cancel"} /\ counter > 0 ->
         /\ queue' = q \cup {Message("timeout", counter - 1, Second)}
         /\ tip' = "countdown"
         /\ Enter(IF mCurAudioState = "record" THEN "timer" ELSE mCurAudioState)
         /\ UNCHANGED <<recorderVars, length, finished>>
    [] mCurAudioState \in {"record", "timer"} /\ counter = 0 -> tip' = "none" /\ finishLater(q)
    [] OTHER ->
         /\ queue' = q
         /\ UNCHANGED <<mCurAudioState, recorderVars, length, finished, tip>>
\* Event 7, q being the queue without it.
timeout(counter, q) ==
  CASE mCurAudioState \in {"record", "timer", "cancel"} /\ counter > 0 ->
         /\ queue' = q \cup {Message("timeout", counter - 1, Second)}
         /\ tip' = IF mCurAudioState = "cancel" THEN tip ELSE "countdown"
         /\ Enter(IF mCurAudioState = "record" THEN "timer" ELSE mCurAudioState)
         /\ UNCHANGED <<recorderVars, length, finished>>
    [] mCurAudioState \in {"record", "timer", "cancel"} /\ counter = 0 ->
         /\ tip' = IF mCurAudioState = "record" THEN "countdown" ELSE tip
         /\ finishLater(IF mCurAudioState = "cancel" THEN Without(q, "timeout") ELSE q)
    [] OTHER ->
         /\ queue' = q
         /\ UNCHANGED <<mCurAudioState, recorderVars, length, finished, tip>>

\* Event 9, in the only state that handles it.
send(keep, q) ==
  IF mCurAudioState = "sending"
    THEN /\ stopRec /\ destroyView(q)
         /\ IF keep = Keep THEN finishRecord /\ UNCHANGED files
                             ELSE deleteAudioFile /\ UNCHANGED finished
         /\ Enter("idle")
         /\ UNCHANGED <<mAudioPath, clock, length>>
    ELSE queue' = q /\ UNCHANGED <<mCurAudioState, recorderVars, length, finished, tip>>

\* The Runnable of finishLater: whatever has started meanwhile.
finish(q) ==
  /\ stopRec /\ finishRecord /\ destroyView(q)
  /\ UNCHANGED <<mCurAudioState, mAudioPath, clock, files, length>>

-----------------------------------------------------------------------------
(* The user, the system and time. *)

\* onFinish(audioPath: Uri): a null path throws, and the process ends.
crashed == finished[NoTake].calls > 0

\* ACTION_DOWN: requestRecordPermission answers at once when it is granted.
touchDown ==
  /\ finger = "up"
  /\ finger' = "down"
  /\ IF permission = "granted"
       THEN start /\ UNCHANGED permission
       ELSE ignore /\ permission' = "asking"

\* The answer may come after the finger has left the button.
permissionAnswer ==
  /\ permission = "asking"
  /\ \/ permission' = "granted" /\ start
     \/ permission' = "unasked" /\ ignore
  /\ UNCHANGED finger

touchMove ==
  /\ finger = "down"
  /\ willCancel \/ continueRecord
  /\ UNCHANGED userVars

\* ACTION_UP or ACTION_CANCEL.
touchUp ==
  /\ finger = "down"
  /\ finger' = "up"
  /\ stopRecord
  /\ UNCHANGED permission

loseFocus ==
  /\ focus
  /\ focusLoss
  /\ UNCHANGED userVars

\* mHandler handles a message that is due.
handleMessage ==
  /\ \E m \in queue :
       /\ m.delay = 0
       /\ LET q == queue \ {m} IN
            \/ m.what = "timeout" /\ timeout(m.arg, q)
            \/ m.what = "send"    /\ send(m.arg, q)
            \/ m.what = "finish"  /\ finish(q)
  /\ UNCHANGED userVars

\* Half a second passes once everything due has been handled.
AtMost(n, max) == IF n > max THEN max ELSE n
tick ==
  /\ \A m \in queue : m.delay > 0
  /\ queue' = {Message(m.what, m.arg, m.delay - 1) : m \in queue}
  /\ clock' = AtMost(clock + 1, MaxClock)
  /\ length' = [t \in Takes |-> IF t \in recording THEN AtMost(length[t] + 1, MaxClock)
                                                   ELSE length[t]]
  /\ UNCHANGED <<mCurAudioState, mMediaRecorder, recording, mAudioPath, files, focus,
                 finished, tip, userVars>>

\* A MediaRecorder nobody references is finalized at some time, or never.
collectGarbage ==
  /\ \E t \in recording \ {mMediaRecorder} : recording' = recording \ {t}
  /\ UNCHANGED <<mCurAudioState, mMediaRecorder, mAudioPath, clock, files, focus, queue,
                 length, finished, tip, userVars>>

\* What the properties about whole recordings leave out.
Disturbance ==
  disturbed' = (disturbed \/ mMediaRecorder' = "unstarted"
                          \/ (finger' # finger /\ finger' = "down" /\ Pending("finish") # {}))

Next ==
  /\ ~crashed
  /\ \/ touchDown \/ permissionAnswer \/ touchMove \/ touchUp \/ loseFocus
     \/ handleMessage \/ tick \/ collectGarbage
  /\ Disturbance

Spec == Init /\ [][Next]_vars

\* Time passes and the main looper runs; the user need not do anything.
LooperSpec == Spec /\ WF_vars(~crashed /\ (handleMessage \/ tick) /\ Disturbance)

-----------------------------------------------------------------------------
(* Properties. *)

States == {"idle", "record", "sending", "cancel", "timer"}
Active == {"record", "cancel", "timer"}

Messages ==
  [what : {"timeout"}, arg : 0..COUNTDOWN, delay : 0..RECORD_INTERVAL]
    \cup [what : {"send"}, arg : {Drop, Keep}, delay : 0..HalfSecond]
    \cup [what : {"finish"}, arg : {0}, delay : 0..HalfSecond]

\* Type invariant of the voice recorder.
TypeOK ==
  /\ mCurAudioState \in States
  /\ mMediaRecorder \in Takes \cup {NoTake, "unstarted"} /\ recording \subseteq Takes
  /\ mAudioPath \in Takes \cup {NoTake} /\ files \subseteq Takes
  /\ clock \in 0..MaxClock /\ length \in [Takes -> 0..MaxClock]
  /\ queue \subseteq Messages
  /\ finished \in [Takes \cup {NoTake} -> [calls : 0..2, duration : 0..MaxClock]]
  /\ focus \in BOOLEAN
  /\ tip \in {"none", "recording", "cancel", "countdown", "short"}
  /\ finger \in {"up", "down"} /\ permission \in {"granted", "asking", "unasked"}

\* SendingState ignores everything but event 9: it is entered with exactly one
\* of these pending, none is pending elsewhere, and none is ever removed.
SendingWillEnd ==
  /\ (mCurAudioState = "sending") <=> (Pending("send") # {})
  /\ \A m, n \in Pending("send") : m = n

\* The time limit is armed whenever the microphone records for the state machine:
\* exactly one countdown message is pending, and none of an earlier recording.
TimeLimitArmed ==
  /\ mCurAudioState \in Active /\ mMediaRecorder \in recording => Pending("timeout") # {}
  /\ \A m, n \in Pending("timeout") : m = n

\* While the state machine is idle, the recorder it holds runs only until the
\* Runnable that was posted on the way to idle.
IdleIsQuiet == mCurAudioState = "idle" /\ mMediaRecorder \in recording => Pending("finish") # {}

\* Unless a start failed or the user pressed again within the half second in which a
\* recording is finished: a recording reaches onFinish at most once, with the length
\* of its file, and its file is deleted only if it does not.
FinishedRight ==
  ~disturbed => \A t \in Takes :
    finished[t].calls > 0 => /\ finished[t].calls = 1 /\ t \in files
                             /\ finished[t].duration = length[t]

\* With the same exception no file is left behind: once the recorder is idle with
\* nothing pending, the files are those of the finished recordings.
NothingLeftBehind ==
  ~disturbed /\ mCurAudioState = "idle" /\ queue = {} => files = {t \in Takes : finished[t].calls > 0}

\* With the same exception a recording ends, whatever the user does or does not do
\* with the button, and nothing records then.
RecordingEnds ==
  mCurAudioState # "idle" ~> disturbed \/ (mCurAudioState = "idle" /\ recording = {})

\* "The longest time of a voice" (MAX_VOICE_TIME) holds up to the half second of the
\* final Runnable, with the same exception: the Runnable stops whatever recorder is
\* current by then, and nothing stops the one it was posted for.
MaxVoiceTime == ~disturbed => \A t \in Takes : length[t] <= RECORD_INTERVAL + HalfSecond
=============================================================================
