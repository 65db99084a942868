------------------------- MODULE VoiceRecordProofs -------------------------
(***************************************************************************)
(* Proofs about VoiceRecord, for any takes, any longest recording and any  *)
(* countdown shorter than it.                                              *)
(*                                                                         *)
(* Core holds always: types, and what is pending in each state. Clean      *)
(* holds until a start fails or the user presses while a recording is      *)
(* being finished: it says which recorder runs, for which file, and how    *)
(* much time the pending message leaves it. Each operation of the state    *)
(* machine has a lemma for each of the two.                                *)
(***************************************************************************)
EXTENDS VoiceRecord, TLAPS

MachineTypes ==
  /\ mCurAudioState \in States /\ focus \in BOOLEAN
  /\ tip \in {"none", "recording", "cancel", "countdown", "short"}
RecorderTypes ==
  /\ mMediaRecorder \in Takes \cup {NoTake, "unstarted"} /\ recording \subseteq Takes
  /\ mAudioPath \in Takes \cup {NoTake} /\ files \subseteq Takes
TimeTypes     == clock \in 0..MaxClock /\ length \in [Takes -> 0..MaxClock]
QueueTypes    == queue \subseteq Messages
FinishedTypes == finished \in [Takes \cup {NoTake} -> [calls : 0..2, duration : 0..MaxClock]]
UserTypes     == finger \in {"up", "down"} /\ permission \in {"granted", "asking", "unasked"}
Types == MachineTypes /\ RecorderTypes /\ TimeTypes /\ QueueTypes /\ FinishedTypes

\* No countdown of an earlier recording is left when a recording starts.
NoOldLimit == mCurAudioState = "idle" => Pending("timeout") = {}
Core == Types /\ SendingWillEnd /\ TimeLimitArmed /\ NoOldLimit /\ IdleIsQuiet

\* A recording is made or about to be finished.
Busy == mCurAudioState # "idle" \/ Pending("finish") # {}
\* Its recorder runs, for the file it will be told with, since the clock started.
OneRecording ==
  /\ Busy => /\ mMediaRecorder \in Takes /\ recording = {mMediaRecorder}
             /\ mAudioPath = mMediaRecorder /\ clock = length[mMediaRecorder]
  /\ ~Busy => recording = {}
  /\ mMediaRecorder # "unstarted"
OneFinish ==
  /\ mCurAudioState = "idle" \/ Pending("finish") = {}
  /\ \A m, n \in Pending("finish") : m = n
Told ==
  /\ files = {t \in Takes : finished[t].calls > 0} \cup recording
  /\ \A t \in Takes : finished[t].calls > 0 =>
       finished[t].calls = 1 /\ finished[t].duration = length[t] /\ t \notin recording
\* What the pending messages leave of the time.
TimeLeft ==
  /\ mCurAudioState \in Active =>
       \A m \in Pending("timeout") : clock + m.delay + Second * m.arg = RECORD_INTERVAL
  /\ \A m \in Pending("send") \cup Pending("finish") :
       clock + m.delay <= RECORD_INTERVAL + HalfSecond
  /\ \A t \in Takes : length[t] <= RECORD_INTERVAL + HalfSecond
Clean == OneRecording /\ OneFinish /\ Told /\ TimeLeft

\* Nobody records before the microphone was granted.
Granted == permission # "granted" => mCurAudioState = "idle" /\ Pending("finish") = {}
IInv == Core /\ UserTypes /\ Granted /\ (~disturbed => Clean)

-----------------------------------------------------------------------------
(* Messages. *)

\* What the parts of a message may be.
LEMMA MessageFacts ==
  \A m \in Messages :
    /\ m.what \in {"timeout", "send", "finish"}
    /\ m.delay \in Nat
    /\ m.what = "timeout" => m.arg \in 0..COUNTDOWN /\ m.delay \in 0..RECORD_INTERVAL
    /\ m.what = "send" => m.arg \in {Drop, Keep} /\ m.delay \in 0..HalfSecond
    /\ m.what = "finish" => m.delay \in 0..HalfSecond
BY VoiceAssumption DEF Messages, HalfSecond, Keep, Drop

\* Half a second later a message is the same but for its delay.
LEMMA Later ==
  \A m \in Messages : m.delay > 0 =>
    LET n == Message(m.what, m.arg, m.delay - 1)
    IN  n \in Messages /\ n.what = m.what /\ n.arg = m.arg /\ n.delay = m.delay - 1
<1> SUFFICES ASSUME NEW m \in Messages, m.delay > 0
    PROVE  LET n == Message(m.what, m.arg, m.delay - 1)
           IN  n \in Messages /\ n.what = m.what /\ n.arg = m.arg /\ n.delay = m.delay - 1
  OBVIOUS
<1>1. CASE m \in [what : {"timeout"}, arg : 0..COUNTDOWN, delay : 0..RECORD_INTERVAL]
  BY <1>1, VoiceAssumption DEF Messages, Message
<1>2. CASE m \in [what : {"send"}, arg : {Drop, Keep}, delay : 0..HalfSecond]
  BY <1>2 DEF Messages, Message, HalfSecond, Keep, Drop
<1>3. CASE m \in [what : {"finish"}, arg : {0}, delay : 0..HalfSecond]
  BY <1>3 DEF Messages, Message, HalfSecond, Keep, Drop
<1> QED  BY <1>1, <1>2, <1>3 DEF Messages

\* The messages the handlers post.
LEMMA Posted ==
  /\ \A c \in 0..COUNTDOWN, d \in 0..RECORD_INTERVAL :
       LET m == Message("timeout", c, d)
       IN  m \in Messages /\ m.what = "timeout" /\ m.arg = c /\ m.delay = d
  /\ \A k \in {Drop, Keep} :
       LET m == Message("send", k, HalfSecond)
       IN  m \in Messages /\ m.what = "send" /\ m.arg = k /\ m.delay = HalfSecond
  /\ LET m == Message("finish", 0, HalfSecond)
     IN  m \in Messages /\ m.what = "finish" /\ m.delay = HalfSecond
<1>1. \A c \in 0..COUNTDOWN, d \in 0..RECORD_INTERVAL :
        LET m == Message("timeout", c, d)
        IN  m \in Messages /\ m.what = "timeout" /\ m.arg = c /\ m.delay = d
  BY DEF Message, Messages
<1>2. \A k \in {Drop, Keep} :
        LET m == Message("send", k, HalfSecond)
        IN  m \in Messages /\ m.what = "send" /\ m.arg = k /\ m.delay = HalfSecond
  BY DEF Message, Messages, HalfSecond, Keep, Drop
<1>3. LET m == Message("finish", 0, HalfSecond)
      IN  m \in Messages /\ m.what = "finish" /\ m.delay = HalfSecond
  BY DEF Message, Messages, HalfSecond, Keep, Drop
<1> QED  BY <1>1, <1>2, <1>3

-----------------------------------------------------------------------------
(* Core: each operation of the state machine. *)

\* The recorder that is stopped no longer runs.
LEMMA StopRec ==
  RecorderTypes /\ stopRec =>
    /\ recording' = recording \ {mMediaRecorder}
    /\ mMediaRecorder' \in {NoTake, mMediaRecorder} /\ mMediaRecorder' \notin recording'
    /\ focus' = FALSE
BY VoiceAssumption DEF stopRec, RecorderTypes

\* What every operation says of the recorder's state keeps the invariant, stated
\* once: the state it enters, and the messages it leaves.
LEMMA DropCore == Core /\ dropRecording /\ mCurAudioState \in Active => Core'
<1> SUFFICES ASSUME Core, dropRecording, mCurAudioState \in Active PROVE Core'
  OBVIOUS
<1>1. /\ recording' = recording \ {mMediaRecorder}
      /\ mMediaRecorder' \in {NoTake, mMediaRecorder} /\ mMediaRecorder' \notin recording'
      /\ focus' = FALSE
  BY StopRec DEF dropRecording, Core, Types
<1>2. queue' = Without(queue, "timeout") /\ tip' = "none" /\ mCurAudioState' = "idle"
  BY DEF dropRecording, destroyView, Enter
<1>3. Types'
  <2>1. MachineTypes'
    BY <1>1, <1>2 DEF MachineTypes, States
  <2>2. RecorderTypes'
    BY <1>1 DEF RecorderTypes, Core, Types, dropRecording, deleteAudioFile
  <2>3. (TimeTypes /\ FinishedTypes)'
    BY DEF TimeTypes, FinishedTypes, Core, Types, dropRecording
  <2>4. QueueTypes'
    BY <1>2 DEF QueueTypes, Core, Types, Without
  <2> QED  BY <2>1, <2>2, <2>3, <2>4 DEF Types
<1>4. SendingWillEnd'
  BY <1>2 DEF SendingWillEnd, Core, Pending, Without, Active
<1>5. (TimeLimitArmed /\ NoOldLimit /\ IdleIsQuiet)'
  BY <1>1, <1>2 DEF TimeLimitArmed, NoOldLimit, IdleIsQuiet, Pending, Without, Active
<1> QED  BY <1>3, <1>4, <1>5 DEF Core

\* Posting the final Runnable, from a state whose countdown is over or removed.
LEMMA FinishLaterCore ==
  ASSUME NEW q \in SUBSET queue, Core, finishLater(q), mCurAudioState \in Active,
         tip' \in {tip, "none", "countdown"},
         \A m \in q : m.what # "timeout",
         \A m \in queue \ q : m.what = "timeout"
  PROVE  Core'
<1> DEFINE f == Message("finish", 0, HalfSecond)
<1>1. queue' = q \cup {f} /\ mCurAudioState' = "idle" /\ UNCHANGED <<recorderVars, length, finished>>
  BY DEF finishLater, Enter
<1>2. f \in Messages /\ f.what = "finish"
  BY Posted
<1> HIDE DEF f
<1>3. Types'
  <2>1. MachineTypes'
    BY <1>1 DEF MachineTypes, States, recorderVars, Core, Types
  <2>2. (RecorderTypes /\ TimeTypes /\ FinishedTypes)'
    BY <1>1 DEF RecorderTypes, TimeTypes, FinishedTypes, recorderVars, Core, Types
  <2>3. QueueTypes'
    BY <1>1, <1>2 DEF QueueTypes, Core, Types
  <2> QED  BY <2>1, <2>2, <2>3 DEF Types
<1>4. SendingWillEnd'
  BY <1>1, <1>2 DEF SendingWillEnd, Core, Pending, Active
<1>5. (TimeLimitArmed /\ NoOldLimit)'
  BY <1>1, <1>2 DEF TimeLimitArmed, NoOldLimit, Pending, Active
<1>6. IdleIsQuiet'
  BY <1>1, <1>2 DEF IdleIsQuiet, Pending
<1> QED  BY <1>3, <1>4, <1>5, <1>6 DEF Core

\* A start, granted or refused.
LEMMA StartCore == Core /\ start => Core'
<1> SUFFICES ASSUME Core, start PROVE Core'
  OBVIOUS
<1>1. CASE mCurAudioState = "idle"
  <2>1. /\ clock' = 0 /\ focus' = TRUE /\ tip' = "recording" /\ mCurAudioState' = "record"
        /\ UNCHANGED <<length, finished>> /\ startRec(queue)
    BY <1>1 DEF start, Enter
  <2>2. Pending("send") = {} /\ Pending("timeout") = {}
    BY <1>1 DEF Core, SendingWillEnd, NoOldLimit
  <2>3. (MachineTypes /\ TimeTypes /\ FinishedTypes)'
    BY <2>1, VoiceAssumption
       DEF MachineTypes, TimeTypes, FinishedTypes, States, Core, Types, MaxClock, Second
  <2>4. PICK t \in Fresh :
          \/ /\ mMediaRecorder' = t /\ recording' = recording \cup {t}
             /\ mAudioPath' = t /\ files' = files \cup {t}
             /\ queue' = queue \cup {Message("timeout", COUNTDOWN,
                                             RECORD_INTERVAL - COUNTDOWN * Second)}
          \/ /\ mMediaRecorder' = "unstarted"
             /\ mAudioPath' \in {t, mAudioPath}
             /\ queue' = queue
             /\ UNCHANGED <<recording, files>>
    BY <2>1 DEF startRec
  <2>5. t \in Takes
    BY DEF Fresh
  <2>6. CASE /\ mMediaRecorder' = t /\ recording' = recording \cup {t}
             /\ mAudioPath' = t /\ files' = files \cup {t}
             /\ queue' = queue \cup {Message("timeout", COUNTDOWN,
                                             RECORD_INTERVAL - COUNTDOWN * Second)}
    <3> DEFINE l == Message("timeout", COUNTDOWN, RECORD_INTERVAL - COUNTDOWN * Second)
    <3>1. l \in Messages /\ l.what = "timeout"
      <4>1. COUNTDOWN \in 0..COUNTDOWN /\ RECORD_INTERVAL - COUNTDOWN * Second \in 0..RECORD_INTERVAL
        BY VoiceAssumption DEF Second
      <4> QED  BY <4>1, Posted
    <3>2. queue' = queue \cup {l}
      BY <2>6
    <3> HIDE DEF l
    <3>3. (RecorderTypes /\ QueueTypes)'
      BY <2>5, <2>6, <3>1, <3>2 DEF RecorderTypes, QueueTypes, Core, Types
    <3>4. (SendingWillEnd /\ TimeLimitArmed)'
      BY <2>1, <2>2, <3>1, <3>2 DEF SendingWillEnd, TimeLimitArmed, Pending
    <3> QED  BY <2>1, <2>3, <3>3, <3>4 DEF Core, Types, NoOldLimit, IdleIsQuiet
  <2>7. CASE /\ mMediaRecorder' = "unstarted"
             /\ mAudioPath' \in {t, mAudioPath}
             /\ queue' = queue
             /\ UNCHANGED <<recording, files>>
    <3>1. (RecorderTypes /\ QueueTypes)'
      BY <2>5, <2>7 DEF RecorderTypes, QueueTypes, Core, Types
    <3>2. (SendingWillEnd /\ TimeLimitArmed)'
      BY <2>1, <2>2, <2>7, VoiceAssumption
         DEF SendingWillEnd, TimeLimitArmed, Pending, Core, Types, RecorderTypes
    <3> QED  BY <2>1, <2>3, <3>1, <3>2 DEF Core, Types, NoOldLimit, IdleIsQuiet
  <2> QED  BY <2>4, <2>6, <2>7
<1>2. CASE mCurAudioState # "idle"
  <2>1. /\ focus' = FALSE
        /\ UNCHANGED <<mCurAudioState, mMediaRecorder, recording, mAudioPath, clock, files,
                       queue, length, finished, tip>>
    BY <1>2 DEF start
  <2>2. Types'
    BY <2>1 DEF Types, Core, MachineTypes, RecorderTypes, TimeTypes, QueueTypes, FinishedTypes
  <2>3. (SendingWillEnd /\ TimeLimitArmed /\ NoOldLimit /\ IdleIsQuiet)'
    BY <2>1 DEF Core, SendingWillEnd, TimeLimitArmed, NoOldLimit, IdleIsQuiet, Pending
  <2> QED  BY <2>2, <2>3 DEF Core
<1> QED  BY <1>1, <1>2
\* Nothing but the tip, or nothing at all, changes.
LEMMA IgnoreCore == Core /\ ignore => Core'
<1> SUFFICES ASSUME Core, ignore PROVE Core'
  OBVIOUS
<1>1. UNCHANGED <<mCurAudioState, mMediaRecorder, recording, mAudioPath, clock, files, focus,
                  queue, length, finished, tip>>
  BY DEF ignore, recorderVars
<1>2. Types'
  BY <1>1 DEF Types, Core, MachineTypes, RecorderTypes, TimeTypes, QueueTypes, FinishedTypes
<1>3. (SendingWillEnd /\ TimeLimitArmed /\ NoOldLimit /\ IdleIsQuiet)'
  BY <1>1 DEF Core, SendingWillEnd, TimeLimitArmed, NoOldLimit, IdleIsQuiet, Pending
<1> QED  BY <1>2, <1>3 DEF Core

\* The finger moves into the area that cancels, or out of it.
LEMMA MoveCore == Core /\ (willCancel \/ continueRecord) => Core'
<1> SUFFICES ASSUME Core, willCancel \/ continueRecord, ~ignore PROVE Core'
  BY IgnoreCore
<1>1. /\ mCurAudioState \in Active /\ mCurAudioState' \in Active
      /\ tip' \in {"cancel", "recording"}
      /\ UNCHANGED <<mMediaRecorder, recording, mAudioPath, clock, files, focus,
                     queue, length, finished>>
  BY DEF willCancel, continueRecord, Enter, recorderVars, Active
<1>2. Types'
  BY <1>1 DEF Types, Core, MachineTypes, RecorderTypes, TimeTypes, QueueTypes, FinishedTypes,
              States, Active
<1>3. (SendingWillEnd /\ TimeLimitArmed /\ NoOldLimit /\ IdleIsQuiet)'
  BY <1>1 DEF Core, SendingWillEnd, TimeLimitArmed, NoOldLimit, IdleIsQuiet, Pending, Active
<1> QED  BY <1>2, <1>3 DEF Core

\* The finger leaves the button.
LEMMA StopCore == Core /\ stopRecord => Core'
<1> SUFFICES ASSUME Core, stopRecord PROVE Core'
  OBVIOUS
<1>1. CASE mCurAudioState = "record"
  <2>1. PICK k \in {Drop, Keep} :
          queue' = queue \cup {Message("send", k, HalfSecond)}
    BY <1>1 DEF stopRecord, Post
  <2> DEFINE s == Message("send", k, HalfSecond)
  <2>2. s \in Messages /\ s.what = "send"
    BY Posted
  <2>3. queue' = queue \cup {s}
    BY <2>1
  <2> HIDE DEF s
  <2>4. /\ mCurAudioState' = "sending" /\ tip' \in {tip, "short"}
        /\ UNCHANGED <<mMediaRecorder, recording, mAudioPath, clock, files, focus,
                       length, finished>>
    BY <1>1 DEF stopRecord, Enter, recorderVars
  <2>5. Types'
    BY <2>2, <2>3, <2>4
       DEF Types, Core, MachineTypes, RecorderTypes, TimeTypes, QueueTypes, FinishedTypes, States
  <2>6. Pending("send") = {}
    BY <1>1 DEF Core, SendingWillEnd
  <2>7. SendingWillEnd'
    BY <2>2, <2>3, <2>4, <2>6 DEF SendingWillEnd, Pending
  <2>8. (TimeLimitArmed /\ NoOldLimit /\ IdleIsQuiet)'
    BY <2>2, <2>3, <2>4 DEF Core, TimeLimitArmed, NoOldLimit, IdleIsQuiet, Pending, Active
  <2> QED  BY <2>5, <2>7, <2>8 DEF Core
<1>2. CASE mCurAudioState = "timer"
  <2>1. finishLater(Without(queue, "timeout")) /\ UNCHANGED tip
    BY <1>2 DEF stopRecord
  <2>2. Without(queue, "timeout") \in SUBSET queue
    BY DEF Without
  <2> QED  BY <1>2, <2>1, <2>2, FinishLaterCore DEF Active, Without
<1>3. CASE mCurAudioState = "cancel"
  BY <1>3, DropCore DEF stopRecord, Active
<1>4. CASE mCurAudioState \notin {"record", "timer", "cancel"}
  BY <1>4, IgnoreCore DEF stopRecord
<1> QED  BY <1>1, <1>2, <1>3, <1>4

\* Another application takes the audio focus.
LEMMA FocusCore == Core /\ focusLoss => Core'
<1> SUFFICES ASSUME Core, focusLoss PROVE Core'
  OBVIOUS
<1>1. CASE mCurAudioState \in Active
  BY <1>1, DropCore DEF focusLoss, Active
<1>2. CASE mCurAudioState \notin Active
  <2>1. /\ focus' = FALSE
        /\ UNCHANGED <<mCurAudioState, mMediaRecorder, recording, mAudioPath, clock, files,
                       queue, length, finished, tip>>
    BY <1>2 DEF focusLoss, Active
  <2>2. Types'
    BY <2>1 DEF Types, Core, MachineTypes, RecorderTypes, TimeTypes, QueueTypes, FinishedTypes
  <2>3. (SendingWillEnd /\ TimeLimitArmed /\ NoOldLimit /\ IdleIsQuiet)'
    BY <2>1 DEF Core, SendingWillEnd, TimeLimitArmed, NoOldLimit, IdleIsQuiet, Pending
  <2> QED  BY <2>2, <2>3 DEF Core
<1> QED  BY <1>1, <1>2

\* A countdown message: the next is posted, or the recording is finished.
LEMMA TimeoutCore ==
  ASSUME NEW m \in queue, Core, m.what = "timeout", timeout(m.arg, queue \ {m})
  PROVE  Core'
<1> DEFINE q == queue \ {m}
<1>1. m \in Messages /\ m.arg \in 0..COUNTDOWN
  BY MessageFacts DEF Core, Types, QueueTypes
<1>2. \A n \in q : n.what # "timeout"
  BY DEF Core, TimeLimitArmed, Pending
<1>3. CASE mCurAudioState \in Active /\ m.arg > 0
  <2>1. /\ queue' = q \cup {Message("timeout", m.arg - 1, Second)}
        /\ tip' \in {tip, "countdown"}
        /\ mCurAudioState' \in Active
        /\ UNCHANGED <<mMediaRecorder, recording, mAudioPath, clock, files, focus,
                       length, finished>>
    BY <1>3 DEF timeout, Enter, recorderVars, Active
  <2> DEFINE n == Message("timeout", m.arg - 1, Second)
  <2>2. n \in Messages /\ n.what = "timeout"
    <3>1. m.arg - 1 \in 0..COUNTDOWN /\ Second \in 0..RECORD_INTERVAL
      BY <1>1, <1>3, VoiceAssumption DEF Second
    <3> QED  BY <3>1, Posted
  <2>3. queue' = q \cup {n}
    BY <2>1
  <2> HIDE DEF n
  <2>4. Types'
    BY <2>1, <2>2, <2>3
       DEF Types, Core, MachineTypes, RecorderTypes, TimeTypes, QueueTypes, FinishedTypes, States, Active
  <2>5. SendingWillEnd'
    BY <1>3, <2>1, <2>2, <2>3 DEF Core, SendingWillEnd, Pending, Active
  <2>6. (TimeLimitArmed /\ NoOldLimit /\ IdleIsQuiet)'
    BY <1>2, <2>1, <2>2, <2>3 DEF TimeLimitArmed, NoOldLimit, IdleIsQuiet, Pending, Active
  <2> QED  BY <2>4, <2>5, <2>6 DEF Core
<1>4. CASE mCurAudioState \in Active /\ m.arg = 0
  <2>1. Without(q, "timeout") = q
    BY <1>2 DEF Without
  <2>2. finishLater(q) /\ tip' \in {tip, "none", "countdown"}
    BY <1>4, <2>1 DEF timeout, Active
  <2> QED  BY <1>2, <1>4, <2>2, FinishLaterCore
<1>5. CASE mCurAudioState \notin Active
  <2>1. /\ queue' = q
        /\ UNCHANGED <<mCurAudioState, mMediaRecorder, recording, mAudioPath, clock, files, focus,
                       length, finished, tip>>
    BY <1>5 DEF timeout, Active, recorderVars
  <2>2. Types'
    BY <2>1 DEF Types, Core, MachineTypes, RecorderTypes, TimeTypes, QueueTypes, FinishedTypes
  <2>3. (SendingWillEnd /\ TimeLimitArmed /\ NoOldLimit /\ IdleIsQuiet)'
    BY <1>5, <2>1 DEF Core, SendingWillEnd, TimeLimitArmed, NoOldLimit, IdleIsQuiet, Pending
  <2> QED  BY <2>2, <2>3 DEF Core
<1> QED  BY <1>1, <1>3, <1>4, <1>5

\* What finishRecord writes has the type of its variable.
LEMMA FinishRecord == Types /\ finishRecord => FinishedTypes'
<1> SUFFICES ASSUME Types, finishRecord PROVE FinishedTypes'
  OBVIOUS
<1>1. finished' = [finished EXCEPT ![mAudioPath] =
        [calls |-> IF finished[mAudioPath].calls = 0 THEN 1 ELSE 2, duration |-> clock]]
  BY DEF finishRecord, Types, FinishedTypes, RecorderTypes
<1>2. [calls |-> IF finished[mAudioPath].calls = 0 THEN 1 ELSE 2, duration |-> clock]
        \in [calls : 0..2, duration : 0..MaxClock]
  BY DEF Types, TimeTypes
<1> QED  BY <1>1, <1>2 DEF Types, FinishedTypes, RecorderTypes

\* Message 9: the recording is finished or dropped.
LEMMA SendCore ==
  ASSUME NEW m \in queue, Core, m.what = "send", send(m.arg, queue \ {m})
  PROVE  Core'
<1>1. mCurAudioState = "sending" /\ \A n \in queue : n.what = "send" => n = m
  BY DEF Core, SendingWillEnd, Pending
<1>2. /\ stopRec /\ destroyView(queue \ {m}) /\ mCurAudioState' = "idle"
      /\ UNCHANGED <<mAudioPath, clock, length>>
      /\ \/ finishRecord /\ UNCHANGED files
         \/ deleteAudioFile /\ UNCHANGED finished
  BY <1>1 DEF send, Enter
<1>3. /\ recording' = recording \ {mMediaRecorder}
      /\ mMediaRecorder' \in {NoTake, mMediaRecorder} /\ mMediaRecorder' \notin recording'
      /\ focus' = FALSE
  BY <1>2, StopRec DEF Core, Types
<1>4. queue' = Without(queue \ {m}, "timeout") /\ tip' = "none"
  BY <1>2 DEF destroyView
<1>5. FinishedTypes'
  BY <1>2, FinishRecord DEF Core, Types, FinishedTypes
<1>6. (MachineTypes /\ TimeTypes /\ QueueTypes)'
  BY <1>2, <1>3, <1>4 DEF MachineTypes, TimeTypes, QueueTypes, States, Without, Core, Types
<1>7. RecorderTypes'
  BY <1>2, <1>3 DEF RecorderTypes, deleteAudioFile, Core, Types
<1>8. SendingWillEnd'
  BY <1>1, <1>2, <1>4 DEF SendingWillEnd, Pending, Without
<1>9. (TimeLimitArmed /\ NoOldLimit /\ IdleIsQuiet)'
  BY <1>2, <1>3, <1>4 DEF TimeLimitArmed, NoOldLimit, IdleIsQuiet, Pending, Without, Active
<1> QED  BY <1>5, <1>6, <1>7, <1>8, <1>9 DEF Core, Types

\* The Runnable that finishes a recording, or whatever has started since.
LEMMA FinishCore ==
  ASSUME NEW m \in queue, Core, m.what = "finish", finish(queue \ {m})
  PROVE  Core'
<1>1. /\ stopRec /\ destroyView(queue \ {m}) /\ finishRecord
      /\ UNCHANGED <<mCurAudioState, mAudioPath, clock, files, length>>
  BY DEF finish
<1>2. /\ recording' = recording \ {mMediaRecorder}
      /\ mMediaRecorder' \in {NoTake, mMediaRecorder} /\ mMediaRecorder' \notin recording'
      /\ focus' = FALSE
  BY <1>1, StopRec DEF Core, Types
<1>3. queue' = Without(queue \ {m}, "timeout") /\ tip' = "none"
  BY <1>1 DEF destroyView
<1>4. FinishedTypes'
  BY <1>1, FinishRecord DEF Core
<1>5. (MachineTypes /\ TimeTypes /\ QueueTypes)'
  BY <1>1, <1>2, <1>3 DEF MachineTypes, TimeTypes, QueueTypes, States, Without, Core, Types
<1>6. RecorderTypes'
  BY <1>1, <1>2 DEF RecorderTypes, Core, Types
<1>7. SendingWillEnd'
  BY <1>1, <1>3 DEF SendingWillEnd, Pending, Without, Core
<1>8. (TimeLimitArmed /\ NoOldLimit /\ IdleIsQuiet)'
  BY <1>1, <1>2, <1>3 DEF TimeLimitArmed, NoOldLimit, IdleIsQuiet, Pending, Without, Active
<1> QED  BY <1>4, <1>5, <1>6, <1>7, <1>8 DEF Core, Types

\* Half a second passes.
LEMMA TickMessages ==
  QueueTypes /\ tick =>
    /\ QueueTypes'
    /\ \A n \in queue' : \E m \in queue :
         m.delay > 0 /\ n.what = m.what /\ n.arg = m.arg /\ n.delay = m.delay - 1
            /\ n = Message(m.what, m.arg, m.delay - 1)
    /\ \A m \in queue : \E n \in queue' :
         n.what = m.what /\ n.arg = m.arg /\ n.delay = m.delay - 1
<1> SUFFICES ASSUME QueueTypes, tick
    PROVE  /\ QueueTypes'
           /\ \A n \in queue' : \E m \in queue :
                m.delay > 0 /\ n.what = m.what /\ n.arg = m.arg /\ n.delay = m.delay - 1
                   /\ n = Message(m.what, m.arg, m.delay - 1)
           /\ \A m \in queue : \E n \in queue' :
                n.what = m.what /\ n.arg = m.arg /\ n.delay = m.delay - 1
  OBVIOUS
<1>1. queue' = {Message(m.what, m.arg, m.delay - 1) : m \in queue}
  BY DEF tick
<1>2. \A m \in queue : m \in Messages /\ m.delay > 0
  BY DEF tick, QueueTypes
<1> QED  BY <1>1, <1>2, Later DEF QueueTypes

\* Time passes without harm: what is pending stays pending, half a second closer.
LEMMA TickCore == Core /\ tick => Core'
<1> SUFFICES ASSUME Core, tick PROVE Core'
  OBVIOUS
<1>1. UNCHANGED <<mCurAudioState, mMediaRecorder, recording, mAudioPath, files, focus,
                  finished, tip>>
  BY DEF tick
<1>2. /\ QueueTypes'
      /\ \A n \in queue' : \E m \in queue :
           m.delay > 0 /\ n.what = m.what /\ n.arg = m.arg /\ n.delay = m.delay - 1
              /\ n = Message(m.what, m.arg, m.delay - 1)
      /\ \A m \in queue : \E n \in queue' :
           n.what = m.what /\ n.arg = m.arg /\ n.delay = m.delay - 1
  BY TickMessages DEF Core, Types
<1>3. TimeTypes'
  BY VoiceAssumption DEF tick, TimeTypes, AtMost, Core, Types, MaxClock, Second
<1>4. (MachineTypes /\ RecorderTypes /\ FinishedTypes)'
  BY <1>1 DEF MachineTypes, RecorderTypes, FinishedTypes, Core, Types
<1>5. SendingWillEnd'
  BY <1>1, <1>2 DEF SendingWillEnd, Pending, Core
<1>6. TimeLimitArmed'
  BY <1>1, <1>2 DEF TimeLimitArmed, Pending, Core
<1>7. NoOldLimit'
  BY <1>1, <1>2 DEF NoOldLimit, Pending, Core
<1>8. IdleIsQuiet'
  BY <1>1, <1>2 DEF IdleIsQuiet, Pending, Core
<1> QED  BY <1>2, <1>3, <1>4, <1>5, <1>6, <1>7, <1>8 DEF Core, Types

\* A lost recorder ends.
LEMMA GarbageCore == Core /\ collectGarbage => Core'
<1> SUFFICES ASSUME Core, collectGarbage PROVE Core'
  OBVIOUS
<1>1. PICK t \in recording \ {mMediaRecorder} : recording' = recording \ {t}
  BY DEF collectGarbage
<1>2. UNCHANGED <<mCurAudioState, mMediaRecorder, mAudioPath, clock, files, focus, queue,
                  length, finished, tip>>
  BY DEF collectGarbage
<1>3. Types'
  BY <1>1, <1>2 DEF Types, Core, MachineTypes, RecorderTypes, TimeTypes, QueueTypes, FinishedTypes
<1>4. (SendingWillEnd /\ TimeLimitArmed /\ NoOldLimit /\ IdleIsQuiet)'
  BY <1>1, <1>2 DEF Core, SendingWillEnd, TimeLimitArmed, NoOldLimit, IdleIsQuiet, Pending
<1> QED  BY <1>3, <1>4 DEF Core
-----------------------------------------------------------------------------
(* Clean: each operation, as long as nothing disturbs. *)

\* While the state machine records, its countdown has not passed the limit.
LEMMA WithinLimit == Core /\ Clean /\ mCurAudioState \in Active => clock <= RECORD_INTERVAL
<1> SUFFICES ASSUME Core, Clean, mCurAudioState \in Active PROVE clock <= RECORD_INTERVAL
  OBVIOUS
<1>1. mMediaRecorder \in recording
  BY DEF Clean, OneRecording, Busy, Active
<1>2. PICK m \in Pending("timeout") : TRUE
  BY <1>1 DEF Core, TimeLimitArmed
<1>3. m \in Messages /\ m.arg \in 0..COUNTDOWN /\ m.delay \in Nat
  BY MessageFacts DEF Pending, Core, Types, QueueTypes
<1>4. clock + m.delay + Second * m.arg = RECORD_INTERVAL
  BY <1>2 DEF Clean, TimeLeft
<1> QED  BY <1>3, <1>4, VoiceAssumption DEF Core, Types, TimeTypes, Second, MaxClock

\* A dropped recording is stopped and its file deleted.
LEMMA DropClean == Core /\ Clean /\ dropRecording /\ mCurAudioState \in Active => Clean'
<1> SUFFICES ASSUME Core, Clean, dropRecording, mCurAudioState \in Active PROVE Clean'
  OBVIOUS
<1>1. /\ recording' = recording \ {mMediaRecorder}
      /\ mMediaRecorder' \in {NoTake, mMediaRecorder} /\ mMediaRecorder' \notin recording'
  BY StopRec DEF dropRecording, Core, Types
<1>2. /\ queue' = Without(queue, "timeout") /\ mCurAudioState' = "idle"
      /\ files' = files \ {mAudioPath} /\ UNCHANGED <<mAudioPath, clock, length, finished>>
  BY DEF dropRecording, destroyView, Enter, deleteAudioFile
<1>3. /\ mMediaRecorder \in Takes /\ recording = {mMediaRecorder} /\ mAudioPath = mMediaRecorder
      /\ Pending("finish") = {} /\ Pending("send") = {}
  BY DEF Clean, OneRecording, OneFinish, Busy, Active, Core, SendingWillEnd
<1>4. Pending("finish")' = {} /\ Pending("send")' = {}
  BY <1>2, <1>3 DEF Pending, Without
<1>5. OneRecording'
  BY <1>1, <1>2, <1>3, <1>4, VoiceAssumption DEF OneRecording, Busy
<1>6. OneFinish'
  BY <1>2, <1>4 DEF OneFinish
<1>7. Told'
  BY <1>1, <1>2, <1>3 DEF Told, Clean
<1>8. TimeLeft'
  BY <1>2, <1>4 DEF TimeLeft, Clean, Active
<1> QED  BY <1>5, <1>6, <1>7, <1>8 DEF Clean

\* Leaving the states in which it records posts the Runnable that stops the recorder.
LEMMA FinishLaterClean ==
  ASSUME NEW q \in SUBSET queue, Core, Clean, finishLater(q), mCurAudioState \in Active,
         \A m \in queue \ q : m.what = "timeout"
  PROVE  Clean'
<1> DEFINE f == Message("finish", 0, HalfSecond)
<1>1. queue' = q \cup {f} /\ mCurAudioState' = "idle"
      /\ UNCHANGED <<mMediaRecorder, recording, mAudioPath, clock, files, focus, length, finished>>
  BY DEF finishLater, Enter, recorderVars
<1>2. f.what = "finish" /\ f.delay = HalfSecond
  BY Posted
<1> HIDE DEF f
<1>3. Pending("finish") = {} /\ Pending("send") = {}
  BY DEF Clean, OneFinish, Active, Core, SendingWillEnd
<1>4. Pending("finish")' = {f} /\ Pending("send")' = {}
  BY <1>1, <1>2, <1>3 DEF Pending
<1>5. OneRecording'
  BY <1>1, <1>4 DEF OneRecording, Busy, Clean, Active
<1>6. (OneFinish /\ Told)'
  BY <1>1, <1>4 DEF OneFinish, Told, Clean
<1>7. clock <= RECORD_INTERVAL /\ clock \in Nat
  BY WithinLimit DEF Core, Types, TimeTypes
<1>8. TimeLeft'
  BY <1>1, <1>2, <1>4, <1>7, VoiceAssumption DEF TimeLeft, Clean, Active, HalfSecond
<1> QED  BY <1>5, <1>6, <1>8 DEF Clean

\* A start while nothing is being finished, and that is not refused.
LEMMA StartClean ==
  Core /\ Clean /\ start /\ Pending("finish") = {} /\ mMediaRecorder' # "unstarted" => Clean'
<1> SUFFICES ASSUME Core, Clean, start, Pending("finish") = {}, mMediaRecorder' # "unstarted"
    PROVE  Clean'
  OBVIOUS
<1>1. CASE mCurAudioState = "idle"
  <2>1. /\ clock' = 0 /\ mCurAudioState' = "record" /\ UNCHANGED <<length, finished>>
        /\ startRec(queue)
    BY <1>1 DEF start, Enter
  <2>2. Pending("send") = {} /\ Pending("timeout") = {} /\ recording = {}
    BY <1>1 DEF Core, SendingWillEnd, NoOldLimit, Clean, OneRecording, Busy
  <2> DEFINE l == Message("timeout", COUNTDOWN, RECORD_INTERVAL - COUNTDOWN * Second)
  <2>3. PICK t \in Fresh :
          /\ mMediaRecorder' = t /\ recording' = recording \cup {t}
          /\ mAudioPath' = t /\ files' = files \cup {t}
          /\ queue' = queue \cup {l}
    BY <2>1 DEF startRec
  <2>4. t \in Takes /\ length[t] = 0 /\ finished[t].calls = 0 /\ t \notin files
    BY DEF Fresh
  <2>5. /\ l.what = "timeout" /\ l.arg = COUNTDOWN
        /\ l.delay = RECORD_INTERVAL - COUNTDOWN * Second
    <3>1. COUNTDOWN \in 0..COUNTDOWN /\ RECORD_INTERVAL - COUNTDOWN * Second \in 0..RECORD_INTERVAL
      BY VoiceAssumption DEF Second
    <3> QED  BY <3>1, Posted
  <2> HIDE DEF l
  <2>6. Pending("finish")' = {} /\ Pending("send")' = {} /\ Pending("timeout")' = {l}
    BY <2>2, <2>3, <2>5 DEF Pending
  <2>7. OneRecording'
    BY <2>1, <2>2, <2>3, <2>4, VoiceAssumption DEF OneRecording, Busy
  <2>8. OneFinish'
    BY <2>6 DEF OneFinish
  <2>9. Told'
    BY <2>1, <2>2, <2>3, <2>4 DEF Told, Clean
  <2>10. TimeLeft'
    BY <2>1, <2>5, <2>6, VoiceAssumption DEF TimeLeft, Clean, Second
  <2> QED  BY <2>7, <2>8, <2>9, <2>10 DEF Clean
<1>2. CASE mCurAudioState # "idle"
  <2>1. UNCHANGED <<mCurAudioState, mMediaRecorder, recording, mAudioPath, clock, files,
                    queue, length, finished>>
    BY <1>2 DEF start
  <2> QED  BY <2>1 DEF Clean, OneRecording, OneFinish, Told, TimeLeft, Busy, Pending
<1> QED  BY <1>1, <1>2

\* A message the state does not know changes nothing.
LEMMA IgnoreClean == Clean /\ ignore => Clean'
BY DEF ignore, recorderVars, Clean, OneRecording, OneFinish, Told, TimeLeft, Busy, Pending

\* The finger moves between the recording and the cancel area without effect on the countdown.
LEMMA MoveClean == Core /\ Clean /\ (willCancel \/ continueRecord) => Clean'
<1> SUFFICES ASSUME Core, Clean, willCancel \/ continueRecord, ~ignore PROVE Clean'
  BY IgnoreClean
<1>1. /\ mCurAudioState \in Active /\ mCurAudioState' \in Active
      /\ UNCHANGED <<mMediaRecorder, recording, mAudioPath, clock, files, queue, length, finished>>
  BY DEF willCancel, continueRecord, Enter, recorderVars, Active
<1>2. (OneRecording /\ OneFinish)'
  BY <1>1 DEF Clean, OneRecording, OneFinish, Busy, Pending, Active
<1>3. (Told /\ TimeLeft)'
  BY <1>1 DEF Clean, Told, TimeLeft, Pending
<1> QED  BY <1>2, <1>3 DEF Clean

\* Lifting the finger posts the message that ends sending.
LEMMA StopClean == Core /\ Clean /\ stopRecord => Clean'
<1> SUFFICES ASSUME Core, Clean, stopRecord PROVE Clean'
  OBVIOUS
<1>1. CASE mCurAudioState = "record"
  <2>1. PICK k \in {Drop, Keep} :
          queue' = queue \cup {Message("send", k, HalfSecond)}
    BY <1>1 DEF stopRecord, Post
  <2> DEFINE s == Message("send", k, HalfSecond)
  <2>2. s.what = "send" /\ s.delay = HalfSecond
    BY Posted
  <2>3. queue' = queue \cup {s}
    BY <2>1
  <2> HIDE DEF s
  <2>4. /\ mCurAudioState' = "sending"
        /\ UNCHANGED <<mMediaRecorder, recording, mAudioPath, clock, files, length, finished>>
    BY <1>1 DEF stopRecord, Enter, recorderVars
  <2>5. Pending("send")' = {s} /\ Pending("finish")' = {}
    BY <1>1, <2>2, <2>3 DEF Pending, Core, SendingWillEnd, Clean, OneFinish
  <2>6. OneRecording'
    BY <1>1, <2>4 DEF Clean, OneRecording, Busy
  <2>7. (OneFinish /\ Told)'
    BY <2>4, <2>5 DEF Clean, OneFinish, Told
  <2>8. clock <= RECORD_INTERVAL /\ clock \in Nat
    BY <1>1, WithinLimit DEF Core, Types, TimeTypes, Active
  <2>9. TimeLeft'
    BY <2>2, <2>4, <2>5, <2>8, VoiceAssumption DEF Clean, TimeLeft, Active, HalfSecond
  <2> QED  BY <2>6, <2>7, <2>9 DEF Clean
<1>2. CASE mCurAudioState = "timer"
  <2>1. finishLater(Without(queue, "timeout"))
    BY <1>2 DEF stopRecord
  <2>2. /\ Without(queue, "timeout") \in SUBSET queue
        /\ \A m \in queue \ Without(queue, "timeout") : m.what = "timeout"
    BY DEF Without
  <2> QED  BY <1>2, <2>1, <2>2, FinishLaterClean DEF Active
<1>3. CASE mCurAudioState = "cancel"
  BY <1>3, DropClean DEF stopRecord, Active
<1>4. CASE mCurAudioState \notin {"record", "timer", "cancel"}
  BY <1>4, IgnoreClean DEF stopRecord
<1> QED  BY <1>1, <1>2, <1>3, <1>4

\* The loss of audio focus ends the recording as lifting the finger does.
LEMMA FocusClean == Core /\ Clean /\ focusLoss => Clean'
<1> SUFFICES ASSUME Core, Clean, focusLoss PROVE Clean'
  OBVIOUS
<1>1. CASE mCurAudioState \in Active
  BY <1>1, DropClean DEF focusLoss, Active
<1>2. CASE mCurAudioState \notin Active
  <2>1. UNCHANGED <<mCurAudioState, mMediaRecorder, recording, mAudioPath, clock, files,
                    queue, length, finished>>
    BY <1>2 DEF focusLoss, Active
  <2> QED  BY <2>1 DEF Clean, OneRecording, OneFinish, Told, TimeLeft, Busy, Pending
<1> QED  BY <1>1, <1>2

\* The countdown counts down, or ends the recording at its limit.
LEMMA TimeoutClean ==
  ASSUME NEW m \in queue, Core, Clean, m.delay = 0, m.what = "timeout",
         timeout(m.arg, queue \ {m})
  PROVE  Clean'
<1> DEFINE q == queue \ {m}
<1>1. m \in Messages /\ m.arg \in 0..COUNTDOWN /\ m.delay \in Nat
  BY MessageFacts DEF Core, Types, QueueTypes
<1>2. \A n \in q : n.what # "timeout"
  BY DEF Core, TimeLimitArmed, Pending
<1>3. CASE mCurAudioState \in Active /\ m.arg > 0
  <2>1. /\ queue' = q \cup {Message("timeout", m.arg - 1, Second)}
        /\ mCurAudioState' \in Active
        /\ UNCHANGED <<mMediaRecorder, recording, mAudioPath, clock, files, length, finished>>
    BY <1>3 DEF timeout, Enter, recorderVars, Active
  <2> DEFINE n == Message("timeout", m.arg - 1, Second)
  <2>2. n.what = "timeout" /\ n.arg = m.arg - 1 /\ n.delay = Second
    <3>1. m.arg - 1 \in 0..COUNTDOWN /\ Second \in 0..RECORD_INTERVAL
      BY <1>1, <1>3, VoiceAssumption DEF Second
    <3> QED  BY <3>1, Posted
  <2>3. queue' = q \cup {n}
    BY <2>1
  <2> HIDE DEF n
  <2>4. Pending("finish")' = {} /\ Pending("send")' = {} /\ Pending("timeout")' = {n}
    BY <1>2, <1>3, <2>2, <2>3 DEF Pending, Clean, OneFinish, Core, SendingWillEnd, Active
  <2>5. (OneRecording /\ OneFinish)'
    BY <1>3, <2>1, <2>4 DEF Clean, OneRecording, OneFinish, Busy, Active
  <2>6. Told'
    BY <2>1 DEF Clean, Told
  <2>7. TimeLeft'
    <3>1. clock + m.delay + Second * m.arg = RECORD_INTERVAL
      BY <1>3 DEF Clean, TimeLeft, Pending
    <3>2. clock + n.delay + Second * n.arg = RECORD_INTERVAL
      BY <1>1, <2>2, <3>1 DEF Second, Core, Types, TimeTypes
    <3> QED  BY <2>1, <2>4, <3>2 DEF Clean, TimeLeft
  <2> QED  BY <2>5, <2>6, <2>7 DEF Clean
<1>4. CASE mCurAudioState \in Active /\ m.arg = 0
  <2>1. Without(q, "timeout") = q
    BY <1>2 DEF Without
  <2>2. finishLater(q)
    BY <1>4, <2>1 DEF timeout, Active
  <2> QED  BY <1>2, <1>4, <2>2, FinishLaterClean
<1>5. CASE mCurAudioState \notin Active
  <2>1. /\ queue' = q
        /\ UNCHANGED <<mCurAudioState, mMediaRecorder, recording, mAudioPath, clock, files,
                       length, finished>>
    BY <1>5 DEF timeout, Active, recorderVars
  <2>2. Pending("finish")' = Pending("finish") /\ Pending("send")' = Pending("send")
    BY <2>1 DEF Pending
  <2> QED  BY <1>5, <2>1, <2>2 DEF Clean, OneRecording, OneFinish, Told, TimeLeft, Busy
<1> QED  BY <1>1, <1>3, <1>4, <1>5

\* The file of the recording that just stopped is told once, with its length.
LEMMA FinishTold ==
  ASSUME Types, Told, finishRecord, UNCHANGED <<files, length>>,
         mMediaRecorder \in Takes, recording = {mMediaRecorder}, recording' = {},
         mAudioPath = mMediaRecorder, clock = length[mMediaRecorder]
  PROVE  Told'
<1>1. finished' = [finished EXCEPT ![mAudioPath] =
        [calls |-> IF finished[mAudioPath].calls = 0 THEN 1 ELSE 2, duration |-> clock]]
  BY DEF finishRecord, Types, FinishedTypes, RecorderTypes
<1>2. finished[mMediaRecorder].calls = 0
  BY DEF Told, Types, FinishedTypes
<1>3. /\ finished'[mMediaRecorder] = [calls |-> 1, duration |-> clock]
      /\ \A t \in Takes \ {mMediaRecorder} : finished'[t] = finished[t]
  BY <1>1, <1>2 DEF Types, FinishedTypes
<1> QED  BY <1>3 DEF Told

\* SendingState ends by its message, with the recording dropped or soon finished.
LEMMA SendClean ==
  ASSUME NEW m \in queue, Core, Clean, m.what = "send", send(m.arg, queue \ {m})
  PROVE  Clean'
<1>1. mCurAudioState = "sending" /\ \A n \in queue : n.what = "send" => n = m
  BY DEF Core, SendingWillEnd, Pending
<1>2. /\ stopRec /\ destroyView(queue \ {m}) /\ mCurAudioState' = "idle"
      /\ UNCHANGED <<mAudioPath, clock, length>>
      /\ \/ finishRecord /\ UNCHANGED files
         \/ deleteAudioFile /\ UNCHANGED finished
  BY <1>1 DEF send, Enter
<1>3. /\ mMediaRecorder \in Takes /\ recording = {mMediaRecorder} /\ mAudioPath = mMediaRecorder
      /\ clock = length[mMediaRecorder] /\ Pending("finish") = {}
  BY <1>1 DEF Clean, OneRecording, OneFinish, Busy
<1>4. recording' = {} /\ mMediaRecorder' \in {NoTake, mMediaRecorder}
  BY <1>2, <1>3, StopRec DEF Core, Types
<1>5. Pending("finish")' = {} /\ Pending("send")' = {}
  BY <1>1, <1>2, <1>3 DEF Pending, destroyView, Without
<1>6. (OneRecording /\ OneFinish)'
  BY <1>2, <1>3, <1>4, <1>5, VoiceAssumption DEF OneRecording, OneFinish, Busy
<1>7. Told'
  <2>1. CASE finishRecord /\ UNCHANGED files
    BY <1>2, <1>3, <1>4, <2>1, FinishTold DEF Clean, Core
  <2>2. CASE deleteAudioFile /\ UNCHANGED finished
    BY <1>2, <1>3, <1>4, <2>2 DEF Clean, Told, deleteAudioFile
  <2> QED  BY <1>2, <2>1, <2>2
<1>8. TimeLeft'
  BY <1>2, <1>5 DEF Clean, TimeLeft, Active
<1> QED  BY <1>6, <1>7, <1>8 DEF Clean

\* The Runnable stops the recorder there is and tells its file once.
LEMMA FinishClean ==
  ASSUME NEW m \in queue, Core, Clean, m.what = "finish", finish(queue \ {m})
  PROVE  Clean'
<1>1. mCurAudioState = "idle" /\ \A n \in queue : n.what = "finish" => n = m
  BY DEF Clean, OneFinish, Pending
<1>2. /\ stopRec /\ destroyView(queue \ {m}) /\ finishRecord
      /\ UNCHANGED <<mCurAudioState, mAudioPath, clock, files, length>>
  BY DEF finish
<1>3. /\ mMediaRecorder \in Takes /\ recording = {mMediaRecorder} /\ mAudioPath = mMediaRecorder
      /\ clock = length[mMediaRecorder]
  BY DEF Clean, OneRecording, Busy, Pending
<1>4. recording' = {} /\ mMediaRecorder' \in {NoTake, mMediaRecorder}
  BY <1>2, <1>3, StopRec DEF Core, Types
<1>5. Pending("send") = {}
  BY <1>1 DEF Core, SendingWillEnd
<1>6. Pending("finish")' = {} /\ Pending("send")' = {}
  BY <1>1, <1>2, <1>5 DEF Pending, destroyView, Without
<1>7. (OneRecording /\ OneFinish)'
  BY <1>1, <1>2, <1>3, <1>4, <1>6, VoiceAssumption DEF OneRecording, OneFinish, Busy
<1>8. Told'
  BY <1>2, <1>3, <1>4, FinishTold DEF Clean, Core
<1>9. TimeLeft'
  BY <1>1, <1>2, <1>6 DEF Clean, TimeLeft, Active
<1> QED  BY <1>7, <1>8, <1>9 DEF Clean
\* Time passes within what the pending messages leave of it.
LEMMA TickClean == Core /\ Clean /\ tick => Clean'
<1> SUFFICES ASSUME Core, Clean, tick PROVE Clean'
  OBVIOUS
<1>1. UNCHANGED <<mCurAudioState, mMediaRecorder, recording, mAudioPath, files, finished>>
  BY DEF tick
<1>2. \A n \in queue' : \E m \in queue :
        m.delay > 0 /\ n.what = m.what /\ n.arg = m.arg /\ n.delay = m.delay - 1
           /\ n = Message(m.what, m.arg, m.delay - 1)
  BY TickMessages DEF Core, Types
<1>3. \A m \in queue : \E n \in queue' : n.what = m.what
  BY TickMessages DEF Core, Types
<1>4. \A m \in queue : m.delay \in Nat /\ m.delay > 0 /\ m.arg \in Int /\ (m.what = "timeout" => m.arg \in 0..COUNTDOWN)
  BY MessageFacts, VoiceAssumption DEF tick, Core, Types, QueueTypes, Messages, Keep, Drop
<1>5. (Pending("finish") # {}) <=> (Pending("finish")' # {})
  BY <1>2, <1>3 DEF Pending
<1>6. OneFinish'
  BY <1>1, <1>2, <1>5 DEF Clean, OneFinish, Pending
<1>7. clock \in Nat /\ length \in [Takes -> Nat] /\ RECORD_INTERVAL \in Nat
  BY VoiceAssumption DEF Core, Types, TimeTypes, MaxClock, Second
<1>8. CASE Busy
  <2>1. /\ mMediaRecorder \in Takes /\ recording = {mMediaRecorder}
        /\ clock = length[mMediaRecorder]
    BY <1>8 DEF Clean, OneRecording
  <2>2. clock < RECORD_INTERVAL + HalfSecond
    <3>1. CASE mCurAudioState \in Active
      BY <1>7, <3>1, WithinLimit DEF HalfSecond
    <3>2. CASE mCurAudioState \notin Active
      <4>1. PICK m \in Pending("send") \cup Pending("finish") : TRUE
        BY <1>8, <3>2 DEF Busy, Core, SendingWillEnd, Types, MachineTypes, States, Active
      <4>2. clock + m.delay <= RECORD_INTERVAL + HalfSecond
        BY DEF Clean, TimeLeft
      <4>3. m.delay \in Nat /\ m.delay > 0
        BY <1>4 DEF Pending
      <4> QED  BY <1>7, <4>2, <4>3 DEF HalfSecond
    <3> QED  BY <3>1, <3>2
  <2>3. /\ clock' = clock + 1
        /\ length' = [t \in Takes |-> IF t = mMediaRecorder THEN length[t] + 1 ELSE length[t]]
    <3>1. clock + 1 <= MaxClock
      BY <1>7, <2>2 DEF MaxClock, HalfSecond, Second
    <3>2. clock' = clock + 1
      BY <1>7, <3>1, VoiceAssumption DEF tick, AtMost, MaxClock, Second
    <3>3. AtMost(length[mMediaRecorder] + 1, MaxClock) = length[mMediaRecorder] + 1
      BY <1>7, <2>1, <3>1 DEF AtMost, MaxClock, Second
    <3> QED  BY <2>1, <3>2, <3>3 DEF tick
  <2>4. OneRecording'
    BY <1>1, <1>5, <1>8, <2>1, <2>3 DEF Clean, OneRecording, Busy
  <2>5. Told'
    BY <1>1, <2>1, <2>3 DEF Clean, Told
  <2>6. TimeLeft'
    <3>1. mCurAudioState' \in Active =>
            \A n \in Pending("timeout")' : clock' + n.delay + Second * n.arg = RECORD_INTERVAL
      <4> SUFFICES ASSUME mCurAudioState \in Active, NEW n \in Pending("timeout")'
          PROVE  clock' + n.delay + Second * n.arg = RECORD_INTERVAL
        BY <1>1
      <4>1. PICK m \in queue : n.what = m.what /\ n.arg = m.arg /\ n.delay = m.delay - 1
        BY <1>2 DEF Pending
      <4>2. m \in Pending("timeout")
        BY <4>1 DEF Pending
      <4>3. clock + m.delay + Second * m.arg = RECORD_INTERVAL
        BY <4>2 DEF Clean, TimeLeft
      <4> QED  BY <1>4, <1>7, <2>3, <4>1, <4>3 DEF Second
    <3>2. \A n \in Pending("send")' \cup Pending("finish")' :
            clock' + n.delay <= RECORD_INTERVAL + HalfSecond
      <4> SUFFICES ASSUME NEW n \in Pending("send")' \cup Pending("finish")'
          PROVE  clock' + n.delay <= RECORD_INTERVAL + HalfSecond
        OBVIOUS
      <4>1. PICK m \in queue : n.what = m.what /\ n.arg = m.arg /\ n.delay = m.delay - 1
        BY <1>2 DEF Pending
      <4>2. m \in Pending("send") \cup Pending("finish")
        BY <4>1 DEF Pending
      <4>3. clock + m.delay <= RECORD_INTERVAL + HalfSecond
        BY <4>2 DEF Clean, TimeLeft
      <4> QED  BY <1>4, <1>7, <2>3, <4>1, <4>3 DEF HalfSecond
    <3>3. \A t \in Takes : length'[t] <= RECORD_INTERVAL + HalfSecond
      BY <1>7, <2>1, <2>2, <2>3 DEF Clean, TimeLeft, HalfSecond
    <3> QED  BY <3>1, <3>2, <3>3 DEF TimeLeft
  <2> QED  BY <1>6, <2>4, <2>5, <2>6 DEF Clean
<1>9. CASE ~Busy
  <2>1. recording = {} /\ length' = length
    BY <1>7, <1>9 DEF Clean, OneRecording, tick
  <2>2. Pending("finish")' = {} /\ mCurAudioState' = "idle" /\ Pending("send")' = {}
    <3>1. Pending("send") = {}
      BY <1>9 DEF Busy, Core, SendingWillEnd
    <3> QED  BY <1>1, <1>2, <1>5, <1>9, <3>1 DEF Busy, Pending
  <2>3. OneRecording'
    BY <1>1, <2>1, <2>2 DEF Clean, OneRecording, Busy
  <2>4. (Told /\ TimeLeft)'
    BY <1>1, <2>1, <2>2 DEF Clean, Told, TimeLeft, Active
  <2> QED  BY <1>6, <2>3, <2>4 DEF Clean
<1> QED  BY <1>8, <1>9

\* No recorder is lost, so there is none to collect.
LEMMA GarbageClean == Clean => ~collectGarbage
BY DEF collectGarbage, Clean, OneRecording

-----------------------------------------------------------------------------
(* The invariant, and what it says. *)

\* Nothing is pending at first.
LEMMA InitInv == Init => IInv
<1> SUFFICES ASSUME Init PROVE IInv
  OBVIOUS
<1>1. queue = {} /\ mCurAudioState = "idle" /\ recording = {} /\ files = {}
      /\ mMediaRecorder = NoTake /\ mAudioPath = NoTake
  BY DEF Init
<1>2. /\ \A t \in Takes : finished[t].calls = 0 /\ length[t] = 0
      /\ TimeTypes /\ FinishedTypes
  BY VoiceAssumption DEF Init, TimeTypes, FinishedTypes, MaxClock, Second
<1>3. MachineTypes /\ RecorderTypes /\ QueueTypes
  BY <1>1 DEF Init, MachineTypes, RecorderTypes, QueueTypes, States
<1>4. UserTypes /\ Granted
  BY <1>1 DEF Init, UserTypes, Granted, Pending
<1>5. SendingWillEnd /\ TimeLimitArmed /\ NoOldLimit /\ IdleIsQuiet
  BY <1>1 DEF SendingWillEnd, TimeLimitArmed, NoOldLimit, IdleIsQuiet, Pending
<1>6. Clean
  BY <1>1, <1>2, VoiceAssumption
     DEF Clean, OneRecording, OneFinish, Told, TimeLeft, Busy, Pending, Active, HalfSecond
<1> QED  BY <1>2, <1>3, <1>4, <1>5, <1>6 DEF IInv, Core, Types

\* What an operation does to the permission's part: only a start leaves idle, and
\* only what leaves another state posts the final Runnable.
LEMMA StepGranted ==
  ASSUME IInv, permission # "granted",
         ignore \/ willCancel \/ continueRecord \/ stopRecord \/ focusLoss \/ tick \/ collectGarbage
           \/ handleMessage
  PROVE  mCurAudioState' = "idle" /\ Pending("finish")' = {}
<1>1. mCurAudioState = "idle" /\ Pending("finish") = {} /\ Pending("send") = {}
      /\ Pending("timeout") = {}
  BY DEF IInv, Granted, Core, SendingWillEnd, NoOldLimit
<1>2. queue = {}
  BY <1>1, MessageFacts DEF IInv, Core, Types, QueueTypes, Pending
<1>3. CASE ignore \/ willCancel \/ continueRecord \/ stopRecord \/ focusLoss \/ collectGarbage
  BY <1>1, <1>3 DEF ignore, willCancel, continueRecord, stopRecord, focusLoss, collectGarbage, Pending
<1>4. CASE tick
  BY <1>1, <1>2, <1>4 DEF tick, Pending
<1>5. CASE handleMessage
  BY <1>2, <1>5 DEF handleMessage
<1> QED  BY <1>3, <1>4, <1>5

\* One step of the user, the system, the looper or time.
LEMMA StepInv == IInv /\ Next => IInv'
<1> SUFFICES ASSUME IInv, Next PROVE IInv'
  OBVIOUS
<1> USE DEF IInv
<1>1. ~disturbed' => Clean /\ mMediaRecorder' # "unstarted"
      /\ (finger' # finger /\ finger' = "down" => Pending("finish") = {})
  BY DEF Next, Disturbance
<1>2. CASE touchDown
  <2>1. CASE permission = "granted"
    <3>1. start /\ finger' = "down" /\ finger' # finger /\ permission' = permission
      BY <1>2, <2>1 DEF touchDown
    <3> QED  BY <1>1, <2>1, <3>1, StartCore, StartClean DEF UserTypes, Granted
  <2>2. CASE permission # "granted"
    <3>1. ignore /\ finger' = "down" /\ permission' = "asking"
      BY <1>2, <2>2 DEF touchDown
    <3> QED  BY <1>1, <2>2, <3>1, IgnoreCore, IgnoreClean, StepGranted DEF UserTypes, Granted
  <2> QED  BY <2>1, <2>2
<1>3. CASE permissionAnswer
  <2>1. Pending("finish") = {} /\ permission = "asking" /\ finger' = finger
    BY <1>3 DEF permissionAnswer, Granted
  <2>2. CASE permission' = "granted" /\ start
    BY <1>1, <2>1, <2>2, StartCore, StartClean DEF UserTypes, Granted
  <2>3. CASE permission' = "unasked" /\ ignore
    BY <1>1, <2>1, <2>3, IgnoreCore, IgnoreClean, StepGranted DEF UserTypes, Granted
  <2> QED  BY <1>3, <2>2, <2>3 DEF permissionAnswer
<1>4. CASE touchMove
  BY <1>1, <1>4, MoveCore, MoveClean, StepGranted DEF touchMove, userVars, UserTypes, Granted
<1>5. CASE touchUp
  BY <1>1, <1>5, StopCore, StopClean, StepGranted DEF touchUp, UserTypes, Granted
<1>6. CASE loseFocus
  BY <1>1, <1>6, FocusCore, FocusClean, StepGranted DEF loseFocus, userVars, UserTypes, Granted
<1>7. CASE handleMessage
  <2>1. PICK m \in queue : m.delay = 0 /\
          \/ m.what = "timeout" /\ timeout(m.arg, queue \ {m})
          \/ m.what = "send"    /\ send(m.arg, queue \ {m})
          \/ m.what = "finish"  /\ finish(queue \ {m})
    BY <1>7 DEF handleMessage
  <2>2. Core' /\ (~disturbed' => Clean')
    <3>1. CASE m.what = "timeout" /\ timeout(m.arg, queue \ {m})
      BY <1>1, <2>1, <3>1, TimeoutCore, TimeoutClean
    <3>2. CASE m.what = "send" /\ send(m.arg, queue \ {m})
      BY <1>1, <3>2, SendCore, SendClean
    <3>3. CASE m.what = "finish" /\ finish(queue \ {m})
      BY <1>1, <3>3, FinishCore, FinishClean
    <3> QED  BY <2>1, <3>1, <3>2, <3>3
  <2>3. UNCHANGED userVars
    BY <1>7 DEF handleMessage
  <2> QED  BY <1>7, <2>2, <2>3, StepGranted DEF userVars, UserTypes, Granted
<1>8. CASE tick
  BY <1>1, <1>8, TickCore, TickClean, StepGranted DEF tick, userVars, UserTypes, Granted
<1>9. CASE collectGarbage
  BY <1>1, <1>9, GarbageCore, GarbageClean, StepGranted DEF collectGarbage, userVars, UserTypes, Granted
<1> QED  BY <1>2, <1>3, <1>4, <1>5, <1>6, <1>7, <1>8, <1>9 DEF Next

\* Stuttering keeps the invariant.
LEMMA StutterInv == IInv /\ UNCHANGED vars => IInv'
<1> SUFFICES ASSUME IInv, UNCHANGED vars PROVE IInv'
  OBVIOUS
<1> USE DEF vars, recorderVars, userVars
<1>1. Core'
  BY DEF IInv, Core, Types, MachineTypes, RecorderTypes, TimeTypes, QueueTypes, FinishedTypes,
         SendingWillEnd, TimeLimitArmed, NoOldLimit, IdleIsQuiet, Pending
<1>2. Clean => Clean'
  BY DEF Clean, OneRecording, OneFinish, Told, TimeLeft, Busy, Pending
<1> QED  BY <1>1, <1>2 DEF IInv, UserTypes, Granted, Pending

\* The inductive invariant: Core always, Clean until something disturbs.
THEOREM Invariance == Spec => []IInv
<1>1. IInv /\ [Next]_vars => IInv'
  BY StepInv, StutterInv
<1> QED  BY <1>1, InitInv, PTL DEF Spec

\* Type correctness, for any number of takes and any limits: no countdown goes below
\* zero, no delay grows.
THEOREM TypeCorrect == Spec => []TypeOK
<1>1. IInv => TypeOK
  BY DEF IInv, Core, Types, MachineTypes, RecorderTypes, TimeTypes, QueueTypes, FinishedTypes,
         UserTypes, TypeOK
<1> QED  BY <1>1, Invariance, PTL

\* SendingState always has the one message that ends it.
THEOREM SendingEnds == Spec => []SendingWillEnd
<1>1. IInv => SendingWillEnd
  BY DEF IInv, Core
<1> QED  BY <1>1, Invariance, PTL

\* Whatever the user, the permission, the focus and failing starts do, the recorder of
\* the state machine never records without its one countdown message.
THEOREM LimitIsArmed == Spec => []TimeLimitArmed
<1>1. IInv => TimeLimitArmed
  BY DEF IInv, Core
<1> QED  BY <1>1, Invariance, PTL

\* An idle machine's recorder runs only until the Runnable that is pending.
THEOREM QuietWhenIdle == Spec => []IdleIsQuiet
<1>1. IInv => IdleIsQuiet
  BY DEF IInv, Core
<1> QED  BY <1>1, Invariance, PTL

\* Undisturbed, a recording is told at most once, with the length of its file.
THEOREM ToldOnce == Spec => []FinishedRight
<1>1. IInv => FinishedRight
  BY DEF IInv, Clean, Told, FinishedRight
<1> QED  BY <1>1, Invariance, PTL

\* Undisturbed, an idle recorder has left the files of the finished recordings.
THEOREM NoFileLeft == Spec => []NothingLeftBehind
<1>1. IInv => NothingLeftBehind
  BY DEF IInv, Clean, Told, OneRecording, Busy, Pending, NothingLeftBehind
<1> QED  BY <1>1, Invariance, PTL

\* Undisturbed, no recording is longer than the limit and the final half second, for
\* any limit and any countdown shorter than it.
THEOREM WithinMaxVoiceTime == Spec => []MaxVoiceTime
<1>1. IInv => MaxVoiceTime
  BY DEF IInv, Clean, TimeLeft, MaxVoiceTime
<1> QED  BY <1>1, Invariance, PTL
=============================================================================
