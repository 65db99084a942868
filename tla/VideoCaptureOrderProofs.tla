---------------------- MODULE VideoCaptureOrderProofs ----------------------
(***************************************************************************)
(* CrashHasCause and IsRecordingIsTrue are invariants of VideoCapture, for *)
(* any number of calls and failures, with and without audio.               *)
(*                                                                         *)
(* Both say what holds of an orderly use: no call of the framework has     *)
(* failed, and no call of the client has overlapped what was left of an    *)
(* earlier recording (Calm). Then the client, the listener and the three   *)
(* threads are in one of four phases. Rests: nothing is under way, and the *)
(* encoders are configured for the next recording, or the camera is        *)
(* closed. Starts: the client is inside startRecording. Records: the       *)
(* threads encode, stop and save. Prepares: the future that was posted     *)
(* with the recording sets the encoders up again. Each phase names the     *)
(* joint state of the encoders, the microphone, the muxer and the queues;  *)
(* no step that throws is enabled in any of them (NoCrash), and a lemma    *)
(* for each says which phases its steps lead to.                           *)
(***************************************************************************)
EXTENDS VideoCaptureProofs

-----------------------------------------------------------------------------
(* The phases. *)

\* Nothing has failed and no call has overlapped an earlier recording.
Calm == failures = 0 /\ ~hurried

\* The tracks a recording is to have.
Expected == IF mConfig THEN Tracks ELSE {"video"}

\* The encoders, and the microphone; those of the audio exist only if it is configured.
Encoders(video, audio) ==
  /\ mEncoder.video \in video
  /\ mEncoder.audio = IF mConfig THEN audio ELSE "uninitialized"
Microphone(state) == mAudioRecorder = IF mConfig THEN state ELSE "null"

NoTasks == /\ handler.video = <<>> /\ handler.audio = <<>>
           /\ pc.video = "idle" /\ pc.audio = "idle"
NoFuture == handler.executor = <<>> /\ pc.executor = "idle"
Alive == quit = {} /\ mCameraSurface

\* What holds all along.
Regular ==
  /\ mIsAudioEnabled = mConfig /\ initFailed = {} /\ ~crashed
  /\ mRecordingFuture <= call /\ \A c \in futuresRun : c <= mRecordingFuture
  /\ pc.client \in {"check", "microphone", "encoders"} => mRecordingFuture < call
  /\ pc.listener \in {"release", "free", "closed"} => pc.client = "idle"
  /\ mRecordingWaitRelease => pc.listener = "closed"
  /\ pc.listener = "free" => mRecordingFuture = 0

\* Nothing is under way: all is prepared for the next recording, or the camera is closed.
Rests ==
  /\ pc.client \in {"idle", "check"} /\ NoTasks /\ NoFuture
  /\ ~mIsRecording /\ mEndOfAudioVideoSignal /\ ~mMuxerStarted
  /\ \/ /\ Alive /\ Encoders({"configured"}, "configured") /\ Microphone("initialized")
        /\ formatKnown = {} /\ mTrackIndex = {}
     \/ pc.listener = "closed"

\* The client is in startRecording, past its checks.
Starts ==
  /\ pc.client \in {"microphone", "encoders", "muxer", "begin", "post"}
  /\ NoTasks /\ NoFuture /\ Alive
  /\ formatKnown = {} /\ mTrackIndex = {} /\ ~mMuxerStarted
  /\ (mIsRecording <=> pc.client = "post")
  /\ IF pc.client \in {"microphone", "encoders"} THEN Encoders({"configured"}, "configured")
       ELSE /\ Encoders({"executing"}, "executing")
            /\ mRecordingFuture = call /\ call \notin futuresRun
  /\ Microphone(IF pc.client = "microphone" THEN "initialized" ELSE "recording")
  /\ pc.client \in {"begin", "post"} => mMuxer = "initialized"
  /\ pc.client = "post" /\ mConfig => ~mEndOfStream.video

\* The muxer has the tracks whose format is known, and is started once that is all.
Muxes ==
  /\ mTrackIndex = formatKnown
  /\ (mMuxerStarted <=> mTrackIndex = Expected)
  /\ mMuxer = IF mMuxerStarted THEN "started" ELSE "initialized"

\* As long as the audio has not ended, the video is not told to end.
HandlesAudio ==
  /\ mConfig /\ handler.audio # <<>> /\ Len(handler.audio) <= 1
  /\ pc.video \in {"idle", "loop"} /\ ~mEndOfStream.video
  /\ Encoders({"executing"}, "executing") /\ Microphone("recording")
AudioHandled ==
  /\ handler.audio = <<>> /\ pc.audio = "idle"
  /\ Encoders(IF pc.video \in {"idle", "loop", "stop"} THEN Running ELSE {"uninitialized"},
              "uninitialized")
  /\ Microphone("initialized")

\* The threads encode.
Records ==
  /\ pc.client \in {"idle", "check"} /\ NoFuture /\ Alive
  /\ handler.video # <<>> /\ Len(handler.video) <= 1
  /\ mRecordingFuture \notin futuresRun
  /\ formatKnown \subseteq Expected
  /\ pc.video \in {"idle", "loop", "stop", "muxer"} => Muxes
  /\ pc.video = "saved" => ~mMuxerStarted /\ mEndOfAudioVideoSignal
  /\ HandlesAudio \/ AudioHandled

\* The future prepares the next recording.
Prepares ==
  /\ pc.client \in {"idle", "check"} /\ NoTasks /\ Alive
  /\ handler.executor # <<>> /\ Len(handler.executor) <= 1
  /\ Task("executor") = mRecordingFuture
  /\ pc.executor = "idle" => mRecordingFuture \notin futuresRun
  /\ mEndOfAudioVideoSignal /\ ~mMuxerStarted
  /\ Encoders({IF pc.executor \in {"idle", "video"} THEN "uninitialized" ELSE "configured"},
              IF pc.executor = "tracks" THEN "configured" ELSE "uninitialized")
  /\ Microphone("initialized")
  /\ formatKnown \subseteq IF pc.executor \in {"idle", "video"} THEN Expected
                           ELSE IF pc.executor = "audio" THEN Expected \ {"video"} ELSE {}

-----------------------------------------------------------------------------
(* Their steps. *)

\* A thread that takes a step has left its idle place or has a task.
LEMMA Guards ==
  ASSUME Typed
  PROVE  /\ Client => pc.client # "idle"
         /\ Video \/ SignalEndOfInput \/ VideoEndOfStream => handler.video # <<>>
         /\ Audio => handler.audio # <<>>
         /\ Executor => handler.executor # <<>>
<1>1. Client => pc.client # "idle"
  BY
  DEF Client, CheckStart, StartMicrophone, StartEncoders, CreateMuxer, BeginRecording,
      PostTasks
<1>2. Video => pc.video # "idle" \/ handler.video # <<>>
  BY
  DEF Video, VideoBegin, VideoFormatChanged, WriteKeyFrame, VideoEncodeFails, VideoStop,
      VideoCrash, StopMuxer, CheckKeyFrame, VideoEnd, VideoSaved, InLoop
<1>3. SignalEndOfInput \/ VideoEndOfStream => pc.video # "idle"
  BY DEF SignalEndOfInput, VideoEndOfStream, InLoop
<1>4. Audio => pc.audio # "idle" \/ handler.audio # <<>>
  BY
  DEF Audio, AudioBegin, AudioLeavesLoop, EncodeAudio, AudioFormatChanged, AudioCrash,
      AudioEncoderFails, AudioStop
<1>5. Executor => pc.executor # "idle" \/ handler.executor # <<>>
  BY DEF Executor, RunFuture, SetupVideo, SetupAudio, SetupTracks
<1> QED  BY <1>1, <1>2, <1>3, <1>4, <1>5 DEF Typed, Places

\* The configuration stays what it is; a failure or an overlap is not forgotten.
LEMMA StepKeeps ==
  ASSUME Typed, Next
  PROVE  mConfig' = mConfig /\ (Calm' => Calm)
<1>0. failures \in Nat /\ hurried \in BOOLEAN
  BY CaptureAssumption DEF Typed, TypeOK, HistoryTypes
<1> USE <1>0 DEF Calm, Fails, Works, history
<1>1. CASE StartRecording
  BY <1>1 DEF StartRecording
<1>2. CASE StopRecording
  BY <1>2 DEF StopRecording
<1>3. CASE CloseStops
  BY <1>3 DEF CloseStops
<1>4. CASE CheckStart
  BY <1>4 DEF CheckStart
<1>5. CASE StartMicrophone
  BY <1>5 DEF StartMicrophone
<1>6. CASE StartEncoders
  BY <1>6 DEF StartEncoders
<1>7. CASE CreateMuxer
  BY <1>7 DEF CreateMuxer
<1>8. CASE BeginRecording
  BY <1>8 DEF BeginRecording
<1>9. CASE PostTasks
  BY <1>9 DEF PostTasks
<1>10. CASE Release
  BY <1>10 DEF Release
<1>11. CASE ReleaseAtOnce
  BY <1>11 DEF ReleaseAtOnce
<1>12. CASE SignalEndOfInput
  BY <1>12 DEF SignalEndOfInput
<1>13. CASE VideoEndOfStream
  BY <1>13 DEF VideoEndOfStream
<1>14. CASE VideoBegin
  BY <1>14 DEF VideoBegin
<1>15. CASE VideoFormatChanged
  BY <1>15 DEF VideoFormatChanged
<1>16. CASE WriteKeyFrame
  BY <1>16 DEF WriteKeyFrame
<1>17. CASE VideoEncodeFails
  BY <1>17 DEF VideoEncodeFails
<1>18. CASE VideoStop
  BY <1>18 DEF VideoStop
<1>19. CASE VideoCrash
  BY <1>19 DEF VideoCrash, Crash
<1>20. CASE StopMuxer
  BY <1>20 DEF StopMuxer
<1>21. CASE CheckKeyFrame
  BY <1>21 DEF CheckKeyFrame
<1>22. CASE VideoEnd
  BY <1>22 DEF VideoEnd
<1>23. CASE VideoSaved
  BY <1>23 DEF VideoSaved
<1>24. CASE AudioBegin
  BY <1>24 DEF AudioBegin
<1>25. CASE AudioLeavesLoop
  BY <1>25 DEF AudioLeavesLoop
<1>26. CASE EncodeAudio
  BY <1>26 DEF EncodeAudio
<1>27. CASE AudioFormatChanged
  BY <1>27 DEF AudioFormatChanged
<1>28. CASE AudioCrash
  BY <1>28 DEF AudioCrash, Crash
<1>29. CASE AudioEncoderFails
  BY <1>29 DEF AudioEncoderFails
<1>30. CASE AudioStop
  BY <1>30 DEF AudioStop
<1>31. CASE RunFuture
  BY <1>31 DEF RunFuture
<1>32. CASE SetupVideo
  BY <1>32 DEF SetupVideo
<1>33. CASE SetupAudio
  BY <1>33 DEF SetupAudio
<1>34. CASE SetupTracks
  BY <1>34 DEF SetupTracks
<1> QED
  BY <1>1, <1>2, <1>3, <1>4, <1>5, <1>6, <1>7, <1>8, <1>9, <1>10, <1>11, <1>12, <1>13, <1>14,
     <1>15, <1>16, <1>17, <1>18, <1>19, <1>20, <1>21, <1>22, <1>23, <1>24, <1>25, <1>26, <1>27,
     <1>28, <1>29, <1>30, <1>31, <1>32, <1>33, <1>34 DEF Next, Client, Listener, Video, Audio,
     Executor

\* What the steps below need of the types.
LEMMA StepFacts ==
  ASSUME Typed, Next
  PROVE  /\ pc \in [Threads -> Labels] /\ mConfig' = mConfig /\ mConfig \in BOOLEAN
         /\ call \in Nat /\ mRecordingFuture \in Nat /\ handler \in Queues
         /\ DOMAIN mEncoder = Tracks
BY StepKeeps, CaptureAssumption
DEF Typed, TypeOK, Places, HistoryTypes, PlaceTypes, FutureTypes, Calls, QueueTypes, Queues,
    CodecTypes

\* Nothing starts but a recording, and only the camera being closed takes anything away.
LEMMA RestsStep ==
  ASSUME Typed, Regular, Rests, Calm, Calm', Next
  PROVE  Rests' \/ Starts' \/ Records' \/ Prepares'
<1>t. /\ pc \in [Threads -> Labels] /\ mConfig' = mConfig /\ mConfig \in BOOLEAN
      /\ call \in Nat /\ mRecordingFuture \in Nat /\ handler \in Queues
      /\ DOMAIN mEncoder = Tracks /\ failures = 0 /\ failures' = 0 /\ ~hurried'
  BY StepFacts DEF Calm
<1>1. CASE StartRecording
  BY <1>t, <1>1
  DEF Rests, NoTasks, NoFuture, Alive, Encoders, Microphone, Goto, signals, codecs, queues,
      StartRecording
<1>2. CASE StopRecording
  BY <1>t, <1>2
  DEF Rests, NoTasks, NoFuture, Alive, Encoders, Microphone, muxing, codecs, queues,
      StopRecording, StopSignals
<1>3. CASE CloseStops
  BY <1>t, <1>3
  DEF Rests, NoTasks, NoFuture, Alive, Encoders, Microphone, Goto, Threads, muxing, codecs,
      queues, CloseStops, StopSignals
<1>4. CASE Release
  BY <1>t, <1>4
  DEF Rests, NoTasks, NoFuture, Alive, Encoders, Microphone, Goto, Threads, signals, muxing,
      codecs, queues, Release
<1>5. CASE ReleaseAtOnce
  BY <1>t, <1>5 DEF Rests, NoTasks, NoFuture, Goto, Threads, signals, muxing, ReleaseAtOnce
<1>6. CASE CheckStart
  BY <1>t, <1>6
  DEF Rests, Starts, Regular, NoTasks, NoFuture, Alive, Encoders, Microphone, Goto, Threads,
      Tracks, signals, muxing, codecs, future, queues, CheckStart, Tell
<1>7. Client => CheckStart
  BY <1>t, Guards
  DEF Client, Rests, StartMicrophone, StartEncoders, CreateMuxer, BeginRecording, PostTasks
<1>8. Listener => CloseStops \/ Release \/ ReleaseAtOnce
  BY <1>t, Guards DEF Listener
<1>9. Video => FALSE
  BY Guards DEF Rests, NoTasks, NoFuture
<1>10. Audio => FALSE
  BY Guards DEF Rests, NoTasks, NoFuture
<1>11. Executor => FALSE
  BY Guards DEF Rests, NoTasks, NoFuture
<1> QED
  BY <1>1, <1>2, <1>3, <1>4, <1>5, <1>6, <1>7, <1>8, <1>9, <1>10, <1>11, Guards
  DEF Next, StartRecording, Rests, NoTasks, NoFuture

\* A queue with one task has none when it has been taken.
LEMMA LastTask ==
  ASSUME NEW q \in Seq(Calls), q # <<>>, Len(q) <= 1
  PROVE  Tail(q) = <<>>
OBVIOUS

\* startRecording goes on to the threads' tasks: nobody else is at work, and closing the
\* camera only has the listener wait.
LEMMA StartsStep ==
  ASSUME Typed, Regular, Starts, Calm, Calm', Next
  PROVE  Rests' \/ Starts' \/ Records' \/ Prepares'
<1>t. /\ pc \in [Threads -> Labels] /\ mConfig' = mConfig /\ mConfig \in BOOLEAN
      /\ call \in Nat /\ mRecordingFuture \in Nat /\ handler \in Queues
      /\ DOMAIN mEncoder = Tracks /\ failures = 0 /\ failures' = 0 /\ ~hurried'
  BY StepFacts DEF Calm
<1>1. CASE StopRecording
  BY <1>t, <1>1 DEF Starts, StopRecording
<1>2. CASE CloseStops
  BY <1>t, <1>2
  DEF Starts, Regular, NoTasks, NoFuture, Alive, Encoders, Microphone, Goto, Threads, muxing,
      codecs, future, queues, CloseStops, StopSignals
<1>3. CASE StartMicrophone
  BY <1>t, <1>3
  DEF Starts, Regular, NoTasks, NoFuture, Alive, Encoders, Microphone, Goto, Threads, muxing,
      future, history, StartMicrophone, AudioInputReleased, Fails, Works
<1>4. CASE StartEncoders
  BY <1>t, <1>4
  DEF Starts, Regular, NoTasks, NoFuture, Alive, Encoders, Microphone, Goto, Threads, signals,
      muxing, history, StartEncoders, FailedStart, Fails, Works, Tell, Running
<1>5. CASE CreateMuxer
  BY <1>t, <1>5
  DEF Starts, NoTasks, NoFuture, Alive, Encoders, Microphone, Goto, Threads, signals, codecs,
      future, history, CreateMuxer, FailedStart, Fails, Works, Tell
<1>6. CASE BeginRecording
  BY <1>t, <1>6
  DEF Starts, NoTasks, NoFuture, Alive, Encoders, Microphone, Goto, Threads, Tracks, muxing,
      codecs, future, queues, history, BeginRecording, Tell
<1>7. CASE PostTasks
  <2>1. pc.client = "post" /\ Alive /\ mIsAudioEnabled = mConfig /\ call \in Calls
    BY <1>t, <1>7 DEF PostTasks, Starts, Regular, Typed, Places
  <2>2. /\ handler'.video = <<call>> /\ handler'.executor = <<>>
        /\ handler'.audio = IF mConfig THEN <<call>> ELSE <<>>
    <3> DEFINE q == IF mConfig THEN [handler EXCEPT !.audio = Append(@, call)] ELSE handler
    <3>1. handler' = [q EXCEPT !.video = Append(@, call)]
      BY <2>1, <1>7 DEF PostTasks, Posted, Alive
    <3>2. DOMAIN q = Tracks \cup {"executor"} /\ q.video = <<>> /\ q.executor = <<>>
      BY <1>t DEF Queues, Starts, NoTasks, NoFuture, Tracks
    <3>3. q.audio = IF mConfig THEN <<call>> ELSE <<>>
      BY <1>t DEF Queues, Starts, NoTasks, Tracks
    <3> HIDE DEF q
    <3> QED  BY <3>1, <3>2, <3>3 DEF Tracks
  <2>3. pc' = [pc EXCEPT !.client = "idle"]
    BY <1>7 DEF PostTasks, Goto
  <2>4. Muxes'
    BY <1>t, <2>1, <1>7 DEF PostTasks, Starts, Muxes, Expected, Tracks, muxing, codecs
  <2>5. /\ Alive' /\ NoFuture' /\ pc'.client = "idle"
        /\ handler'.video # <<>> /\ Len(handler'.video) <= 1
        /\ (mRecordingFuture \notin futuresRun)' /\ (formatKnown \subseteq Expected)' /\ pc'.video = "idle"
    BY <1>t, <2>1, <2>2, <2>3, <1>7
    DEF PostTasks, Starts, Alive, NoFuture, NoTasks, codecs, future
  <2>6. HandlesAudio' \/ AudioHandled'
    <3>1. CASE mConfig
      <4>1. handler'.audio # <<>> /\ Len(handler'.audio) <= 1
        BY <2>2, <3>1
      <4> QED
        BY <1>t, <2>1, <2>3, <2>5, <3>1, <4>1, <1>7
        DEF PostTasks, Starts, HandlesAudio, Encoders, Microphone, codecs, signals
    <3>2. CASE ~mConfig
      BY <1>t, <2>1, <2>2, <2>3, <2>5, <3>2, <1>7
      DEF PostTasks, Starts, NoTasks, AudioHandled, Encoders, Microphone, Running, codecs
    <3> QED  BY <3>1, <3>2
  <2> QED  BY <2>4, <2>5, <2>6 DEF Records
<1>8. Client => StartMicrophone \/ StartEncoders \/ CreateMuxer \/ BeginRecording \/ PostTasks
  BY <1>t, Guards DEF Client, Starts, CheckStart
<1>9. Listener => CloseStops
  BY <1>t, Guards DEF Listener, Starts, Regular, Release, ReleaseAtOnce
<1>10. Video => FALSE
  BY Guards DEF Starts, NoTasks, NoFuture
<1>11. Audio => FALSE
  BY Guards DEF Starts, NoTasks, NoFuture
<1>12. Executor => FALSE
  BY Guards DEF Starts, NoTasks, NoFuture
<1> QED
  BY <1>1, <1>2, <1>3, <1>4, <1>5, <1>6, <1>7, <1>8, <1>9, <1>10, <1>11, <1>12, Guards
  DEF Next, StartRecording, Starts, NoTasks, NoFuture

\* The future prepares the next recording, or finds that the camera is being closed.
LEMMA PreparesStep ==
  ASSUME Typed, Regular, Prepares, Calm, Calm', Next
  PROVE  Rests' \/ Starts' \/ Records' \/ Prepares'
<1>t. /\ pc \in [Threads -> Labels] /\ mConfig' = mConfig /\ mConfig \in BOOLEAN
      /\ call \in Nat /\ mRecordingFuture \in Nat /\ handler \in Queues
      /\ DOMAIN mEncoder = Tracks /\ failures = 0 /\ failures' = 0 /\ ~hurried'
  BY StepFacts DEF Calm
<1>f. mRecordingFuture # 0 /\ mRecordingFuture \in Calls
  BY <1>t, TaskFacts DEF Prepares, Task, Queues, Calls, Tracks
<1>e. Tail(handler.executor) = <<>>
  BY <1>t, LastTask DEF Prepares, Queues, Tracks
<1>1. CASE StartRecording
  BY <1>t, <1>f, <1>e, <1>1
  DEF Prepares, Expected, NoTasks, Alive, Encoders, Microphone, Goto, signals, codecs, future,
      queues, history, StartRecording, Task
<1>2. CASE StopRecording
  BY <1>t, <1>f, <1>e, <1>2
  DEF Prepares, Expected, NoTasks, Alive, Encoders, Microphone, muxing, codecs, future, queues,
      StopRecording, StopSignals, Task
<1>3. CASE CloseStops
  BY <1>t, <1>f, <1>e, <1>3
  DEF Prepares, Expected, NoTasks, Alive, Encoders, Microphone, Goto, Threads, muxing, codecs,
      future, queues, CloseStops, StopSignals, Task
<1>4. CASE CheckStart
  <2>1. ~Quiet
    BY <1>t DEF Quiet, Prepares, NoTasks, Queues, Tracks
  <2>2. pc' = [pc EXCEPT !.client = "idle"]
    BY <1>t, <2>1, <1>4 DEF CheckStart, Goto
  <2>3. UNCHANGED <<signals, muxing, codecs, future, queues, mConfig>>
    BY <1>4 DEF CheckStart
  <2> QED
    BY <1>t, <1>f, <1>e, <2>2, <2>3
    DEF Prepares, Task, Expected, NoTasks, Alive, Encoders, Microphone, signals, muxing,
        codecs, future, queues
<1>5. CASE Release
  BY <1>t, <1>f, <1>e, <1>5
  DEF Prepares, Expected, NoTasks, Alive, Encoders, Microphone, Goto, Threads, signals, muxing,
      codecs, queues, history, Release, Task
<1>6. CASE ReleaseAtOnce
  BY <1>t, <1>f, <1>e, <1>6 DEF Prepares, Regular, ReleaseAtOnce
<1>7. CASE RunFuture
  <2>1. pc.executor = "idle" /\ Task("executor") \notin futuresRun
    BY <1>7 DEF RunFuture, Prepares
  <2>2. /\ pc.client \in {"idle", "check"} /\ handler.video = <<>> /\ handler.audio = <<>>
        /\ pc.video = "idle" /\ pc.audio = "idle" /\ mEndOfAudioVideoSignal /\ ~mMuxerStarted
    BY DEF Prepares, NoTasks
  <2>3. CASE mRecordingWaitRelease
    <3>1. pc.listener = "closed"
      BY <2>3 DEF Regular
    <3>2. /\ ~mIsRecording' /\ UNCHANGED <<mEndOfAudioVideoSignal, mMuxerStarted>>
          /\ handler' = [handler EXCEPT !.executor = Tail(@)]
          /\ pc' = [pc EXCEPT !.executor = "idle"]
      BY <2>1, <2>3, <1>7 DEF RunFuture, EndFuture, Goto, muxing
    <3>3. handler'.video = <<>> /\ handler'.audio = <<>> /\ handler'.executor = <<>>
      BY <1>t, <1>e, <2>2, <3>2 DEF Queues, Tracks
    <3> QED  BY <1>t, <2>2, <3>1, <3>2, <3>3 DEF Rests, NoTasks, NoFuture, Threads
  <2>4. CASE ~mRecordingWaitRelease
    <3>1. /\ pc' = [pc EXCEPT !.executor = "video"] /\ UNCHANGED <<codecs, queues>>
          /\ UNCHANGED <<mEndOfAudioVideoSignal, mMuxerStarted, mRecordingFuture>>
      BY <2>1, <2>4, <1>7 DEF RunFuture, Goto, muxing
    <3> QED
      BY <1>t, <2>1, <2>2, <3>1
      DEF Prepares, NoTasks, Alive, Encoders, Microphone, Expected, Task, codecs, queues
  <2> QED  BY <2>3, <2>4
<1>8. CASE SetupVideo
  <2>1. pc.executor = "video" /\ mEncoder.video = "uninitialized" /\ formatKnown \subseteq Expected
    BY <1>8 DEF SetupVideo, Prepares, Encoders
  <2>2. /\ pc' = [pc EXCEPT !.executor = "audio"] /\ formatKnown' = formatKnown \ {"video"}
        /\ mEncoder' = [mEncoder EXCEPT !.video = "configured"] /\ mCameraSurface'
        /\ UNCHANGED <<signals, muxing, future, queues, mAudioRecorder>>
    BY <1>t, <2>1, <1>8 DEF SetupVideo, Goto, Fails, queues
  <2>3. formatKnown' \subseteq (Expected \ {"video"})'
    BY <1>t, <2>1, <2>2 DEF Expected
  <2> QED
    BY <1>t, <2>1, <2>2, <2>3
    DEF Prepares, NoTasks, Alive, Encoders, Microphone, Task, signals, muxing, future, queues
<1>9. CASE SetupAudio
  <2>1. /\ pc.executor = "audio" /\ mEncoder.audio = "uninitialized"
        /\ formatKnown \subseteq Expected \ {"video"}
    BY <1>9 DEF SetupAudio, Prepares, Encoders
  <2>2. /\ pc' = [pc EXCEPT !.executor = "tracks"]
        /\ mEncoder' = IF mConfig THEN [mEncoder EXCEPT !.audio = "configured"] ELSE mEncoder
        /\ formatKnown' = IF mConfig THEN formatKnown \ {"audio"} ELSE formatKnown
        /\ mAudioRecorder' = IF mConfig THEN "initialized" ELSE mAudioRecorder
        /\ UNCHANGED <<mCameraSurface, mEndOfAudioVideoSignal, muxing, future, queues>>
    BY <1>t, <2>1, <1>9 DEF SetupAudio, Goto, Fails, queues, codecs
  <2>3. formatKnown' = {}
    BY <1>t, <2>1, <2>2 DEF Expected, Tracks
  <2> QED
    BY <1>t, <2>1, <2>2, <2>3
    DEF Prepares, NoTasks, Alive, Encoders, Microphone, Task, muxing, future, queues
<1>10. CASE SetupTracks
  BY <1>t, <1>f, <1>e, <1>10
  DEF Prepares, Rests, NoTasks, NoFuture, Alive, Encoders, Microphone, Goto, Threads, Tracks,
      codecs, future, history, SetupTracks, EndFuture, Task
<1>11. Client => CheckStart
  BY <1>t, Guards
  DEF Client, Prepares, StartMicrophone, StartEncoders, CreateMuxer, BeginRecording, PostTasks
<1>12. Listener => CloseStops \/ Release \/ ReleaseAtOnce
  BY <1>t, Guards DEF Listener
<1>13. Video => FALSE
  BY Guards DEF Prepares, NoTasks, NoFuture
<1>14. Audio => FALSE
  BY Guards DEF Prepares, NoTasks, NoFuture
<1>15. Executor => RunFuture \/ SetupVideo \/ SetupAudio \/ SetupTracks
  BY <1>t, Guards DEF Executor
<1> QED
  BY <1>1, <1>2, <1>3, <1>4, <1>5, <1>6, <1>7, <1>8, <1>9, <1>10, <1>11, <1>12, <1>13, <1>14,
     <1>15, Guards DEF Next, StartRecording, Prepares, NoTasks, NoFuture

\* The audio ends before the video, the muxer starts with both tracks and ends with the video,
\* which posts the future's turn at its end.
LEMMA RecordsStep ==
  ASSUME Typed, Regular, Records, Calm, Calm', Next
  PROVE  Rests' \/ Starts' \/ Records' \/ Prepares'
<1>t. /\ pc \in [Threads -> Labels] /\ mConfig' = mConfig /\ mConfig \in BOOLEAN
      /\ call \in Nat /\ mRecordingFuture \in Nat /\ handler \in Queues
      /\ DOMAIN mEncoder = Tracks /\ failures = 0 /\ failures' = 0 /\ ~hurried'
  BY StepFacts DEF Calm
<1>f. mRecordingFuture # 0
  BY DEF Typed, Places, Records
<1>e. /\ Tail(handler.video) = <<>>
      /\ handler.audio # <<>> => Tail(handler.audio) = <<>>
  BY <1>t, LastTask DEF Records, HandlesAudio, AudioHandled, Queues, Tracks
<1>1. CASE StartRecording
  BY <1>t, <1>f, <1>e, <1>1
  DEF Records, HandlesAudio, AudioHandled, Expected, Muxes, NoFuture, Alive, Encoders,
      Microphone, Goto, Threads, Tracks, signals, codecs, future, queues, history,
      StartRecording
<1>2. CASE StopRecording
  BY <1>t, <1>f, <1>e, <1>2
  DEF Records, HandlesAudio, AudioHandled, Expected, Muxes, Regular, NoFuture, Alive, Encoders,
      Microphone, Threads, Tracks, muxing, codecs, future, queues, StopRecording, StopSignals
<1>3. CASE CloseStops
  BY <1>t, <1>f, <1>e, <1>3
  DEF Records, HandlesAudio, AudioHandled, Expected, Muxes, Regular, NoFuture, Alive, Encoders,
      Microphone, Goto, Threads, Tracks, muxing, codecs, future, queues, CloseStops,
      StopSignals
<1>4. CASE CheckStart
  <2>1. ~Quiet
    BY <1>t DEF Quiet, Records, NoTasks, Queues, Tracks
  <2>2. pc' = [pc EXCEPT !.client = "idle"]
    BY <1>t, <2>1, <1>4 DEF CheckStart, Goto
  <2>3. UNCHANGED <<signals, muxing, codecs, future, queues, mConfig>>
    BY <1>4 DEF CheckStart
  <2> QED
    BY <1>t, <1>f, <1>e, <2>2, <2>3
    DEF Records, HandlesAudio, AudioHandled, Expected, Muxes, NoFuture, Alive, Encoders,
        Microphone, signals, muxing, codecs, future, queues
<1>5. CASE Release
  BY <1>t, <1>f, <1>e, <1>5
  DEF Records, HandlesAudio, AudioHandled, Expected, Muxes, NoFuture, Alive, Encoders,
      Microphone, Goto, Threads, Tracks, signals, muxing, codecs, queues, history, Release
<1>6. CASE ReleaseAtOnce
  BY <1>t, <1>f, <1>e, <1>6 DEF Records, HandlesAudio, Regular, ReleaseAtOnce
<1>7. CASE SignalEndOfInput
  BY <1>t, <1>f, <1>e, <1>7
  DEF Records, HandlesAudio, AudioHandled, Expected, Muxes, Running, NoFuture, Alive, Encoders,
      Microphone, Calm, Threads, Tracks, muxing, future, queues, history, SignalEndOfInput,
      InLoop
<1>8. CASE VideoEndOfStream
  BY <1>t, <1>f, <1>e, <1>8
  DEF Records, HandlesAudio, AudioHandled, Expected, Muxes, NoFuture, Alive, Encoders,
      Microphone, Goto, Threads, Tracks, signals, muxing, codecs, future, queues, history,
      VideoEndOfStream, InLoop
<1>9. CASE VideoBegin
  BY <1>t, <1>f, <1>e, <1>9
  DEF Records, HandlesAudio, AudioHandled, Expected, Muxes, NoFuture, Alive, Encoders,
      Microphone, Calm, Goto, Threads, Tracks, signals, muxing, codecs, future, queues,
      history, VideoBegin
<1>10. CASE VideoFormatChanged
  <2>1. /\ pc.video = "loop" /\ Muxes /\ formatKnown \subseteq Expected /\ "video" \notin formatKnown
        /\ mIsAudioEnabled = mConfig
    BY <1>10 DEF VideoFormatChanged, InLoop, Records, Regular
  <2>2. ~mMuxerStarted /\ mMuxer = "initialized"
    BY <2>1 DEF Muxes, Expected, Tracks
  <2>3. /\ formatKnown' = formatKnown \cup {"video"}
        /\ UNCHANGED <<pc, handler, futuresRun, mRecordingFuture>>
        /\ UNCHANGED <<mEncoder, mAudioRecorder, mCameraSurface, quit, signals>>
        /\ AddTrack("video", mIsAudioEnabled => "audio" \in mTrackIndex)
    BY <2>2, <1>10 DEF VideoFormatChanged, future, queues
  <2>4. formatKnown' \subseteq Expected' /\ Expected' = Expected
    BY <1>t, <2>1, <2>3 DEF Expected, Tracks
  <2>5. Muxes'
    <3>1. formatKnown' = Expected <=> (mConfig => "audio" \in mTrackIndex)
      BY <1>t, <2>1, <2>3 DEF Expected, Tracks, Muxes
    <3> QED  BY <2>1, <2>2, <2>3, <2>4, <3>1 DEF Muxes, AddTrack
  <2> QED
    BY <1>t, <2>1, <2>3, <2>4, <2>5
    DEF Records, NoFuture, Alive, HandlesAudio, AudioHandled, Encoders, Microphone, signals
<1>11. CASE WriteKeyFrame
  BY <1>t, <1>f, <1>e, <1>11
  DEF Records, HandlesAudio, AudioHandled, Expected, Muxes, NoFuture, Alive, Encoders,
      Microphone, Calm, Goto, Threads, Tracks, signals, codecs, future, queues, history,
      WriteKeyFrame, InLoop, VideoError, NoError, Task
<1>12. CASE VideoEncodeFails
  <2>1. /\ pc.video = "loop" /\ pc' = [pc EXCEPT !.video = "stop"]
        /\ UNCHANGED <<signals, muxing, codecs, future, queues, call, mConfig>>
    BY <1>12 DEF VideoEncodeFails, Goto, history
  <2>2. mEncoder.video \in Running /\ failures' = failures /\ mEndOfStream.video
    BY <1>t, <1>12, <2>1
    DEF Records, HandlesAudio, AudioHandled, Running, Encoders, VideoEncodeFails, Fails, Works
  <2>3. AudioHandled /\ ~HandlesAudio
    BY <2>2 DEF Records, HandlesAudio
  <2> QED
    BY <1>t, <1>f, <1>e, <2>1, <2>3
    DEF Records, AudioHandled, Expected, Muxes, NoFuture, Alive, Encoders, Microphone, Threads,
        Tracks, signals, muxing, codecs, future, queues
<1>13. CASE VideoStop
  BY <1>t, <1>f, <1>e, <1>13
  DEF Records, HandlesAudio, AudioHandled, Expected, Muxes, NoFuture, Alive, Encoders,
      Microphone, Calm, Goto, Threads, Tracks, signals, muxing, future, queues, history,
      VideoStop, Fails, Works, VideoError, NoError, Task
<1>14. CASE VideoCrash
  BY <1>t, <1>f, <1>e, <1>14
  DEF Records, HandlesAudio, AudioHandled, Running, Encoders, VideoCrash
<1>15. CASE StopMuxer
  BY <1>t, <1>f, <1>e, <1>15
  DEF Records, HandlesAudio, AudioHandled, Expected, NoFuture, Alive, Encoders, Microphone,
      Calm, Goto, Threads, Tracks, signals, codecs, future, queues, history, StopMuxer, Fails,
      Works, VideoError, NoError, Task
<1>16. CASE CheckKeyFrame
  BY <1>t, <1>f, <1>e, <1>16
  DEF Records, HandlesAudio, AudioHandled, Expected, NoFuture, Alive, Encoders, Microphone,
      Calm, Goto, Threads, Tracks, signals, muxing, codecs, future, queues, history,
      CheckKeyFrame, VideoError, NoError, Task
<1>17. CASE VideoEnd
  BY <1>t, <1>f, <1>e, <1>17
  DEF Records, HandlesAudio, AudioHandled, Expected, NoFuture, Alive, Encoders, Microphone,
      Calm, Goto, Threads, Tracks, codecs, future, queues, history, VideoEnd
<1>18. CASE VideoSaved
  <2>1. /\ pc.video = "saved" /\ AudioHandled /\ ~mMuxerStarted /\ mEndOfAudioVideoSignal
        /\ pc' = [pc EXCEPT !.video = "idle"]
    BY <1>18 DEF VideoSaved, Records, HandlesAudio, Goto
  <2> DEFINE q == [handler EXCEPT !.video = Tail(@)]
  <2>2. /\ handler'.video = <<>> /\ handler'.audio = handler.audio
        /\ handler'.executor = Append(handler.executor, mRecordingFuture)
    BY <1>t, <1>e, <1>18 DEF VideoSaved, Queues, Tracks
  <2>3. handler'.executor = <<mRecordingFuture>>
    BY <2>2 DEF Records, NoFuture
  <2>4. /\ handler'.executor # <<>> /\ Len(handler'.executor) <= 1
        /\ Task("executor")' = mRecordingFuture /\ pc'.executor = "idle"
    BY <1>t, <2>1, <2>3 DEF Task, Records, NoFuture, Threads
  <2> QED
    BY <1>t, <2>1, <2>2, <2>4, <1>18
    DEF VideoSaved, Records, AudioHandled, Prepares, NoTasks, Alive, Encoders, Microphone,
        Expected, signals, muxing, codecs, future
<1>19. CASE AudioBegin
  BY <1>t, <1>f, <1>e, <1>19
  DEF Records, HandlesAudio, AudioHandled, Expected, Muxes, NoFuture, Alive, Encoders,
      Microphone, Calm, Goto, Threads, Tracks, signals, muxing, codecs, future, queues,
      history, AudioBegin
<1>20. CASE AudioLeavesLoop
  BY <1>t, <1>f, <1>e, <1>20
  DEF Records, HandlesAudio, AudioHandled, Expected, Muxes, NoFuture, Alive, Encoders,
      Microphone, Calm, Goto, Threads, Tracks, signals, muxing, codecs, future, queues,
      history, AudioLeavesLoop
<1>21. CASE EncodeAudio
  BY <1>t, <1>f, <1>e, <1>21
  DEF Records, HandlesAudio, AudioHandled, Expected, Muxes, NoFuture, Alive, Encoders,
      Microphone, Calm, Threads, Tracks, muxing, codecs, future, queues, history, EncodeAudio,
      AudioSignals, HasInput
<1>22. CASE AudioFormatChanged
  BY <1>t, <1>f, <1>e, <1>22
  DEF Records, HandlesAudio, AudioHandled, Expected, Muxes, NoFuture, Alive, Encoders,
      Microphone, Calm, Threads, Tracks, future, queues, history, AudioFormatChanged,
      AudioSignals, HasInput, AddTrack
<1>23. CASE AudioCrash
  BY <1>t, <1>f, <1>e, <1>23
  DEF Records, HandlesAudio, AudioHandled, Expected, Muxes, Running, Encoders, Calm, Threads,
      Tracks, signals, muxing, codecs, future, queues, AudioCrash, HasInput, Crash
<1>24. CASE AudioEncoderFails
  BY <1>t, <1>f, <1>e, <1>24
  DEF Calm, Threads, Tracks, signals, muxing, codecs, future, queues, AudioEncoderFails, Fails
<1>25. CASE AudioStop
  BY <1>t, <1>f, <1>e, <1>25
  DEF Records, HandlesAudio, AudioHandled, Expected, Muxes, Running, NoFuture, Alive, Encoders,
      Microphone, Goto, Threads, muxing, future, AudioStop
<1>26. Client => CheckStart
  BY <1>t, Guards
  DEF Client, Records, StartMicrophone, StartEncoders, CreateMuxer, BeginRecording, PostTasks
<1>27. Listener => CloseStops \/ Release \/ ReleaseAtOnce
  BY <1>t, Guards DEF Listener
<1>28. Video => \/ VideoBegin \/ VideoFormatChanged \/ WriteKeyFrame \/ VideoEncodeFails
                \/ VideoStop \/ VideoCrash \/ StopMuxer \/ CheckKeyFrame \/ VideoEnd
                \/ VideoSaved
  BY <1>t, Guards DEF Video
<1>29. Audio => \/ AudioBegin \/ AudioLeavesLoop \/ EncodeAudio \/ AudioFormatChanged
                \/ AudioCrash \/ AudioEncoderFails \/ AudioStop
  BY <1>t, Guards DEF Audio
<1>30. Executor => FALSE
  BY Guards DEF Records, NoTasks, NoFuture
<1> QED
  BY <1>1, <1>2, <1>3, <1>4, <1>5, <1>6, <1>7, <1>8, <1>9, <1>10, <1>11, <1>12, <1>13, <1>14,
     <1>15, <1>16, <1>17, <1>18, <1>19, <1>20, <1>21, <1>22, <1>23, <1>24, <1>25, <1>26, <1>27,
     <1>28, <1>29, <1>30, Guards DEF Next, StartRecording, Records, NoTasks, NoFuture

\* No thread meets an encoder, a muxer or a queue it does not expect.
LEMMA NoCrash ==
  ASSUME Typed, Regular, Rests \/ Starts \/ Records \/ Prepares, Calm
  PROVE  ~VideoCrash /\ ~AudioCrash
<1>1. CASE Rests \/ Starts \/ Prepares
  BY <1>1 DEF Rests, Starts, Prepares, NoTasks, VideoCrash, AudioCrash
<1>2. CASE Records
  <2>1. ~VideoCrash
    BY <1>2 DEF Records, HandlesAudio, AudioHandled, Encoders, Running, VideoCrash
  <2>2. CASE HandlesAudio
    <3>1. Muxes /\ formatKnown \subseteq Expected /\ mEncoder.audio = "executing"
      BY <1>2, <2>2 DEF Records, HandlesAudio, Encoders
    <3>2. "audio" \notin formatKnown => mMuxer = "initialized"
      BY <2>2, <3>1 DEF HandlesAudio, Muxes, Expected, Tracks
    <3> QED  BY <2>1, <3>1, <3>2 DEF AudioCrash, Running
  <2>3. CASE AudioHandled
    BY <2>1, <2>3 DEF AudioHandled, AudioCrash
  <2> QED  BY <1>2, <2>2, <2>3 DEF Records
<1> QED  BY <1>1, <1>2

\* What holds all along goes on holding.
LEMMA StepRegular ==
  ASSUME Typed, Regular, Rests \/ Starts \/ Records \/ Prepares, Calm, Calm', Next
  PROVE  Regular'
<1>t. /\ pc \in [Threads -> Labels] /\ mConfig' = mConfig /\ mConfig \in BOOLEAN
      /\ call \in Nat /\ mRecordingFuture \in Nat /\ handler \in Queues
      /\ failures = 0 /\ failures' = 0 /\ ~hurried'
  BY StepFacts DEF Calm
<1> USE DEF Regular
<1>1. CASE StartRecording
  BY <1>t, <1>1 DEF Goto, signals, codecs, future, history, StartRecording
<1>2. CASE StopRecording
  BY <1>t, <1>2 DEF codecs, future, StopRecording, StopSignals
<1>3. CASE CloseStops
  BY <1>t, <1>3 DEF Goto, Threads, codecs, future, CloseStops, StopSignals
<1>4. CASE CheckStart
  BY <1>t, <1>4 DEF Goto, Threads, signals, codecs, future, CheckStart
<1>5. CASE StartMicrophone
  BY <1>t, <1>5 DEF Goto, future, history, StartMicrophone, Fails
<1>6. CASE StartEncoders
  <2>1. /\ pc.client = "encoders" /\ mRecordingFuture' = call
        /\ \E l \in {"idle", "muxer"} : pc' = [pc EXCEPT !.client = l]
        /\ UNCHANGED <<mIsAudioEnabled, initFailed, futuresRun, call, crashed, mRecordingWaitRelease>>
    BY <1>6 DEF StartEncoders, FailedStart, Goto, signals, history
  <2>2. futuresRun \subseteq Int
    BY DEF Typed, TypeOK, FutureTypes, Calls
  <2> QED  BY <1>t, <2>1, <2>2 DEF Threads
<1>7. CASE CreateMuxer
  BY <1>t, <1>7 DEF Goto, Threads, signals, codecs, future, history, CreateMuxer, FailedStart
<1>8. CASE BeginRecording
  BY <1>t, <1>8 DEF Goto, codecs, future, history, BeginRecording
<1>9. CASE PostTasks
  BY <1>t, <1>9 DEF Goto, signals, codecs, future, history, PostTasks
<1>10. CASE Release
  BY <1>t, <1>10 DEF Goto, Threads, signals, codecs, history, Release
<1>11. CASE ReleaseAtOnce
  BY <1>t, <1>11 DEF Goto, signals, future, history, ReleaseAtOnce, ReleaseResources
<1>12. CASE SignalEndOfInput
  BY <1>t, <1>12 DEF future, history, SignalEndOfInput
<1>13. CASE VideoEndOfStream
  BY <1>t, <1>13 DEF Goto, signals, codecs, future, history, VideoEndOfStream
<1>14. CASE VideoBegin
  BY <1>t, <1>14 DEF Goto, signals, codecs, future, history, VideoBegin
<1>15. CASE VideoFormatChanged
  BY <1>t, <1>15 DEF Goto, Threads, signals, future, history, VideoFormatChanged
<1>16. CASE WriteKeyFrame
  BY <1>t, <1>16 DEF Goto, Threads, signals, codecs, future, history, WriteKeyFrame
<1>17. CASE VideoEncodeFails
  BY <1>t, <1>17 DEF Goto, signals, codecs, future, history, VideoEncodeFails
<1>18. CASE VideoStop
  BY <1>t, <1>18 DEF Goto, signals, future, history, VideoStop
<1>19. CASE VideoCrash
  BY <1>19, NoCrash
<1>20. CASE StopMuxer
  BY <1>t, <1>20 DEF Goto, Threads, signals, codecs, future, history, StopMuxer
<1>21. CASE CheckKeyFrame
  BY <1>t, <1>21 DEF Goto, signals, codecs, future, history, CheckKeyFrame
<1>22. CASE VideoEnd
  BY <1>t, <1>22 DEF Goto, codecs, future, history, VideoEnd
<1>23. CASE VideoSaved
  BY <1>t, <1>23 DEF Goto, signals, codecs, future, history, VideoSaved
<1>24. CASE AudioBegin
  BY <1>t, <1>24 DEF Goto, signals, codecs, future, history, AudioBegin
<1>25. CASE AudioLeavesLoop
  BY <1>t, <1>25 DEF Goto, signals, codecs, future, history, AudioLeavesLoop
<1>26. CASE EncodeAudio
  BY <1>t, <1>26 DEF codecs, future, history, EncodeAudio, AudioSignals
<1>27. CASE AudioFormatChanged
  BY <1>t, <1>27 DEF future, history, AudioFormatChanged, AudioSignals
<1>28. CASE AudioCrash
  BY <1>28, NoCrash
<1>29. CASE AudioEncoderFails
  BY <1>t, <1>29 DEF AudioEncoderFails, Fails
<1>30. CASE AudioStop
  BY <1>t, <1>30 DEF Goto, future, history, AudioStop
<1>31. CASE RunFuture
  <2>1. Prepares /\ pc.executor = "idle" /\ Task("executor") \notin futuresRun
    BY <1>31, Guards DEF RunFuture, Rests, Starts, Records, NoFuture, Prepares
  <2>2. /\ futuresRun' = futuresRun \cup {mRecordingFuture}
        /\ \E l \in {"idle", "video"} : pc' = [pc EXCEPT !.executor = l]
        /\ mRecordingWaitRelease' => mRecordingWaitRelease
        /\ UNCHANGED <<mIsAudioEnabled, mRecordingFuture, call, history, initFailed>>
    BY <2>1, <1>31 DEF RunFuture, ReleaseResources, EndFuture, Goto, Prepares, codecs
  <2> QED  BY <1>t, <2>2 DEF Threads, history
<1>32. CASE SetupVideo
  BY <1>t, <1>32
  DEF Goto, Threads, signals, codecs, future, history, SetupVideo, Fails, EndFuture
<1>33. CASE SetupAudio
  <2>1. /\ \E l \in Labels : pc' = [pc EXCEPT !.executor = l]
        /\ UNCHANGED <<initFailed, futuresRun, mRecordingFuture, call, crashed, mRecordingWaitRelease>>
    BY <1>t, <1>33 DEF SetupAudio, EndFuture, Goto, Fails, Labels, codecs, future, history
  <2>2. CASE mConfig
    <3>1. mConfig = TRUE
      BY <1>t, <2>2
    <3>2. mIsAudioEnabled' = TRUE
      <4>1. ~Fails
        BY <1>t DEF Fails
      <4> QED  BY <1>33, <3>1, <4>1 DEF SetupAudio
    <3> QED  BY <1>t, <2>1, <3>1, <3>2 DEF Threads
  <2>3. CASE ~mConfig
    BY <1>t, <1>33, <2>1, <2>3 DEF SetupAudio, Threads
  <2> QED  BY <2>2, <2>3
<1>34. CASE SetupTracks
  BY <1>t, <1>34 DEF Goto, codecs, future, history, SetupTracks, EndFuture
<1> QED
  BY <1>1, <1>2, <1>3, <1>4, <1>5, <1>6, <1>7, <1>8, <1>9, <1>10, <1>11, <1>12, <1>13, <1>14,
     <1>15, <1>16, <1>17, <1>18, <1>19, <1>20, <1>21, <1>22, <1>23, <1>24, <1>25, <1>26, <1>27,
     <1>28, <1>29, <1>30, <1>31, <1>32, <1>33, <1>34 DEF Next, Client, Listener, Video, Audio,
     Executor

-----------------------------------------------------------------------------
(* The order. *)

\* What is true of the recorder as long as nothing has failed and no call has overlapped
\* what was left of an earlier recording.
Orderly == Calm => Regular /\ (Rests \/ Starts \/ Records \/ Prepares)

\* At the start all is at rest.
LEMMA InitOrderly == Init => Orderly
<1> SUFFICES ASSUME Init PROVE Regular /\ Rests
  BY DEF Orderly
<1>1. /\ pc.client = "idle" /\ pc.video = "idle" /\ pc.audio = "idle" /\ pc.executor = "idle"
      /\ pc.listener = "open"
  BY DEF Init, Threads
<1>2. NoTasks /\ NoFuture
  BY <1>1 DEF Init, NoTasks, NoFuture, Tracks
<1> QED  BY <1>1, <1>2 DEF Init, Regular, Rests, Alive, Encoders, Microphone, Tracks

\* A step that keeps the order leads from phase to phase.
LEMMA StepOrderly == Typed /\ Orderly /\ [Next]_vars => Orderly'
<1> SUFFICES ASSUME Typed, Orderly, [Next]_vars, Calm'
             PROVE  Regular' /\ (Rests' \/ Starts' \/ Records' \/ Prepares')
  BY DEF Orderly
<1>1. CASE Next
  <2>1. Calm /\ Regular /\ (Rests \/ Starts \/ Records \/ Prepares)
    BY <1>1, StepKeeps DEF Orderly
  <2> QED  BY <1>1, <2>1, StepRegular, RestsStep, StartsStep, RecordsStep, PreparesStep
<1>2. CASE UNCHANGED vars
  <2>1. Calm /\ Regular /\ (Rests \/ Starts \/ Records \/ Prepares)
    BY <1>2 DEF Orderly, Calm, vars, history
  <2> USE <1>2 DEF vars, signals, muxing, codecs, future, queues, history
  <2>2. Regular'
    BY <2>1 DEF Regular
  <2>3. CASE Rests
    BY <2>2, <2>3 DEF Rests, NoTasks, NoFuture, Alive, Encoders, Microphone
  <2>4. CASE Starts
    BY <2>2, <2>4 DEF Starts, NoTasks, NoFuture, Alive, Encoders, Microphone
  <2>5. CASE Records
    BY <2>2, <2>5
    DEF Records, HandlesAudio, AudioHandled, Muxes, Expected, NoFuture, Alive, Encoders,
        Microphone
  <2>6. CASE Prepares
    BY <2>2, <2>6 DEF Prepares, Expected, Task, NoTasks, Alive, Encoders, Microphone
  <2> QED  BY <2>1, <2>2, <2>3, <2>4, <2>5, <2>6
<1> QED  BY <1>1, <1>2

\* What throws has its cause.
LEMMA OrderlyCause == Typed /\ Orderly => CrashHasCause
BY DEF Typed, TypeOK, HistoryTypes, Orderly, Calm, Regular, CrashHasCause

\* At rest, nothing is being recorded and both flags say so.
LEMMA OrderlyRest == Typed /\ Orderly => IsRecordingIsTrue
<1> SUFFICES ASSUME Typed, Orderly, AtRest, failures = 0, ~hurried
             PROVE  mIsRecording = ~mEndOfAudioVideoSignal
  BY DEF IsRecordingIsTrue
<1>1. Rests \/ Starts \/ Records \/ Prepares
  BY DEF Orderly, Calm
<1>2. handler \in Queues
  BY DEF Typed, TypeOK, QueueTypes, Queues
<1>3. ~Starts /\ ~Records /\ ~Prepares
  BY <1>2 DEF AtRest, Quiet, Starts, Records, Prepares, Queues, Tracks
<1>4. ~mIsRecording /\ mEndOfAudioVideoSignal
  BY <1>1, <1>3 DEF Rests
<1> QED  BY <1>4 DEF Typed, TypeOK, SignalTypes

-----------------------------------------------------------------------------
(* Theorems. *)

\* The encoder threads throw only after a failure of the framework or an overlapping call, with
\* any number of calls (VideoCapture.videoEncode, audioEncode).
THEOREM CrashesHaveCauses == Spec => []CrashHasCause
<1>1. Spec => []IInv
  BY Invariance
<1>2. IInv => Typed
  BY DEF IInv
<1>3. Init => Orderly
  BY InitOrderly
<1>4. Typed /\ Orderly /\ [Next]_vars => Orderly'
  BY StepOrderly
<1>5. Typed /\ Orderly => CrashHasCause
  BY OrderlyCause
<1> QED  BY <1>1, <1>2, <1>3, <1>4, <1>5, PTL DEF Spec

\* isRecording is right when all has come to rest, if nothing failed and no call overlapped.
THEOREM RestTellsRecording == Spec => []IsRecordingIsTrue
<1>1. Spec => []IInv
  BY Invariance
<1>2. IInv => Typed
  BY DEF IInv
<1>3. Init => Orderly
  BY InitOrderly
<1>4. Typed /\ Orderly /\ [Next]_vars => Orderly'
  BY StepOrderly
<1>5. Typed /\ Orderly => IsRecordingIsTrue
  BY OrderlyRest
<1> QED  BY <1>1, <1>2, <1>3, <1>4, <1>5, PTL DEF Spec

=============================================================================
