---------------------------- MODULE VideoCapture ----------------------------
(***************************************************************************)
(* VideoCapture: recording the UVC camera into a file. Five threads:       *)
(*   "client"    CameraHelper's handler, which calls start- and            *)
(*               stopRecording, one call after the other;                  *)
(*   "listener"  the connection's handler, which closes the camera when    *)
(*               its device is gone (CameraInternal.closeCamera);          *)
(*   "video", "audio"  the two handler threads that encode;                *)
(*   "executor"  mExecutor, which prepares the encoders for the next       *)
(*               recording, or frees everything (mRecordingFuture).        *)
(* A step is what a thread does up to its next access to state that        *)
(* another thread may change; a section on mMuxerLock is one step.         *)
(* MediaCodec, MediaMuxer and AudioRecord are modelled by their state      *)
(* machines: a call in the wrong state throws, and a call in the right     *)
(* one may fail (MaxFailures times).                                       *)
(***************************************************************************)
EXTENDS Integers, SequencesExt

CONSTANTS MaxCalls,     \* calls of startRecording
          MaxFailures   \* failures of codecs, muxers and the microphone

ASSUME CaptureAssumption == MaxCalls \in Nat \ {0} /\ MaxFailures \in Nat

Calls == 1..MaxCalls
Tracks == {"video", "audio"}
Threads == {"client", "listener", "video", "audio", "executor"}

VARIABLES
  mConfig,             \* VideoCaptureConfig.getAudioCaptureEnable
  mIsRecording, mIsAudioEnabled,
  mEndOfStream,        \* mEndOfVideoStreamSignal, mEndOfAudioStreamSignal
  mEndOfAudioVideoSignal,
  mMuxer, mMuxerStarted,
  mTrackIndex,         \* tracks whose index is not -1
  mIsFirstVideoKeyFrameWrite,
  mRecordingFuture,    \* the call it was made by, 0 for null
  mRecordingWaitRelease,
  mEncoder,            \* mVideoEncoder, mAudioEncoder: state of the codec, or "null"
  formatKnown,         \* encoders that have told their format since they started
  mAudioRecorder,      \* "null", "initialized" or "recording"
  mCameraSurface,      \* it is not null
  initFailed,          \* encoders whose init status is a failure
  handler,             \* messages of the two handlers and the executor: calls
  quit,                \* handler threads told to quit
  pc, call,            \* where each thread is; the client's call
  errorOccurred,       \* local of videoEncode
  futuresRun,          \* FutureTasks that have run: they do not run again
  told,                \* callbacks of each call
  keyed, tooShort,     \* history: key frame in the file; told ERROR_RECORDING_TOO_SHORT
  stopAsked,           \* history: recordings for which stopRecording was called
  soundFailed,         \* history: recordings told that their sound could not be stopped
  failures, hurried,   \* history: failures; a call that overlapped earlier work
  crashed              \* an exception nobody catches on a thread: the process ends

signals  == <<mIsRecording, mIsAudioEnabled, mEndOfStream, mEndOfAudioVideoSignal>>
muxing   == <<mMuxer, mMuxerStarted, mTrackIndex, mIsFirstVideoKeyFrameWrite, keyed>>
codecs   == <<mEncoder, formatKnown, mAudioRecorder, mCameraSurface, initFailed>>
future   == <<mRecordingFuture, mRecordingWaitRelease, futuresRun>>
queues   == <<handler, quit>>
reports  == <<told, tooShort>>
history  == <<mConfig, stopAsked, soundFailed, hurried, crashed>>
vars == <<signals, muxing, codecs, future, queues, pc, call, errorOccurred, reports,
          failures, history>>

\* The constructor: initVideoAudioHandler, initVideoAudioEncoder.
Init ==
  /\ mConfig \in BOOLEAN
  /\ mIsRecording = FALSE /\ mIsAudioEnabled = mConfig
  /\ mEndOfStream = [t \in Tracks |-> TRUE] /\ mEndOfAudioVideoSignal = TRUE
  /\ mMuxer = "null" /\ mMuxerStarted = FALSE /\ mTrackIndex = {}
  /\ mIsFirstVideoKeyFrameWrite = FALSE
  /\ mRecordingFuture = 0 /\ mRecordingWaitRelease = FALSE /\ futuresRun = {}
  /\ mEncoder = [t \in Tracks |-> IF t = "video" \/ mConfig THEN "configured" ELSE "uninitialized"]
  /\ formatKnown = {} /\ initFailed = {} /\ mCameraSurface = TRUE
  /\ mAudioRecorder = IF mConfig THEN "initialized" ELSE "null"
  /\ handler = [h \in Tracks \cup {"executor"} |-> <<>>] /\ quit = {}
  /\ pc = [t \in Threads |-> IF t = "listener" THEN "open" ELSE "idle"]
  /\ call = 0 /\ errorOccurred = FALSE
  /\ told = [c \in Calls |-> {}] /\ keyed = {} /\ tooShort = {}
  /\ stopAsked = {} /\ soundFailed = {}
  /\ failures = 0 /\ hurried = FALSE /\ crashed = FALSE

-----------------------------------------------------------------------------
(* What the steps are made of. *)

Running == {"executing", "ending"}
Goto(t, l) == pc' = [pc EXCEPT ![t] = l]
Fails == failures < MaxFailures /\ failures' = failures + 1
Works == UNCHANGED failures

Tell(c, what) == told' = [told EXCEPT ![c] = @ \cup {what}]
Task(h) == Head(handler[h])

\* Handler.post is ignored by a thread that quits.
Posted(q, h, c) == IF h \in quit THEN q ELSE [q EXCEPT ![h] = Append(@, c)]

\* The exception of a thread without a handler for it.
Crash ==
  /\ crashed' = TRUE
  /\ UNCHANGED <<signals, muxing, codecs, future, queues, pc, call, errorOccurred, reports,
                 failures, mConfig, stopAsked, soundFailed, hurried>>

\* releaseAudioInputResource
AudioInputReleased(enc) == [enc EXCEPT !.audio = "null"]

\* releaseResources: quit the handler threads, release what is not yet released.
ReleaseResources ==
  /\ quit' = Tracks
  /\ mEncoder' = [t \in Tracks |-> IF t = "video" /\ ~mCameraSurface THEN mEncoder.video ELSE "null"]
  /\ mAudioRecorder' = "null" /\ mCameraSurface' = FALSE
  /\ UNCHANGED <<formatKnown, initFailed>>

\* Mutant: the video is told to end as well.
StopSignals_Both ==
  /\ mEndOfStream' = IF mIsRecording THEN [t \in Tracks |-> TRUE] ELSE mEndOfStream
  /\ UNCHANGED <<mIsRecording, mIsAudioEnabled, mEndOfAudioVideoSignal>>
\* What stopRecording does to the signals.
StopSignals ==
  /\ mEndOfStream' =
       IF mIsRecording
         THEN [mEndOfStream EXCEPT ![IF mIsAudioEnabled THEN "audio" ELSE "video"] = TRUE]
         ELSE mEndOfStream
  /\ UNCHANGED <<mIsRecording, mIsAudioEnabled, mEndOfAudioVideoSignal>>

Begun == {c \in Calls : "start" \in told[c]}
StopAsked == stopAsked' = stopAsked \cup {c \in Begun : ~mEndOfAudioVideoSignal /\ c = call}

\* Nothing of an earlier recording is under way.
Quiet == /\ pc.video = "idle" /\ pc.audio = "idle" /\ pc.executor = "idle"
         /\ \A h \in DOMAIN handler : handler[h] = <<>>

-----------------------------------------------------------------------------
(* The client: startRecording and stopRecording. *)

StartRecording ==
  /\ pc.client = "idle" /\ pc.listener \in {"open", "stopped"} /\ call < MaxCalls
  /\ call' = call + 1
  /\ mIsFirstVideoKeyFrameWrite' = FALSE
  /\ Goto("client", "check")
  /\ UNCHANGED <<signals, mMuxer, mMuxerStarted, mTrackIndex, keyed, codecs, future, queues,
                 errorOccurred, reports, failures, history>>

\* The state of the encoders, and whether a recording is in progress.
CheckStart ==
  /\ pc.client = "check"
  /\ IF initFailed # {} \/ ~mEndOfAudioVideoSignal
       THEN Tell(call, "error") /\ Goto("client", "idle") /\ UNCHANGED hurried
       ELSE Goto("client", "microphone") /\ hurried' = (hurried \/ ~Quiet) /\ UNCHANGED told
  /\ UNCHANGED <<signals, muxing, codecs, future, queues, call, errorOccurred, tooShort,
                 failures, mConfig, stopAsked, soundFailed, crashed>>

\* Without a working microphone the recording goes on without sound.
StartMicrophone ==
  /\ pc.client = "microphone"
  /\ Goto("client", "encoders")
  /\ \/ /\ Works
        /\ mAudioRecorder' = IF mIsAudioEnabled /\ mAudioRecorder # "null" THEN "recording"
                                                                         ELSE mAudioRecorder
        /\ UNCHANGED <<mIsAudioEnabled, mEncoder, quit>>
     \/ /\ mIsAudioEnabled /\ mAudioRecorder # "null" /\ Fails
        /\ mIsAudioEnabled' = FALSE
        /\ quit' = quit \cup {"audio"}
        /\ mEncoder' = AudioInputReleased(mEncoder) /\ mAudioRecorder' = "null"
  /\ UNCHANGED <<mIsRecording, mEndOfStream, mEndOfAudioVideoSignal, muxing, formatKnown,
                 mCameraSurface, initFailed, future, handler, call, errorOccurred, reports,
                 history>>

\* A failed start prepares the encoders again, by the future, and tells the client.
FailedStart ==
  /\ handler' = [handler EXCEPT !.executor = Append(@, call)]
  /\ Tell(call, "error") /\ Goto("client", "idle")

\* mRecordingFuture, mVideoEncoder.start() and mAudioEncoder.start(). On a null encoder
\* the exception reaches CameraHelper, which logs it: the client hears nothing.
StartEncoders ==
  /\ pc.client = "encoders"
  /\ mRecordingFuture' = call
  /\ LET video == mEncoder.video
         audio == mEncoder.audio IN
     \/ /\ video = "null" /\ Goto("client", "idle") /\ Works
        /\ UNCHANGED <<mEncoder, handler, told>>
     \/ /\ video \in {"uninitialized"} \cup Running /\ FailedStart /\ Works
        /\ UNCHANGED mEncoder
     \/ /\ video = "configured" /\ Fails /\ FailedStart
        /\ UNCHANGED mEncoder
     \/ /\ video = "configured" /\ (mIsAudioEnabled => audio = "configured") /\ Works
        /\ mEncoder' = [video |-> "executing",
                        audio |-> IF mIsAudioEnabled THEN "executing" ELSE audio]
        /\ Goto("client", "muxer")
        /\ UNCHANGED <<handler, told>>
     \/ /\ video = "configured" /\ mIsAudioEnabled /\ audio = "null" /\ Works
        /\ mEncoder' = [mEncoder EXCEPT !.video = "executing"]
        /\ Goto("client", "idle")
        /\ UNCHANGED <<handler, told>>
     \/ /\ video = "configured" /\ mIsAudioEnabled /\ audio # "null"
        /\ IF audio = "configured" THEN Fails ELSE Works
        /\ mEncoder' = [mEncoder EXCEPT !.video = "executing"]
        /\ FailedStart
  /\ UNCHANGED <<signals, muxing, formatKnown, mAudioRecorder, mCameraSurface, initFailed,
                 mRecordingWaitRelease, futuresRun, quit, call, errorOccurred, tooShort, history>>

\* initMediaMuxer: an IOException is a failed start; if there is no muxer, or no place
\* for the file, the exception reaches CameraHelper, and the client hears nothing.
CreateMuxer ==
  /\ pc.client = "muxer"
  /\ \/ /\ Works /\ mMuxer' = "initialized" /\ Goto("client", "begin")
        /\ UNCHANGED <<handler, told>>
     \/ Fails /\ FailedStart /\ UNCHANGED mMuxer
     \/ /\ Fails /\ Goto("client", "idle")
        /\ mMuxer' \in {"null", mMuxer}
        /\ UNCHANGED <<handler, told>>
  /\ UNCHANGED <<signals, mMuxerStarted, mTrackIndex, mIsFirstVideoKeyFrameWrite, keyed, codecs,
                 future, quit, call, errorOccurred, tooShort, history>>

BeginRecording ==
  /\ pc.client = "begin"
  /\ mEndOfStream' = [t \in Tracks |-> FALSE] /\ mEndOfAudioVideoSignal' = FALSE
  /\ mIsRecording' = TRUE
  /\ Tell(call, "start") /\ Goto("client", "post")
  /\ UNCHANGED <<mIsAudioEnabled, muxing, codecs, future, queues, call, errorOccurred, tooShort,
                 failures, history>>

\* addSlaveSurface, for which mCameraSurface must not be null, and the two posts.
PostTasks ==
  /\ pc.client = "post" /\ Goto("client", "idle")
  /\ handler' =
       IF ~mCameraSurface THEN handler
       ELSE Posted(IF mIsAudioEnabled THEN Posted(handler, "audio", call) ELSE handler,
                   "video", call)
  /\ UNCHANGED <<signals, muxing, codecs, future, quit, call, errorOccurred, reports, failures,
                 history>>

StopRecording ==
  /\ pc.client = "idle" /\ pc.listener # "closed"
  /\ StopSignals /\ StopAsked
  /\ UNCHANGED <<muxing, codecs, future, queues, pc, call, errorOccurred, reports, failures,
                 mConfig, soundFailed, hurried, crashed>>

-----------------------------------------------------------------------------
(* The listener: CameraInternal.closeCamera, VideoCapture.release. *)

\* CameraInternal.stopRecording; then mUVCCamera is null and release stops once more.
CloseStops ==
  /\ \/ pc.listener = "open" /\ Goto("listener", "stopped") /\ UNCHANGED hurried
     \/ pc.listener = "stopped" /\ Goto("listener", "release")
        /\ hurried' = (hurried \/ pc.client # "idle")
  /\ StopSignals /\ StopAsked
  /\ UNCHANGED <<muxing, codecs, future, queues, call, errorOccurred, reports, failures,
                 mConfig, soundFailed, crashed>>

\* release: whoever runs the future frees the resources, if there is one.
Release ==
  /\ pc.listener = "release"
  /\ IF mRecordingFuture # 0
       THEN mRecordingWaitRelease' = TRUE /\ Goto("listener", "closed")
       ELSE Goto("listener", "free") /\ UNCHANGED mRecordingWaitRelease
  /\ UNCHANGED <<signals, muxing, codecs, mRecordingFuture, futuresRun, queues, call,
                 errorOccurred, reports, failures, history>>

ReleaseAtOnce ==
  /\ pc.listener = "free" /\ Goto("listener", "closed")
  /\ ReleaseResources
  /\ UNCHANGED <<signals, muxing, future, handler, call, errorOccurred, reports, failures,
                 history>>

-----------------------------------------------------------------------------
(* The video thread: videoEncode and what follows it. *)

\* onError, and out of the loop or on to the next part.
VideoError(c) == errorOccurred' = TRUE /\ Tell(c, "error")
NoError == UNCHANGED <<errorOccurred, told>>

VideoBegin ==
  /\ pc.video = "idle" /\ handler.video # <<>>
  /\ errorOccurred' = FALSE /\ Goto("video", "loop")
  /\ UNCHANGED <<signals, muxing, codecs, future, queues, call, reports, failures, history>>

InLoop == pc.video = "loop" /\ mEncoder.video \in Running

SignalEndOfInput ==
  /\ InLoop /\ mEndOfStream.video
  /\ mEndOfStream' = [mEndOfStream EXCEPT !.video = FALSE]
  /\ mEncoder' = [mEncoder EXCEPT !.video = "ending"]
  /\ UNCHANGED <<mIsRecording, mIsAudioEnabled, mEndOfAudioVideoSignal, muxing, formatKnown,
                 mAudioRecorder, mCameraSurface, initFailed, future, queues, pc, call,
                 errorOccurred, reports, failures, history>>

\* The muxer starts with the last track that is to come.
AddTrack(t, complete) ==
  /\ mTrackIndex' = mTrackIndex \cup {t}
  /\ IF complete THEN mMuxer' = "started" /\ mMuxerStarted' = TRUE
                 ELSE UNCHANGED <<mMuxer, mMuxerStarted>>
  /\ UNCHANGED <<mIsFirstVideoKeyFrameWrite, keyed>>

\* INFO_OUTPUT_FORMAT_CHANGED
VideoFormatChanged ==
  /\ InLoop /\ ~mEndOfStream.video /\ "video" \notin formatKnown
  /\ formatKnown' = formatKnown \cup {"video"}
  /\ IF mMuxerStarted \/ mMuxer # "initialized"
       THEN /\ VideoError(Task("video")) /\ Goto("video", "stop")
            /\ UNCHANGED muxing
       ELSE /\ AddTrack("video", mIsAudioEnabled => "audio" \in mTrackIndex)
            /\ NoError /\ UNCHANGED pc
  /\ UNCHANGED <<signals, mEncoder, mAudioRecorder, mCameraSurface, initFailed, future, queues,
                 call, tooShort, failures, history>>

\* writeVideoEncodedBuffer of a key frame; other frames change nothing here.
WriteKeyFrame ==
  /\ InLoop /\ ~mEndOfStream.video /\ "video" \in formatKnown /\ mMuxerStarted
  /\ mIsFirstVideoKeyFrameWrite' = TRUE
  /\ IF mMuxer = "started"
       THEN /\ keyed' = keyed \cup {Task("video")}
            /\ NoError /\ UNCHANGED pc
       ELSE VideoError(Task("video")) /\ Goto("video", "stop") /\ UNCHANGED keyed
  /\ UNCHANGED <<signals, mMuxer, mMuxerStarted, mTrackIndex, codecs, future, queues, call,
                 tooShort, failures, history>>

\* The buffer with BUFFER_FLAG_END_OF_STREAM.
VideoEndOfStream ==
  /\ InLoop /\ ~mEndOfStream.video /\ mEncoder.video = "ending"
  /\ Goto("video", "stop")
  /\ UNCHANGED <<signals, muxing, codecs, future, queues, call, errorOccurred, reports, failures,
                 history>>

\* IllegalStateException: the encoder failed, somebody reset it, or it refuses to be
\* told a second time that its input ends.
VideoEncodeFails ==
  /\ pc.video = "loop" /\ mEncoder.video # "null"
  /\ \/ mEncoder.video \in Running /\ Fails
     \/ mEncoder.video \notin Running /\ Works
     \/ mEncoder.video = "ending" /\ mEndOfStream.video /\ Works
  /\ VideoError(Task("video")) /\ Goto("video", "stop")
  /\ UNCHANGED <<signals, muxing, codecs, future, queues, call, tooShort, history>>

VideoStop ==
  /\ pc.video = "stop" /\ mEncoder.video # "null"
  /\ mEncoder' = [mEncoder EXCEPT !.video = "uninitialized"]
  /\ \/ Works /\ NoError
     \/ Fails /\ VideoError(Task("video"))
  /\ Goto("video", "muxer")
  /\ UNCHANGED <<signals, muxing, formatKnown, mAudioRecorder, mCameraSurface, initFailed, future,
                 queues, call, tooShort, history>>

VideoCrash == pc.video \in {"loop", "stop"} /\ mEncoder.video = "null" /\ Crash

\* Mutant: mMuxer still names the released muxer.
StopMuxer_NotNull ==
  /\ pc.video = "muxer" /\ Goto("video", "check")
  /\ mMuxer' = IF mMuxer = "null" THEN "null" ELSE "released"
  /\ Works /\ NoError
  /\ UNCHANGED <<signals, mMuxerStarted, mTrackIndex, mIsFirstVideoKeyFrameWrite, keyed, codecs,
                 future, queues, call, tooShort, history>>
\* mMuxer.stop() throws if it failed or nothing was written; mMuxer then stays.
StopMuxer ==
  /\ pc.video = "muxer"
  /\ \/ /\ mMuxer' = "null" /\ Works /\ NoError
        /\ (mMuxer # "null" /\ mMuxerStarted) => mMuxer = "started"
        /\ Goto("video", "check") /\ UNCHANGED tooShort
     \/ /\ mMuxer # "null" /\ mMuxerStarted
        /\ IF mMuxer = "started" /\ Task("video") \in keyed THEN Fails ELSE Works
        /\ mMuxer' = "stopped"
        /\ VideoError(Task("video")) /\ Goto("video", "end")
        /\ tooShort' = tooShort \cup {c \in {Task("video")} : ~mIsFirstVideoKeyFrameWrite}
  /\ UNCHANGED <<signals, mMuxerStarted, mTrackIndex, mIsFirstVideoKeyFrameWrite, keyed, codecs,
                 future, queues, call, history>>

\* Mutant: the client is told, but errorOccurred stays false.
CheckKeyFrame_NoError ==
  /\ pc.video = "check" /\ Goto("video", "end")
  /\ IF mIsFirstVideoKeyFrameWrite
       THEN UNCHANGED <<told, tooShort>>
       ELSE Tell(Task("video"), "error") /\ tooShort' = tooShort \cup {Task("video")}
  /\ UNCHANGED <<signals, muxing, codecs, future, queues, call, errorOccurred, failures, history>>

\* removeRecordingResultIfNoVideoKeyFrameArrived
CheckKeyFrame ==
  /\ pc.video = "check" /\ Goto("video", "end")
  /\ IF mIsFirstVideoKeyFrameWrite
       THEN NoError /\ UNCHANGED tooShort
       ELSE VideoError(Task("video")) /\ tooShort' = tooShort \cup {Task("video")}
  /\ UNCHANGED <<signals, muxing, codecs, future, queues, call, failures, history>>

\* The file's descriptor is closed, which may fail, and the recording is over.
VideoEnd ==
  /\ pc.video = "end" /\ Goto("video", "saved")
  /\ \/ Works /\ NoError
     \/ Fails /\ VideoError(Task("video"))
  /\ mMuxerStarted' = FALSE /\ mEndOfAudioVideoSignal' = TRUE
  /\ mIsFirstVideoKeyFrameWrite' = FALSE
  /\ UNCHANGED <<mIsRecording, mIsAudioEnabled, mEndOfStream, mMuxer, mTrackIndex, keyed, codecs,
                 future, queues, call, tooShort, history>>

\* onVideoSaved, and the future for what comes next.
VideoSaved ==
  /\ pc.video = "saved" /\ Goto("video", "idle")
  /\ told' = IF errorOccurred THEN told ELSE [told EXCEPT ![Task("video")] = @ \cup {"saved"}]
  /\ handler' = [handler EXCEPT !.video = Tail(@),
                                !.executor = Append(@, mRecordingFuture)]
  /\ UNCHANGED <<signals, muxing, codecs, future, quit, call, errorOccurred, tooShort, failures,
                 history>>

-----------------------------------------------------------------------------
(* The audio thread: audioEncode. *)

AudioBegin ==
  /\ pc.audio = "idle" /\ handler.audio # <<>>
  /\ Goto("audio", "loop")
  /\ UNCHANGED <<signals, muxing, codecs, future, queues, call, errorOccurred, reports, failures,
                 history>>

AudioLeavesLoop ==
  /\ pc.audio = "loop" /\ ~mIsRecording
  /\ Goto("audio", "stop")
  /\ UNCHANGED <<signals, muxing, codecs, future, queues, call, errorOccurred, reports, failures,
                 history>>

\* The head of an iteration: the end of the stream ends the recording.
AudioSignals ==
  /\ mEndOfStream' = [mEndOfStream EXCEPT !.audio = FALSE]
  /\ mIsRecording' = (mIsRecording /\ ~mEndOfStream.audio)
  /\ UNCHANGED <<mIsAudioEnabled, mEndOfAudioVideoSignal>>

HasInput == mEncoder.audio # "null" /\ mAudioRecorder # "null"

\* An iteration that feeds the encoder and dequeues data or nothing.
EncodeAudio ==
  /\ pc.audio = "loop" /\ mIsRecording
  /\ HasInput => mEncoder.audio \in Running
  /\ AudioSignals
  /\ UNCHANGED <<muxing, codecs, future, queues, pc, call, errorOccurred, reports, failures,
                 history>>

\* An iteration that dequeues INFO_OUTPUT_FORMAT_CHANGED.
AudioFormatChanged ==
  /\ pc.audio = "loop" /\ mIsRecording /\ HasInput
  /\ mEncoder.audio \in Running /\ "audio" \notin formatKnown /\ mMuxer = "initialized"
  /\ AudioSignals
  /\ formatKnown' = formatKnown \cup {"audio"}
  /\ AddTrack("audio", "video" \in mTrackIndex)
  /\ UNCHANGED <<mEncoder, mAudioRecorder, mCameraSurface, initFailed, future, queues, pc, call,
                 errorOccurred, reports, failures, history>>

\* dequeueOutputBuffer and addTrack are called outside of any try, and so is stop()
\* with regard to a null encoder.
AudioCrash ==
  /\ \/ pc.audio = "loop" /\ mIsRecording /\ HasInput /\ mEncoder.audio \notin Running
     \/ /\ pc.audio = "loop" /\ mIsRecording /\ HasInput
        /\ "audio" \notin formatKnown /\ mMuxer # "initialized"
     \/ pc.audio = "stop" /\ mEncoder.audio = "null"
  /\ Crash

AudioEncoderFails ==
  /\ pc.audio = "loop" /\ mIsRecording /\ HasInput /\ Fails
  /\ crashed' = TRUE
  /\ UNCHANGED <<signals, muxing, codecs, future, queues, pc, call, errorOccurred, reports,
                 mConfig, stopAsked, soundFailed, hurried>>

\* Mutant: the video thread is not told that the audio has ended.
AudioStop_Silent ==
  /\ pc.audio = "stop" /\ mEncoder.audio # "null"
  /\ mAudioRecorder' = IF mAudioRecorder = "recording" THEN "initialized" ELSE mAudioRecorder
  /\ mEncoder' = [mEncoder EXCEPT !.audio = "uninitialized"]
  /\ Works
  /\ handler' = [handler EXCEPT !.audio = Tail(@)] /\ Goto("audio", "idle")
  /\ UNCHANGED <<signals, muxing, formatKnown, mCameraSurface, initFailed, future, quit, call,
                 errorOccurred, reports, history>>
AudioStop ==
  /\ pc.audio = "stop" /\ mEncoder.audio # "null"
  /\ mAudioRecorder' = IF mAudioRecorder = "recording" THEN "initialized" ELSE mAudioRecorder
  /\ mEncoder' = [mEncoder EXCEPT !.audio = "uninitialized"]
  /\ \/ Works /\ UNCHANGED <<told, soundFailed>>
     \/ /\ Fails /\ Tell(Task("audio"), "error")
        /\ soundFailed' = soundFailed \cup {Task("audio")}
  /\ mEndOfStream' = [mEndOfStream EXCEPT !.video = TRUE]
  /\ handler' = [handler EXCEPT !.audio = Tail(@)] /\ Goto("audio", "idle")
  /\ UNCHANGED <<mIsRecording, mIsAudioEnabled, mEndOfAudioVideoSignal, muxing, formatKnown,
                 mCameraSurface, initFailed, future, quit, call, errorOccurred, tooShort,
                 mConfig, stopAsked, hurried, crashed>>

-----------------------------------------------------------------------------
(* The executor: mRecordingFuture, with setupEncoder. *)

EndFuture == handler' = [handler EXCEPT !.executor = Tail(@)] /\ Goto("executor", "idle")

\* Mutant: the future does not look at mRecordingWaitRelease.
RunFuture_NoRelease ==
  /\ pc.executor = "idle" /\ handler.executor # <<>>
  /\ futuresRun' = futuresRun \cup {Task("executor")}
  /\ IF Task("executor") \in futuresRun THEN EndFuture
                                        ELSE Goto("executor", "video") /\ UNCHANGED handler
  /\ UNCHANGED <<signals, muxing, mRecordingFuture, mRecordingWaitRelease, codecs, quit, call,
                 errorOccurred, reports, failures, history>>
RunFuture ==
  /\ pc.executor = "idle" /\ handler.executor # <<>>
  /\ futuresRun' = futuresRun \cup {Task("executor")}
  /\ \/ /\ Task("executor") \in futuresRun
        /\ EndFuture
        /\ UNCHANGED <<mRecordingWaitRelease, mIsRecording, codecs, quit>>
     \/ /\ Task("executor") \notin futuresRun /\ mRecordingWaitRelease
        /\ mRecordingWaitRelease' = FALSE /\ mIsRecording' = FALSE
        /\ ReleaseResources /\ EndFuture
     \/ /\ Task("executor") \notin futuresRun /\ ~mRecordingWaitRelease
        /\ Goto("executor", "video")
        /\ UNCHANGED <<mRecordingWaitRelease, mIsRecording, codecs, queues>>
  /\ UNCHANGED <<mIsAudioEnabled, mEndOfStream, mEndOfAudioVideoSignal, muxing, mRecordingFuture,
                 call, errorOccurred, reports, failures, history>>

\* setupEncoder up to the surface. A failed configuration is remembered; an exception
\* of reset() or createInputSurface() ends the future unnoticed, the latter with the
\* old surface already released. Each leaves the rest of setupEncoder out.
SetupVideo ==
  /\ pc.executor = "video"
  /\ \/ /\ mEncoder.video = "null" /\ Works /\ EndFuture
        /\ UNCHANGED codecs
     \/ /\ mEncoder.video # "null" /\ Fails /\ EndFuture
        /\ mEncoder' = [mEncoder EXCEPT !.video = "uninitialized"]
        /\ UNCHANGED <<formatKnown, initFailed, mCameraSurface, mAudioRecorder>>
     \/ /\ mEncoder.video # "null"
        /\ formatKnown' = formatKnown \ {"video"}
        /\ \/ /\ Works /\ Goto("executor", "audio")
              /\ mEncoder' = [mEncoder EXCEPT !.video = "configured"]
              /\ initFailed' = initFailed \ {"video"} /\ mCameraSurface' = TRUE
              /\ UNCHANGED handler
           \/ /\ Fails /\ EndFuture
              /\ mEncoder' = [mEncoder EXCEPT !.video = "uninitialized"]
              /\ initFailed' = initFailed \cup {"video"} /\ UNCHANGED mCameraSurface
           \/ /\ Fails /\ EndFuture
              /\ mEncoder' = [mEncoder EXCEPT !.video = "configured"]
              /\ initFailed' = initFailed \ {"video"} /\ mCameraSurface' = FALSE
        /\ UNCHANGED mAudioRecorder
  /\ UNCHANGED <<signals, muxing, future, quit, call, errorOccurred, reports, history>>

SetupAudio ==
  /\ pc.executor = "audio"
  /\ \/ /\ ~mConfig \/ mEncoder.audio = "null"
        /\ mIsAudioEnabled' = mConfig
        /\ IF mConfig THEN EndFuture ELSE Goto("executor", "tracks") /\ UNCHANGED handler
        /\ Works /\ UNCHANGED codecs
     \/ /\ mConfig /\ mEncoder.audio # "null"
        /\ formatKnown' = formatKnown \ {"audio"}
        /\ \/ /\ Works /\ mAudioRecorder' = "initialized" /\ mIsAudioEnabled' = TRUE
              /\ mEncoder' = [mEncoder EXCEPT !.audio = "configured"]
              /\ Goto("executor", "tracks") /\ UNCHANGED <<initFailed, handler>>
           \/ /\ Fails /\ mAudioRecorder' = "null" /\ mIsAudioEnabled' = FALSE
              /\ mEncoder' = [mEncoder EXCEPT !.audio = "configured"]
              /\ Goto("executor", "tracks") /\ UNCHANGED <<initFailed, handler>>
           \/ /\ Fails /\ mIsAudioEnabled' = TRUE
              /\ mEncoder' = [mEncoder EXCEPT !.audio = "uninitialized"]
              /\ initFailed' = initFailed \cup {"audio"}
              /\ EndFuture /\ UNCHANGED mAudioRecorder
        /\ UNCHANGED mCameraSurface
  /\ UNCHANGED <<mIsRecording, mEndOfStream, mEndOfAudioVideoSignal, muxing, future, quit, call,
                 errorOccurred, reports, history>>

\* Mutant: mIsRecording is left to the audio thread.
SetupTracks_StillRecording ==
  /\ pc.executor = "tracks" /\ EndFuture
  /\ mTrackIndex' = {}
  /\ UNCHANGED <<signals, mMuxer, mMuxerStarted, mIsFirstVideoKeyFrameWrite, keyed, codecs,
                 future, quit, call, errorOccurred, reports, failures, history>>
SetupTracks ==
  /\ pc.executor = "tracks" /\ EndFuture
  /\ mTrackIndex' = {} /\ mIsRecording' = FALSE
  /\ UNCHANGED <<mIsAudioEnabled, mEndOfStream, mEndOfAudioVideoSignal, mMuxer, mMuxerStarted,
                 mIsFirstVideoKeyFrameWrite, keyed, codecs, future, quit, call, errorOccurred,
                 reports, failures, history>>

-----------------------------------------------------------------------------
Client == \/ CheckStart \/ StartMicrophone \/ StartEncoders \/ CreateMuxer \/ BeginRecording
          \/ PostTasks
Listener == \/ pc.listener # "open" /\ CloseStops
            \/ Release
            \/ ReleaseAtOnce
Video == \/ VideoBegin \/ VideoFormatChanged \/ WriteKeyFrame \/ VideoEncodeFails \/ VideoStop
         \/ VideoCrash \/ StopMuxer \/ CheckKeyFrame \/ VideoEnd \/ VideoSaved
Audio == \/ AudioBegin \/ AudioLeavesLoop \/ EncodeAudio \/ AudioFormatChanged \/ AudioCrash
         \/ AudioEncoderFails \/ AudioStop
Executor == RunFuture \/ SetupVideo \/ SetupAudio \/ SetupTracks

Next ==
  /\ ~crashed
  /\ \/ StartRecording \/ StopRecording \/ CloseStops
     \/ Client \/ Listener
     \/ SignalEndOfInput \/ VideoEndOfStream \/ Video \/ Audio \/ Executor

Spec == Init /\ [][Next]_vars

\* The client's own call, the listener's closing and the executor go on; so do the two
\* loops, as long as the encoders deliver what they were told to.
Output == SignalEndOfInput \/ VideoEndOfStream \/ Video
CaptureSpec ==
  /\ Spec
  /\ WF_vars(~crashed /\ Client) /\ WF_vars(~crashed /\ Listener)
  /\ WF_vars(~crashed /\ Output) /\ SF_vars(~crashed /\ VideoEndOfStream)
  /\ WF_vars(~crashed /\ Audio) /\ WF_vars(~crashed /\ Executor)

-----------------------------------------------------------------------------
(* Properties. *)

\* Type invariant of the recorder, by groups of variables.
SignalTypes ==
  /\ mIsRecording \in BOOLEAN /\ mIsAudioEnabled \in BOOLEAN
  /\ mEndOfStream \in [Tracks -> BOOLEAN] /\ mEndOfAudioVideoSignal \in BOOLEAN
MuxingTypes ==
  /\ mMuxer \in {"null", "initialized", "started", "stopped"} /\ mMuxerStarted \in BOOLEAN
  /\ mTrackIndex \subseteq Tracks
  /\ mIsFirstVideoKeyFrameWrite \in BOOLEAN /\ keyed \subseteq Calls
CodecTypes ==
  /\ mEncoder \in [Tracks -> {"null", "uninitialized", "configured"} \cup Running]
  /\ formatKnown \subseteq Tracks /\ initFailed \subseteq Tracks
  /\ mAudioRecorder \in {"null", "initialized", "recording"} /\ mCameraSurface \in BOOLEAN
FutureTypes ==
  /\ mRecordingFuture \in Calls \cup {0} /\ mRecordingWaitRelease \in BOOLEAN
  /\ futuresRun \subseteq Calls
QueueTypes ==
  /\ handler \in [Tracks \cup {"executor"} -> Seq(Calls)]
  /\ quit \subseteq Tracks
PlaceTypes ==
  /\ pc.client \in {"idle", "check", "microphone", "encoders", "muxer", "begin", "post"}
  /\ pc.listener \in {"open", "stopped", "release", "free", "closed"}
  /\ pc.video \in {"idle", "loop", "stop", "muxer", "check", "end", "saved"}
  /\ pc.audio \in {"idle", "loop", "stop"}
  /\ pc.executor \in {"idle", "video", "audio", "tracks"}
  /\ call \in 0..MaxCalls
ReportTypes ==
  /\ told \in [Calls -> SUBSET {"start", "error", "saved"}]
  /\ tooShort \subseteq Calls /\ errorOccurred \in BOOLEAN
HistoryTypes ==
  /\ mConfig \in BOOLEAN /\ hurried \in BOOLEAN /\ crashed \in BOOLEAN
  /\ stopAsked \subseteq Calls /\ soundFailed \subseteq Calls /\ failures \in 0..MaxFailures

TypeOK == /\ SignalTypes /\ MuxingTypes /\ CodecTypes /\ FutureTypes
          /\ QueueTypes /\ PlaceTypes /\ ReportTypes /\ HistoryTypes

\* The recording under way, for the client: from onStart until videoEncode has ended.
UnderWay(c) == c \in Begun /\ c = Max(Begun) /\ ~mEndOfAudioVideoSignal

\* What became of a call, as VideoRecorder has it, read off what its callbacks were told
\* or are about to be told; "silent", which VideoRecorder does not have, is a recording
\* that ended without a word.
Saved(c) == "saved" \in told[c] \/ (pc.video = "saved" /\ Task("video") = c /\ ~errorOccurred)
Outcome(c) ==
  IF "error" \in told[c] THEN IF Saved(c) THEN "savedDespiteError" ELSE "failed"
                         ELSE IF Saved(c) THEN "saved" ELSE "silent"
status == [c \in Calls |->
  IF told[c] = {} THEN "none"
  ELSE IF told[c] = {"error"} THEN "refused"
  ELSE IF UnderWay(c) THEN "recording" ELSE Outcome(c)]

Recorder == INSTANCE VideoRecorder WITH playable <- keyed

\* VideoCapture is the recorder its callbacks promise, whatever fails and however calls
\* and closing overlap: one recording at a time, and of each either onVideoSaved, and
\* then the file has a key frame, or onError; both only if its sound could not be stopped.
ImplementsRecorder == Recorder!Spec

\* Threads die of an exception only after a failure, or when a call overlapped what was
\* left of an earlier recording: the audio thread meets a muxer or an encoder that the
\* end of the video has already taken away.
CrashHasCause == crashed => failures > 0 \/ hurried

\* isRecording, by which the client decides whether to start or to stop, is right once
\* everything has come to rest.
AtRest == pc.client = "idle" /\ Quiet
IsRecordingIsTrue == AtRest /\ failures = 0 /\ ~hurried => mIsRecording = ~mEndOfAudioVideoSignal

\* A recording that began although no input surface could be created for it: onStart was
\* told, the NullPointerException ends startRecording, and nobody encodes.
Abandoned == ~mEndOfAudioVideoSignal /\ ~mCameraSurface

Cut == hurried \/ crashed \/ Abandoned

\* A recording that was asked to stop ends, with or without sound, even if parts of it
\* fail: the request travels from the audio thread's end to the video encoder.
Stopping == \E c \in stopAsked : UnderWay(c)
StoppedRecordingEnds == Stopping ~> (~Stopping \/ Cut)

\* A camera closed while it records: the future frees encoders, microphone and threads.
Freed == mEncoder = [t \in Tracks |-> "null"] /\ quit = Tracks /\ ~mCameraSurface
CloseFreesRecorder ==
  (pc.listener = "closed" /\ ~mEndOfAudioVideoSignal) ~> (Freed \/ Cut)

-----------------------------------------------------------------------------
(* What comments of the code say and the code does not do. *)

\* "A final checking for recording result, if the recorded file has no key frame, then
\* the video file is not playable, needs to call onError() and will be removed."
RemovedHasNoKeyFrame == tooShort \cap keyed = {}
=============================================================================
