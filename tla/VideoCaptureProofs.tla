------------------------- MODULE VideoCaptureProofs -------------------------
(***************************************************************************)
(* VideoCapture is typed, and implements VideoRecorder, for any number of  *)
(* calls of startRecording and of failures.                                *)
(*                                                                         *)
(* A call's status is read off what its callbacks were told and off the    *)
(* end-of-stream flag, so the proof needs whose recording the flag is      *)
(* about (Calling), that the video thread has the task of that recording   *)
(* and no other, but for one that is only to be told saved (Tasks), that   *)
(* an end without an error has seen a key frame of its own task (Keys),    *)
(* and that an error of the video is told, remembered by errorOccurred     *)
(* and keeps the recording from being told saved, while no recording ends  *)
(* without a word (Outcomes). Most steps change none of this; they are the *)
(* cases of Elsewhere and Stutter. What the client does before onStart,    *)
(* and the video thread before the end of a task, are a lemma each; the    *)
(* other steps have one.                                                   *)
(***************************************************************************)
EXTENDS VideoCapture, TLAPS

-----------------------------------------------------------------------------
(* Types. *)

\* A thread that handles a task still has it at the head of its queue; a recording
\* that begins has a call and a future.
Labels == {"idle", "check", "microphone", "encoders", "muxer", "begin", "post", "open",
           "stopped", "release", "free", "closed", "loop", "stop", "end", "saved",
           "video", "audio", "tracks"}
Places ==
  /\ pc \in [Threads -> Labels]
  /\ pc.video # "idle" => handler.video # <<>>
  /\ pc.audio # "idle" => handler.audio # <<>>
  /\ pc.executor # "idle" => handler.executor # <<>>
  /\ pc.client # "idle" => call \in Calls
  /\ pc.client \in {"muxer", "begin", "post"} => mRecordingFuture # 0
  /\ handler.video # <<>> => mRecordingFuture # 0

Typed == TypeOK /\ Places

\* VideoCapture's fields have their types once it has been constructed.
LEMMA InitTyped == Init => Typed
<1> SUFFICES ASSUME Init PROVE Typed
  OBVIOUS
<1>1. mEncoder \in [Tracks -> {"null", "uninitialized", "configured"} \cup Running]
  BY DEF Init, Tracks, Running
<1>2. handler \in [Tracks \cup {"executor"} -> Seq(Calls)]
  BY DEF Init, Tracks
<1>3. /\ pc \in [Threads -> Labels]
      /\ \A t \in Threads : pc[t] = IF t = "listener" THEN "open" ELSE "idle"
  BY DEF Init, Threads, Labels
<1>4. call \in 0..MaxCalls /\ failures \in 0..MaxFailures
  BY CaptureAssumption DEF Init
<1>5. TypeOK
  BY <1>1, <1>2, <1>3, <1>4
  DEF Init, TypeOK, SignalTypes, MuxingTypes, CodecTypes, FutureTypes, QueueTypes, PlaceTypes,
      ReportTypes, HistoryTypes, Tracks, Threads
<1> QED
  BY <1>3, <1>5 DEF Init, Typed, Places, Threads, Tracks

\* A step that leaves a group of variables alone keeps its types.
LEMMA KeptTypes ==
  ASSUME Typed
  PROVE  /\ UNCHANGED signals => SignalTypes'
         /\ UNCHANGED muxing => MuxingTypes'
         /\ UNCHANGED codecs => CodecTypes'
         /\ UNCHANGED future => FutureTypes'
         /\ UNCHANGED queues => QueueTypes'
         /\ UNCHANGED <<pc, call>> => PlaceTypes'
         /\ UNCHANGED <<reports, errorOccurred>> => ReportTypes'
         /\ UNCHANGED <<history, failures>> => HistoryTypes'
         /\ UNCHANGED <<pc, call, queues, future>> => Places'
BY
DEF Typed, TypeOK, SignalTypes, MuxingTypes, CodecTypes, FutureTypes, QueueTypes, PlaceTypes,
    ReportTypes, HistoryTypes, Places, Task, signals, muxing, codecs, future, queues, reports,
    history

\* Counters stay within their bounds.
LEMMA Bounds ==
  /\ failures \in 0..MaxFailures /\ Fails => failures' \in 0..MaxFailures
  /\ call \in 0..MaxCalls /\ call < MaxCalls => call + 1 \in Calls /\ call + 1 \in 0..MaxCalls
BY CaptureAssumption DEF Fails, Calls

\* What posting a task, ending one and telling the client do to the types.
Queues == [Tracks \cup {"executor"} -> Seq(Calls)]

\* Posting and taking a task keep the handlers' queues well formed.
LEMMA TaskFacts ==
  ASSUME NEW q \in Queues, NEW h \in Tracks \cup {"executor"}
  PROVE  /\ \A c \in Calls : [q EXCEPT ![h] = Append(@, c)] \in Queues /\ Posted(q, h, c) \in Queues
         /\ q[h] # <<>> => Head(q[h]) \in Calls /\ [q EXCEPT ![h] = Tail(@)] \in Queues
BY DEF Queues, Posted

\* What the callbacks have told keeps its type when one of them tells more.
LEMMA ReportFacts ==
  ASSUME ReportTypes, NEW c \in Calls
  PROVE  /\ \A what \in {"start", "error", "saved"} :
              Tell(c, what) /\ tooShort' \subseteq Calls /\ UNCHANGED errorOccurred => ReportTypes'
         /\ NoError \/ VideoError(c) => (tooShort' \subseteq Calls => ReportTypes')
BY DEF ReportTypes, Tell, NoError, VideoError

\* No step of client, encoding threads, executor or listener breaks a type, and a thread
\* keeps the task it handles at the head of its queue.
LEMMA StepTyped == Typed /\ Next => Typed'
<1> SUFFICES ASSUME Typed, Next PROVE Typed'
  OBVIOUS
<1> USE KeptTypes, Bounds DEF Typed, TypeOK
<1>a. handler \in Queues /\ \A q : q \in Queues => (handler' = q => handler' \in Queues)
  BY DEF QueueTypes, Queues
<1>b. \A h \in {"video", "audio", "executor"} : pc[h] # "idle" => handler[h] # <<>> /\ Task(h) \in Calls
  BY <1>a, TaskFacts DEF Places, Task, Tracks
<1>1. CASE StartRecording
  <2>1. MuxingTypes'
    BY <1>1 DEF StartRecording, MuxingTypes, muxing, Tracks, Task, QueueTypes, Places
  <2>2. PlaceTypes'
    BY <1>1 DEF StartRecording, PlaceTypes, Goto, Places, Threads
  <2>3. Places'
    BY <1>1
    DEF StartRecording, Places, PlaceTypes, QueueTypes, FutureTypes, Goto, Task, Threads,
        Labels, Tracks, queues, future
  <2> QED
    BY <1>1, <2>1, <2>2, <2>3
    DEF StartRecording, signals, codecs, future, queues, reports, history
<1>2. CASE StopRecording
  <2>1. SignalTypes'
    BY <1>2 DEF StopRecording, StopSignals, StopAsked, Begun, SignalTypes, signals, Tracks
  <2>2. HistoryTypes'
    BY <1>2
    DEF StopRecording, StopSignals, StopAsked, Begun, HistoryTypes, history, Works, Goto
  <2> QED
    BY <1>2, <2>1, <2>2
    DEF StopRecording, StopSignals, StopAsked, Begun, muxing, codecs, future, queues, reports
<1>3. CASE CloseStops
  <2>1. SignalTypes'
    BY <1>3 DEF CloseStops, StopSignals, StopAsked, Begun, SignalTypes, signals, Tracks
  <2>2. PlaceTypes'
    BY <1>3 DEF CloseStops, StopSignals, StopAsked, Begun, PlaceTypes, Goto, Places, Threads
  <2>3. HistoryTypes'
    BY <1>3 DEF CloseStops, StopSignals, StopAsked, Begun, HistoryTypes, history, Works, Goto
  <2>4. Places'
    BY <1>3
    DEF CloseStops, StopSignals, StopAsked, Begun, Places, PlaceTypes, QueueTypes, FutureTypes,
        Goto, Task, Threads, Labels, Tracks, queues, future
  <2> QED
    BY <1>3, <2>1, <2>2, <2>3, <2>4
    DEF CloseStops, StopSignals, StopAsked, Begun, muxing, codecs, future, queues, reports
<1>4. CASE CheckStart
  <2>1. PlaceTypes'
    BY <1>4 DEF CheckStart, PlaceTypes, Goto, Places, Threads
  <2>2. ReportTypes'
    BY <1>4, <1>b, ReportFacts DEF CheckStart, ReportTypes, reports, Places
  <2>3. HistoryTypes'
    BY <1>4 DEF CheckStart, HistoryTypes, history, Works, Goto
  <2>4. Places'
    BY <1>4
    DEF CheckStart, Places, PlaceTypes, QueueTypes, FutureTypes, Goto, Task, Threads, Labels,
        Tracks, queues, future
  <2> QED
    BY <1>4, <2>1, <2>2, <2>3, <2>4 DEF CheckStart, signals, muxing, codecs, future, queues
<1>5. CASE StartMicrophone
  <2>1. SignalTypes'
    BY <1>5 DEF StartMicrophone, AudioInputReleased, SignalTypes, signals, Tracks
  <2>2. CodecTypes'
    BY <1>5 DEF StartMicrophone, AudioInputReleased, CodecTypes, codecs, Tracks, Running
  <2>3. QueueTypes'
    BY <1>5, <1>a, TaskFacts
    DEF StartMicrophone, AudioInputReleased, QueueTypes, Queues, queues, Tracks, Places,
        FutureTypes
  <2>4. PlaceTypes'
    BY <1>5 DEF StartMicrophone, AudioInputReleased, PlaceTypes, Goto, Places, Threads
  <2>5. HistoryTypes'
    BY <1>5 DEF StartMicrophone, AudioInputReleased, HistoryTypes, history, Works, Goto
  <2>6. Places'
    BY <1>5
    DEF StartMicrophone, AudioInputReleased, Places, PlaceTypes, QueueTypes, FutureTypes, Goto,
        Task, Threads, Labels, Tracks, queues, future
  <2> QED
    BY <1>5, <2>1, <2>2, <2>3, <2>4, <2>5, <2>6
    DEF StartMicrophone, AudioInputReleased, muxing, future, reports
<1>6. CASE StartEncoders
  <2>0. handler' \in {handler, [handler EXCEPT !.executor = Append(@, call)]}
    BY <1>6 DEF StartEncoders, FailedStart
  <2>1. CodecTypes'
    BY <1>6 DEF StartEncoders, FailedStart, CodecTypes, codecs, Tracks, Running
  <2>2. FutureTypes'
    BY <1>6
    DEF StartEncoders, FailedStart, FutureTypes, future, PlaceTypes, Places, QueueTypes, Task
  <2>3. QueueTypes'
    <3>1. [handler EXCEPT !.executor = Append(@, call)] \in Queues
      BY <1>6, <1>a, TaskFacts DEF StartEncoders, Places
    <3> QED
      BY <1>6, <2>0, <1>a, <3>1 DEF StartEncoders, QueueTypes, Queues
  <2>4. PlaceTypes'
    BY <1>6 DEF StartEncoders, FailedStart, PlaceTypes, Goto, Places, Threads
  <2>5. ReportTypes'
    BY <1>6, <1>b, ReportFacts DEF StartEncoders, FailedStart, ReportTypes, reports, Places
  <2>6. HistoryTypes'
    BY <1>6 DEF StartEncoders, FailedStart, HistoryTypes, history, Works, Goto
  <2>7. Places'
    <3>1. /\ handler'.video = handler.video /\ handler'.audio = handler.audio
          /\ handler'.executor = handler.executor \/ handler'.executor # <<>>
      BY <1>6, <2>0, <1>a DEF StartEncoders, Queues, Tracks, Places
    <3>2. /\ \E l \in {"idle", "muxer"} : pc' = [pc EXCEPT !.client = l]
          /\ mRecordingFuture' = call /\ call' = call /\ call \in Calls /\ 0 \notin Calls
      BY <1>6 DEF StartEncoders, FailedStart, Goto, Places, Calls
    <3> QED
      BY <3>1, <3>2 DEF Places, Threads, Labels
  <2> QED
    BY <1>6, <2>1, <2>2, <2>3, <2>4, <2>5, <2>6, <2>7
    DEF StartEncoders, FailedStart, signals, muxing
<1>7. CASE CreateMuxer
  <2>1. MuxingTypes'
    BY <1>7 DEF CreateMuxer, FailedStart, MuxingTypes, muxing, Tracks, Task, QueueTypes, Places
  <2>2. QueueTypes'
    BY <1>7, <1>a, TaskFacts
    DEF CreateMuxer, FailedStart, QueueTypes, Queues, queues, Tracks, Places, FutureTypes
  <2>3. PlaceTypes'
    BY <1>7 DEF CreateMuxer, FailedStart, PlaceTypes, Goto, Places, Threads
  <2>4. ReportTypes'
    BY <1>7, <1>b, ReportFacts DEF CreateMuxer, FailedStart, ReportTypes, reports, Places
  <2>5. HistoryTypes'
    BY <1>7 DEF CreateMuxer, FailedStart, HistoryTypes, history, Works, Goto
  <2>6. Places'
    BY <1>7
    DEF CreateMuxer, FailedStart, Places, PlaceTypes, QueueTypes, FutureTypes, Goto, Task,
        Threads, Labels, Tracks, queues, future
  <2> QED
    BY <1>7, <2>1, <2>2, <2>3, <2>4, <2>5, <2>6
    DEF CreateMuxer, FailedStart, signals, codecs, future
<1>8. CASE BeginRecording
  <2>1. SignalTypes'
    BY <1>8 DEF BeginRecording, SignalTypes, signals, Tracks
  <2>2. PlaceTypes'
    BY <1>8 DEF BeginRecording, PlaceTypes, Goto, Places, Threads
  <2>3. ReportTypes'
    BY <1>8, <1>b, ReportFacts DEF BeginRecording, ReportTypes, reports, Places
  <2>4. Places'
    BY <1>8
    DEF BeginRecording, Places, PlaceTypes, QueueTypes, FutureTypes, Goto, Task, Threads,
        Labels, Tracks, queues, future
  <2> QED
    BY <1>8, <2>1, <2>2, <2>3, <2>4 DEF BeginRecording, muxing, codecs, future, queues, history
<1>9. CASE PostTasks
  <2>1. QueueTypes'
    BY <1>9, <1>a, TaskFacts
    DEF PostTasks, QueueTypes, Queues, queues, Tracks, Places, FutureTypes
  <2>2. PlaceTypes'
    BY <1>9 DEF PostTasks, Posted, PlaceTypes, Goto, Places, Threads
  <2>3. Places'
    <3> DEFINE more(q, h) == q[h] = handler[h] \/ q[h] # <<>>
    <3>1. \A q \in Queues, h, g \in Tracks \cup {"executor"} : more(q, g) => more(Posted(q, h, call), g)
      BY DEF Queues, Posted
    <3>2. \A g \in Tracks \cup {"executor"} : more(handler', g)
      BY <1>9, <1>a, <3>1, TaskFacts DEF PostTasks, Tracks, Places
    <3> QED
      BY <1>9, <3>2 DEF PostTasks, Places, Goto, Threads, Labels, Tracks, future
  <2> QED
    BY <1>9, <2>1, <2>2, <2>3
    DEF PostTasks, Posted, signals, muxing, codecs, future, reports, history
<1>10. CASE Release
  <2>1. FutureTypes'
    BY <1>10 DEF Release, FutureTypes, future, PlaceTypes, Places, QueueTypes, Task
  <2>2. PlaceTypes'
    BY <1>10 DEF Release, PlaceTypes, Goto, Places, Threads
  <2>3. Places'
    BY <1>10
    DEF Release, Places, PlaceTypes, QueueTypes, FutureTypes, Goto, Task, Threads, Labels,
        Tracks, queues, future
  <2> QED
    BY <1>10, <2>1, <2>2, <2>3 DEF Release, signals, muxing, codecs, queues, reports, history
<1>11. CASE ReleaseAtOnce
  <2>1. CodecTypes'
    BY <1>11 DEF ReleaseAtOnce, ReleaseResources, CodecTypes, codecs, Tracks, Running
  <2>2. QueueTypes'
    BY <1>11, <1>a, TaskFacts
    DEF ReleaseAtOnce, ReleaseResources, QueueTypes, Queues, queues, Tracks, Places,
        FutureTypes
  <2>3. PlaceTypes'
    BY <1>11 DEF ReleaseAtOnce, ReleaseResources, PlaceTypes, Goto, Places, Threads
  <2>4. Places'
    BY <1>11
    DEF ReleaseAtOnce, ReleaseResources, Places, PlaceTypes, QueueTypes, FutureTypes, Goto,
        Task, Threads, Labels, Tracks, queues, future
  <2> QED
    BY <1>11, <2>1, <2>2, <2>3, <2>4
    DEF ReleaseAtOnce, ReleaseResources, signals, muxing, future, reports, history
<1>12. CASE VideoBegin
  <2>1. PlaceTypes'
    BY <1>12 DEF VideoBegin, PlaceTypes, Goto, Places, Threads
  <2>2. ReportTypes'
    BY <1>12, <1>b, ReportFacts DEF VideoBegin, ReportTypes, reports, Places
  <2>3. Places'
    BY <1>12
    DEF VideoBegin, Places, PlaceTypes, QueueTypes, FutureTypes, Goto, Task, Threads, Labels,
        Tracks, queues, future
  <2> QED
    BY <1>12, <2>1, <2>2, <2>3 DEF VideoBegin, signals, muxing, codecs, future, queues, history
<1>13. CASE SignalEndOfInput
  <2>1. SignalTypes'
    BY <1>13 DEF SignalEndOfInput, InLoop, SignalTypes, signals, Tracks
  <2>2. CodecTypes'
    BY <1>13 DEF SignalEndOfInput, InLoop, CodecTypes, codecs, Tracks, Running
  <2> QED
    BY <1>13, <2>1, <2>2 DEF SignalEndOfInput, InLoop, muxing, future, queues, reports, history
<1>14. CASE VideoFormatChanged
  <2>1. MuxingTypes'
    BY <1>14
    DEF VideoFormatChanged, InLoop, AddTrack, VideoError, MuxingTypes, muxing, Tracks, Task,
        QueueTypes, Places
  <2>2. CodecTypes'
    BY <1>14
    DEF VideoFormatChanged, InLoop, AddTrack, VideoError, CodecTypes, codecs, Tracks, Running
  <2>3. PlaceTypes'
    BY <1>14
    DEF VideoFormatChanged, InLoop, AddTrack, VideoError, PlaceTypes, Goto, Places, Threads
  <2>4. ReportTypes'
    BY <1>14, <1>b, ReportFacts
    DEF VideoFormatChanged, InLoop, AddTrack, ReportTypes, reports, Places
  <2>5. Places'
    BY <1>14
    DEF VideoFormatChanged, InLoop, AddTrack, VideoError, Places, PlaceTypes, QueueTypes,
        FutureTypes, Goto, Task, Threads, Labels, Tracks, queues, future
  <2> QED
    BY <1>14, <2>1, <2>2, <2>3, <2>4, <2>5
    DEF VideoFormatChanged, InLoop, AddTrack, VideoError, signals, future, queues, history
<1>15. CASE WriteKeyFrame
  <2>1. MuxingTypes'
    BY <1>15
    DEF WriteKeyFrame, InLoop, VideoError, MuxingTypes, muxing, Tracks, Task, QueueTypes,
        Places
  <2>2. PlaceTypes'
    BY <1>15 DEF WriteKeyFrame, InLoop, VideoError, PlaceTypes, Goto, Places, Threads
  <2>3. ReportTypes'
    BY <1>15, <1>b, ReportFacts DEF WriteKeyFrame, InLoop, ReportTypes, reports, Places
  <2>4. Places'
    BY <1>15
    DEF WriteKeyFrame, InLoop, VideoError, Places, PlaceTypes, QueueTypes, FutureTypes, Goto,
        Task, Threads, Labels, Tracks, queues, future
  <2> QED
    BY <1>15, <2>1, <2>2, <2>3, <2>4
    DEF WriteKeyFrame, InLoop, VideoError, signals, codecs, future, queues, history
<1>16. CASE VideoEndOfStream
  <2>1. PlaceTypes'
    BY <1>16 DEF VideoEndOfStream, InLoop, PlaceTypes, Goto, Places, Threads
  <2>2. Places'
    BY <1>16
    DEF VideoEndOfStream, InLoop, Places, PlaceTypes, QueueTypes, FutureTypes, Goto, Task,
        Threads, Labels, Tracks, queues, future
  <2> QED
    BY <1>16, <2>1, <2>2
    DEF VideoEndOfStream, InLoop, signals, muxing, codecs, future, queues, reports, history
<1>17. CASE VideoEncodeFails
  <2>1. PlaceTypes'
    BY <1>17 DEF VideoEncodeFails, VideoError, PlaceTypes, Goto, Places, Threads
  <2>2. ReportTypes'
    BY <1>17, <1>b, ReportFacts DEF VideoEncodeFails, ReportTypes, reports, Places
  <2>3. HistoryTypes'
    BY <1>17 DEF VideoEncodeFails, VideoError, HistoryTypes, history, Works, Goto
  <2>4. Places'
    BY <1>17
    DEF VideoEncodeFails, VideoError, Places, PlaceTypes, QueueTypes, FutureTypes, Goto, Task,
        Threads, Labels, Tracks, queues, future
  <2> QED
    BY <1>17, <2>1, <2>2, <2>3, <2>4
    DEF VideoEncodeFails, VideoError, signals, muxing, codecs, future, queues
<1>18. CASE VideoStop
  <2>1. CodecTypes'
    BY <1>18 DEF VideoStop, VideoError, CodecTypes, codecs, Tracks, Running
  <2>2. PlaceTypes'
    BY <1>18 DEF VideoStop, VideoError, PlaceTypes, Goto, Places, Threads
  <2>3. ReportTypes'
    BY <1>18, <1>b, ReportFacts DEF VideoStop, ReportTypes, reports, Places
  <2>4. HistoryTypes'
    BY <1>18 DEF VideoStop, VideoError, HistoryTypes, history, Works, Goto
  <2>5. Places'
    BY <1>18
    DEF VideoStop, VideoError, Places, PlaceTypes, QueueTypes, FutureTypes, Goto, Task,
        Threads, Labels, Tracks, queues, future
  <2> QED
    BY <1>18, <2>1, <2>2, <2>3, <2>4, <2>5
    DEF VideoStop, VideoError, signals, muxing, future, queues
<1>19. CASE VideoCrash
  <2>1. HistoryTypes'
    BY <1>19 DEF VideoCrash, Crash, HistoryTypes, history, Works, Goto
  <2> QED
    BY <1>19, <2>1 DEF VideoCrash, Crash, signals, muxing, codecs, future, queues, reports
<1>20. CASE StopMuxer
  <2>1. MuxingTypes'
    BY <1>20 DEF StopMuxer, VideoError, MuxingTypes, muxing, Tracks, Task, QueueTypes, Places
  <2>2. PlaceTypes'
    BY <1>20 DEF StopMuxer, VideoError, PlaceTypes, Goto, Places, Threads
  <2>3. ReportTypes'
    BY <1>20, <1>b, ReportFacts DEF StopMuxer, ReportTypes, reports, Places
  <2>4. HistoryTypes'
    BY <1>20 DEF StopMuxer, VideoError, HistoryTypes, history, Works, Goto
  <2>5. Places'
    BY <1>20
    DEF StopMuxer, VideoError, Places, PlaceTypes, QueueTypes, FutureTypes, Goto, Task,
        Threads, Labels, Tracks, queues, future
  <2> QED
    BY <1>20, <2>1, <2>2, <2>3, <2>4, <2>5
    DEF StopMuxer, VideoError, signals, codecs, future, queues
<1>21. CASE CheckKeyFrame
  <2>1. PlaceTypes'
    BY <1>21 DEF CheckKeyFrame, VideoError, PlaceTypes, Goto, Places, Threads
  <2>2. ReportTypes'
    BY <1>21, <1>b, ReportFacts DEF CheckKeyFrame, ReportTypes, reports, Places
  <2>3. Places'
    BY <1>21
    DEF CheckKeyFrame, VideoError, Places, PlaceTypes, QueueTypes, FutureTypes, Goto, Task,
        Threads, Labels, Tracks, queues, future
  <2> QED
    BY <1>21, <2>1, <2>2, <2>3
    DEF CheckKeyFrame, VideoError, signals, muxing, codecs, future, queues, history
<1>22. CASE VideoEnd
  <2>1. SignalTypes'
    BY <1>22 DEF VideoEnd, SignalTypes, signals, Tracks
  <2>2. MuxingTypes'
    BY <1>22 DEF VideoEnd, MuxingTypes, muxing, Tracks, Task, QueueTypes, Places
  <2>3. PlaceTypes'
    BY <1>22 DEF VideoEnd, PlaceTypes, Goto, Places, Threads
  <2>4. ReportTypes'
    BY <1>22, <1>b, ReportFacts DEF VideoEnd, ReportTypes, reports, Places
  <2>5. HistoryTypes'
    BY <1>22 DEF VideoEnd, VideoError, HistoryTypes, history, Works, Goto
  <2>6. Places'
    BY <1>22
    DEF VideoEnd, VideoError, Places, PlaceTypes, QueueTypes, FutureTypes, Goto, Task, Threads,
        Labels, Tracks, queues, future
  <2> QED
    BY <1>22, <2>1, <2>2, <2>3, <2>4, <2>5, <2>6
    DEF VideoEnd, VideoError, codecs, future, queues
<1>23. CASE VideoSaved
  <2>1. QueueTypes'
    <3> DEFINE q == [handler EXCEPT !.video = Tail(@)]
    <3>1. q \in Queues
      BY <1>23, <1>a, TaskFacts DEF VideoSaved, Places, Tracks
    <3>2. handler' = [q EXCEPT !.executor = Append(@, mRecordingFuture)]
      BY <1>23 DEF VideoSaved
    <3>3. mRecordingFuture \in Calls
      BY <1>23 DEF VideoSaved, Places, FutureTypes
    <3> HIDE DEF q
    <3>4. [q EXCEPT !.executor = Append(@, mRecordingFuture)] \in Queues
      BY <3>1, <3>3, TaskFacts
    <3>5. quit' \subseteq Tracks
      BY <1>23 DEF VideoSaved, QueueTypes
    <3> QED
      BY <3>2, <3>4, <3>5 DEF QueueTypes, Queues
  <2>2. PlaceTypes'
    BY <1>23 DEF VideoSaved, PlaceTypes, Goto, Places, Threads
  <2>3. ReportTypes'
    BY <1>23, <1>b, ReportFacts DEF VideoSaved, ReportTypes, reports, Places
  <2>4. Places'
    <3>1. handler'.audio = handler.audio /\ handler'.executor # <<>> /\ handler.video # <<>>
      BY <1>23, <1>a DEF VideoSaved, Places, Queues, Tracks
    <3> QED
      BY <1>23, <3>1 DEF VideoSaved, Places, Goto, Threads, Labels, future
  <2> QED
    BY <1>23, <2>1, <2>2, <2>3, <2>4 DEF VideoSaved, signals, muxing, codecs, future, history
<1>24. CASE AudioBegin
  <2>1. PlaceTypes'
    BY <1>24 DEF AudioBegin, PlaceTypes, Goto, Places, Threads
  <2>2. Places'
    BY <1>24
    DEF AudioBegin, Places, PlaceTypes, QueueTypes, FutureTypes, Goto, Task, Threads, Labels,
        Tracks, queues, future
  <2> QED
    BY <1>24, <2>1, <2>2
    DEF AudioBegin, signals, muxing, codecs, future, queues, reports, history
<1>25. CASE AudioLeavesLoop
  <2>1. PlaceTypes'
    BY <1>25 DEF AudioLeavesLoop, PlaceTypes, Goto, Places, Threads
  <2>2. Places'
    BY <1>25
    DEF AudioLeavesLoop, Places, PlaceTypes, QueueTypes, FutureTypes, Goto, Task, Threads,
        Labels, Tracks, queues, future
  <2> QED
    BY <1>25, <2>1, <2>2
    DEF AudioLeavesLoop, signals, muxing, codecs, future, queues, reports, history
<1>26. CASE EncodeAudio
  <2>1. SignalTypes'
    BY <1>26 DEF EncodeAudio, AudioSignals, HasInput, SignalTypes, signals, Tracks
  <2> QED
    BY <1>26, <2>1
    DEF EncodeAudio, AudioSignals, HasInput, muxing, codecs, future, queues, reports, history
<1>27. CASE AudioFormatChanged
  <2>1. SignalTypes'
    BY <1>27
    DEF AudioFormatChanged, AudioSignals, HasInput, AddTrack, SignalTypes, signals, Tracks
  <2>2. MuxingTypes'
    BY <1>27
    DEF AudioFormatChanged, AudioSignals, HasInput, AddTrack, MuxingTypes, muxing, Tracks,
        Task, QueueTypes, Places
  <2>3. CodecTypes'
    BY <1>27
    DEF AudioFormatChanged, AudioSignals, HasInput, AddTrack, CodecTypes, codecs, Tracks,
        Running
  <2> QED
    BY <1>27, <2>1, <2>2, <2>3
    DEF AudioFormatChanged, AudioSignals, HasInput, AddTrack, future, queues, reports, history
<1>28. CASE AudioCrash
  <2>1. HistoryTypes'
    BY <1>28 DEF AudioCrash, Crash, HistoryTypes, history, Works, Goto
  <2> QED
    BY <1>28, <2>1 DEF AudioCrash, Crash, signals, muxing, codecs, future, queues, reports
<1>29. CASE AudioEncoderFails
  <2>1. HistoryTypes'
    BY <1>29 DEF AudioEncoderFails, HistoryTypes, history, Works, Goto
  <2> QED
    BY <1>29, <2>1 DEF AudioEncoderFails, signals, muxing, codecs, future, queues, reports
<1>30. CASE AudioStop
  <2>1. SignalTypes'
    BY <1>30 DEF AudioStop, SignalTypes, signals, Tracks
  <2>2. CodecTypes'
    BY <1>30 DEF AudioStop, CodecTypes, codecs, Tracks, Running
  <2>3. QueueTypes'
    BY <1>30, <1>a, TaskFacts
    DEF AudioStop, QueueTypes, Queues, queues, Tracks, Places, FutureTypes
  <2>4. PlaceTypes'
    BY <1>30 DEF AudioStop, PlaceTypes, Goto, Places, Threads
  <2>5. ReportTypes'
    BY <1>30, <1>b, ReportFacts DEF AudioStop, ReportTypes, reports, Places
  <2>6. HistoryTypes'
    BY <1>30, <1>b DEF AudioStop, HistoryTypes, Works, Goto
  <2>7. Places'
    BY <1>30
    DEF AudioStop, Places, PlaceTypes, QueueTypes, FutureTypes, Goto, Task, Threads, Labels,
        Tracks, queues, future
  <2> QED
    BY <1>30, <2>1, <2>2, <2>3, <2>4, <2>5, <2>6, <2>7 DEF AudioStop, muxing, future
<1>31. CASE RunFuture
  <2>1. SignalTypes'
    BY <1>31 DEF RunFuture, ReleaseResources, EndFuture, SignalTypes, signals, Tracks
  <2>2. CodecTypes'
    BY <1>31 DEF RunFuture, ReleaseResources, EndFuture, CodecTypes, codecs, Tracks, Running
  <2>3. FutureTypes'
    BY <1>31, <1>a, TaskFacts DEF RunFuture, FutureTypes, Task
  <2>4. QueueTypes'
    BY <1>31, <1>a, TaskFacts
    DEF RunFuture, ReleaseResources, EndFuture, QueueTypes, Queues, queues, Tracks, Places,
        FutureTypes
  <2>5. PlaceTypes'
    BY <1>31 DEF RunFuture, ReleaseResources, EndFuture, PlaceTypes, Goto, Places, Threads
  <2>6. Places'
    BY <1>31
    DEF RunFuture, ReleaseResources, EndFuture, Places, PlaceTypes, QueueTypes, FutureTypes,
        Goto, Task, Threads, Labels, Tracks, queues, future
  <2> QED
    BY <1>31, <2>1, <2>2, <2>3, <2>4, <2>5, <2>6
    DEF RunFuture, ReleaseResources, EndFuture, muxing, reports, history
<1>32. CASE SetupVideo
  <2>1. CodecTypes'
    BY <1>32 DEF SetupVideo, EndFuture, CodecTypes, codecs, Tracks, Running
  <2>2. QueueTypes'
    BY <1>32, <1>a, TaskFacts
    DEF SetupVideo, EndFuture, QueueTypes, Queues, queues, Tracks, Places, FutureTypes
  <2>3. PlaceTypes'
    BY <1>32 DEF SetupVideo, EndFuture, PlaceTypes, Goto, Places, Threads
  <2>4. HistoryTypes'
    BY <1>32 DEF SetupVideo, EndFuture, HistoryTypes, history, Works, Goto
  <2>5. Places'
    BY <1>32
    DEF SetupVideo, EndFuture, Places, PlaceTypes, QueueTypes, FutureTypes, Goto, Task,
        Threads, Labels, Tracks, queues, future
  <2> QED
    BY <1>32, <2>1, <2>2, <2>3, <2>4, <2>5
    DEF SetupVideo, EndFuture, signals, muxing, future, reports
<1>33. CASE SetupAudio
  <2>1. SignalTypes'
    BY <1>33 DEF SetupAudio, SignalTypes, HistoryTypes
  <2>2. CodecTypes'
    BY <1>33 DEF SetupAudio, EndFuture, CodecTypes, codecs, Tracks, Running
  <2>3. QueueTypes'
    BY <1>33, <1>a, TaskFacts
    DEF SetupAudio, EndFuture, QueueTypes, Queues, queues, Tracks, Places, FutureTypes
  <2>4. PlaceTypes'
    BY <1>33 DEF SetupAudio, EndFuture, PlaceTypes, Goto, Places, Threads
  <2>5. HistoryTypes'
    BY <1>33 DEF SetupAudio, EndFuture, HistoryTypes, history, Works, Goto
  <2>6. Places'
    BY <1>33
    DEF SetupAudio, EndFuture, Places, PlaceTypes, QueueTypes, FutureTypes, Goto, Task,
        Threads, Labels, Tracks, queues, future
  <2> QED
    BY <1>33, <2>1, <2>2, <2>3, <2>4, <2>5, <2>6
    DEF SetupAudio, EndFuture, muxing, future, reports
<1>34. CASE SetupTracks
  <2>1. SignalTypes'
    BY <1>34 DEF SetupTracks, EndFuture, SignalTypes, signals, Tracks
  <2>2. MuxingTypes'
    BY <1>34 DEF SetupTracks, EndFuture, MuxingTypes, muxing, Tracks, Task, QueueTypes, Places
  <2>3. QueueTypes'
    BY <1>34, <1>a, TaskFacts
    DEF SetupTracks, EndFuture, QueueTypes, Queues, queues, Tracks, Places, FutureTypes
  <2>4. PlaceTypes'
    BY <1>34 DEF SetupTracks, EndFuture, PlaceTypes, Goto, Places, Threads
  <2>5. Places'
    BY <1>34
    DEF SetupTracks, EndFuture, Places, PlaceTypes, QueueTypes, FutureTypes, Goto, Task,
        Threads, Labels, Tracks, queues, future
  <2> QED
    BY <1>34, <2>1, <2>2, <2>3, <2>4, <2>5
    DEF SetupTracks, EndFuture, codecs, future, reports, history
<1> QED
  BY <1>1, <1>2, <1>3, <1>4, <1>5, <1>6, <1>7, <1>8, <1>9, <1>10, <1>11, <1>12, <1>13, <1>14,
     <1>15, <1>16, <1>17, <1>18, <1>19, <1>20, <1>21, <1>22, <1>23, <1>24, <1>25, <1>26, <1>27,
     <1>28, <1>29, <1>30, <1>31, <1>32, <1>33, <1>34
  DEF Next, Client, Listener, Video, Audio, Executor

-----------------------------------------------------------------------------
(* Which recording is under way, and whose tasks the threads have. *)

\* The call made last of those that began.
Latest(c) == c \in Begun /\ \A d \in Begun : d <= c

Calling ==
  /\ \A c \in Calls : c > call => told[c] = {}
  /\ pc.client \in {"check", "microphone", "encoders", "muxer", "begin"} => told[call] = {}
  /\ pc.client \in {"microphone", "encoders", "muxer", "begin"} => mEndOfAudioVideoSignal
  /\ pc.client = "post" => Latest(call) /\ ~mEndOfAudioVideoSignal
  /\ Begun # {} => \E c \in Begun : Latest(c)
  /\ ~mEndOfAudioVideoSignal => Begun # {}

\* The video thread has at most the task of the recording under way, behind one that
\* only has to be told saved.
Before == IF pc.video = "saved" THEN 1 ELSE 0

Tasks ==
  /\ \A i \in 1..Len(handler.audio) : handler.audio[i] \in Begun
  /\ \A i \in 1..Len(handler.video) : handler.video[i] \in Begun
  /\ pc.video = "saved" /\ ~mEndOfAudioVideoSignal => ~Latest(Task("video"))
  /\ \/ Len(handler.video) = Before
     \/ /\ ~mEndOfAudioVideoSignal /\ pc.client # "post"
        /\ Len(handler.video) = Before + 1 /\ Latest(handler.video[Before + 1])

\* What is saved without an error has a key frame.
Keys ==
  /\ mIsFirstVideoKeyFrameWrite =>
       /\ pc.video \in {"loop", "stop", "muxer", "check", "end"}
       /\ errorOccurred \/ Task("video") \in keyed
  /\ pc.video \in {"end", "saved"} => errorOccurred \/ Task("video") \in keyed
  /\ \A c \in Calls : "saved" \in told[c] => c \in keyed

\* videoEncode, or what follows it, is about this call.
Encodes(c) == pc.video # "idle" /\ Task("video") = c

\* A recording that began and is not under way any more.
Ended(c) == c \in Begun /\ (~Latest(c) \/ mEndOfAudioVideoSignal)

\* An error of the video is told, remembered until the end of its task, and keeps the
\* recording from being told saved; a recording that has ended was told something, or is
\* about to be.
Outcomes ==
  /\ soundFailed \subseteq {c \in Begun : "error" \in told[c]}
  /\ pc.video # "idle" /\ errorOccurred => "error" \in told[Task("video")]
  /\ \A c \in Calls : Ended(c) /\ told[c] \cap {"error", "saved"} = {} =>
                        pc.video = "saved" /\ Task("video") = c /\ ~errorOccurred
  /\ \A c \in Begun \ soundFailed : "error" \in told[c] =>
       "saved" \notin told[c] /\ IF Encodes(c) THEN errorOccurred ELSE Ended(c)
  /\ \A c \in Calls : "saved" \in told[c] => Ended(c)

Recording == Calling /\ Tasks /\ Keys /\ Outcomes
IInv == Typed /\ Recording

\* There is no recording at first.
LEMMA InitRecording == Init => Recording
<1> SUFFICES ASSUME Init PROVE Recording
  OBVIOUS
<1>1. Begun = {}
  BY DEF Init, Begun
<1> QED
  BY <1>1 DEF Init, Recording, Calling, Tasks, Keys, Outcomes, Ended, Before, Tracks, Threads

\* Telling a call something else than the start begins nothing.
LEMMA BegunFacts ==
  ASSUME ReportTypes
  PROVE  /\ UNCHANGED told => Begun' = Begun
         /\ \A c \in Calls, what \in {"error", "saved"} : Tell(c, what) =>
              /\ Begun' = Begun
              /\ \A d \in Calls : d # c => told'[d] = told[d]
              /\ told'[c] = told[c] \cup {what}
         /\ \A c \in Calls : Tell(c, "start") =>
              /\ Begun' = Begun \cup {c}
              /\ \A d \in Calls : d # c => told'[d] = told[d]
              /\ told'[c] = told[c] \cup {"start"}
         /\ Begun \subseteq Calls
BY DEF ReportTypes, Begun, Tell

\* While the video thread encodes, its task is the recording under way.
LEMMA Encoding ==
  ASSUME IInv, pc.video \in {"loop", "stop", "muxer", "check", "end"}
  PROVE  /\ ~mEndOfAudioVideoSignal /\ Task("video") \in Calls /\ Latest(Task("video"))
         /\ Len(handler.video) = 1 /\ pc.client # "post"
BY DEF IInv, Typed, TypeOK, QueueTypes, Places, Recording, Tasks, Before, Task, Tracks

\* The video thread's task is a recording that began.
LEMMA VideoTask == IInv /\ pc.video # "idle" => Task("video") \in Begun /\ Task("video") \in Calls
<1> SUFFICES ASSUME IInv, pc.video # "idle" PROVE Task("video") \in Begun /\ Task("video") \in Calls
  OBVIOUS
<1>1. handler.video \in Seq(Calls) /\ handler.video # <<>>
  BY DEF IInv, Typed, TypeOK, QueueTypes, Places, Tracks
<1>2. 1 \in 1..Len(handler.video) /\ handler.video[1] = Task("video")
  BY <1>1 DEF Task
<1> QED
  BY <1>2, BegunFacts DEF IInv, Typed, TypeOK, Recording, Tasks

\* A step that concerns none of this, or tells an error of the audio.
LEMMA Elsewhere ==
  ASSUME IInv,
         \/ UNCHANGED <<told, soundFailed>>
         \/ /\ handler.audio # <<>> /\ Tell(Task("audio"), "error")
            /\ soundFailed' = soundFailed \cup {Task("audio")},
         UNCHANGED <<keyed, mEndOfAudioVideoSignal, mIsFirstVideoKeyFrameWrite,
                     errorOccurred, call>>,
         pc'.client = pc.client, pc'.video = pc.video,
         handler'.video = handler.video, handler'.audio \in {handler.audio, Tail(handler.audio)},
         handler'.audio # handler.audio => handler.audio # <<>>
  PROVE  Recording'
<1>1. handler.audio \in Seq(Calls) /\ \A i \in 1..Len(handler.audio) : handler.audio[i] \in Begun
  BY DEF IInv, Typed, TypeOK, QueueTypes, Tracks, Recording, Tasks
<1>2. handler.audio # <<>> => Task("audio") \in Begun
  BY <1>1 DEF Task
<1>3. /\ Begun' = Begun /\ Begun \subseteq Calls
      /\ \A d \in Calls : /\ told[d] = {} => told'[d] = {}
                          /\ "saved" \in told'[d] => "saved" \in told[d]
  BY <1>2, BegunFacts DEF IInv, Typed, TypeOK, Begun
<1>4. \A i \in 1..Len(handler'.audio) : handler'.audio[i] \in Begun
  <2>1. \A q \in Seq(Calls) : q # <<>> =>
           \A i \in 1..Len(Tail(q)) : i + 1 \in 1..Len(q) /\ Tail(q)[i] = q[i + 1]
    OBVIOUS
  <2>2. CASE handler'.audio = handler.audio
    BY <1>1, <2>2
  <2>3. CASE handler'.audio = Tail(handler.audio) /\ handler.audio # <<>>
    BY <1>1, <2>1, <2>3
  <2> QED
    BY <2>2, <2>3
<1>5. Calling'
  BY <1>3 DEF IInv, Typed, Places, Recording, Calling, Latest
<1>6. Tasks' /\ Keys'
  BY <1>3, <1>4 DEF IInv, Recording, Tasks, Keys, Latest, Before, Task
<1>7. Outcomes'
  <2>1. /\ pc'.video = pc.video /\ Task("video")' = Task("video") /\ UNCHANGED errorOccurred
        /\ \A c \in Calls : (Ended(c)' <=> Ended(c)) /\ (Encodes(c)' <=> Encodes(c))
    BY <1>3 DEF Task, Ended, Latest, Encodes
  <2>2. \/ UNCHANGED <<told, soundFailed>>
        \/ \E c \in Begun : /\ soundFailed' = soundFailed \cup {c}
                            /\ told'[c] = told[c] \cup {"error"}
                            /\ \A d \in Calls : d # c => told'[d] = told[d]
    BY <1>2, <1>3, BegunFacts DEF IInv, Typed, TypeOK
  <2>3. CASE UNCHANGED <<told, soundFailed>>
    BY <1>3, <2>1, <2>3 DEF IInv, Recording, Outcomes
  <2>4. ASSUME NEW c \in Begun, soundFailed' = soundFailed \cup {c},
               told'[c] = told[c] \cup {"error"}, \A d \in Calls : d # c => told'[d] = told[d]
        PROVE  Outcomes'
    <3>1. c \in Calls /\ soundFailed \subseteq Begun
      BY <1>3 DEF IInv, Recording, Outcomes
    <3>2. \A d \in Calls : /\ told[d] \subseteq told'[d]
                           /\ "saved" \in told'[d] <=> "saved" \in told[d]
                           /\ d # c => told'[d] = told[d]
      BY <2>4
    <3>3. soundFailed' \subseteq {d \in Begun' : "error" \in told'[d]}
      BY <1>3, <2>4, <3>1, <3>2 DEF IInv, Recording, Outcomes
    <3>4. pc'.video # "idle" /\ errorOccurred' => "error" \in told'[Task("video")']
      <4>1. pc.video # "idle" => Task("video") \in Calls
        BY VideoTask
      <4> QED
        BY <2>1, <3>2, <4>1 DEF IInv, Recording, Outcomes
    <3>5. \A d \in Calls : Ended(d)' /\ told'[d] \cap {"error", "saved"} = {} =>
                        pc'.video = "saved" /\ Task("video")' = d /\ ~errorOccurred'
      BY <2>1, <3>2 DEF IInv, Recording, Outcomes
    <3>6. \A d \in Begun' \ soundFailed' : "error" \in told'[d] =>
       "saved" \notin told'[d] /\ IF Encodes(d)' THEN errorOccurred' ELSE Ended(d)'
      BY <1>3, <2>1, <2>4, <3>2 DEF IInv, Recording, Outcomes
    <3>7. \A d \in Calls : "saved" \in told'[d] => Ended(d)'
      BY <2>1, <3>2 DEF IInv, Recording, Outcomes
    <3> QED
      BY <3>3, <3>4, <3>5, <3>6, <3>7 DEF Outcomes
  <2> QED
    BY <2>2, <2>3, <2>4
<1> QED
  BY <1>5, <1>6, <1>7 DEF Recording

\* A step of the client before onStart.
LEMMA ClientGoesOn ==
  ASSUME IInv, pc.client \in {"check", "microphone", "encoders", "muxer"},
         NEW l \in {"idle", "microphone", "encoders", "muxer", "begin"}, pc' = [pc EXCEPT !.client = l],
         l # "idle" => mEndOfAudioVideoSignal,
         UNCHANGED told \/ (l = "idle" /\ Tell(call, "error")),
         UNCHANGED <<keyed, mEndOfAudioVideoSignal, mIsFirstVideoKeyFrameWrite,
                     errorOccurred, soundFailed, call>>,
         handler'.video = handler.video, handler'.audio = handler.audio
  PROVE  Recording'
<1>1. /\ call \in Calls /\ Calls \subseteq Int /\ Begun \subseteq Calls
      /\ pc'.client = l /\ pc'.video = pc.video
  BY BegunFacts DEF IInv, Typed, TypeOK, Places, Threads, Calls
<1>2. /\ Begun' = Begun
      /\ \A d \in Calls : d # call => told'[d] = told[d]
      /\ l # "idle" => told' = told
      /\ \A d \in Calls : "saved" \in told'[d] => "saved" \in told[d]
  BY <1>1, BegunFacts DEF IInv, Typed, TypeOK
<1>3. Calling'
  BY <1>1, <1>2 DEF IInv, Recording, Calling, Latest
<1>4. Tasks' /\ Keys'
  BY <1>1, <1>2 DEF IInv, Recording, Tasks, Keys, Latest, Before, Task
<1>5. Outcomes'
  <2>1. call \notin Begun \/ UNCHANGED told
    BY DEF IInv, Recording, Calling, Begun
  <2>2. /\ Task("video")' = Task("video")
        /\ \A d \in Calls : (Ended(d)' <=> Ended(d)) /\ (Encodes(d)' <=> Encodes(d))
    BY <1>1, <1>2 DEF Task, Ended, Latest, Encodes
  <2>3. \A d \in Begun : told'[d] = told[d]
    BY <1>1, <1>2, <2>1
  <2>4. pc.video # "idle" => Task("video") \in Begun
    BY VideoTask
  <2> QED
    BY <1>1, <1>2, <2>2, <2>3, <2>4 DEF IInv, Recording, Outcomes, Ended
<1> QED
  BY <1>3, <1>4, <1>5 DEF Recording

\* A step of the video thread before the end of its task.
LEMMA VideoGoesOn ==
  ASSUME IInv, pc.video \in {"loop", "stop", "muxer", "check"},
         NEW l \in {"loop", "stop", "muxer", "check", "end"}, pc' = [pc EXCEPT !.video = l],
         NoError \/ VideoError(Task("video")),
         UNCHANGED <<mEndOfAudioVideoSignal, call, handler, soundFailed>>,
         keyed' \in {keyed, keyed \cup {Task("video")}},
         mIsFirstVideoKeyFrameWrite' =>
           mIsFirstVideoKeyFrameWrite \/ errorOccurred' \/ Task("video") \in keyed',
         l = "end" => errorOccurred' \/ Task("video") \in keyed'
  PROVE  Recording'
<1> DEFINE c == Task("video")
<1>1. /\ c \in Calls /\ Latest(c) /\ c \in Begun /\ c <= call
      /\ ~mEndOfAudioVideoSignal
  <2>1. c \in Calls /\ Latest(c) /\ ~mEndOfAudioVideoSignal
    BY Encoding
  <2>2. c \in Begun
    BY <2>1 DEF Latest
  <2>3. told[c] # {} /\ call \in Int /\ c \in Int
    BY <2>1, <2>2 DEF Begun, IInv, Typed, TypeOK, PlaceTypes, Calls
  <2>4. ~(c > call)
    BY <2>1, <2>3 DEF IInv, Recording, Calling
  <2> QED
    BY <2>1, <2>2, <2>3, <2>4
<1>2. /\ Begun' = Begun /\ told[c] # {}
      /\ \A d \in Calls : (d # c => told'[d] = told[d]) /\ ("saved" \in told'[d] => "saved" \in told[d])
  BY <1>1, BegunFacts DEF IInv, Typed, TypeOK, NoError, VideoError, Begun
<1>3. pc'.client = pc.client /\ pc'.video = l /\ Task("video")' = c /\ Task("video") = c
  BY DEF IInv, Typed, Places, Threads, Task
<1> HIDE DEF c
<1>4. Calling'
  <2>1. /\ call \in Int /\ c \in Int /\ Calls \subseteq Int
        /\ pc.client # "idle" => call \in Calls
    BY <1>1 DEF IInv, Typed, Places, TypeOK, PlaceTypes, Calls
  <2>2. \A d \in Calls : told[d] = {} => told'[d] = {}
    BY <1>2
  <2> QED
    BY <1>1, <1>2, <1>3, <2>1, <2>2 DEF IInv, Recording, Calling, Latest
<1>5. Tasks'
  BY <1>1, <1>2, <1>3 DEF IInv, Recording, Tasks, Latest, Before
<1>6. Keys'
  <2>1. errorOccurred => errorOccurred'
    BY DEF NoError, VideoError
  <2>2. mIsFirstVideoKeyFrameWrite => errorOccurred' \/ c \in keyed'
    BY <1>3, <2>1 DEF IInv, Recording, Keys
  <2>3. \A d \in Calls : "saved" \in told'[d] => d \in keyed'
    BY <1>2 DEF IInv, Recording, Keys
  <2> QED
    BY <1>3, <2>2, <2>3 DEF Keys
<1>7. Outcomes'
  <2>1. \/ errorOccurred' = errorOccurred /\ UNCHANGED told
        \/ errorOccurred' /\ told'[c] = told[c] \cup {"error"}
    BY <1>1, <1>3, BegunFacts DEF NoError, VideoError, IInv, Typed, TypeOK
  <2>2. /\ pc.video \notin {"idle", "saved"} /\ pc'.video \notin {"idle", "saved"}
        /\ ~Ended(c)
        /\ \A d \in Calls : (Ended(d)' <=> Ended(d)) /\ (Encodes(d)' <=> d = c) /\ (Encodes(d) <=> d = c)
    <3>1. pc.video \notin {"idle", "saved"} /\ pc'.video \notin {"idle", "saved"} /\ ~Ended(c)
      BY <1>1, <1>3 DEF Ended
    <3>2. \A d \in Calls : Ended(d)' <=> Ended(d)
      BY <1>2 DEF Ended, Latest
    <3>3. \A d \in Calls : (Encodes(d)' <=> d = c) /\ (Encodes(d) <=> d = c)
      BY <1>3, <3>1 DEF Encodes
    <3> QED
      BY <3>1, <3>2, <3>3
  <2>3. \A d \in Calls : told[d] \subseteq told'[d]
    BY <1>2, <2>1
  <2>4. soundFailed' \subseteq {d \in Begun' : "error" \in told'[d]} /\ Begun \subseteq Calls
    BY <1>2, <2>3, BegunFacts DEF IInv, Typed, TypeOK, Recording, Outcomes
  <2>5. pc'.video # "idle" /\ errorOccurred' => "error" \in told'[c]
    BY <1>3, <2>1, <2>2 DEF IInv, Recording, Outcomes
  <2>6. \A d \in Calls : Ended(d)' => told'[d] \cap {"error", "saved"} # {}
    BY <2>2, <2>3 DEF IInv, Recording, Outcomes
  <2>7. \A d \in Calls : "saved" \in told'[d] => Ended(d)'
    BY <1>2, <2>2 DEF IInv, Recording, Outcomes
  <2>8. ASSUME NEW d \in Begun' \ soundFailed', "error" \in told'[d]
        PROVE  "saved" \notin told'[d] /\ IF Encodes(d)' THEN errorOccurred' ELSE Ended(d)'
    <3>1. CASE d = c
      <4>1. "saved" \notin told'[c]
        BY <1>1, <1>2, <2>2 DEF IInv, Recording, Outcomes
      <4>2. errorOccurred'
        BY <1>1, <1>2, <2>1, <2>2, <2>8, <3>1 DEF IInv, Recording, Outcomes
      <4> QED
        BY <1>1, <2>2, <3>1, <4>1, <4>2
    <3>2. CASE d # c
      BY <1>2, <2>2, <2>4, <2>8, <3>2 DEF IInv, Recording, Outcomes
    <3> QED
      BY <3>1, <3>2
  <2> QED
    BY <1>3, <2>4, <2>5, <2>6, <2>7, <2>8 DEF Outcomes
<1> QED
  BY <1>4, <1>5, <1>6, <1>7 DEF Recording

\* A refused start disturbs the recording under way only in its key-frame flag.
LEMMA StartRecordingStep == IInv /\ StartRecording => Recording'
<1> SUFFICES ASSUME IInv, StartRecording PROVE Recording'
  OBVIOUS
<1>1. /\ call' = call + 1 /\ call \in Int /\ call + 1 \in Calls /\ Calls \subseteq Int
      /\ UNCHANGED <<told, keyed, errorOccurred, handler, mEndOfAudioVideoSignal, soundFailed>>
      /\ pc.client = "idle" /\ pc'.client = "check" /\ pc'.video = pc.video
      /\ mIsFirstVideoKeyFrameWrite' = FALSE
  BY Bounds
  DEF StartRecording, IInv, Typed, TypeOK, PlaceTypes, Places, Goto, Threads, Calls, signals,
      queues, reports, history
<1>2. Begun' = Begun
  BY <1>1 DEF Begun
<1>3. Calling'
  <2>1. \A c \in Calls : c > call' => c > call
    BY <1>1
  <2>2. \A c \in Calls : c > call' => told'[c] = {}
    BY <1>1, <2>1 DEF IInv, Recording, Calling
  <2>3. told'[call'] = {}
    BY <1>1 DEF IInv, Recording, Calling
  <2> QED
    BY <1>1, <1>2, <2>2, <2>3 DEF IInv, Recording, Calling, Latest
<1>4. Tasks' /\ Keys'
  BY <1>1, <1>2 DEF IInv, Recording, Tasks, Keys, Latest, Before, Task
<1>5. Outcomes'
  <2>1. Task("video")' = Task("video") /\ \A d \in Calls : Encodes(d)' <=> Encodes(d)
    BY <1>1 DEF Task, Encodes
  <2>2. \A d \in Calls : Ended(d)' <=> Ended(d)
    BY <1>1, <1>2 DEF Ended, Latest
  <2>3. Begun \subseteq Calls
    BY BegunFacts DEF IInv, Typed, TypeOK
  <2> QED
    BY <1>1, <1>2, <2>1, <2>2, <2>3 DEF IInv, Recording, Outcomes
<1> QED
  BY <1>3, <1>4, <1>5 DEF Recording

\* onStart makes its call the one the end-of-stream flag is about.
LEMMA BeginRecordingStep == IInv /\ BeginRecording => Recording'
<1> SUFFICES ASSUME IInv, BeginRecording PROVE Recording'
  OBVIOUS
<1>1. /\ call' = call /\ call \in Calls /\ Calls \subseteq Int
      /\ UNCHANGED <<keyed, errorOccurred, handler, mIsFirstVideoKeyFrameWrite, soundFailed>>
      /\ mEndOfAudioVideoSignal /\ ~mEndOfAudioVideoSignal'
      /\ pc.client = "begin" /\ pc'.client = "post" /\ pc'.video = pc.video
      /\ Tell(call, "start") /\ told[call] = {}
  BY
  DEF BeginRecording, IInv, Typed, TypeOK, PlaceTypes, Places, Goto, Threads, Calls, muxing,
      queues, history, Recording, Calling
<1>2. /\ Begun' = Begun \cup {call} /\ Begun \subseteq Calls
      /\ \A d \in Calls : d # call => told'[d] = told[d]
      /\ told'[call] = {"start"}
  BY <1>1, BegunFacts DEF IInv, Typed, TypeOK
<1>3. \A d \in Begun : d < call
  BY <1>1, <1>2 DEF IInv, Recording, Calling, Begun
<1>4. \A d \in Calls : Latest(d)' <=> d = call
  BY <1>1, <1>2, <1>3 DEF Latest
<1>5. Calling'
  BY <1>1, <1>2, <1>4 DEF IInv, Recording, Calling
<1>6. Tasks'
  <2>1. pc.video = "saved" => Task("video") \in Begun
    BY <1>1 DEF IInv, Typed, TypeOK, QueueTypes, Places, Recording, Tasks, Task, Tracks
  <2>2. Task("video")' = Task("video") /\ Before' = Before
    BY <1>1 DEF Task, Before
  <2>3. pc.video = "saved" => ~Latest(Task("video"))'
    <3> SUFFICES ASSUME pc.video = "saved", Latest(Task("video"))' PROVE FALSE
      OBVIOUS
    <3>1. call \in Begun' /\ Task("video") < call /\ Task("video") \in Calls
      BY <1>1, <1>2, <1>3, <2>1
    <3>2. \A e \in Begun' : e <= Task("video")'
      BY DEF Latest
    <3>3. call <= Task("video")
      BY <2>2, <3>1, <3>2
    <3>4. call \in Int /\ Task("video") \in Int
      BY <1>1, <3>1
    <3> QED
      BY <3>1, <3>3, <3>4
  <2>4. Len(handler.video) = Before
    BY <1>1 DEF IInv, Recording, Tasks
  <2> QED
    BY <1>1, <1>2, <2>2, <2>3, <2>4 DEF IInv, Recording, Tasks
<1>7. Keys'
  BY <1>1, <1>2 DEF IInv, Recording, Keys, Task
<1>8. Outcomes'
  <2>1. call \notin Begun
    BY <1>1 DEF Begun
  <2>2. /\ Task("video")' = Task("video") /\ \A d \in Calls : Encodes(d)' <=> Encodes(d)
        /\ \A d \in Calls : d # call => (Ended(d)' <=> Ended(d))
    BY <1>1, <1>2, <1>4 DEF Task, Encodes, Ended
  <2>3. pc.video # "idle" => Task("video") \in Begun
    BY VideoTask
  <2>4. soundFailed' \subseteq {d \in Begun' : "error" \in told'[d]}
    BY <1>1, <1>2, <2>1 DEF IInv, Recording, Outcomes
  <2>5. pc'.video # "idle" /\ errorOccurred' => "error" \in told'[Task("video")']
    BY <1>1, <1>2, <2>1, <2>2, <2>3 DEF IInv, Recording, Outcomes
  <2>6. \A d \in Calls : Ended(d)' /\ told'[d] \cap {"error", "saved"} = {} =>
                      pc'.video = "saved" /\ Task("video")' = d /\ ~errorOccurred'
    <3>1. \A d \in Calls : Ended(d)' => d # call
      BY <1>1, <1>4 DEF Ended
    <3> QED
      BY <1>1, <1>2, <2>2, <3>1 DEF IInv, Recording, Outcomes
  <2>7. \A d \in Begun' \ soundFailed' : "error" \in told'[d] =>
          "saved" \notin told'[d] /\ IF Encodes(d)' THEN errorOccurred' ELSE Ended(d)'
    <3>1. \A d \in Begun' : "error" \in told'[d] => d \in Begun /\ d \in Calls /\ d # call
      BY <1>1, <1>2
    <3> QED
      BY <1>1, <1>2, <2>2, <3>1 DEF IInv, Recording, Outcomes
  <2>8. \A d \in Calls : "saved" \in told'[d] => Ended(d)'
    BY <1>1, <1>2, <2>2 DEF IInv, Recording, Outcomes
  <2> QED
    BY <2>4, <2>5, <2>6, <2>7, <2>8 DEF Outcomes
<1> QED
  BY <1>5, <1>6, <1>7, <1>8 DEF Recording

\* The video thread gets the task of the recording that has begun, and no other.
LEMMA PostTasksStep == IInv /\ PostTasks => Recording'
<1> SUFFICES ASSUME IInv, PostTasks PROVE Recording'
  OBVIOUS
<1>1. /\ UNCHANGED <<told, keyed, errorOccurred, mIsFirstVideoKeyFrameWrite, mEndOfAudioVideoSignal,
                     soundFailed, call>>
      /\ call \in Calls /\ Latest(call) /\ ~mEndOfAudioVideoSignal
      /\ pc.client = "post" /\ pc'.client = "idle" /\ pc'.video = pc.video
  BY
  DEF PostTasks, IInv, Typed, Places, Goto, Threads, muxing, signals, reports, history,
      Recording, Calling
<1>2. /\ handler.video \in Seq(Calls) /\ handler.audio \in Seq(Calls)
      /\ handler'.video \in {handler.video, Append(handler.video, call)}
      /\ handler'.audio \in {handler.audio, Append(handler.audio, call)}
  BY DEF PostTasks, Posted, IInv, Typed, TypeOK, QueueTypes, Tracks
<1>3. Len(handler.video) = Before
  BY <1>1 DEF IInv, Recording, Tasks
<1>4. Begun' = Begun /\ call \in Begun
  BY <1>1 DEF Begun, Latest
<1>5. \A q \in Seq(Calls) :
        /\ Len(Append(q, call)) = Len(q) + 1 /\ Append(q, call)[Len(q) + 1] = call
        /\ \A i \in 1..Len(q) : Append(q, call)[i] = q[i]
        /\ Len(q) = 1 => Head(Append(q, call)) = Head(q)
        /\ \A i \in 1..Len(Append(q, call)) : i \in 1..Len(q) \/ i = Len(q) + 1
  BY <1>1
<1>6. Calling'
  BY <1>1, <1>4 DEF IInv, Recording, Calling, Latest
<1>7. Before \in {0, 1} /\ Before' = Before /\ (Before = 1 <=> pc.video = "saved")
  BY <1>1 DEF Before
<1>8. (pc.video = "saved" => Task("video")' = Task("video"))
  BY <1>2, <1>3, <1>5, <1>7 DEF Task
<1>9. Tasks'
  <2>1. \A i \in 1..Len(handler'.audio) : handler'.audio[i] \in Begun
    BY <1>2, <1>4, <1>5 DEF IInv, Recording, Tasks
  <2>2. \A i \in 1..Len(handler'.video) : handler'.video[i] \in Begun
    <3>1. \A i \in 1..Len(handler.video) : handler.video[i] \in Begun
      BY DEF IInv, Recording, Tasks
    <3>2. CASE handler'.video = handler.video
      BY <3>1, <3>2
    <3>3. CASE handler'.video = Append(handler.video, call)
      BY <1>2, <1>4, <1>5, <3>1, <3>3
    <3> QED
      BY <1>2, <3>2, <3>3
  <2>3. \/ Len(handler'.video) = Before
        \/ Len(handler'.video) = Before + 1 /\ handler'.video[Before + 1] = call
    BY <1>2, <1>3, <1>5
  <2> QED
    BY <1>1, <1>4, <1>7, <1>8, <2>1, <2>2, <2>3 DEF IInv, Recording, Tasks, Latest
<1>10. Keys'
  <2>1. pc.video \in {"loop", "stop", "muxer", "check", "end"} => FALSE
    BY <1>1, Encoding
  <2> QED
    BY <1>1, <1>8, <2>1 DEF IInv, Recording, Keys
<1>11. Outcomes'
  <2>1. pc.video \in {"idle", "saved"}
    BY <1>1, Encoding DEF IInv, Typed, TypeOK, PlaceTypes
  <2> QED
    BY <1>1, <1>4, <1>8, <2>1 DEF IInv, Recording, Outcomes, Ended, Encodes, Latest
<1> QED
  BY <1>6, <1>9, <1>10, <1>11 DEF Recording

\* The video thread takes up the task at the head of its queue, the latest recording's.
LEMMA VideoBeginStep == IInv /\ VideoBegin => Recording'
<1> SUFFICES ASSUME IInv, VideoBegin PROVE Recording'
  OBVIOUS
<1>1. /\ UNCHANGED <<told, keyed, handler, mIsFirstVideoKeyFrameWrite, mEndOfAudioVideoSignal,
                     soundFailed, call>>
      /\ pc'.client = pc.client /\ pc.video = "idle" /\ pc'.video = "loop" /\ ~errorOccurred'
      /\ handler.video # <<>> /\ handler.video \in Seq(Calls)
  BY
  DEF VideoBegin, IInv, Typed, TypeOK, QueueTypes, Places, Goto, Threads, Tracks, muxing,
      signals, reports, queues, history
<1>2. Begun' = Begun
  BY <1>1 DEF Begun
<1>3. Calling' /\ Tasks'
  BY <1>1, <1>2 DEF IInv, Recording, Calling, Tasks, Latest, Before, Task
<1>4. Keys'
  BY <1>1 DEF IInv, Recording, Keys
<1>5. Outcomes'
  <2> DEFINE c == Task("video")
  <2>1. c' = c /\ c \in Calls /\ Latest(c) /\ ~mEndOfAudioVideoSignal
    BY <1>1 DEF IInv, Recording, Tasks, Before, Task
  <2>2. ~Ended(c) /\ \A d \in Calls : (Ended(d)' <=> Ended(d)) /\ (Encodes(d)' <=> d = c) /\ ~Encodes(d)
    BY <1>1, <1>2, <2>1 DEF Ended, Latest, Encodes
  <2> HIDE DEF c
  <2>3. Begun \subseteq Calls
    BY BegunFacts DEF IInv, Typed, TypeOK
  <2> QED
    BY <1>1, <1>2, <2>1, <2>2, <2>3 DEF IInv, Recording, Outcomes
<1> QED
  BY <1>3, <1>4, <1>5 DEF Recording

\* The end-of-stream flag is set by the task the recording belongs to.
LEMMA VideoEndStep == IInv /\ VideoEnd => Recording'
<1> SUFFICES ASSUME IInv, VideoEnd PROVE Recording'
  OBVIOUS
<1> DEFINE c == Task("video")
<1>1. /\ UNCHANGED <<keyed, handler, call, soundFailed>>
      /\ mEndOfAudioVideoSignal' /\ ~mIsFirstVideoKeyFrameWrite'
      /\ pc'.client = pc.client /\ pc.video = "end" /\ pc'.video = "saved"
      /\ NoError \/ VideoError(c)
  BY DEF VideoEnd, IInv, Typed, Places, Goto, Threads, queues, history
<1>2. /\ Len(handler.video) = 1 /\ pc.client # "post" /\ c' = c
      /\ c \in Calls /\ Latest(c) /\ c \in Begun /\ ~mEndOfAudioVideoSignal
  BY <1>1, Encoding DEF Latest, Task
<1>3. /\ Begun' = Begun /\ Begun \subseteq Calls
      /\ \A d \in Calls : /\ told[d] \subseteq told'[d]
                          /\ "saved" \in told'[d] <=> "saved" \in told[d]
                          /\ d # c => told'[d] = told[d]
      /\ \/ errorOccurred' = errorOccurred /\ told' = told
         \/ errorOccurred' /\ told'[c] = told[c] \cup {"error"}
  BY <1>1, <1>2, BegunFacts DEF NoError, VideoError, IInv, Typed, TypeOK
<1> HIDE DEF c
<1>4. Calling'
  <2>1. \A d \in Calls : told[d] = {} => told'[d] = {}
    BY <1>2, <1>3 DEF Begun
  <2>2. \A d \in Calls : d > call => told'[d] = {}
    BY <2>1 DEF IInv, Recording, Calling
  <2>3. pc.client \in {"check", "microphone", "encoders", "muxer", "begin"} => told'[call] = {}
    BY <2>1 DEF IInv, Typed, Places, Recording, Calling
  <2> QED
    BY <1>1, <1>2, <1>3, <2>2, <2>3 DEF IInv, Recording, Calling, Latest
<1>5. Tasks'
  BY <1>1, <1>2, <1>3 DEF IInv, Recording, Tasks, Latest, Before
<1>6. Keys'
  <2>1. errorOccurred \/ c \in keyed
    BY <1>1 DEF IInv, Recording, Keys, c
  <2> QED
    BY <1>1, <1>2, <1>3, <2>1 DEF IInv, Recording, Keys, c
<1>7. Outcomes'
  <2>1. /\ ~Ended(c)
        /\ \A d \in Calls : /\ Encodes(d)' <=> d = c
                            /\ Encodes(d) <=> d = c
                            /\ Ended(d)' <=> d \in Begun
                            /\ d \in Begun /\ d # c => Ended(d)
    <3>1. \A d \in Begun : Latest(d) => d = c
      BY <1>2, <1>3 DEF Latest, Calls
    <3> QED
      BY <1>1, <1>2, <1>3, <3>1 DEF Encodes, Ended, c
  <2>2. soundFailed' \subseteq {d \in Begun' : "error" \in told'[d]}
    BY <1>1, <1>3 DEF IInv, Recording, Outcomes
  <2>3. errorOccurred' => "error" \in told'[c]
    BY <1>1, <1>3 DEF IInv, Recording, Outcomes, c
  <2>4. \A d \in Calls : Ended(d)' /\ told'[d] \cap {"error", "saved"} = {} => d = c /\ ~errorOccurred'
    BY <1>1, <1>2, <1>3, <2>1, <2>3 DEF IInv, Recording, Outcomes
  <2>5. \A d \in Calls : "saved" \in told'[d] => Ended(d)'
    BY <1>3, <2>1 DEF IInv, Recording, Outcomes, Ended
  <2>6. ASSUME NEW d \in Begun' \ soundFailed', "error" \in told'[d]
        PROVE  "saved" \notin told'[d] /\ IF Encodes(d)' THEN errorOccurred' ELSE Ended(d)'
    <3>1. CASE d = c
      <4>1. "saved" \notin told'[c]
        BY <1>2, <1>3, <2>1 DEF IInv, Recording, Outcomes
      <4>2. errorOccurred'
        BY <1>1, <1>2, <1>3, <2>1, <2>6, <3>1 DEF IInv, Recording, Outcomes
      <4> QED
        BY <1>2, <2>1, <3>1, <4>1, <4>2
    <3>2. CASE d # c
      BY <1>1, <1>3, <2>1, <2>6, <3>2 DEF IInv, Recording, Outcomes
    <3> QED
      BY <3>1, <3>2
  <2> QED
    BY <1>1, <1>2, <2>2, <2>3, <2>4, <2>5, <2>6 DEF Outcomes, c
<1> QED
  BY <1>4, <1>5, <1>6, <1>7 DEF Recording

\* Once saved is told, the task is gone.
LEMMA VideoSavedStep == IInv /\ VideoSaved => Recording'
<1> SUFFICES ASSUME IInv, VideoSaved PROVE Recording'
  OBVIOUS
<1> DEFINE c == Task("video")
<1>1. /\ UNCHANGED <<keyed, errorOccurred, call, mEndOfAudioVideoSignal, mIsFirstVideoKeyFrameWrite,
                     soundFailed>>
      /\ pc'.client = pc.client /\ pc.video = "saved" /\ pc'.video = "idle"
      /\ handler.video \in Seq(Calls) /\ handler.video # <<>>
      /\ handler'.video = Tail(handler.video) /\ handler'.audio = handler.audio
  BY
  DEF VideoSaved, IInv, Typed, TypeOK, QueueTypes, Places, Goto, Threads, Tracks, signals,
      muxing, history
<1>2. c \in Begun /\ c \in Calls
  BY <1>1, BegunFacts DEF IInv, Typed, TypeOK, Recording, Tasks, Task
<1>3. IF errorOccurred THEN UNCHANGED told ELSE Tell(c, "saved")
  BY DEF VideoSaved, Tell
<1>4. /\ Begun' = Begun
      /\ \A d \in Calls : /\ told[d] = {} => told'[d] = {}
                          /\ "saved" \in told'[d] => "saved" \in told[d] \/ (d = c /\ ~errorOccurred)
  BY <1>2, <1>3, BegunFacts DEF IInv, Typed, TypeOK, Begun
<1>5. Calling'
  BY <1>1, <1>4 DEF IInv, Typed, Places, Recording, Calling, Latest
<1>6. /\ Len(handler'.video) = Len(handler.video) - 1 /\ Len(handler.video) \in Nat
      /\ \A i \in 1..Len(handler'.video) : i + 1 \in 1..Len(handler.video) /\ handler'.video[i] = handler.video[i + 1]
  BY <1>1
<1>7. Tasks'
  <2>1. Before = 1 /\ Before' = 0
    BY <1>1 DEF Before
  <2>2. \A i \in 1..Len(handler'.video) : handler'.video[i] \in Begun
    BY <1>6 DEF IInv, Recording, Tasks
  <2>3. \/ Len(handler'.video) = 0
        \/ Len(handler'.video) = 1 /\ Latest(handler'.video[1]) /\ ~mEndOfAudioVideoSignal /\ pc.client # "post"
    BY <1>6, <2>1 DEF IInv, Recording, Tasks
  <2> QED
    BY <1>1, <1>4, <2>1, <2>2, <2>3 DEF IInv, Recording, Tasks, Latest
<1>8. Keys'
  BY <1>1, <1>4 DEF IInv, Recording, Keys
<1>9. Outcomes'
  <2>1. /\ Ended(c) /\ Encodes(c) /\ Begun \subseteq Calls
        /\ \A d \in Calls : (Ended(d)' <=> Ended(d)) /\ ~Encodes(d)' /\ (Encodes(d) <=> d = c)
    <3>1. mEndOfAudioVideoSignal \/ ~Latest(c)
      BY <1>1 DEF IInv, Recording, Tasks
    <3> QED
      BY <1>1, <1>2, <1>4, <3>1, BegunFacts DEF IInv, Typed, TypeOK, Ended, Latest, Encodes
  <2> HIDE DEF c
  <2>2. /\ \A d \in Calls : /\ told[d] \subseteq told'[d]
                            /\ "error" \in told'[d] <=> "error" \in told[d]
                            /\ d # c => told'[d] = told[d]
        /\ IF errorOccurred THEN "error" \in told[c] /\ told' = told
                            ELSE "saved" \in told'[c]
    <3>1. errorOccurred => "error" \in told[c]
      BY <1>1 DEF IInv, Recording, Outcomes, c
    <3> QED
      BY <1>2, <1>3, <3>1, BegunFacts DEF IInv, Typed, TypeOK
  <2>3. soundFailed' \subseteq {d \in Begun' : "error" \in told'[d]}
    BY <1>1, <1>4, <2>1, <2>2 DEF IInv, Recording, Outcomes
  <2>4. \A d \in Calls : Ended(d)' => told'[d] \cap {"error", "saved"} # {}
    <3>1. told'[c] \cap {"error", "saved"} # {}
      BY <1>2, <2>2
    <3>2. \A d \in Calls : Ended(d) /\ d # c => told[d] \cap {"error", "saved"} # {}
      BY DEF IInv, Recording, Outcomes, c
    <3> QED
      BY <2>1, <2>2, <3>1, <3>2
  <2>5. \A d \in Calls : "saved" \in told'[d] => Ended(d)'
    BY <1>4, <2>1 DEF IInv, Recording, Outcomes
  <2>6. \A d \in Begun' \ soundFailed' : "error" \in told'[d] => "saved" \notin told'[d] /\ Ended(d)'
    BY <1>1, <1>4, <2>1, <2>2 DEF IInv, Recording, Outcomes
  <2> QED
    BY <1>1, <1>4, <2>1, <2>3, <2>4, <2>5, <2>6 DEF Outcomes
<1> QED
  BY <1>5, <1>7, <1>8, <1>9 DEF Recording

\* Every step keeps flag, tasks and key frames in accord with the recording under way.
LEMMA StepRecording == IInv /\ Next => Recording'
<1> SUFFICES ASSUME IInv, Next PROVE Recording'
  OBVIOUS
<1>a. /\ pc \in [Threads -> Labels]
      /\ handler \in [Tracks \cup {"executor"} -> Seq(Calls)]
      /\ \A h \in {"video", "audio", "executor"} : pc[h] # "idle" => handler[h] # <<>>
  BY DEF IInv, Typed, TypeOK, QueueTypes, Places
<1>1. CASE StopRecording
  BY <1>1, <1>a, Elsewhere
  DEF StopRecording, StopSignals, Goto, Threads, Tracks, signals, muxing, queues, reports,
      history
<1>2. CASE CloseStops
  BY <1>2, <1>a, Elsewhere
  DEF CloseStops, StopSignals, Goto, Threads, Tracks, signals, muxing, queues, reports, history
<1>3. CASE Release
  BY <1>3, <1>a, Elsewhere
  DEF Release, Goto, Threads, Tracks, signals, muxing, queues, reports, history
<1>4. CASE ReleaseAtOnce
  BY <1>4, <1>a, Elsewhere
  DEF ReleaseAtOnce, Goto, Threads, Tracks, signals, muxing, queues, reports, history
<1>5. CASE SignalEndOfInput
  BY <1>5, <1>a, Elsewhere
  DEF SignalEndOfInput, InLoop, Goto, Threads, Tracks, signals, muxing, queues, reports,
      history
<1>6. CASE VideoCrash
  BY <1>6, <1>a, Elsewhere
  DEF VideoCrash, Crash, Goto, Threads, Tracks, signals, muxing, queues, reports, history
<1>7. CASE AudioBegin
  BY <1>7, <1>a, Elsewhere
  DEF AudioBegin, Goto, Threads, Tracks, signals, muxing, queues, reports, history
<1>8. CASE AudioLeavesLoop
  BY <1>8, <1>a, Elsewhere
  DEF AudioLeavesLoop, Goto, Threads, Tracks, signals, muxing, queues, reports, history
<1>9. CASE EncodeAudio
  BY <1>9, <1>a, Elsewhere
  DEF EncodeAudio, AudioSignals, Goto, Threads, Tracks, signals, muxing, queues, reports,
      history
<1>10. CASE AudioFormatChanged
  BY <1>10, <1>a, Elsewhere
  DEF AudioFormatChanged, AudioSignals, AddTrack, Goto, Threads, Tracks, signals, muxing,
      queues, reports, history
<1>11. CASE AudioCrash
  BY <1>11, <1>a, Elsewhere
  DEF AudioCrash, Crash, Goto, Threads, Tracks, signals, muxing, queues, reports, history
<1>12. CASE AudioEncoderFails
  BY <1>12, <1>a, Elsewhere
  DEF AudioEncoderFails, Goto, Threads, Tracks, signals, muxing, queues, reports, history
<1>13. CASE AudioStop
  BY <1>13, <1>a, Elsewhere
  DEF AudioStop, Goto, Threads, Tracks, signals, muxing, queues, reports, history
<1>14. CASE RunFuture
  BY <1>14, <1>a, Elsewhere
  DEF RunFuture, EndFuture, Goto, Threads, Tracks, signals, muxing, queues, reports, history
<1>15. CASE SetupVideo
  BY <1>15, <1>a, Elsewhere
  DEF SetupVideo, EndFuture, Goto, Threads, Tracks, signals, muxing, queues, reports, history
<1>16. CASE SetupAudio
  BY <1>16, <1>a, Elsewhere
  DEF SetupAudio, EndFuture, Goto, Threads, Tracks, signals, muxing, queues, reports, history
<1>17. CASE SetupTracks
  BY <1>17, <1>a, Elsewhere
  DEF SetupTracks, EndFuture, Goto, Threads, Tracks, signals, muxing, queues, reports, history
<1>18. CASE CheckStart
  BY <1>18, <1>a, ClientGoesOn
  DEF CheckStart, Goto, Tracks, signals, muxing, queues, reports, history, IInv, Recording,
      Calling
<1>19. CASE StartMicrophone
  BY <1>19, <1>a, ClientGoesOn
  DEF StartMicrophone, Goto, Tracks, signals, muxing, queues, reports, history, IInv,
      Recording, Calling
<1>20. CASE StartEncoders
  BY <1>20, <1>a, ClientGoesOn
  DEF StartEncoders, FailedStart, Goto, Tracks, signals, muxing, queues, reports, history,
      IInv, Recording, Calling
<1>21. CASE CreateMuxer
  BY <1>21, <1>a, ClientGoesOn
  DEF CreateMuxer, FailedStart, Goto, Tracks, signals, muxing, queues, reports, history, IInv,
      Recording, Calling
<1>22. CASE VideoFormatChanged
  BY <1>22, <1>a, VideoGoesOn
  DEF VideoFormatChanged, InLoop, AddTrack, Goto, NoError, signals, muxing, queues, reports,
      history, IInv, Recording, Keys
<1>23. CASE WriteKeyFrame
  <2>1. pc' = [pc EXCEPT !.video = "loop"] \/ pc' = [pc EXCEPT !.video = "stop"]
    BY <1>23, <1>a DEF WriteKeyFrame, InLoop, Goto, Threads
  <2>2. errorOccurred' \/ Task("video") \in keyed'
    BY <1>23 DEF WriteKeyFrame, VideoError
  <2>3. /\ NoError \/ VideoError(Task("video"))
        /\ UNCHANGED <<mEndOfAudioVideoSignal, call, handler, soundFailed>>
        /\ keyed' \in {keyed, keyed \cup {Task("video")}}
    BY <1>23 DEF WriteKeyFrame, signals, queues, history
  <2> QED
    BY <1>23, <2>1, <2>2, <2>3, VideoGoesOn DEF WriteKeyFrame, InLoop
<1>24. CASE VideoEndOfStream
  BY <1>24, <1>a, VideoGoesOn
  DEF VideoEndOfStream, InLoop, Goto, NoError, signals, muxing, queues, reports, history, IInv,
      Recording, Keys
<1>25. CASE VideoEncodeFails
  BY <1>25, <1>a, VideoGoesOn
  DEF VideoEncodeFails, Goto, NoError, signals, muxing, queues, reports, history, IInv,
      Recording, Keys
<1>26. CASE VideoStop
  BY <1>26, <1>a, VideoGoesOn
  DEF VideoStop, Goto, NoError, signals, muxing, queues, reports, history, IInv, Recording,
      Keys
<1>27. CASE StopMuxer
  BY <1>27, <1>a, VideoGoesOn
  DEF StopMuxer, Goto, VideoError, NoError, signals, muxing, queues, reports, history, IInv,
      Recording, Keys
<1>28. CASE CheckKeyFrame
  BY <1>28, <1>a, VideoGoesOn
  DEF CheckKeyFrame, Goto, VideoError, NoError, signals, muxing, queues, reports, history,
      IInv, Recording, Keys
<1> QED
  BY <1>1, <1>2, <1>3, <1>4, <1>5, <1>6, <1>7, <1>8, <1>9, <1>10, <1>11, <1>12, <1>13, <1>14,
     <1>15, <1>16, <1>17, <1>18, <1>19, <1>20, <1>21, <1>22, <1>23, <1>24, <1>25, <1>26, <1>27,
     <1>28, StartRecordingStep, BeginRecordingStep, PostTasksStep, VideoBeginStep,
     VideoEndStep, VideoSavedStep
  DEF Next, Client, Listener, Video, Audio, Executor

-----------------------------------------------------------------------------
(* The theorems. *)

\* The inductive invariant holds of every behaviour.
THEOREM Invariance == Spec => []IInv
<1>1. Init => IInv
  BY InitTyped, InitRecording DEF IInv
<1>2. IInv /\ [Next]_vars => IInv'
  <2> SUFFICES ASSUME IInv, [Next]_vars PROVE IInv'
    OBVIOUS
  <2>1. CASE Next
    BY <2>1, StepTyped, StepRecording DEF IInv
  <2>2. CASE UNCHANGED vars
    <3>1. UNCHANGED <<signals, muxing, codecs, future, queues, pc, call, reports, errorOccurred, history, failures>>
      BY <2>2 DEF vars
    <3>2. Typed'
      BY <3>1, KeptTypes DEF IInv, Typed, TypeOK
    <3>3. Recording'
      BY <3>1, Elsewhere DEF signals, muxing, queues, reports, history
    <3> QED
      BY <3>2, <3>3 DEF IInv
  <2> QED
    BY <2>1, <2>2
<1> QED
  BY <1>1, <1>2, PTL DEF Spec

\* Type correctness, for any number of calls and of failures.
THEOREM TypeCorrect == Spec => []TypeOK
<1>1. IInv => TypeOK
  BY DEF IInv, Typed
<1> QED
  BY <1>1, Invariance, PTL

-----------------------------------------------------------------------------
(* VideoCapture implements VideoRecorder. *)

\* The status of a call without Max.
StatusIs(c) ==
  /\ c \notin Begun => told[c] \in {{}, {"error"}}
  /\ told[c] = {} => status[c] = "none"
  /\ told[c] = {"error"} => status[c] = "refused"
  /\ Latest(c) /\ ~mEndOfAudioVideoSignal => status[c] = "recording"
  /\ Ended(c) => status[c] = Outcome(c)

StatusKnown ==
  /\ status = [c \in Calls |-> status[c]]
  /\ \A c \in Calls : StatusIs(c)

\* The status of a call in terms of the latest recording, the flag and what was told.
LEMMA StatusFacts == IInv => StatusKnown
<1> SUFFICES ASSUME IInv PROVE StatusKnown
  OBVIOUS
<1>1. Begun \subseteq Calls /\ Calls \subseteq Int /\ (Begun # {} => \E c \in Begun : Latest(c))
  BY BegunFacts DEF IInv, Typed, TypeOK, Recording, Calling, Calls
<1>2. \A c \in Begun : Latest(c) => c = Max(Begun)
  <2> SUFFICES ASSUME NEW c \in Begun, Latest(c) PROVE c = Max(Begun)
    OBVIOUS
  <2>1. \A x \in Begun : (\A y \in Begun : x >= y) <=> x = c
    BY <1>1 DEF Latest
  <2> QED
    BY <2>1 DEF Max
<1>3. \A c \in Calls : UnderWay(c) <=> Latest(c) /\ ~mEndOfAudioVideoSignal
  BY <1>1, <1>2 DEF UnderWay, Latest
<1>4. \A c \in Calls : c \in Begun <=> "start" \in told[c]
  BY DEF Begun
<1>5. \A c \in Calls : c \notin Begun => told[c] \in {{}, {"error"}}
  <2>1. \A c \in Calls : told[c] \subseteq {"start", "error", "saved"}
    BY DEF IInv, Typed, TypeOK, ReportTypes
  <2>2. \A c \in Calls : "saved" \in told[c] => c \in Begun
    BY DEF IInv, Recording, Outcomes, Ended
  <2> QED
    BY <1>4, <2>1, <2>2
<1>6. ASSUME NEW c \in Calls PROVE StatusIs(c)
  <2>1. status[c] = IF told[c] = {} THEN "none" ELSE IF told[c] = {"error"} THEN "refused"
                    ELSE IF UnderWay(c) THEN "recording" ELSE Outcome(c)
    BY DEF status
  <2>2. Latest(c) \/ Ended(c) => told[c] # {} /\ told[c] # {"error"}
    BY <1>4 DEF Latest, Ended
  <2>3. Ended(c) => ~UnderWay(c)
    BY <1>3 DEF Ended
  <2> HIDE DEF status
  <2> QED
    BY <1>3, <1>5, <2>1, <2>2, <2>3 DEF StatusIs
<1>7. status = [c \in Calls |-> status[c]]
  BY DEF status
<1> QED
  BY <1>6, <1>7 DEF StatusKnown

\* The same after a step.
LEMMA NextStatusFacts == IInv' => StatusKnown'
BY StatusFacts, PTL

\* A step that changes nothing a status depends on.
LEMMA SameStatus ==
  ASSUME IInv, IInv', UNCHANGED mEndOfAudioVideoSignal, Begun' = Begun,
         \A d \in Calls : d \notin Begun => told'[d] = told[d],
         \A d \in Calls : Ended(d) => Outcome(d)' = Outcome(d)
  PROVE  status' = status
<1>1. StatusKnown /\ StatusKnown'
  BY StatusFacts, NextStatusFacts
<1>2. \A d \in Calls : (Latest(d)' <=> Latest(d)) /\ (Ended(d)' <=> Ended(d))
  BY DEF Latest, Ended
<1>3. ASSUME NEW d \in Calls PROVE status'[d] = status[d]
  <2>1. StatusIs(d) /\ StatusIs(d)'
    BY <1>1 DEF StatusKnown
  <2>2. CASE d \notin Begun
    BY <2>1, <2>2 DEF StatusIs
  <2>3. CASE Latest(d) /\ ~mEndOfAudioVideoSignal
    BY <1>2, <2>1, <2>3 DEF StatusIs
  <2>4. CASE Ended(d)
    BY <1>2, <2>1, <2>4 DEF StatusIs
  <2> QED
    BY <2>2, <2>3, <2>4 DEF Ended
<1> QED
  BY <1>1, <1>3 DEF StatusKnown

\* A step within a task of the video thread, or of another thread.
LEMMA Stutter ==
  ASSUME IInv, IInv', UNCHANGED mEndOfAudioVideoSignal,
         UNCHANGED told \/ (\E c \in Begun : ~Ended(c) /\ Tell(c, "error")),
         pc'.video = "saved" <=> pc.video = "saved",
         pc.video = "saved" => Task("video")' = Task("video") /\ errorOccurred' = errorOccurred
  PROVE  status' = status
<1>1. /\ Begun' = Begun
      /\ \A d \in Calls : /\ "saved" \in told'[d] <=> "saved" \in told[d]
                          /\ d \notin Begun \/ Ended(d) => told'[d] = told[d]
  BY BegunFacts DEF IInv, Typed, TypeOK, Begun
<1>2. \A d \in Calls : Saved(d)' <=> Saved(d)
  BY <1>1 DEF Saved
<1>3. \A d \in Calls : Ended(d) => Outcome(d)' = Outcome(d)
  BY <1>1, <1>2 DEF Outcome
<1> QED
  BY <1>1, <1>3, SameStatus

\* onError of the audio, before the video has ended or after it.
LEMMA SoundFailing ==
  ASSUME IInv, IInv', NEW c \in Begun, Tell(c, "error"), soundFailed' = soundFailed \cup {c},
         UNCHANGED <<mEndOfAudioVideoSignal, errorOccurred, keyed>>,
         pc'.video = pc.video, handler'.video = handler.video
  PROVE  Recorder!SoundFails(c)
<1>1. /\ c \in Calls /\ Begun' = Begun
      /\ \A d \in Calls : /\ "saved" \in told'[d] <=> "saved" \in told[d]
                          /\ d # c => told'[d] = told[d]
      /\ "error" \in told'[c] /\ "start" \in told[c] /\ "start" \in told'[c]
  BY BegunFacts DEF IInv, Typed, TypeOK, Begun
<1>2. \A d \in Calls : (Saved(d)' <=> Saved(d)) /\ (Latest(d)' <=> Latest(d)) /\ (Ended(d)' <=> Ended(d))
  BY <1>1 DEF Saved, Task, Latest, Ended
<1>3. StatusKnown /\ StatusKnown'
  BY StatusFacts, NextStatusFacts
<1>4. ASSUME NEW d \in Calls, d # c PROVE status'[d] = status[d]
  <2>1. StatusIs(d) /\ StatusIs(d)'
    BY <1>3 DEF StatusKnown
  <2>2. CASE d \notin Begun
    BY <1>1, <1>4, <2>1, <2>2 DEF StatusIs
  <2>3. CASE Latest(d) /\ ~mEndOfAudioVideoSignal
    BY <1>2, <2>1, <2>3 DEF StatusIs
  <2>4. CASE Ended(d)
    <3>1. Outcome(d)' = Outcome(d)
      BY <1>1, <1>2, <1>4 DEF Outcome
    <3> QED
      BY <1>2, <2>1, <2>4, <3>1 DEF StatusIs
  <2> QED
    BY <2>2, <2>3, <2>4 DEF Ended
<1>5. /\ status[c] \notin {"none", "refused"}
      /\ status'[c] = IF status[c] = "saved" THEN "savedDespiteError" ELSE status[c]
  <2>1. StatusIs(c) /\ StatusIs(c)'
    BY <1>1, <1>3 DEF StatusKnown
  <2>2. CASE Latest(c) /\ ~mEndOfAudioVideoSignal
    BY <1>1, <1>2, <2>1, <2>2 DEF StatusIs
  <2>3. CASE Ended(c)
    <3>1. status[c] = Outcome(c) /\ status'[c] = IF Saved(c) THEN "savedDespiteError" ELSE "failed"
      BY <1>1, <1>2, <2>1, <2>3 DEF StatusIs, Outcome
    <3>2. "error" \in told[c] \/ Saved(c)
      BY <1>1, <2>3 DEF IInv, Recording, Outcomes, Saved
    <3> QED
      BY <3>1, <3>2 DEF Outcome
  <2> QED
    BY <2>2, <2>3 DEF Ended
<1>6. status' = [status EXCEPT ![c] = IF @ = "saved" THEN "savedDespiteError" ELSE @]
  BY <1>1, <1>3, <1>4, <1>5 DEF StatusKnown
<1> QED
  BY <1>5, <1>6 DEF Recorder!SoundFails

\* onError before onStart
LEMMA Refused ==
  ASSUME IInv, IInv', pc.client \in {"check", "encoders", "muxer"}, Tell(call, "error"),
         UNCHANGED <<mEndOfAudioVideoSignal, errorOccurred, keyed, soundFailed, call>>,
         pc'.video = pc.video, handler'.video = handler.video
  PROVE  Recorder!Refuse(call)
<1>1. call \in Calls /\ told[call] = {}
  BY DEF IInv, Typed, Places, Recording, Calling
<1>2. /\ Begun' = Begun /\ call \notin Begun
      /\ \A d \in Calls : d # call => told'[d] = told[d]
      /\ told'[call] = {"error"}
  BY <1>1, BegunFacts DEF IInv, Typed, TypeOK, Begun
<1>3. StatusKnown /\ StatusKnown'
  BY StatusFacts, NextStatusFacts
<1>4. \A d \in Calls : /\ d # call => Outcome(d)' = Outcome(d)
                      /\ (Latest(d)' <=> Latest(d)) /\ (Ended(d)' <=> Ended(d))
  <2>1. \A d \in Calls : d # call => (Saved(d)' <=> Saved(d))
    BY <1>2 DEF Saved, Task
  <2> QED
    BY <1>2, <2>1 DEF Outcome, Latest, Ended
<1>5. ASSUME NEW d \in Calls, d # call PROVE status'[d] = status[d]
  <2>1. StatusIs(d) /\ StatusIs(d)'
    BY <1>3 DEF StatusKnown
  <2>2. CASE d \notin Begun
    BY <1>2, <1>5, <2>1, <2>2 DEF StatusIs
  <2>3. CASE Latest(d) /\ ~mEndOfAudioVideoSignal
    BY <1>4, <2>1, <2>3 DEF StatusIs
  <2>4. CASE Ended(d)
    BY <1>4, <1>5, <2>1, <2>4 DEF StatusIs
  <2> QED
    BY <2>2, <2>3, <2>4 DEF Ended
<1>6. status[call] = "none" /\ status'[call] = "refused"
  <2>1. StatusIs(call) /\ StatusIs(call)'
    BY <1>1, <1>3 DEF StatusKnown
  <2> QED
    BY <1>1, <1>2, <2>1 DEF StatusIs
<1>7. status' = [status EXCEPT ![call] = "refused"]
  BY <1>3, <1>5, <1>6 DEF StatusKnown
<1> QED
  BY <1>6, <1>7 DEF Recorder!Refuse

\* onStart
LEMMA Begins == IInv /\ IInv' /\ BeginRecording => Recorder!Begin(call)
<1> SUFFICES ASSUME IInv, IInv', BeginRecording PROVE Recorder!Begin(call)
  OBVIOUS
<1>1. /\ call' = call /\ call \in Calls /\ Calls \subseteq Int
      /\ UNCHANGED <<keyed, errorOccurred, handler, soundFailed>>
      /\ mEndOfAudioVideoSignal /\ ~mEndOfAudioVideoSignal'
      /\ pc'.video = pc.video /\ pc'.client = "post"
      /\ Tell(call, "start") /\ told[call] = {}
  BY
  DEF BeginRecording, IInv, Typed, TypeOK, PlaceTypes, Places, Goto, Threads, Calls, muxing,
      queues, history, Recording, Calling
<1>2. /\ Begun' = Begun \cup {call} /\ Begun \subseteq Calls /\ call \notin Begun
      /\ \A d \in Calls : d # call => told'[d] = told[d]
      /\ told'[call] = {"start"}
  BY <1>1, BegunFacts DEF IInv, Typed, TypeOK, Begun
<1>3. StatusKnown /\ StatusKnown'
  BY StatusFacts, NextStatusFacts
<1>4. /\ Latest(call)'
      /\ \A d \in Calls : d # call => /\ Outcome(d)' = Outcome(d)
                                      /\ (Ended(d)' <=> d \in Begun) /\ (Ended(d) <=> d \in Begun)
  <2>1. Latest(call)'
    BY <1>1 DEF IInv, Recording, Calling
  <2>2. \A d \in Begun : d <= call
    BY <1>1, <1>2, <2>1 DEF Latest
  <2>3. \A d \in Calls : d # call => ~Latest(d)'
    BY <1>1, <1>2, <2>1, <2>2 DEF Latest
  <2>4. ASSUME NEW d \in Calls, d # call PROVE Outcome(d)' = Outcome(d)
    <3>1. Saved(d)' <=> Saved(d)
      BY <1>1, <1>2, <2>4 DEF Saved, Task
    <3>2. told'[d] = told[d]
      BY <1>2, <2>4
    <3> QED
      BY <3>1, <3>2 DEF Outcome
  <2>5. ASSUME NEW d \in Calls, d # call
        PROVE  (Ended(d)' <=> d \in Begun) /\ (Ended(d) <=> d \in Begun)
    BY <1>1, <1>2, <2>3, <2>5 DEF Ended
  <2> QED
    BY <2>1, <2>4, <2>5
<1>5. ASSUME NEW d \in Calls, d # call PROVE status'[d] = status[d] /\ status[d] # "recording"
  <2>1. StatusIs(d) /\ StatusIs(d)'
    BY <1>3 DEF StatusKnown
  <2>2. Outcome(d) # "recording"
    BY DEF Outcome
  <2> QED
    BY <1>1, <1>2, <1>4, <1>5, <2>1, <2>2 DEF StatusIs
<1>6. status[call] = "none" /\ status'[call] = "recording"
  <2>1. StatusIs(call) /\ StatusIs(call)'
    BY <1>1, <1>3 DEF StatusKnown
  <2> QED
    BY <1>1, <1>2, <1>4, <2>1 DEF StatusIs
<1>7. status' = [status EXCEPT ![call] = "recording"]
  BY <1>3, <1>5, <1>6 DEF StatusKnown
<1> QED
  BY <1>1, <1>5, <1>6, <1>7 DEF Recorder!Begin

\* The key frame, or an error that comes before it.
LEMMA Writes == IInv /\ IInv' /\ WriteKeyFrame => [Recorder!Next]_<<status, keyed, soundFailed>>
<1> SUFFICES ASSUME IInv, IInv', WriteKeyFrame PROVE [Recorder!Next]_<<status, keyed, soundFailed>>
  OBVIOUS
<1> DEFINE c == Task("video")
<1>1. /\ pc.video = "loop" /\ UNCHANGED <<mEndOfAudioVideoSignal, handler, soundFailed>>
      /\ pc'.video # "saved"
      /\ NoError \/ VideoError(c)
      /\ keyed' = keyed \/ keyed' = keyed \cup {c}
  BY DEF WriteKeyFrame, InLoop, IInv, Typed, Places, Threads, Goto, signals, queues, history
<1>2. Latest(c) /\ ~mEndOfAudioVideoSignal /\ c \in Calls
  BY <1>1, Encoding
<1>3. status' = status
  BY <1>1, <1>2, Stutter DEF NoError, VideoError, Latest, Ended
<1>4. status[c] = "recording"
  BY <1>2, StatusFacts DEF StatusKnown, StatusIs
<1>5. c \notin keyed /\ keyed' = keyed \cup {c} => Recorder!WriteKeyFrame(c)
  BY <1>1, <1>3, <1>4 DEF Recorder!WriteKeyFrame
<1> QED
  BY <1>1, <1>2, <1>3, <1>5 DEF Recorder!Next

\* The end of videoEncode
LEMMA Finishes == IInv /\ IInv' /\ VideoEnd => Recorder!Finish(Task("video"))
<1> SUFFICES ASSUME IInv, IInv', VideoEnd PROVE Recorder!Finish(Task("video"))
  OBVIOUS
<1> DEFINE c == Task("video")
<1>0. keyed' = keyed /\ handler' = handler /\ soundFailed' = soundFailed
  BY DEF VideoEnd, queues, history
<1>1. /\ UNCHANGED <<keyed, handler, soundFailed>> /\ (NoError \/ VideoError(c))
      /\ mEndOfAudioVideoSignal' /\ pc.video = "end" /\ pc'.video = "saved"
  BY DEF VideoEnd, IInv, Typed, Places, Goto, Threads, queues, history
<1>2. Latest(c) /\ ~mEndOfAudioVideoSignal /\ c \in Calls /\ c \in Begun
  BY <1>1, Encoding DEF Latest
<1>3. /\ Begun' = Begun /\ Task("video")' = c /\ Begun \subseteq Calls
      /\ \A d \in Calls : d # c => told'[d] = told[d]
      /\ "saved" \in told'[c] <=> "saved" \in told[c]
      /\ ~errorOccurred' => told' = told /\ ~errorOccurred
  <2>1. Task("video")' = c
    BY <1>0 DEF Task
  <2> HIDE DEF c
  <2>2. (UNCHANGED told \/ Tell(c, "error")) /\ (~errorOccurred' => told' = told /\ ~errorOccurred)
    BY <1>1 DEF NoError, VideoError
  <2> QED
    BY <1>2, <2>1, <2>2, BegunFacts DEF IInv, Typed, TypeOK
<1>4. StatusKnown /\ StatusKnown'
  BY StatusFacts, NextStatusFacts
<1>5. \A d \in Calls : (Ended(d)' <=> d \in Begun) /\ (d # c /\ d \in Begun => Ended(d))
  <2>1. \A d \in Begun : Latest(d) => d = c
    BY <1>2, <1>3 DEF Latest, Calls
  <2> QED
    BY <1>1, <1>3, <2>1 DEF Ended
<1>6. ASSUME NEW d \in Calls, d # c PROVE status'[d] = status[d]
  <2>1. StatusIs(d) /\ StatusIs(d)'
    BY <1>4 DEF StatusKnown
  <2>2. CASE d \notin Begun
    BY <1>3, <1>6, <2>1, <2>2 DEF StatusIs
  <2>3. CASE d \in Begun
    <3>1. Outcome(d)' = Outcome(d)
      BY <1>1, <1>3, <1>6 DEF Outcome, Saved
    <3> QED
      BY <1>5, <1>6, <2>1, <2>3, <3>1 DEF StatusIs
  <2> QED
    BY <2>2, <2>3
<1>7. status[c] = "recording"
  BY <1>2, <1>4 DEF StatusKnown, StatusIs
<1>8. "saved" \notin told'[c]
  BY <1>2, <1>3 DEF IInv, Recording, Outcomes, Ended
<1>9. status'[c] = Outcome(c)'
  <2>1. StatusIs(c)' /\ Ended(c)'
    BY <1>2, <1>3, <1>4, <1>5 DEF StatusKnown
  <2> QED
    BY <2>1, <1>3 DEF StatusIs
<1>10. status' = [status EXCEPT ![c] = status'[c]]
  BY <1>4, <1>6 DEF StatusKnown
<1>11. CASE errorOccurred'
  <2>1. "error" \in told'[c]
    BY <1>1, <1>3, <1>11 DEF IInv, Recording, Outcomes
  <2>2. status'[c] = "failed"
    BY <1>3, <1>8, <1>9, <1>11, <2>1 DEF Outcome, Saved
  <2>3. status' = [status EXCEPT ![c] = "failed"]
    BY <1>10, <2>2
  <2> HIDE DEF c
  <2>4. Recorder!Finish(c)
    BY <1>0, <1>7, <2>3 DEF Recorder!Finish
  <2> QED
    BY <2>4 DEF c
<1>12. CASE ~errorOccurred'
  <2>1. told' = told /\ ~errorOccurred /\ c \in keyed
    BY <1>1, <1>3, <1>12 DEF IInv, Recording, Keys
  <2>2. "error" \in told'[c] <=> c \in soundFailed
    BY <1>1, <1>2, <2>1 DEF IInv, Recording, Outcomes, Encodes
  <2>3. status'[c] = IF c \in soundFailed THEN "savedDespiteError" ELSE "saved"
    BY <1>1, <1>3, <1>9, <1>12, <2>2 DEF Outcome, Saved
  <2>4. status' = [status EXCEPT ![c] = IF c \in soundFailed THEN "savedDespiteError" ELSE "saved"]
    BY <1>10, <2>3
  <2> HIDE DEF c
  <2>5. Recorder!Finish(c)
    BY <1>0, <1>7, <2>1, <2>4 DEF Recorder!Finish
  <2> QED
    BY <2>5 DEF c
<1> QED
  BY <1>11, <1>12

\* Telling that a recording was saved does not change the status it already had.
LEMMA Saves == IInv /\ IInv' /\ VideoSaved => status' = status
<1> SUFFICES ASSUME IInv, IInv', VideoSaved PROVE status' = status
  OBVIOUS
<1> DEFINE c == Task("video")
<1>1. /\ UNCHANGED mEndOfAudioVideoSignal /\ pc.video = "saved" /\ pc'.video = "idle"
      /\ UNCHANGED told \/ (~errorOccurred /\ Tell(c, "saved"))
      /\ errorOccurred => UNCHANGED told
      /\ ~errorOccurred => Tell(c, "saved")
      /\ UNCHANGED errorOccurred
  BY DEF VideoSaved, IInv, Typed, Places, Goto, Threads, Tell, signals
<1>2. c \in Begun /\ c \in Calls
  BY <1>1, VideoTask
<1>3. /\ Begun' = Begun
      /\ \A d \in Calls : /\ d \notin Begun => told'[d] = told[d]
                          /\ "error" \in told'[d] <=> "error" \in told[d]
                          /\ "saved" \in told'[d] <=> "saved" \in told[d] \/ (d = c /\ ~errorOccurred)
  BY <1>1, <1>2, BegunFacts DEF IInv, Typed, TypeOK
<1>4. \A d \in Calls : Outcome(d)' = Outcome(d)
  BY <1>1, <1>3 DEF Saved, Outcome
<1> QED
  BY <1>1, <1>3, <1>4, SameStatus

\* Every step of VideoCapture is a step of VideoRecorder or changes nothing of it.
LEMMA StepRefines == IInv /\ IInv' /\ Next => [Recorder!Next]_<<status, keyed, soundFailed>>
<1> SUFFICES ASSUME IInv, IInv', Next PROVE [Recorder!Next]_<<status, keyed, soundFailed>>
  OBVIOUS
<1>a. /\ pc \in [Threads -> Labels]
      /\ handler \in [Tracks \cup {"executor"} -> Seq(Calls)]
      /\ call \in Calls \/ pc.client = "idle"
      /\ pc.audio # "idle" => Task("audio") \in Begun
      /\ pc.video \in {"loop", "stop", "muxer", "check"} =>
           Task("video") \in Begun /\ ~Ended(Task("video"))
  BY Encoding
  DEF IInv, Typed, TypeOK, QueueTypes, Places, Recording, Tasks, Task, Tracks, Latest, Ended
<1>1. CASE StartRecording
  BY <1>1, <1>a, Stutter
  DEF StartRecording, Goto, Threads, Tracks, Task, signals, muxing, queues, reports, history
<1>2. CASE StopRecording
  BY <1>2, <1>a, Stutter
  DEF StopRecording, StopSignals, Goto, Threads, Tracks, Task, signals, muxing, queues,
      reports, history
<1>3. CASE CloseStops
  BY <1>3, <1>a, Stutter
  DEF CloseStops, StopSignals, Goto, Threads, Tracks, Task, signals, muxing, queues, reports,
      history
<1>4. CASE CheckStart
  BY <1>4, <1>a, Stutter, Refused
  DEF CheckStart, Recorder!Next, Goto, Threads, Tracks, Task, signals, muxing, queues, reports,
      history
<1>5. CASE StartMicrophone
  BY <1>5, <1>a, Stutter
  DEF StartMicrophone, Goto, Threads, Tracks, Task, signals, muxing, queues, reports, history
<1>6. CASE StartEncoders
  BY <1>6, <1>a, Stutter, Refused
  DEF StartEncoders, FailedStart, Recorder!Next, Goto, Threads, Tracks, Task, signals, muxing,
      queues, reports, history
<1>7. CASE CreateMuxer
  BY <1>7, <1>a, Stutter, Refused
  DEF CreateMuxer, FailedStart, Recorder!Next, Goto, Threads, Tracks, Task, signals, muxing,
      queues, reports, history
<1>8. CASE PostTasks
  <2>1. /\ handler'.video \in {handler.video, Append(handler.video, call)}
        /\ handler.video \in Seq(Calls) /\ call \in Calls
        /\ UNCHANGED <<told, mEndOfAudioVideoSignal, errorOccurred, keyed, soundFailed>> /\ pc'.video = pc.video
    BY <1>8, <1>a
    DEF PostTasks, Posted, Goto, Threads, Tracks, signals, muxing, reports, history
  <2>2. pc.video = "saved" => handler.video # <<>>
    BY DEF IInv, Typed, Places
  <2>3. \A q \in Seq(Calls) : q # <<>> => Head(Append(q, call)) = Head(q)
    BY <2>1
  <2> QED
    BY <2>1, <2>2, <2>3, Stutter DEF Task
<1>9. CASE Release
  BY <1>9, <1>a, Stutter
  DEF Release, Goto, Threads, Tracks, Task, signals, muxing, queues, reports, history
<1>10. CASE ReleaseAtOnce
  BY <1>10, <1>a, Stutter
  DEF ReleaseAtOnce, Goto, Threads, Tracks, Task, signals, muxing, queues, reports, history
<1>11. CASE VideoBegin
  BY <1>11, <1>a, Stutter
  DEF VideoBegin, Goto, Threads, Tracks, Task, signals, muxing, queues, reports, history
<1>12. CASE SignalEndOfInput
  BY <1>12, <1>a, Stutter
  DEF SignalEndOfInput, InLoop, Goto, Threads, Tracks, Task, signals, muxing, queues, reports,
      history
<1>13. CASE VideoFormatChanged
  BY <1>13, <1>a, Stutter
  DEF VideoFormatChanged, InLoop, AddTrack, NoError, VideoError, Goto, Threads, Tracks, Task,
      signals, muxing, queues, reports, history
<1>14. CASE VideoEndOfStream
  BY <1>14, <1>a, Stutter
  DEF VideoEndOfStream, InLoop, NoError, VideoError, Goto, Threads, Tracks, Task, signals,
      muxing, queues, reports, history
<1>15. CASE VideoEncodeFails
  BY <1>15, <1>a, Stutter
  DEF VideoEncodeFails, NoError, VideoError, Goto, Threads, Tracks, Task, signals, muxing,
      queues, reports, history
<1>16. CASE VideoStop
  BY <1>16, <1>a, Stutter
  DEF VideoStop, NoError, VideoError, Goto, Threads, Tracks, Task, signals, muxing, queues,
      reports, history
<1>17. CASE VideoCrash
  BY <1>17, <1>a, Stutter
  DEF VideoCrash, Crash, Goto, Threads, Tracks, Task, signals, muxing, queues, reports, history
<1>18. CASE StopMuxer
  BY <1>18, <1>a, Stutter
  DEF StopMuxer, NoError, VideoError, Goto, Threads, Tracks, Task, signals, muxing, queues,
      reports, history
<1>19. CASE CheckKeyFrame
  BY <1>19, <1>a, Stutter
  DEF CheckKeyFrame, NoError, VideoError, Goto, Threads, Tracks, Task, signals, muxing, queues,
      reports, history
<1>20. CASE AudioBegin
  BY <1>20, <1>a, Stutter
  DEF AudioBegin, Goto, Threads, Tracks, Task, signals, muxing, queues, reports, history
<1>21. CASE AudioLeavesLoop
  BY <1>21, <1>a, Stutter
  DEF AudioLeavesLoop, Goto, Threads, Tracks, Task, signals, muxing, queues, reports, history
<1>22. CASE EncodeAudio
  BY <1>22, <1>a, Stutter
  DEF EncodeAudio, AudioSignals, Goto, Threads, Tracks, Task, signals, muxing, queues, reports,
      history
<1>23. CASE AudioFormatChanged
  BY <1>23, <1>a, Stutter
  DEF AudioFormatChanged, AudioSignals, AddTrack, Goto, Threads, Tracks, Task, signals, muxing,
      queues, reports, history
<1>24. CASE AudioCrash
  BY <1>24, <1>a, Stutter
  DEF AudioCrash, Crash, Goto, Threads, Tracks, Task, signals, muxing, queues, reports, history
<1>25. CASE AudioEncoderFails
  BY <1>25, <1>a, Stutter
  DEF AudioEncoderFails, Goto, Threads, Tracks, Task, signals, muxing, queues, reports, history
<1>26. CASE AudioStop
  <2>1. /\ Task("audio") \in Begun /\ Task("audio") \in Calls
        /\ pc'.video = pc.video /\ handler'.video = handler.video
        /\ UNCHANGED <<mEndOfAudioVideoSignal, errorOccurred, keyed>>
    BY <1>26, <1>a, BegunFacts
    DEF AudioStop, Goto, Threads, Tracks, muxing, IInv, Typed, TypeOK
  <2>2. CASE UNCHANGED <<told, soundFailed>>
    BY <2>1, <2>2, Stutter DEF Task
  <2>3. CASE Tell(Task("audio"), "error") /\ soundFailed' = soundFailed \cup {Task("audio")}
    BY <2>1, <2>3, SoundFailing DEF Recorder!Next
  <2> QED
    BY <1>26, <2>2, <2>3 DEF AudioStop
<1>27. CASE RunFuture
  BY <1>27, <1>a, Stutter
  DEF RunFuture, EndFuture, Goto, Threads, Tracks, Task, signals, muxing, queues, reports,
      history
<1>28. CASE SetupVideo
  BY <1>28, <1>a, Stutter
  DEF SetupVideo, EndFuture, Goto, Threads, Tracks, Task, signals, muxing, queues, reports,
      history
<1>29. CASE SetupAudio
  BY <1>29, <1>a, Stutter
  DEF SetupAudio, EndFuture, Goto, Threads, Tracks, Task, signals, muxing, queues, reports,
      history
<1>30. CASE SetupTracks
  BY <1>30, <1>a, Stutter
  DEF SetupTracks, EndFuture, Goto, Threads, Tracks, Task, signals, muxing, queues, reports,
      history
<1>31. CASE BeginRecording
  <2>1. call \in Calls
    BY <1>31, <1>a DEF BeginRecording
  <2> QED
    BY <1>31, <2>1, Begins DEF Recorder!Next
<1>32. CASE VideoEnd
  <2>1. Task("video") \in Calls
    BY <1>32, Encoding DEF VideoEnd
  <2> QED
    BY <1>32, <2>1, Finishes DEF Recorder!Next
<1>33. CASE VideoSaved
  BY <1>33, Saves DEF VideoSaved, muxing, history
<1> QED
  BY <1>1, <1>2, <1>3, <1>4, <1>5, <1>6, <1>7, <1>8, <1>9, <1>10, <1>11, <1>12, <1>13, <1>14,
     <1>15, <1>16, <1>17, <1>18, <1>19, <1>20, <1>21, <1>22, <1>23, <1>24, <1>25, <1>26, <1>27,
     <1>28, <1>29, <1>30, <1>31, <1>32, <1>33, Writes
  DEF Next, Client, Listener, Video, Audio, Executor

\* VideoCapture implements VideoRecorder: whatever fails and however calls, closing and
\* the encoding threads overlap, there is one recording at a time, each that ends is told
\* onVideoSaved, and then it can be played, or onError, and none is told both but one
\* whose sound could not be stopped.
THEOREM Implementation == CaptureSpec => ImplementsRecorder
<1>1. Init => Recorder!Init
  <2> SUFFICES ASSUME Init PROVE Recorder!Init
    OBVIOUS
  <2>1. StatusKnown /\ \A c \in Calls : told[c] = {}
    BY InitTyped, InitRecording, StatusFacts DEF IInv, Init
  <2>2. \A c \in Calls : status[c] = "none"
    BY <2>1 DEF StatusKnown, StatusIs
  <2>3. status = [c \in Calls |-> "none"]
    BY <2>1, <2>2 DEF StatusKnown
  <2> QED
    BY <2>3 DEF Init, Recorder!Init
<1>2. IInv /\ IInv' /\ [Next]_vars => [Recorder!Next]_<<status, keyed, soundFailed>>
  <2> SUFFICES ASSUME IInv, IInv', UNCHANGED vars PROVE UNCHANGED <<status, keyed, soundFailed>>
    BY StepRefines
  <2> QED
    BY Stutter DEF vars, signals, muxing, queues, reports, history, Task
<1>3. IInv /\ IInv' /\ [Next]_vars => [Recorder!Next]_(Recorder!vars)
  BY <1>2 DEF Recorder!vars
<1> QED
  BY <1>1, <1>3, Invariance, PTL DEF CaptureSpec, Spec, ImplementsRecorder, Recorder!Spec
=============================================================================
