--------------------------- MODULE CameraPreview ---------------------------
(***************************************************************************)
(* An open camera and its renderer: CameraInternal (startPreview,          *)
(* stopPreview, addSurface, takePicture, release) with RendererHolder, its *)
(* GL thread and that thread's message queue. Four threads: "async" runs   *)
(* the helper's calls, "recorder" is VideoCapture's, "listener" releases   *)
(* the camera, "gl" handles messages. CameraInternal.class and mLock are   *)
(* kept as owners, since they are held over several steps and taken in     *)
(* both orders; sections on mSlaveSurfaces are atomic and cut at wait.     *)
(* Drawing is a failure of GL at most. A surface is a number, new for each *)
(* creation; 0 is null.                                                    *)
(***************************************************************************)
EXTENDS Integers, SequencesExt

CONSTANTS MaxCalls,    \* calls of async
          MaxRecorder, \* calls of recorder
          MaxFaults    \* failures of drawing

ASSUME PreviewAssumption == MaxCalls \in Nat /\ MaxRecorder \in Nat /\ MaxFaults \in Nat

Threads == {"async", "recorder", "listener", "gl"}
Slaves  == {"async", "recorder"}   \* the surface each of them adds and removes
None    == "none"

VARIABLES
  pc,
  camera, lock,        \* owners of CameraInternal.class and of mLock
  awaiting,            \* threads in mCreatePrimarySurfaceCondition.await
  waiting,             \* threads in mSlaveSurfaces.wait
  queue, quit,         \* the GL thread's messages; quitSafely was called
  sizeSet,             \* the renderer has the camera's preview size
  mPrimarySurface, made, \* the surface; how many were created
  mSlaveSurfaces,
  mUVCCamera, mRendererHolder, mImageCapture, \* they are not null
  mIsPreviewing,
  streaming, display,  \* the native preview runs; its window
  surface,             \* local of startPreview: getPrimarySurface's result
  calls, faults,
  removed,  \* history: surfaces whose removal has returned
  picture,  \* history: what became of a picture
  missed,   \* history: a surface was created while a start was between reading the old
            \* one and setting mIsPreviewing
  cut,      \* history: a wait on mSlaveSurfaces ended before its message was handled, or
            \* began after the looper had quit
  behind    \* history: something was sent while a release was in the queue

lockVars   == <<camera, lock, awaiting, waiting>>
glVars     == <<sizeSet, mPrimarySurface, made, mSlaveSurfaces, faults>>
queueVars  == <<queue, quit, behind>>
cameraVars == <<mUVCCamera, mRendererHolder, mImageCapture, mIsPreviewing, streaming, display, surface>>
clientVars == <<calls, removed, picture>>
vars == <<pc, lockVars, glVars, queueVars, cameraVars, clientVars, missed, cut>>

\* The camera was opened; the GL thread may not have come to REQUEST_INIT yet, and the
\* camera's size may be the renderer's initial one.
Init ==
  /\ pc = [t \in Threads |-> IF t = "gl" THEN "loop" ELSE "idle"]
  /\ camera = None /\ lock = None /\ awaiting = {} /\ waiting = {}
  /\ queue = <<<<"init">>>> /\ quit = FALSE
  /\ sizeSet \in BOOLEAN
  /\ mPrimarySurface = 0 /\ made = 0 /\ mSlaveSurfaces = {}
  /\ mUVCCamera = TRUE /\ mRendererHolder = TRUE /\ mImageCapture = TRUE
  /\ mIsPreviewing = FALSE /\ streaming = FALSE /\ display = 0
  /\ surface = [t \in Threads |-> 0]
  /\ calls = [t \in Slaves |-> 0] /\ faults = 0
  /\ removed = {} /\ picture = "none"
  /\ missed = FALSE /\ cut = FALSE /\ behind = FALSE

At(t, from, to) == pc[t] = from /\ pc' = [pc EXCEPT ![t] = to]

\* A looper that was quit takes no more messages.
Send(messages) ==
  /\ queue' = IF quit THEN queue ELSE queue \o messages
  /\ behind' = (behind \/ (~quit /\ Contains(queue, <<"release">>)))
  /\ UNCHANGED quit

-----------------------------------------------------------------------------
(* CameraInternal.startPreview, on async or, when the surface was created anew, on gl. *)

Return(t) == IF t = "gl" THEN "unlock" ELSE "idle"

\* updatePrimarySize has nothing to do if the size is the renderer's.
StartEnter(t) ==
  /\ camera = None
  /\ IF mUVCCamera THEN At(t, "start", IF sizeSet THEN "primary" ELSE "lockSize") /\ camera' = t
                   ELSE At(t, "start", Return(t)) /\ UNCHANGED camera
  /\ UNCHANGED <<lock, awaiting, waiting, glVars, queueVars, cameraVars, clientVars, missed, cut>>

\* checkPrimarySurface
StartPrimary(t) ==
  /\ At(t, "primary", IF mPrimarySurface # 0 THEN "read" ELSE "lockPrimary")
  /\ UNCHANGED <<lockVars, glVars, queueVars, cameraVars, clientVars, missed, cut>>

\* Either sends its request under mLock and awaits, which gives the lock back (all of it,
\* also gl's hold around the callback).
Await(t, from, to, messages) ==
  /\ At(t, from, to)
  /\ lock \in {None, t} /\ lock' = None
  /\ awaiting' = awaiting \cup {t}
  /\ Send(messages)
  /\ UNCHANGED <<camera, waiting, glVars, cameraVars, clientVars, missed, cut>>

\* Mutant: the size is sent, the surface is not asked for.
AwaitSize_Only(t) == Await(t, "lockSize", "awaitSize", <<<<"size">>>>)
AwaitSize(t) == Await(t, "lockSize", "awaitSize", <<<<"size">>, <<"recreate">>>>)
AwaitPrimary(t) == Await(t, "lockPrimary", "awaitPrimary", <<<<"recreate">>>>)

\* Woken, with mLock taken back; only gl held it before.
Woken(t) ==
  /\ \/ At(t, "awaitSize", "primary")
     \/ At(t, "awaitPrimary", "read")
  /\ t \notin awaiting /\ lock = None
  /\ lock' = IF t = "gl" THEN t ELSE None
  /\ UNCHANGED <<camera, awaiting, waiting, glVars, queueVars, cameraVars, clientVars, missed, cut>>

StartRead(t) ==
  /\ At(t, "read", "display")
  /\ surface' = [surface EXCEPT ![t] = mPrimarySurface]
  /\ UNCHANGED <<lockVars, glVars, queueVars, mUVCCamera, mRendererHolder, mImageCapture,
                 mIsPreviewing, streaming, display, clientVars, missed, cut>>

\* setPreviewDisplay and the native startPreview
StartDisplay(t) ==
  /\ At(t, "display", "flag")
  /\ display' = surface[t] /\ streaming' = TRUE
  /\ UNCHANGED <<lockVars, glVars, queueVars, mUVCCamera, mRendererHolder, mImageCapture,
                 mIsPreviewing, surface, clientVars, missed, cut>>

StartFlag(t) ==
  /\ At(t, "flag", Return(t)) /\ camera' = None
  /\ mIsPreviewing' = TRUE /\ surface' = [surface EXCEPT ![t] = 0]
  /\ UNCHANGED <<lock, awaiting, waiting, glVars, queueVars, mUVCCamera, mRendererHolder,
                 mImageCapture, streaming, display, clientVars, missed, cut>>

StartPreview(t) ==
  \/ StartEnter(t) \/ StartPrimary(t) \/ AwaitSize(t) \/ AwaitPrimary(t)
  \/ Woken(t) \/ StartRead(t) \/ StartDisplay(t) \/ StartFlag(t)

-----------------------------------------------------------------------------
(* The other calls. *)

Call(t, to) ==
  /\ At(t, "idle", to)
  /\ calls[t] < (IF t = "async" THEN MaxCalls ELSE MaxRecorder) /\ calls' = [calls EXCEPT ![t] = @ + 1]

CallStart ==
  /\ Call("async", "start")
  /\ UNCHANGED <<lockVars, glVars, queueVars, cameraVars, removed, picture, missed, cut>>

StopPreview ==
  /\ Call("async", "idle") /\ camera = None
  /\ streaming' = FALSE /\ mIsPreviewing' = FALSE
  /\ UNCHANGED <<lockVars, glVars, queueVars, mUVCCamera, mRendererHolder, mImageCapture, display,
                 surface, removed, picture, missed, cut>>

\* addSurface and removeSurface, once they have found the renderer; VideoCapture has a
\* reference of its own.
CallSurface(t) ==
  /\ t = "async" => mRendererHolder
  /\ Call(t, "add") \/ Call(t, "remove")
  /\ removed' = removed \ {t}
  /\ UNCHANGED <<lockVars, glVars, queueVars, cameraVars, picture, missed, cut>>

Surfaces(t, op, wait, isNeeded) ==
  /\ pc[t] = op
  /\ IF isNeeded
       THEN /\ pc' = [pc EXCEPT ![t] = wait]
            /\ Send(<<<<op, t>>>>) /\ waiting' = waiting \cup {t}
            /\ UNCHANGED removed
       ELSE /\ pc' = [pc EXCEPT ![t] = "idle"]
            /\ removed' = removed \cup (IF op = "remove" THEN {t} ELSE {})
            /\ UNCHANGED <<queueVars, waiting>>
  /\ cut' = (cut \/ (isNeeded /\ quit))
  /\ UNCHANGED <<camera, lock, awaiting, glVars, cameraVars, calls, picture, missed>>

AddSlaveSurface(t) == Surfaces(t, "add", "addWait", t \notin mSlaveSurfaces)
\* Mutant: the removal is not waited for.
RemoveSlaveSurface_NoWait(t) ==
  /\ At(t, "remove", "idle") /\ Send(<<<<"remove", t>>>>)
  /\ removed' = removed \cup {t}
  /\ UNCHANGED <<lockVars, glVars, cameraVars, calls, picture, missed, cut>>
RemoveSlaveSurface(t) == Surfaces(t, "remove", "removeWait", t \in mSlaveSurfaces)

\* Notified, whoever was meant, or a second has passed.
SurfaceWaitEnds(t) ==
  /\ \/ At(t, "addWait", "idle") /\ UNCHANGED removed
     \/ At(t, "removeWait", "idle") /\ removed' = removed \cup {t}
  /\ waiting' = waiting \ {t}
  /\ cut' = (cut \/ t \in waiting \/ \E op \in {"add", "remove"} : Contains(queue, <<op, t>>))
  /\ UNCHANGED <<camera, lock, awaiting, glVars, queueVars, cameraVars, calls, picture, missed>>

\* takePicture tests mUVCCamera and mImageCapture, then posts.
CallPicture ==
  /\ Call("async", IF mUVCCamera /\ mImageCapture THEN "picture" ELSE "idle")
  /\ picture = "none"
  /\ picture' = IF mUVCCamera /\ mImageCapture THEN "asked" ELSE "answered"
  /\ UNCHANGED <<lockVars, glVars, queueVars, cameraVars, removed, missed, cut>>

PostPicture ==
  /\ At("async", "picture", "idle")
  /\ Send(<<<<"picture">>>>)
  /\ picture' = IF quit THEN "unheard" ELSE "asked"
  /\ UNCHANGED <<lockVars, glVars, cameraVars, calls, removed, missed, cut>>

\* release of the camera: closeCamera, then releaseResource.
CloseCamera ==
  /\ At("listener", "idle", "captures") /\ camera = None
  /\ mUVCCamera' = FALSE /\ streaming' = FALSE
  /\ UNCHANGED <<lockVars, glVars, queueVars, mRendererHolder, mImageCapture, mIsPreviewing, display,
                 surface, clientVars, missed, cut>>

CloseCaptures ==
  /\ At("listener", "captures", "resource")
  /\ mImageCapture' = FALSE
  /\ UNCHANGED <<lockVars, glVars, queueVars, mUVCCamera, mRendererHolder, mIsPreviewing, streaming,
                 display, surface, clientVars, missed, cut>>

ReleaseResource ==
  /\ At("listener", "resource", "done") /\ camera = None
  /\ mRendererHolder' = FALSE /\ Send(<<<<"release">>>>)
  /\ UNCHANGED <<lockVars, glVars, mUVCCamera, mImageCapture, mIsPreviewing, streaming, display,
                 surface, clientVars, missed, cut>>

-----------------------------------------------------------------------------
(* The GL thread. *)

Handle(what) == queue # <<>> /\ Head(queue)[1] = what /\ queue' = Tail(queue)
Handled == UNCHANGED <<quit, behind>>

\* handleReCreatePrimarySurface, also part of handleInit: the old surface goes,
GlRecreate ==
  /\ At("gl", "loop", "create")
  /\ Handle("init") \/ Handle("recreate")
  /\ lock = None /\ lock' = "gl"
  /\ mPrimarySurface' = 0
  /\ Handled
  /\ UNCHANGED <<camera, awaiting, waiting, sizeSet, made, mSlaveSurfaces, faults, cameraVars,
                 clientVars, missed, cut>>

\* Mutant: nobody is told.
GlCreate_NoSignal ==
  /\ At("gl", "create", "callback")
  /\ made' = made + 1 /\ mPrimarySurface' = made'
  /\ UNCHANGED <<lockVars, sizeSet, mSlaveSurfaces, faults, queueVars, cameraVars,
                 clientVars, missed, cut>>
\* the new one is there, everybody is told,
GlCreate ==
  /\ At("gl", "create", "callback")
  /\ made' = made + 1 /\ mPrimarySurface' = made'
  /\ awaiting' = {}
  /\ UNCHANGED <<camera, lock, waiting, sizeSet, mSlaveSurfaces, faults, queueVars, cameraVars,
                 clientVars, missed, cut>>

\* Mutant: the preview is not started again.
GlCallback_Never ==
  /\ At("gl", "callback", "unlock")
  /\ UNCHANGED <<lockVars, glVars, queueVars, cameraVars, clientVars, missed, cut>>
\* and onPrimarySurfaceCreate starts a running preview again, with mLock held.
GlCallback ==
  /\ At("gl", "callback", IF mIsPreviewing THEN "start" ELSE "unlock")
  /\ missed' = (missed \/ (~mIsPreviewing /\ pc["async"] \in {"display", "flag"}))
  /\ UNCHANGED <<lockVars, glVars, queueVars, cameraVars, clientVars, cut>>

GlUnlock ==
  /\ At("gl", "unlock", "loop") /\ lock' = None
  /\ UNCHANGED <<camera, awaiting, waiting, glVars, queueVars, cameraVars, clientVars, missed, cut>>

Loop == pc["gl"] = "loop" /\ UNCHANGED <<pc, camera, lock, awaiting, cameraVars, calls, removed, missed, cut>>

\* Mutant: the size is not noted.
GlUpdateSize_Not ==
  /\ Loop /\ Handle("size") /\ Handled
  /\ UNCHANGED <<waiting, glVars, picture>>
GlUpdateSize ==
  /\ Loop /\ Handle("size") /\ Handled
  /\ sizeSet' = TRUE
  /\ UNCHANGED <<waiting, mPrimarySurface, made, mSlaveSurfaces, faults, picture>>

\* handleAddSlaveSurface, which may find the surface invalid, and handleRemoveSlaveSurface
GlSurface ==
  /\ Loop /\ Handled
  /\ \/ Handle("add") /\ mSlaveSurfaces' \in {mSlaveSurfaces, mSlaveSurfaces \cup {Head(queue)[2]}}
     \/ Handle("remove") /\ mSlaveSurfaces' = mSlaveSurfaces \ {Head(queue)[2]}
  /\ waiting' = {}
  /\ UNCHANGED <<sizeSet, mPrimarySurface, made, faults, picture>>

\* Mutant: a failure is not told.
GlPicture_Silent ==
  /\ Loop /\ Handle("picture") /\ Handled
  /\ picture' = IF mPrimarySurface # 0 /\ mImageCapture THEN "answered" ELSE picture
  /\ UNCHANGED <<waiting, glVars>>
\* The image is saved or an error told.
GlPicture ==
  /\ Loop /\ Handle("picture") /\ Handled
  /\ picture' = "answered"
  /\ UNCHANGED <<waiting, glVars>>

\* Mutant: the slave surfaces stay.
GlRelease_KeepsSlaves ==
  /\ Loop /\ Handle("release")
  /\ mPrimarySurface' = 0 /\ waiting' = {} /\ quit' = TRUE
  /\ UNCHANGED <<sizeSet, made, mSlaveSurfaces, faults, behind, picture>>
\* handleRelease: what is in the queue will still be handled.
GlRelease ==
  /\ Loop /\ Handle("release")
  /\ mPrimarySurface' = 0 /\ mSlaveSurfaces' = {} /\ waiting' = {} /\ quit' = TRUE
  /\ UNCHANGED <<sizeSet, made, faults, behind, picture>>

\* handleDraw of a frame that fails: the surface is to be created anew.
GlDrawFails ==
  /\ Loop /\ faults < MaxFaults /\ faults' = faults + 1
  /\ streaming /\ display = mPrimarySurface /\ display # 0
  /\ Send(<<<<"recreate">>>>)
  /\ UNCHANGED <<waiting, sizeSet, mPrimarySurface, made, mSlaveSurfaces, picture>>

GlEnds ==
  /\ At("gl", "loop", "ended") /\ quit /\ queue = <<>>
  /\ UNCHANGED <<lockVars, glVars, queueVars, cameraVars, clientVars, missed, cut>>

-----------------------------------------------------------------------------
Gl == \/ GlRecreate \/ GlCreate \/ GlCallback \/ StartPreview("gl") \/ GlUnlock
      \/ GlUpdateSize \/ GlSurface \/ GlPicture \/ GlRelease \/ GlEnds

Proceed(t) == AddSlaveSurface(t) \/ RemoveSlaveSurface(t) \/ SurfaceWaitEnds(t)
Async    == StartPreview("async") \/ PostPicture \/ Proceed("async")
Recorder == Proceed("recorder")
Listener == CloseCaptures \/ ReleaseResource

Calls == CallStart \/ StopPreview \/ CallPicture \/ (\E t \in Slaves : CallSurface(t)) \/ CloseCamera

Next == Gl \/ Async \/ Recorder \/ Listener \/ Calls \/ GlDrawFails

Spec == Init /\ [][Next]_vars
\* The threads StartReturns is about run; nobody has to call and nothing has to fail.
ThreadSpec == Spec /\ WF_vars(Gl) /\ WF_vars(Async)

-----------------------------------------------------------------------------
(* Properties. *)

InStart(t) == pc[t] \in {"start", "lockSize", "awaitSize", "primary", "lockPrimary",
                         "awaitPrimary", "read", "display", "flag"}
Creating == pc["gl"] \in {"create", "callback", "unlock"} \/ InStart("gl")

Messages == {<<"init">>, <<"size">>, <<"recreate">>, <<"picture">>, <<"release">>}
              \cup ({"add", "remove"} \X Slaves)

\* Type invariant; gl never awaits, for nobody else would signal, and the locks are held
\* where the code holds them.
TypeOK ==
  /\ camera \in Threads \cup {None} /\ lock \in {"gl", None}
  /\ awaiting \subseteq {"async"} /\ waiting \subseteq Slaves
  /\ lock = "gl" <=> Creating
  /\ \A t \in {"async", "gl"} : camera = t <=> InStart(t) /\ pc[t] # "start"
  /\ queue \in Seq(Messages)
  /\ mPrimarySurface \in {0, made} /\ display \in 0..made /\ made \in Nat
  /\ mSlaveSurfaces \subseteq Slaves /\ removed \subseteq Slaves
  /\ picture \in {"none", "asked", "answered", "unheard"}
  /\ \A b \in {quit, sizeSet, mUVCCamera, mRendererHolder, mImageCapture, mIsPreviewing, streaming,
               missed, cut, behind} : b \in BOOLEAN

\* A thread that awaits the primary surface will be signalled: a creation is in the queue,
\* before any release, or about to signal. await has no time limit and is entered with
\* CameraInternal.class held.
AwaitIsAnswered ==
  awaiting # {} =>
    \/ pc["gl"] = "create"
    \/ \E i \in 1..Len(queue) : /\ queue[i][1] \in {"init", "recreate"}
                                /\ \A j \in 1..i : queue[j][1] # "release"

\* When nothing is under way, a running preview draws to the surface there is, whoever
\* created it anew and when, unless that fell between a start's reading of the surface
\* and its setting of mIsPreviewing.
DisplayIsPrimary ==
  /\ streaming /\ ~missed /\ ~InStart("async") /\ ~Creating
  /\ \A i \in 1..Len(queue) : queue[i][1] \notin {"init", "recreate"}
  => display = mPrimarySurface

\* A surface whose removal has returned is drawn to no more and will not come back, unless
\* a wait ended too early, by time or because another caller was notified, or its
\* message met a looper that was quit.
RemovedIsGone ==
  ~cut => \A s \in removed : s \notin mSlaveSurfaces /\ ~Contains(queue, <<"add", s>>)

\* When the GL thread has ended it has released everything, unless something was sent
\* while the release was in the queue: that is handled after it.
ReleasedAll == pc["gl"] = "ended" /\ ~behind => mPrimarySurface = 0 /\ mSlaveSurfaces = {}

\* Each of the two threads has the lock the other wants.
LockOrder == /\ pc["gl"] = "start" /\ camera = "async"
             /\ pc["async"] \in {"lockSize", "awaitSize", "lockPrimary", "awaitPrimary"}

\* startPreview returns, unless a creation met it: it wants mLock, or awaits, with
\* CameraInternal.class held, while gl holds mLock and wants CameraInternal.class.
StartReturns == InStart("async") ~> (~InStart("async") \/ LockOrder)

\* A picture is answered before the GL thread ends, unless it had quit when it was asked.
PictureAnswered == pc["gl"] = "ended" /\ pc["async"] # "picture" => picture # "asked"
=============================================================================
