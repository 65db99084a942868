----------------------------- MODULE UvcPreview -----------------------------
(***************************************************************************)
(* The native frame pipeline of the USB camera                             *)
(* (libuvccamera/src/main/jni/UVCCamera/UVCPreview.cpp).                   *)
(*                                                                         *)
(* Four kinds of threads share one UVCPreview object:                      *)
(*   "app"      the JNI caller: one call at a time (UVCCamera.java locks)  *)
(*   "uvc"      libuvc's callback thread, alive while the stream is open   *)
(*   "preview"  preview_thread: decodes, draws, hands frames on            *)
(*   CapThreads capture threads: one per successful start of the stream    *)
(* Critical sections are single actions, except that a wait on a condition *)
(* variable splits its section, and that setFrameCallback and              *)
(* setCaptureDisplay hold capture_mutex across several actions, because    *)
(* other threads touch mIsCapturing, mCaptureWindow and the condition      *)
(* variables without the mutex.  Wake-ups are only those the code sends.   *)
(***************************************************************************)
EXTENDS Naturals, Sequences, FiniteSets

CONSTANTS Frames,        \* identities a uvc_frame_t can have
          CapThreads,    \* identities of capture threads
          Callbacks,     \* IFrameCallback global references
          Windows,       \* ANativeWindow references for capturing
          NULL,
          MAX_FRAME,     \* capacity of previewFrames
          FRAME_POOL_SZ, \* capacity of mFramePool
          MaxStarts,     \* bound: calls of startPreview
          MaxSets        \* bound: calls of the three setters

ASSUME ConstantsAssumption ==
  /\ NULL \notin Frames \cup CapThreads \cup Callbacks \cup Windows
  /\ CapThreads \cap {"app", "uvc", "preview", "this"} = {}
  /\ MAX_FRAME \in Nat \ {0} /\ FRAME_POOL_SZ \in Nat \ {0}
  /\ MaxStarts \in Nat /\ MaxSets \in Nat

VARIABLES
  mIsRunning, mIsCapturing, \* the two volatile flags
  mPreviewWindow,           \* TRUE iff a preview window is attached
  mCaptureWindow,           \* in Windows, or NULL
  winHeld,                  \* capture windows whose reference is not released
  mFrameCallbackObj,        \* in Callbacks, or NULL
  previewFrames,            \* the preview queue
  mFramePool,               \* the pool (its order does not matter here)
  heap,                     \* frames that are not allocated
  ptr,                      \* what each frame pointer points to
  captureLock,              \* capture_mutex is held by a setter
  captureWait, previewWait, \* threads waiting on capture_sync, preview_sync
  capture_thread,           \* the id stored by the last pthread_create
  pc,                       \* where each thread is
  cap,                      \* other locals of each capture thread
  req,                      \* the call the app thread is executing
  joining,                  \* the capture thread whose end stopPreview waits for
  starts, sets              \* bounded counters of calls

frameVars == <<previewFrames, mFramePool, heap, ptr>>
flagVars  == <<mIsRunning, mIsCapturing>>
winVars   == <<mPreviewWindow, mCaptureWindow, winHeld, mFrameCallbackObj>>
syncVars  == <<captureLock, captureWait, previewWait>>
callVars  == <<req, joining, starts, sets>>
vars == <<frameVars, flagVars, winVars, syncVars, callVars, capture_thread, pc, cap>>

Threads == {"app", "uvc", "preview"} \cup CapThreads

\* Every pointer that can own a frame: the captureQueu member, the locals of
\* the callback and preview threads, and two locals per capture thread.
captureQueu  == <<"this", "captureQueu">>
copy         == <<"uvc", "copy">>
frameIn      == <<"preview", "frame_in">>      \* frame_yuv or frame_mjpeg
frameOut     == <<"preview", "frame">>
frame(c)     == <<c, "frame">>
callbackFrame(c) == <<c, "callback_frame">>
Pointers == {captureQueu, copy, frameIn, frameOut}
            \cup (CapThreads \X {"frame", "callback_frame"})

NoRequest == [kind |-> "none", val |-> NULL]

Init ==
  /\ mIsRunning = FALSE /\ mIsCapturing = FALSE
  /\ mPreviewWindow = FALSE /\ mCaptureWindow = NULL /\ winHeld = {}
  /\ mFrameCallbackObj = NULL
  /\ previewFrames = <<>> /\ mFramePool = {} /\ heap = Frames
  /\ ptr = [p \in Pointers |-> NULL]
  /\ captureLock = FALSE /\ captureWait = {} /\ previewWait = FALSE
  /\ capture_thread = NULL
  /\ pc = [t \in Threads |-> IF t = "app" THEN "ready" ELSE "off"]
  /\ cap = [c \in CapThreads |-> [surface |-> FALSE, obj |-> NULL, win |-> NULL]]
  /\ req = NoRequest /\ joining = NULL /\ starts = 0 /\ sets = 0

-----------------------------------------------------------------------------
(* Building blocks. *)

At(t, l)      == pc[t] = l
Goto(t, l)    == pc' = [pc EXCEPT ![t] = l]
Queued        == {previewFrames[i] : i \in 1..Len(previewFrames)}
isRunning     == mIsRunning
isCapturing   == mIsCapturing

\* pthread_cond_signal: one waiter, if any, leaves the wait set.
WakeOne(S) == IF S = {} THEN {S} ELSE {S \ {t} : t \in S}
\* pthread_cond_broadcast: the wait set is emptied.
WakeAll(S) == {{}}

\* get_frame: last element of the pool, or a new allocation when it is empty.
\* Mutant: allocates although the pool holds frames.
Obtainable_AllocateFirst == IF heap # {} THEN heap ELSE mFramePool
Obtainable == IF mFramePool # {} THEN mFramePool ELSE heap
\* Mutant: last() reads the pool's last element and leaves it there.
get_frame_Peek(p) ==
  /\ Obtainable # {}
  /\ LET f == CHOOSE g \in Obtainable : TRUE IN
       ptr' = [ptr EXCEPT ![p] = f] /\ heap' = heap \ {f}
  /\ UNCHANGED <<previewFrames, mFramePool>>
get_frame(p) ==
  /\ Obtainable # {}
  /\ LET f == CHOOSE g \in Obtainable : TRUE IN
       /\ ptr' = [ptr EXCEPT ![p] = f]
       /\ mFramePool' = mFramePool \ {f}
       /\ heap' = heap \ {f}
  /\ UNCHANGED previewFrames

\* recycle_frame, for the frame of pointer p: into the pool unless it is full.
\* Mutant: a frame that finds the pool full is not freed.
recycle_frame_NoFree(p) ==
  /\ mFramePool' = IF Cardinality(mFramePool) < FRAME_POOL_SZ
                     THEN mFramePool \cup {ptr[p]} ELSE mFramePool
  /\ ptr' = [ptr EXCEPT ![p] = NULL]
  /\ UNCHANGED <<previewFrames, heap>>
recycle_frame(p) ==
  /\ IF Cardinality(mFramePool) < FRAME_POOL_SZ
       THEN mFramePool' = mFramePool \cup {ptr[p]} /\ UNCHANGED heap
       ELSE heap' = heap \cup {ptr[p]} /\ UNCHANGED mFramePool
  /\ ptr' = [ptr EXCEPT ![p] = NULL]
  /\ UNCHANGED previewFrames

\* clearPreviewFrame: recycle the queued frames in order, then empty the queue.
clearPreviewFrame ==
  /\ LET room == FRAME_POOL_SZ - Cardinality(mFramePool)
         kept == {previewFrames[i] : i \in {j \in 1..Len(previewFrames) : j <= room}}
     IN  /\ mFramePool' = mFramePool \cup kept
         /\ heap' = heap \cup (Queued \ kept)
  /\ previewFrames' = <<>>
  /\ UNCHANGED ptr

\* clearCaptureFrame. Mutant: without the test of captureQueu.
clearCaptureFrame_Unchecked == recycle_frame(captureQueu)
clearCaptureFrame ==
  IF ptr[captureQueu] # NULL THEN recycle_frame(captureQueu) ELSE UNCHANGED frameVars

-----------------------------------------------------------------------------
(* The app thread: setPreviewDisplay, startPreview, stopPreview and release. *)

setPreviewDisplay(attach) ==
  /\ At("app", "ready") /\ sets < MaxSets
  /\ sets' = sets + 1
  /\ mPreviewWindow' = attach
  /\ UNCHANGED <<frameVars, flagVars, mCaptureWindow, winHeld, mFrameCallbackObj,
                 syncVars, req, joining, starts, capture_thread, pc, cap>>

\* The flag is raised before preview_mutex is taken.
startPreview ==
  /\ At("app", "ready") /\ ~isRunning /\ starts < MaxStarts
  /\ mIsRunning' = TRUE
  /\ starts' = starts + 1
  /\ Goto("app", "startCreate")
  /\ UNCHANGED <<frameVars, mIsCapturing, winVars, syncVars, req, joining, sets,
                 capture_thread, cap>>

startCreate ==
  /\ At("app", "startCreate")
  /\ \/ /\ mPreviewWindow
        /\ pc' = [pc EXCEPT !["app"] = "ready", !["preview"] = "prepare"]
     \/ Goto("app", "startFailed") \* no window, or pthread_create failed
  /\ UNCHANGED <<frameVars, flagVars, winVars, syncVars, callVars, capture_thread, cap>>

startFailed ==
  /\ At("app", "startFailed")
  /\ mIsRunning' = FALSE
  /\ previewWait' = FALSE        \* pthread_cond_signal(&preview_sync)
  /\ Goto("app", "ready")
  /\ UNCHANGED <<frameVars, mIsCapturing, winVars, captureLock, captureWait,
                 callVars, capture_thread, cap>>

\* stopPreview; UVCCamera::release is stopPreview followed by the destructor.
stopPreview(kind) ==
  /\ At("app", "ready")
  /\ req' = [kind |-> kind, val |-> NULL]
  /\ mIsRunning' = FALSE
  /\ Goto("app", IF isRunning THEN "signalPreview" ELSE "clearPreview")
  /\ UNCHANGED <<frameVars, mIsCapturing, winVars, syncVars, joining, starts, sets,
                 capture_thread, cap>>

signalPreview ==
  /\ At("app", "signalPreview")
  /\ previewWait' = FALSE
  /\ Goto("app", "signalCapture")
  /\ UNCHANGED <<frameVars, flagVars, winVars, captureLock, captureWait, callVars,
                 capture_thread, cap>>

signalCapture ==
  /\ At("app", "signalCapture")
  /\ captureWait' \in WakeOne(captureWait)
  /\ Goto("app", "joinCapture")
  /\ UNCHANGED <<frameVars, flagVars, winVars, captureLock, previewWait, callVars,
                 capture_thread, cap>>

\* pthread_join of the id stored by now: none yet, one that an earlier stopPreview
\* has joined already (the join then fails, which the code only logs; a libc that
\* aborts instead just ends the behaviour), or a thread whose end it waits for.
joinCapture ==
  /\ At("app", "joinCapture")
  /\ IF capture_thread \in {NULL} \cup {c \in CapThreads : At(c, "joined")}
       THEN Goto("app", "joinPreview") /\ UNCHANGED joining
       ELSE Goto("app", "joinWait") /\ joining' = capture_thread
  /\ UNCHANGED <<frameVars, flagVars, winVars, syncVars, req, starts, sets, capture_thread, cap>>

captureJoined(c) ==
  /\ At("app", "joinWait") /\ joining = c /\ At(c, "done")
  /\ pc' = [pc EXCEPT !["app"] = "joinPreview", ![c] = "joined"]
  /\ joining' = NULL
  /\ UNCHANGED <<frameVars, flagVars, winVars, syncVars, req, starts, sets, capture_thread, cap>>

joinPreview ==
  /\ At("app", "joinPreview") /\ At("preview", "done")
  /\ pc' = [pc EXCEPT !["app"] = "clearPreview", !["preview"] = "off"]
  /\ UNCHANGED <<frameVars, flagVars, winVars, syncVars, callVars, capture_thread, cap>>

stopClearPreview ==
  /\ At("app", "clearPreview")
  /\ clearPreviewFrame
  /\ Goto("app", "clearCapture")
  /\ UNCHANGED <<flagVars, winVars, syncVars, callVars, capture_thread, cap>>

\* Mutant: stopPreview does not clear captureQueu.
stopClearCapture_Skipped ==
  /\ At("app", "clearCapture")
  /\ Goto("app", "releaseWindows")
  /\ UNCHANGED <<frameVars, flagVars, winVars, syncVars, callVars, capture_thread, cap>>
stopClearCapture ==
  /\ At("app", "clearCapture")
  /\ clearCaptureFrame
  /\ Goto("app", "releaseWindows")
  /\ UNCHANGED <<flagVars, winVars, syncVars, callVars, capture_thread, cap>>

\* Releases both windows; after UVCCamera::release the object is deleted.
stopReleaseWindows ==
  /\ At("app", "releaseWindows")
  /\ mPreviewWindow' = FALSE
  /\ mCaptureWindow' = NULL
  /\ winHeld' = winHeld \ {mCaptureWindow}
  /\ Goto("app", IF req.kind = "release" THEN "deleted" ELSE "ready")
  /\ req' = NoRequest
  /\ IF req.kind = "release"
       THEN /\ mFramePool' = {} /\ heap' = heap \cup mFramePool
            /\ mFrameCallbackObj' = NULL
            /\ UNCHANGED <<previewFrames, ptr>>
       ELSE UNCHANGED <<frameVars, mFrameCallbackObj>>
  /\ UNCHANGED <<flagVars, syncVars, joining, starts, sets, capture_thread, cap>>

-----------------------------------------------------------------------------
(* The app thread: setFrameCallback and setCaptureDisplay. Both stop the     *)
(* capture loop first, if there is a target to take away.                    *)

Target(kind) == IF kind = "callback" THEN mFrameCallbackObj ELSE mCaptureWindow

setBegin(kind, val) ==
  /\ At("app", "ready") /\ sets < MaxSets
  /\ sets' = sets + 1
  /\ req' = [kind |-> kind, val |-> val]
  /\ captureLock' = TRUE
  /\ winHeld' = IF kind = "window" THEN winHeld \cup ({val} \ {NULL}) ELSE winHeld
  /\ IF isRunning /\ isCapturing
       THEN /\ mIsCapturing' = FALSE
            /\ IF Target(kind) # NULL
                 THEN captureWait' \in WakeOne(captureWait) /\ Goto("app", "setWait")
                 ELSE UNCHANGED captureWait /\ Goto("app", "setReplace")
       ELSE UNCHANGED <<mIsCapturing, captureWait>> /\ Goto("app", "setReplace")
  /\ UNCHANGED <<frameVars, mIsRunning, mPreviewWindow, mCaptureWindow,
                 mFrameCallbackObj, previewWait, joining, starts, capture_thread, cap>>

setFrameCallback(k)  == setBegin("callback", k)
setCaptureDisplay(w) == w \notin winHeld /\ setBegin("window", w)

\* pthread_cond_wait(&capture_sync, &capture_mutex): release and wait ...
setWait ==
  /\ At("app", "setWait")
  /\ captureLock' = FALSE
  /\ captureWait' = captureWait \cup {"app"}
  /\ Goto("app", "setBlocked")
  /\ UNCHANGED <<frameVars, flagVars, winVars, previewWait, callVars, capture_thread, cap>>

\* ... and reacquire. The condition is not tested again.
setWoken ==
  /\ At("app", "setBlocked") /\ "app" \notin captureWait
  /\ captureLock' = TRUE
  /\ Goto("app", "setReplace")
  /\ UNCHANGED <<frameVars, flagVars, winVars, captureWait, previewWait, callVars,
                 capture_thread, cap>>

setReplace ==
  /\ At("app", "setReplace")
  /\ IF req.kind = "callback"
       THEN /\ mFrameCallbackObj' = req.val
            /\ UNCHANGED <<mCaptureWindow, winHeld>>
       ELSE /\ mCaptureWindow' = req.val
            /\ winHeld' = winHeld \ ({mCaptureWindow} \ {req.val})
            /\ UNCHANGED mFrameCallbackObj
  /\ captureLock' = FALSE
  /\ req' = NoRequest
  /\ Goto("app", "ready")
  /\ UNCHANGED <<frameVars, flagVars, mPreviewWindow, captureWait, previewWait,
                 joining, starts, sets, capture_thread, cap>>

AppReturns ==
  \/ startCreate \/ startFailed
  \/ signalPreview \/ signalCapture \/ joinCapture \/ joinPreview
  \/ \E c \in CapThreads : captureJoined(c)
  \/ stopClearPreview \/ stopClearCapture \/ stopReleaseWindows
  \/ setWait \/ setWoken \/ setReplace

AppCalls ==
  \/ \E attach \in BOOLEAN : setPreviewDisplay(attach)
  \/ startPreview
  \/ \E kind \in {"stop", "release"} : stopPreview(kind)
  \/ \E k \in Callbacks \cup {NULL} : setFrameCallback(k)
  \/ \E w \in Windows \cup {NULL} : setCaptureDisplay(w)

-----------------------------------------------------------------------------
(* libuvc's callback thread: uvc_preview_frame_callback, addPreviewFrame. *)

uvcFrameArrives ==
  /\ At("uvc", "idle") /\ isRunning
  /\ get_frame(copy)
  /\ Goto("uvc", "duplicate")
  /\ UNCHANGED <<flagVars, winVars, syncVars, callVars, capture_thread, cap>>

uvcDuplicate ==
  /\ At("uvc", "duplicate")
  /\ \/ Goto("uvc", "add") /\ UNCHANGED frameVars
     \/ recycle_frame(copy) /\ Goto("uvc", "idle")     \* uvc_duplicate_frame failed
  /\ UNCHANGED <<flagVars, winVars, syncVars, callVars, capture_thread, cap>>

\* Mutant: a queued frame is not signalled.
addPreviewFrame_NoSignal ==
  /\ At("uvc", "add")
  /\ IF isRunning /\ Len(previewFrames) < MAX_FRAME
       THEN /\ previewFrames' = Append(previewFrames, ptr[copy])
            /\ ptr' = [ptr EXCEPT ![copy] = NULL]
            /\ UNCHANGED <<mFramePool, heap>>
       ELSE recycle_frame(copy)
  /\ Goto("uvc", "idle")
  /\ UNCHANGED <<flagVars, winVars, syncVars, callVars, capture_thread, cap>>
addPreviewFrame ==
  /\ At("uvc", "add")
  /\ IF isRunning /\ Len(previewFrames) < MAX_FRAME
       THEN /\ previewFrames' = Append(previewFrames, ptr[copy])
            /\ ptr' = [ptr EXCEPT ![copy] = NULL]
            /\ previewWait' = FALSE
            /\ UNCHANGED <<mFramePool, heap>>
       ELSE recycle_frame(copy) /\ UNCHANGED previewWait
  /\ Goto("uvc", "idle")
  /\ UNCHANGED <<flagVars, winVars, captureLock, captureWait, callVars, capture_thread, cap>>

UvcReturns == uvcDuplicate \/ addPreviewFrame
UvcThread  == uvcFrameArrives \/ UvcReturns

-----------------------------------------------------------------------------
(* preview_thread: prepare_preview, do_preview. *)

previewOnly == UNCHANGED <<flagVars, winVars, captureLock, callVars, cap>>

\* Negotiation and uvc_start_streaming may fail: the thread ends, and
\* mIsRunning stays set until the next stopPreview.
preparePreview ==
  /\ At("preview", "prepare")
  /\ \/ pc' = [pc EXCEPT !["preview"] = "clearQueue", !["uvc"] = "idle"]
     \/ Goto("preview", "done")
  /\ UNCHANGED <<frameVars, captureWait, previewWait, capture_thread>> /\ previewOnly

previewClearQueue ==
  /\ At("preview", "clearQueue")
  /\ clearPreviewFrame
  /\ Goto("preview", "createCapture")
  /\ UNCHANGED <<captureWait, previewWait, capture_thread>> /\ previewOnly

createCapture(c) ==
  /\ At("preview", "createCapture") /\ At(c, "off")
  /\ capture_thread' = c
  /\ pc' = [pc EXCEPT !["preview"] = "loop", ![c] = "begin"]
  /\ UNCHANGED <<frameVars, captureWait, previewWait>> /\ previewOnly

\* The result of pthread_create is not looked at: the preview goes on, and no thread
\* takes captureQueu's frames.
createCaptureFails ==
  /\ At("preview", "createCapture")
  /\ Goto("preview", "loop")
  /\ UNCHANGED <<frameVars, captureWait, previewWait, capture_thread>> /\ previewOnly

previewLoop ==
  /\ At("preview", "loop")
  /\ Goto("preview", IF isRunning THEN "waitFrame" ELSE "endLoop")
  /\ UNCHANGED <<frameVars, captureWait, previewWait, capture_thread>> /\ previewOnly

\* waitPreviewFrame after its (at most one) wait; nothing taken when stopping.
takePreviewFrame ==
  IF isRunning /\ previewFrames # <<>>
    THEN /\ ptr' = [ptr EXCEPT ![frameIn] = Head(previewFrames)]
         /\ previewFrames' = Tail(previewFrames)
         /\ Goto("preview", "decode")
         /\ UNCHANGED <<mFramePool, heap>>
    ELSE Goto("preview", "loop") /\ UNCHANGED frameVars

waitPreviewFrame ==
  /\ At("preview", "waitFrame")
  /\ IF previewFrames = <<>>
       THEN /\ previewWait' = TRUE
            /\ Goto("preview", "blocked")
            /\ UNCHANGED frameVars
       ELSE takePreviewFrame /\ UNCHANGED previewWait
  /\ UNCHANGED <<captureWait, capture_thread>> /\ previewOnly

previewWoken ==
  /\ At("preview", "blocked") /\ ~previewWait
  /\ takePreviewFrame
  /\ UNCHANGED <<captureWait, previewWait, capture_thread>> /\ previewOnly

\* A frame that cannot be allocated crashes the conversion: not modelled.
previewDecode ==
  /\ At("preview", "decode")
  /\ get_frame(frameOut)
  /\ Goto("preview", "decoded")
  /\ UNCHANGED <<captureWait, previewWait, capture_thread>> /\ previewOnly

\* Mutant: the output frame of a failed conversion is kept.
decodeFails_Keeps ==
  /\ At("preview", "decoded")
  /\ Goto("preview", "recycleIn")
  /\ UNCHANGED <<frameVars, captureWait, previewWait, capture_thread>> /\ previewOnly
decodeFails ==
  /\ At("preview", "decoded")
  /\ recycle_frame(frameOut)
  /\ Goto("preview", "recycleIn")
  /\ UNCHANGED <<captureWait, previewWait, capture_thread>> /\ previewOnly

\* draw_preview_one draws inside preview_mutex and changes nothing here, so it
\* is part of this step. addCaptureFrame keeps only the latest frame, and loses
\* the frame when it finds the preview stopped. woken: capture_sync's wait sets
\* afterwards.
keepLatest(woken) ==
  /\ At("preview", "decoded") /\ ~captureLock
  /\ IF isRunning
       THEN /\ ptr' = [ptr EXCEPT ![captureQueu] = ptr[frameOut], ![frameOut] = NULL]
            /\ IF ptr[captureQueu] = NULL
                 THEN UNCHANGED <<mFramePool, heap>>
                 ELSE IF Cardinality(mFramePool) < FRAME_POOL_SZ
                   THEN mFramePool' = mFramePool \cup {ptr[captureQueu]} /\ UNCHANGED heap
                   ELSE heap' = heap \cup {ptr[captureQueu]} /\ UNCHANGED mFramePool
            /\ captureWait' \in woken
       ELSE /\ ptr' = [ptr EXCEPT ![frameOut] = NULL]
            /\ UNCHANGED <<mFramePool, heap, captureWait>>
  /\ Goto("preview", "recycleIn")
  /\ UNCHANGED <<previewFrames, previewWait, capture_thread>> /\ previewOnly

\* Mutant: a signal where the code broadcasts.
addCaptureFrame_Signal == keepLatest(WakeOne(captureWait))
addCaptureFrame == keepLatest(WakeAll(captureWait))

recycleIn ==
  /\ At("preview", "recycleIn")
  /\ recycle_frame(frameIn)
  /\ Goto("preview", "loop")
  /\ UNCHANGED <<captureWait, previewWait, capture_thread>> /\ previewOnly

previewEnd ==
  /\ At("preview", "endLoop")
  /\ captureWait' \in WakeOne(captureWait)
  /\ Goto("preview", "stopStreaming")
  /\ UNCHANGED <<frameVars, previewWait, capture_thread>> /\ previewOnly

\* uvc_stop_streaming joins the callback thread.
stopStreaming ==
  /\ At("preview", "stopStreaming") /\ At("uvc", "idle")
  /\ pc' = [pc EXCEPT !["preview"] = "done", !["uvc"] = "off"]
  /\ UNCHANGED <<frameVars, captureWait, previewWait, capture_thread>> /\ previewOnly

PreviewThread ==
  \/ preparePreview \/ previewClearQueue
  \/ \E c \in CapThreads : createCapture(c)
  \/ createCaptureFails
  \/ previewLoop \/ waitPreviewFrame \/ previewWoken
  \/ previewDecode \/ decodeFails \/ addCaptureFrame \/ recycleIn
  \/ previewEnd \/ stopStreaming

-----------------------------------------------------------------------------
(* A capture thread: do_capture, its two loops, and do_capture_callback. *)

captureOnly == UNCHANGED <<mIsRunning, mPreviewWindow, mFrameCallbackObj, captureLock,
                           previewWait, callVars, capture_thread>>

captureBegin(c) ==
  /\ At(c, "begin") /\ ~captureLock
  /\ clearCaptureFrame
  /\ Goto(c, "outer")
  /\ UNCHANGED <<mIsCapturing, mCaptureWindow, winHeld, captureWait, cap>> /\ captureOnly

do_capture(c) ==
  /\ At(c, "outer")
  /\ IF isRunning
       THEN mIsCapturing' = TRUE /\ Goto(c, "choose")
       ELSE UNCHANGED mIsCapturing /\ Goto(c, "done")
  /\ UNCHANGED <<frameVars, mCaptureWindow, winHeld, captureWait, cap>> /\ captureOnly

\* do_capture_surface or do_capture_idle_loop.
chooseLoop(c) ==
  /\ At(c, "choose")
  /\ cap' = [cap EXCEPT ![c].surface = (mCaptureWindow # NULL)]
  /\ Goto(c, "inner")
  /\ UNCHANGED <<frameVars, mIsCapturing, mCaptureWindow, winHeld, captureWait>> /\ captureOnly

innerLoop(c) ==
  /\ At(c, "inner")
  /\ Goto(c, IF isRunning /\ isCapturing THEN "waitFrame"
             ELSE IF cap[c].surface THEN "dropWindow" ELSE "broadcast")
  /\ UNCHANGED <<frameVars, mIsCapturing, mCaptureWindow, winHeld, captureWait, cap>>
  /\ captureOnly

takeCaptureFrame(c) ==
  IF isRunning /\ ptr[captureQueu] # NULL
    THEN /\ ptr' = [ptr EXCEPT ![frame(c)] = ptr[captureQueu], ![captureQueu] = NULL]
         /\ Goto(c, IF cap[c].surface THEN "readWindow" ELSE "readCallback")
         /\ UNCHANGED <<previewFrames, mFramePool, heap>>
    ELSE Goto(c, "inner") /\ UNCHANGED frameVars

waitCaptureFrame(c) ==
  /\ At(c, "waitFrame") /\ ~captureLock
  /\ IF ptr[captureQueu] = NULL
       THEN /\ captureWait' = captureWait \cup {c}
            /\ Goto(c, "blocked")
            /\ UNCHANGED frameVars
       ELSE takeCaptureFrame(c) /\ UNCHANGED captureWait
  /\ UNCHANGED <<mIsCapturing, mCaptureWindow, winHeld, cap>> /\ captureOnly

captureWoken(c) ==
  /\ At(c, "blocked") /\ c \notin captureWait /\ ~captureLock
  /\ takeCaptureFrame(c)
  /\ UNCHANGED <<mIsCapturing, mCaptureWindow, winHeld, captureWait, cap>> /\ captureOnly

\* do_capture_surface reads mCaptureWindow without the mutex ...
readWindow(c) ==
  /\ At(c, "readWindow")
  /\ IF isCapturing /\ mCaptureWindow # NULL
       THEN cap' = [cap EXCEPT ![c].win = mCaptureWindow] /\ Goto(c, "copyToSurface")
       ELSE UNCHANGED cap /\ Goto(c, "readCallback")
  /\ UNCHANGED <<frameVars, mIsCapturing, mCaptureWindow, winHeld, captureWait>> /\ captureOnly

\* ... and writes the frame to what it read.
copyToSurface(c) ==
  /\ At(c, "copyToSurface")
  /\ cap' = [cap EXCEPT ![c].win = NULL]
  /\ Goto(c, "readCallback")
  /\ UNCHANGED <<frameVars, mIsCapturing, mCaptureWindow, winHeld, captureWait>> /\ captureOnly

\* do_capture_callback: without a callback the frame goes back at once;
\* otherwise it is passed as it is, or a converted copy is made.
readCallback(c) ==
  /\ At(c, "readCallback")
  /\ IF mFrameCallbackObj = NULL
       THEN /\ recycle_frame(frame(c))
            /\ Goto(c, "inner")
            /\ UNCHANGED cap
       ELSE /\ cap' = [cap EXCEPT ![c].obj = mFrameCallbackObj]
            /\ \/ /\ Goto(c, "onFrame")
                  /\ ptr' = [ptr EXCEPT ![callbackFrame(c)] = ptr[frame(c)],
                                        ![frame(c)] = NULL]
                  /\ UNCHANGED <<previewFrames, mFramePool, heap>>
               \/ Goto(c, "convert") /\ get_frame(callbackFrame(c))
               \/ /\ mFramePool = {}          \* get_frame could not allocate
                  /\ Goto(c, "skip")
                  /\ UNCHANGED frameVars
  /\ UNCHANGED <<mIsCapturing, mCaptureWindow, winHeld, captureWait>> /\ captureOnly

skipCallback(c) ==
  /\ At(c, "skip")
  /\ recycle_frame(frame(c))
  /\ cap' = [cap EXCEPT ![c].obj = NULL]
  /\ Goto(c, "inner")
  /\ UNCHANGED <<mIsCapturing, mCaptureWindow, winHeld, captureWait>> /\ captureOnly

convertFrame(c) ==
  /\ At(c, "convert")
  /\ recycle_frame(frame(c))
  /\ \/ Goto(c, "onFrame") /\ UNCHANGED cap
     \/ Goto(c, "recycle") /\ cap' = [cap EXCEPT ![c].obj = NULL]   \* conversion failed
  /\ UNCHANGED <<mIsCapturing, mCaptureWindow, winHeld, captureWait>> /\ captureOnly

onFrame(c) ==
  /\ At(c, "onFrame")
  /\ cap' = [cap EXCEPT ![c].obj = NULL]
  /\ Goto(c, "recycle")
  /\ UNCHANGED <<frameVars, mIsCapturing, mCaptureWindow, winHeld, captureWait>> /\ captureOnly

recycleCallbackFrame(c) ==
  /\ At(c, "recycle")
  /\ recycle_frame(callbackFrame(c))
  /\ Goto(c, "inner")
  /\ UNCHANGED <<mIsCapturing, mCaptureWindow, winHeld, captureWait, cap>> /\ captureOnly

\* End of do_capture_surface: release whatever mCaptureWindow is by now.
dropWindow(c) ==
  /\ At(c, "dropWindow")
  /\ IF mCaptureWindow # NULL
       THEN cap' = [cap EXCEPT ![c].win = mCaptureWindow] /\ Goto(c, "releaseWindow")
       ELSE UNCHANGED cap /\ Goto(c, "broadcast")
  /\ UNCHANGED <<frameVars, mIsCapturing, mCaptureWindow, winHeld, captureWait>> /\ captureOnly

releaseWindow(c) ==
  /\ At(c, "releaseWindow")
  /\ winHeld' = winHeld \ {cap[c].win}
  /\ Goto(c, "clearWindow")
  /\ UNCHANGED <<frameVars, mIsCapturing, mCaptureWindow, captureWait, cap>> /\ captureOnly

clearWindow(c) ==
  /\ At(c, "clearWindow")
  /\ mCaptureWindow' = NULL
  /\ cap' = [cap EXCEPT ![c].win = NULL]
  /\ Goto(c, "broadcast")
  /\ UNCHANGED <<frameVars, mIsCapturing, winHeld, captureWait>> /\ captureOnly

captureBroadcast(c) ==
  /\ At(c, "broadcast")
  /\ captureWait' \in WakeAll(captureWait)
  /\ Goto(c, "outer")
  /\ UNCHANGED <<frameVars, mIsCapturing, mCaptureWindow, winHeld, cap>> /\ captureOnly

\* What a capture thread does to a deleted object is undefined: not modelled.
CaptureThread(c) ==
  /\ ~At("app", "deleted")
  /\ \/ captureBegin(c) \/ do_capture(c) \/ chooseLoop(c) \/ innerLoop(c)
     \/ waitCaptureFrame(c) \/ captureWoken(c)
     \/ readWindow(c) \/ copyToSurface(c)
     \/ readCallback(c) \/ convertFrame(c) \/ skipCallback(c) \/ onFrame(c)
     \/ recycleCallbackFrame(c)
     \/ dropWindow(c) \/ releaseWindow(c) \/ clearWindow(c) \/ captureBroadcast(c)

-----------------------------------------------------------------------------
Next ==
  \/ AppCalls \/ AppReturns
  \/ UvcThread \/ PreviewThread
  \/ \E c \in CapThreads : CaptureThread(c)

Spec == Init /\ [][Next]_vars

\* A call that began goes on, and so does every thread that can take a step.
ThreadFairness ==
  /\ WF_vars(AppReturns) /\ WF_vars(UvcReturns) /\ WF_vars(PreviewThread)
  /\ \A c \in CapThreads : WF_vars(CaptureThread(c))

\* The camera keeps delivering frames, of which infinitely many can be copied
\* and decoded.
CameraFairness ==
  /\ WF_vars(uvcFrameArrives)
  /\ SF_vars(uvcDuplicate /\ pc'["uvc"] = "add")
  /\ SF_vars(addCaptureFrame)

ThreadSpec == Spec /\ ThreadFairness
CameraSpec == ThreadSpec /\ CameraFairness

-----------------------------------------------------------------------------
(* Properties. *)

AppPCs == {"ready", "startCreate", "startFailed", "signalPreview", "signalCapture",
           "joinCapture", "joinWait", "joinPreview", "clearPreview", "clearCapture",
           "releaseWindows", "setWait", "setBlocked", "setReplace", "deleted"}
UvcPCs == {"off", "idle", "duplicate", "add"}
PreviewPCs == {"off", "prepare", "clearQueue", "createCapture", "loop", "waitFrame",
               "blocked", "decode", "decoded", "recycleIn", "endLoop",
               "stopStreaming", "done"}
CapturePCs == {"off", "begin", "outer", "choose", "inner", "waitFrame", "blocked",
               "readWindow", "copyToSurface", "readCallback", "skip", "convert",
               "onFrame", "recycle", "dropWindow", "releaseWindow", "clearWindow",
               "broadcast", "done", "joined"}

FlagTypes ==
  /\ mIsRunning \in BOOLEAN /\ mIsCapturing \in BOOLEAN /\ mPreviewWindow \in BOOLEAN
  /\ mCaptureWindow \in Windows \cup {NULL} /\ winHeld \subseteq Windows
  /\ mFrameCallbackObj \in Callbacks \cup {NULL}
FrameTypes ==
  /\ previewFrames \in Seq(Frames)
  /\ mFramePool \subseteq Frames /\ heap \subseteq Frames
  /\ ptr \in [Pointers -> Frames \cup {NULL}]
SyncTypes ==
  /\ captureLock \in BOOLEAN /\ previewWait \in BOOLEAN
  /\ captureWait \subseteq CapThreads \cup {"app"}
  /\ capture_thread \in CapThreads \cup {NULL}
PcTypes ==
  /\ pc \in [Threads -> AppPCs \cup UvcPCs \cup PreviewPCs \cup CapturePCs]
  /\ pc["app"] \in AppPCs /\ pc["uvc"] \in UvcPCs /\ pc["preview"] \in PreviewPCs
  /\ \A c \in CapThreads : pc[c] \in CapturePCs
LocalTypes ==
  /\ cap \in [CapThreads -> [surface : BOOLEAN, obj : Callbacks \cup {NULL},
                             win : Windows \cup {NULL}]]
  /\ req \in [kind : {"none", "stop", "release"}, val : {NULL}]
             \cup [kind : {"callback"}, val : Callbacks \cup {NULL}]
             \cup [kind : {"window"}, val : Windows \cup {NULL}]
  /\ joining \in CapThreads \cup {NULL}
  /\ starts \in Nat /\ sets \in Nat

\* Type invariant of the pipeline: the types of the members of UVCPreview, of
\* the threads' program counters and of their locals.
TypeOK == FlagTypes /\ FrameTypes /\ SyncTypes /\ PcTypes /\ LocalTypes

\* Every frame has one owner: the allocator, the pool, one slot of the preview
\* queue or one pointer. get_frame, recycle_frame and every hand-over between
\* the threads keep it so, hence no frame is written by two threads or freed twice.
FrameOwnership ==
  /\ mFramePool \cap heap = {}
  /\ Queued \cap (mFramePool \cup heap) = {}
  /\ \A i, j \in 1..Len(previewFrames) : previewFrames[i] = previewFrames[j] => i = j
  /\ \A p \in Pointers :
       ptr[p] # NULL => /\ ptr[p] \notin mFramePool \cup heap \cup Queued
                        /\ \A q \in Pointers : ptr[q] = ptr[p] => q = p

\* A thread owns exactly the frames that its place in the code says: none is
\* kept over a loop of do_preview, of the capture loops or of the uvc callback.
FramesInHand ==
  /\ ptr[copy] # NULL <=> pc["uvc"] \in {"duplicate", "add"}
  /\ ptr[frameIn] # NULL <=> pc["preview"] \in {"decode", "decoded", "recycleIn"}
  /\ ptr[frameOut] # NULL <=> At("preview", "decoded")
  /\ \A c \in CapThreads :
       /\ ptr[frame(c)] # NULL <=>
            pc[c] \in {"readWindow", "copyToSurface", "readCallback", "skip", "convert"}
       /\ ptr[callbackFrame(c)] # NULL <=> pc[c] \in {"convert", "onFrame", "recycle"}

\* Frames nobody owns any more.
Lost == Frames \ (mFramePool \cup heap \cup Queued \cup {ptr[p] : p \in Pointers})

\* addCaptureFrame loses its frame when the preview was stopped meanwhile: at
\* most one frame per start of the preview is lost, and none in any other way.
LostPerStart == Cardinality(Lost) <= starts

\* The memory in frames is bounded whatever the camera and the callbacks do:
\* a new frame is allocated only when the pool is empty, so there are never more
\* than the queue, captureQueu and the locals of the threads can hold.
FrameMemoryBound ==
  Cardinality(Frames \ (heap \cup Lost)) <=
    MAX_FRAME + 4 + 2 * Cardinality({c \in CapThreads : ~At(c, "off")})

\* When no call is in progress and the preview is stopped, the stream is closed,
\* the preview thread has ended and no camera frame is left in either queue.
StoppedIsDrained ==
  At("app", "ready") /\ ~mIsRunning =>
    /\ At("uvc", "off") /\ At("preview", "off")
    /\ previewFrames = <<>> /\ ptr[captureQueu] = NULL

\* The preview thread sleeps on an empty queue only: addPreviewFrame's signal is
\* never missed while the preview runs.
NoMissedPreviewFrame ==
  At("preview", "blocked") /\ previewWait /\ mIsRunning => previewFrames = <<>>

\* setFrameCallback and setCaptureDisplay return while the camera delivers: the
\* wake-up the capture loop may send too early is made good by the broadcast of
\* the next addCaptureFrame. Only a preview thread that gave up (no stream) can
\* leave the caller waiting.
SetterReturns ==
  pc["app"] \in {"setWait", "setBlocked", "setReplace"}
    ~> At("app", "ready") \/ At("preview", "done")

-----------------------------------------------------------------------------
(* What the code's comments and messages say and the code does not do. *)


\* stopPreview terminates the capture thread: none is alive once the call has
\* returned (and so none can use the object after release deleted it).
NoCaptureThreadAfterStop ==
  pc["app"] \in {"ready", "deleted"} /\ ~mIsRunning =>
    \A c \in CapThreads : pc[c] \in {"off", "done", "joined"}

\* stopPreview terminates the capture thread and the preview thread: its joins
\* come back.
StopReturns ==
  pc["app"] \in {"signalPreview", "signalCapture", "joinCapture", "joinWait", "joinPreview"}
    ~> pc["app"] \in {"ready", "deleted"}
=============================================================================
