----------------------- MODULE UvcPreviewFrameProofs -----------------------
(***************************************************************************)
(* LostPerStart and FrameMemoryBound are invariants of UvcPreview for      *)
(* every set of frames and of capture threads, finite or not.              *)
(*                                                                         *)
(* A step treats frames in one of a few ways (Handled), in all of which    *)
(* every frame keeps an owner, or it is addCaptureFrame with the preview   *)
(* stopped (Loses). Counting: a loss takes away the chance to lose a       *)
(* frame, which only the next start gives back (MayLose), so losses and    *)
(* chances never exceed the starts. Memory: the frames in use grow only    *)
(* when the pool has run empty, and then they are those of the queue and   *)
(* of the pointers of the threads that were started.                       *)
(***************************************************************************)
EXTENDS UvcPreviewProofs, FiniteSetTheorems

\* Frames that somebody owns; those of them that are allocated.
Pointed == {ptr[p] : p \in Pointers}
Owned == mFramePool \cup heap \cup Queued \cup Pointed
InUse == Frames \ (heap \cup Lost)
Started == {c \in CapThreads : ~At(c, "off")}

\* The ways in which a step treats frames.
Gets == \E p \in Pointers : ptr[p] = NULL /\ get_frame(p)
Recycles == \E p \in Pointers : ptr[p] # NULL /\ recycle_frame(p)
Moves == \E p, q \in Pointers :
           /\ p # q /\ ptr[q] = NULL /\ ptr[p] # NULL
           /\ ptr' = [ptr EXCEPT ![q] = ptr[p], ![p] = NULL]
           /\ UNCHANGED <<previewFrames, mFramePool, heap>>
Enqueues == \E p \in Pointers :
              /\ ptr[p] # NULL /\ Len(previewFrames) < MAX_FRAME
              /\ previewFrames' = Append(previewFrames, ptr[p])
              /\ ptr' = [ptr EXCEPT ![p] = NULL] /\ UNCHANGED <<mFramePool, heap>>
Dequeues == \E p \in Pointers :
              /\ ptr[p] = NULL /\ previewFrames # <<>>
              /\ ptr' = [ptr EXCEPT ![p] = Head(previewFrames)]
              /\ previewFrames' = Tail(previewFrames) /\ UNCHANGED <<mFramePool, heap>>
Replaces == \E p, q \in Pointers :
              /\ p # q /\ ptr[q] # NULL /\ ptr[p] # NULL
              /\ ptr' = [ptr EXCEPT ![q] = ptr[p], ![p] = NULL]
              /\ IF Cardinality(mFramePool) < FRAME_POOL_SZ
                   THEN mFramePool' = mFramePool \cup {ptr[q]} /\ UNCHANGED heap
                   ELSE heap' = heap \cup {ptr[q]} /\ UNCHANGED mFramePool
              /\ UNCHANGED previewFrames
Frees == mFramePool' = {} /\ heap' = heap \cup mFramePool /\ UNCHANGED <<previewFrames, ptr>>
Handled == \/ UNCHANGED frameVars \/ clearPreviewFrame \/ Frees
           \/ Gets \/ Recycles \/ Moves \/ Enqueues \/ Dequeues \/ Replaces

\* addCaptureFrame with the preview stopped.
Loses == /\ At("preview", "decoded") /\ ~mIsRunning /\ ~mIsRunning'
         /\ pc'["preview"] = "recycleIn" /\ starts' = starts
         /\ ptr' = [ptr EXCEPT ![frameOut] = NULL]
         /\ UNCHANGED <<previewFrames, mFramePool, heap>>

\* While the preview runs, and until a frame taken then has been handed on, one frame
\* can still be lost.
MayLose == mIsRunning \/ pc["preview"] \in {"decode", "decoded"}

-----------------------------------------------------------------------------
(* What each way of treating frames does to the owned ones. *)

\* What Tail does to the elements of a sequence.
LEMMA TailElements ==
  ASSUME NEW S, NEW q \in Seq(S), q # <<>>, NEW r, r = Tail(q)
  PROVE  {q[i] : i \in 1..Len(q)} = {r[i] : i \in 1..Len(r)} \cup {Head(q)}
<1>1. r \in Seq(S) /\ Len(r) = Len(q) - 1 /\ Len(q) \in Nat /\ Len(q) >= 1
  OBVIOUS
<1>2. Head(q) = q[1] /\ \A i \in 1..Len(r) : r[i] = q[i + 1]
  OBVIOUS
<1>3. \A i \in 1..Len(q) : i = 1 \/ (i - 1 \in 1..Len(r) /\ r[i - 1] = q[i])
  BY <1>1, <1>2
<1>4. \A i \in 1..Len(r) : i + 1 \in 1..Len(q)
  BY <1>1
<1>5. ASSUME NEW i \in 1..Len(q) PROVE q[i] \in {r[k] : k \in 1..Len(r)} \cup {Head(q)}
  BY <1>2, <1>3
<1>6. ASSUME NEW i \in 1..Len(r) PROVE r[i] \in {q[k] : k \in 1..Len(q)}
  BY <1>2, <1>4
<1>7. Head(q) \in {q[k] : k \in 1..Len(q)}
  BY <1>1, <1>2
<1> QED BY <1>5, <1>6, <1>7

\* What EXCEPT does to the values of ptr.
LEMMA PointedFacts ==
  ASSUME FrameInv, NEW p \in Pointers, NEW v, ptr' = [ptr EXCEPT ![p] = v]
  PROVE  /\ v \in Pointed' /\ Pointed \subseteq Pointed' \cup {ptr[p]}
         /\ Pointed' \subseteq Pointed \cup {v}
BY DEF FrameInv, FrameTypes, Pointed

\* A hand-over changes what is pointed to by NULL and the overwritten frame only.
LEMMA HandOverFacts ==
  ASSUME FrameInv, NEW p \in Pointers, NEW q \in Pointers, p # q,
         ptr' = [ptr EXCEPT ![q] = ptr[p], ![p] = NULL]
  PROVE  /\ Pointed \subseteq Pointed' \cup {ptr[q]}
         /\ Pointed' \subseteq Pointed \cup {NULL}
BY DEF FrameInv, FrameTypes, Pointed

\* A step that handles frames loses none; it allocates one only when the pool is empty.
LEMMA HandledFacts ==
  ASSUME FrameInv, Handled
  PROVE  Lost' = Lost /\ (heap \subseteq heap' \/ mFramePool' = {})
<1>0. Lost = Frames \ Owned /\ Lost' = Frames \ Owned'
  BY DEF Lost, Owned, Pointed
<1> SUFFICES /\ Owned \subseteq Owned' \cup {NULL} /\ Owned' \subseteq Owned \cup {NULL}
             /\ heap \subseteq heap' \/ mFramePool' = {}
  BY <1>0, NullIsNoFrame
<1>1. CASE UNCHANGED frameVars
  BY <1>1 DEF frameVars, Owned, Queued, Pointed
<1>2. CASE clearPreviewFrame
  <2>1. PICK K : K \subseteq Queued /\ mFramePool' = mFramePool \cup K
                                    /\ heap' = heap \cup (Queued \ K)
    <3> DEFINE room == FRAME_POOL_SZ - Cardinality(mFramePool)
               K == {previewFrames[i] : i \in {j \in 1..Len(previewFrames) : j <= room}}
    <3>1. K \subseteq Queued
      BY DEF Queued
    <3>2. mFramePool' = mFramePool \cup K /\ heap' = heap \cup (Queued \ K)
      BY <1>2 DEF clearPreviewFrame
    <3> QED BY <3>1, <3>2
  <2>2. Pointed' = Pointed /\ Queued' = {}
    BY <1>2 DEF clearPreviewFrame, Pointed, Queued
  <2> QED BY <2>1, <2>2 DEF Owned
<1>3. CASE Frees
  BY <1>3 DEF Frees, Owned, Queued, Pointed
<1>4. CASE Gets
  <2>1. PICK p \in Pointers : ptr[p] = NULL /\ get_frame(p)
    BY <1>4 DEF Gets
  <2> DEFINE f == CHOOSE g \in Obtainable : TRUE
  <2>2. /\ f \in Obtainable /\ ptr' = [ptr EXCEPT ![p] = f]
        /\ mFramePool' = mFramePool \ {f} /\ heap' = heap \ {f}
    BY <2>1 DEF get_frame
  <2>3. Queued' = Queued
    BY <2>1 DEF get_frame, Queued
  <2> HIDE DEF f
  <2>4. f \in mFramePool \/ (f \in heap /\ mFramePool = {})
    BY <2>2 DEF Obtainable
  <2>5. heap \subseteq heap' \/ mFramePool' = {}
    BY <2>2, <2>4 DEF FrameInv, FrameOwnership
  <2>6. /\ f \in Pointed' /\ Pointed \subseteq Pointed' \cup {NULL}
        /\ Pointed' \subseteq Pointed \cup {f}
    BY <2>1, <2>2, PointedFacts
  <2> QED BY <2>2, <2>3, <2>4, <2>5, <2>6 DEF Owned
<1>5. CASE Recycles
  <2>1. PICK p \in Pointers : ptr[p] # NULL /\ recycle_frame(p)
    BY <1>5 DEF Recycles
  <2>2. /\ mFramePool' \cup heap' = mFramePool \cup heap \cup {ptr[p]} /\ heap \subseteq heap'
        /\ ptr' = [ptr EXCEPT ![p] = NULL] /\ Queued' = Queued
    BY <2>1 DEF recycle_frame, Queued
  <2>3. /\ Pointed \subseteq Pointed' \cup {ptr[p]} /\ Pointed' \subseteq Pointed \cup {NULL}
        /\ ptr[p] \in Pointed
    BY <2>1, <2>2, PointedFacts DEF Pointed
  <2> QED BY <2>2, <2>3 DEF Owned
<1>6. CASE Moves
  <2>1. PICK p \in Pointers, q \in Pointers :
          /\ p # q /\ ptr[q] = NULL
          /\ ptr' = [ptr EXCEPT ![q] = ptr[p], ![p] = NULL]
          /\ UNCHANGED <<previewFrames, mFramePool, heap>>
    BY <1>6 DEF Moves
  <2>2. Pointed \subseteq Pointed' \cup {NULL} /\ Pointed' \subseteq Pointed \cup {NULL}
    BY <2>1, HandOverFacts
  <2> QED BY <2>1, <2>2 DEF Owned, Queued
<1>7. CASE Enqueues
  <2>1. PICK p \in Pointers :
          /\ ptr[p] # NULL /\ previewFrames' = Append(previewFrames, ptr[p])
          /\ ptr' = [ptr EXCEPT ![p] = NULL] /\ UNCHANGED <<mFramePool, heap>>
    BY <1>7 DEF Enqueues
  <2>2. ptr[p] \in Frames /\ ptr[p] \notin Queued
    BY <2>1 DEF FrameInv, FrameTypes, FrameOwnership
  <2>3. Queued' = Queued \cup {ptr[p]}
    BY <2>1, <2>2, AppendElements DEF FrameInv, FrameTypes, FrameOwnership, Queued
  <2>4. /\ Pointed \subseteq Pointed' \cup {ptr[p]} /\ Pointed' \subseteq Pointed \cup {NULL}
        /\ ptr[p] \in Pointed
    BY <2>1, PointedFacts DEF Pointed
  <2> QED BY <2>1, <2>3, <2>4 DEF Owned
<1>8. CASE Dequeues
  <2>1. PICK p \in Pointers :
          /\ ptr[p] = NULL /\ previewFrames # <<>>
          /\ ptr' = [ptr EXCEPT ![p] = Head(previewFrames)]
          /\ previewFrames' = Tail(previewFrames) /\ UNCHANGED <<mFramePool, heap>>
    BY <1>8 DEF Dequeues
  <2>2. Queued = Queued' \cup {Head(previewFrames)}
    BY <2>1, TailElements DEF FrameInv, FrameTypes, Queued
  <2>3. /\ Head(previewFrames) \in Pointed' /\ Pointed \subseteq Pointed' \cup {NULL}
        /\ Pointed' \subseteq Pointed \cup {Head(previewFrames)}
    BY <2>1, PointedFacts
  <2> QED BY <2>1, <2>2, <2>3 DEF Owned
<1>9. CASE Replaces
  <2>1. PICK p \in Pointers, q \in Pointers :
          /\ p # q
          /\ ptr' = [ptr EXCEPT ![q] = ptr[p], ![p] = NULL]
          /\ mFramePool' \cup heap' = mFramePool \cup heap \cup {ptr[q]} /\ heap \subseteq heap'
          /\ UNCHANGED previewFrames
    BY <1>9 DEF Replaces
  <2>2. /\ Pointed \subseteq Pointed' \cup {ptr[q]} /\ Pointed' \subseteq Pointed \cup {NULL}
        /\ ptr[q] \in Pointed
    BY <2>1, HandOverFacts DEF Pointed
  <2> QED BY <2>1, <2>2 DEF Owned, Queued
<1> QED
  BY <1>1, <1>2, <1>3, <1>4, <1>5, <1>6, <1>7, <1>8, <1>9 DEF Handled

\* A lost frame is one more.
LEMMA LosesFacts ==
  ASSUME FrameInv, Loses
  PROVE  Lost \subseteq Lost' /\ Lost' \subseteq Lost \cup {ptr[frameOut]} /\ heap' = heap
<1>1. Pointed \subseteq Pointed' \cup {ptr[frameOut]} /\ Pointed' \subseteq Pointed \cup {NULL}
  BY PointerFacts, PointedFacts DEF Loses
<1>2. Queued' = Queued /\ mFramePool' = mFramePool /\ heap' = heap
  BY DEF Loses, Queued
<1>3. Lost = Frames \ Owned /\ Lost' = Frames \ Owned'
  BY DEF Lost, Owned, Pointed
<1> QED BY <1>1, <1>2, <1>3, NullIsNoFrame DEF Owned

-----------------------------------------------------------------------------
(* Every action treats frames in one of these ways. *)

\* The calls of the app thread touch no frame.
LEMMA AppCallsHandle ==
  ASSUME IInv, AppCalls
  PROVE  Handled \/ Loses
<1> USE PointerFacts DEF IInv
<1>1. ASSUME NEW attach \in BOOLEAN, setPreviewDisplay(attach) PROVE Handled \/ Loses
  BY <1>1 DEF Handled, setPreviewDisplay
<1>2. ASSUME startPreview PROVE Handled \/ Loses
  BY <1>2 DEF Handled, startPreview
<1>3. ASSUME NEW kind \in {"stop", "release"}, stopPreview(kind) PROVE Handled \/ Loses
  BY <1>3 DEF Handled, stopPreview
<1>4. ASSUME NEW k \in Callbacks \cup {NULL}, setFrameCallback(k) PROVE Handled \/ Loses
  BY <1>4 DEF Handled, setFrameCallback, setBegin
<1>5. ASSUME NEW v \in Windows \cup {NULL}, setCaptureDisplay(v) PROVE Handled \/ Loses
  BY <1>5 DEF Handled, setCaptureDisplay, setBegin
<1> QED BY <1>1, <1>2, <1>3, <1>4, <1>5 DEF AppCalls

\* The rest of a call clears queues and the pool.
LEMMA AppReturnsHandle ==
  ASSUME IInv, AppReturns
  PROVE  Handled \/ Loses
<1> USE PointerFacts DEF IInv
<1>1. ASSUME startCreate PROVE Handled \/ Loses
  BY <1>1 DEF Handled, startCreate
<1>2. ASSUME startFailed PROVE Handled \/ Loses
  BY <1>2 DEF Handled, startFailed
<1>3. ASSUME signalPreview PROVE Handled \/ Loses
  BY <1>3 DEF Handled, signalPreview
<1>4. ASSUME signalCapture PROVE Handled \/ Loses
  BY <1>4 DEF Handled, signalCapture
<1>5. ASSUME joinCapture PROVE Handled \/ Loses
  BY <1>5 DEF Handled, joinCapture
<1>6. ASSUME joinPreview PROVE Handled \/ Loses
  BY <1>6 DEF Handled, joinPreview
<1>7. ASSUME stopClearPreview PROVE Handled \/ Loses
  BY <1>7 DEF Handled, stopClearPreview
<1>8. ASSUME stopClearCapture PROVE Handled \/ Loses
  BY <1>8 DEF Handled, stopClearCapture, clearCaptureFrame, Recycles
<1>9. ASSUME stopReleaseWindows PROVE Handled \/ Loses
  BY <1>9 DEF Handled, stopReleaseWindows, Frees
<1>10. ASSUME setWait PROVE Handled \/ Loses
  BY <1>10 DEF Handled, setWait
<1>11. ASSUME setWoken PROVE Handled \/ Loses
  BY <1>11 DEF Handled, setWoken
<1>12. ASSUME setReplace PROVE Handled \/ Loses
  BY <1>12 DEF Handled, setReplace
<1>13. ASSUME NEW c \in CapThreads, captureJoined(c) PROVE Handled \/ Loses
  BY <1>13 DEF Handled, captureJoined
<1> QED
  BY <1>1, <1>2, <1>3, <1>4, <1>5, <1>6, <1>7, <1>8, <1>9, <1>10, <1>11, <1>12, <1>13
  DEF AppReturns

\* libuvc's callback thread gets, recycles and queues its copy.
LEMMA UvcHandles ==
  ASSUME IInv, UvcThread
  PROVE  Handled \/ Loses
<1> USE PointerFacts DEF IInv
<1>1. ASSUME uvcFrameArrives PROVE Handled \/ Loses
  BY <1>1 DEF Handled, Gets, uvcFrameArrives, FramesInHand, At
<1>2. ASSUME uvcDuplicate PROVE Handled \/ Loses
  BY <1>2 DEF Handled, Recycles, uvcDuplicate, FramesInHand, At
<1>3. ASSUME addPreviewFrame PROVE Handled \/ Loses
  BY <1>3 DEF Handled, Recycles, Enqueues, addPreviewFrame, FramesInHand, At
<1> QED BY <1>1, <1>2, <1>3 DEF UvcThread, UvcReturns

\* The preview thread; only its addCaptureFrame can lose a frame.
LEMMA PreviewHandles ==
  ASSUME IInv, PreviewThread
  PROVE  Handled \/ Loses
<1> USE PointerFacts DEF IInv
<1>1. ASSUME preparePreview PROVE Handled \/ Loses
  BY <1>1 DEF Handled, preparePreview
<1>2. ASSUME previewClearQueue PROVE Handled \/ Loses
  BY <1>2 DEF Handled, previewClearQueue
<1>3. ASSUME NEW c \in CapThreads, createCapture(c) PROVE Handled \/ Loses
  BY <1>3 DEF Handled, createCapture
<1>4. ASSUME previewLoop PROVE Handled \/ Loses
  BY <1>4 DEF Handled, previewLoop
<1>5. ASSUME waitPreviewFrame PROVE Handled \/ Loses
  BY <1>5 DEF Handled, Dequeues, waitPreviewFrame, takePreviewFrame, FramesInHand, At
<1>6. ASSUME previewWoken PROVE Handled \/ Loses
  BY <1>6 DEF Handled, Dequeues, previewWoken, takePreviewFrame, FramesInHand, At
<1>7. ASSUME previewDecode PROVE Handled \/ Loses
  BY <1>7 DEF Handled, Gets, previewDecode, FramesInHand, At
<1>8. ASSUME decodeFails PROVE Handled \/ Loses
  BY <1>8 DEF Handled, Recycles, decodeFails, FramesInHand, At
<1>9. ASSUME addCaptureFrame PROVE Handled \/ Loses
  <2>1. /\ At("preview", "decoded") /\ ptr[frameOut] # NULL /\ pc'["preview"] = "recycleIn"
        /\ mIsRunning' = mIsRunning /\ starts' = starts /\ UNCHANGED previewFrames
    BY <1>9, ThreadFacts
    DEF addCaptureFrame, keepLatest, previewOnly, flagVars, callVars, FramesInHand, At, Goto,
        TypeOK, PcTypes
  <2>2. CASE ~mIsRunning
    BY <1>9, <2>1, <2>2 DEF addCaptureFrame, keepLatest, isRunning, Loses
  <2>3. CASE mIsRunning /\ ptr[captureQueu] = NULL
    BY <1>9, <2>1, <2>3 DEF addCaptureFrame, keepLatest, isRunning, Handled, Moves
  <2>4. CASE mIsRunning /\ ptr[captureQueu] # NULL
    BY <1>9, <2>1, <2>4 DEF addCaptureFrame, keepLatest, isRunning, Handled, Replaces
  <2> QED BY <2>2, <2>3, <2>4
<1>10. ASSUME recycleIn PROVE Handled \/ Loses
  BY <1>10 DEF Handled, Recycles, recycleIn, FramesInHand, At
<1>11. ASSUME previewEnd PROVE Handled \/ Loses
  BY <1>11 DEF Handled, previewEnd
<1>12. ASSUME stopStreaming PROVE Handled \/ Loses
  BY <1>12 DEF Handled, stopStreaming
<1>13. ASSUME createCaptureFails PROVE Handled \/ Loses
  BY <1>13 DEF Handled, createCaptureFails
<1> QED
  BY <1>1, <1>2, <1>3, <1>4, <1>5, <1>6, <1>7, <1>8, <1>9, <1>10, <1>11, <1>12, <1>13
  DEF PreviewThread

\* A capture thread moves, copies and recycles what it holds.
LEMMA CaptureHandles ==
  ASSUME IInv, NEW c \in CapThreads, CaptureThread(c)
  PROVE  Handled \/ Loses
<1> USE PointerFacts DEF IInv
<1>1. ASSUME captureBegin(c) PROVE Handled \/ Loses
  BY <1>1 DEF Handled, Recycles, captureBegin, clearCaptureFrame
<1>2. ASSUME do_capture(c) PROVE Handled \/ Loses
  BY <1>2 DEF Handled, do_capture
<1>3. ASSUME chooseLoop(c) PROVE Handled \/ Loses
  BY <1>3 DEF Handled, chooseLoop
<1>4. ASSUME innerLoop(c) PROVE Handled \/ Loses
  BY <1>4 DEF Handled, innerLoop
<1>5. ASSUME waitCaptureFrame(c) PROVE Handled \/ Loses
  BY <1>5 DEF Handled, Moves, waitCaptureFrame, takeCaptureFrame, FramesInHand, At
<1>6. ASSUME captureWoken(c) PROVE Handled \/ Loses
  BY <1>6 DEF Handled, Moves, captureWoken, takeCaptureFrame, FramesInHand, At
<1>7. ASSUME readWindow(c) PROVE Handled \/ Loses
  BY <1>7 DEF Handled, readWindow
<1>8. ASSUME copyToSurface(c) PROVE Handled \/ Loses
  BY <1>8 DEF Handled, copyToSurface
<1>9. ASSUME readCallback(c) PROVE Handled \/ Loses
  BY <1>9 DEF Handled, Moves, Gets, Recycles, readCallback, FramesInHand, At
<1>10. ASSUME convertFrame(c) PROVE Handled \/ Loses
  BY <1>10 DEF Handled, Recycles, convertFrame, FramesInHand, At
<1>11. ASSUME skipCallback(c) PROVE Handled \/ Loses
  BY <1>11 DEF Handled, Recycles, skipCallback, FramesInHand, At
<1>12. ASSUME onFrame(c) PROVE Handled \/ Loses
  BY <1>12 DEF Handled, onFrame
<1>13. ASSUME recycleCallbackFrame(c) PROVE Handled \/ Loses
  BY <1>13 DEF Handled, Recycles, recycleCallbackFrame, FramesInHand, At
<1>14. ASSUME dropWindow(c) PROVE Handled \/ Loses
  BY <1>14 DEF Handled, dropWindow
<1>15. ASSUME releaseWindow(c) PROVE Handled \/ Loses
  BY <1>15 DEF Handled, releaseWindow
<1>16. ASSUME clearWindow(c) PROVE Handled \/ Loses
  BY <1>16 DEF Handled, clearWindow
<1>17. ASSUME captureBroadcast(c) PROVE Handled \/ Loses
  BY <1>17 DEF Handled, captureBroadcast
<1> QED
  BY <1>1, <1>2, <1>3, <1>4, <1>5, <1>6, <1>7, <1>8, <1>9, <1>10, <1>11, <1>12, <1>13, <1>14,
     <1>15, <1>16, <1>17
  DEF CaptureThread

-----------------------------------------------------------------------------
(* What every action does to the numbers of starts and of threads. *)

\* What a step does to the counters: a new loss becomes possible only with a new start,
\* and at most one capture thread is created.
Counts == /\ starts' \in Nat /\ starts' >= starts
          /\ MayLose' => MayLose \/ starts' = starts + 1
          /\ Started \subseteq Started' /\ \E x : Started' \subseteq Started \cup {x}

\* A step of one of the three other threads starts no capture thread.
LEMMA NotCapture ==
  ASSUME IInv, NEW t \in {"app", "uvc", "preview"}, NEW l, pc' = [pc EXCEPT ![t] = l]
  PROVE  /\ Started' = Started
         /\ t # "preview" => pc'["preview"] = pc["preview"]
         /\ t = "preview" => pc'["preview"] = l
BY ThreadFacts DEF IInv, TypeOK, PcTypes, Started, At

\* A capture thread that moves on was started and stays so.
LEMMA CaptureGoes ==
  ASSUME IInv, NEW c \in CapThreads, ~At(c, "off"), NEW l, l # "off", pc' = [pc EXCEPT ![c] = l]
  PROVE  Started' = Started /\ pc'["preview"] = pc["preview"]
BY ThreadFacts DEF IInv, TypeOK, PcTypes, Started, At

\* A capture thread's step starts nothing and goes to a place in its loops.
CaptureGoesOn(c) == /\ UNCHANGED <<mIsRunning, starts>> /\ ~At(c, "off")
                    /\ \E l : l # "off" /\ pc' = [pc EXCEPT ![c] = l]

\* Every step of a capture thread is one.
LEMMA CaptureGoesOnStep ==
  ASSUME IInv, NEW c \in CapThreads, CaptureThread(c)
  PROVE  CaptureGoesOn(c)
<1> USE DEF IInv
<1>1. ASSUME captureBegin(c) PROVE CaptureGoesOn(c)
  BY <1>1 DEF CaptureGoesOn, captureBegin, captureOnly, callVars, At, Goto
<1>2. ASSUME do_capture(c) PROVE CaptureGoesOn(c)
  BY <1>2 DEF CaptureGoesOn, do_capture, captureOnly, callVars, At, Goto
<1>3. ASSUME chooseLoop(c) PROVE CaptureGoesOn(c)
  BY <1>3 DEF CaptureGoesOn, chooseLoop, captureOnly, callVars, At, Goto
<1>4. ASSUME innerLoop(c) PROVE CaptureGoesOn(c)
  BY <1>4 DEF CaptureGoesOn, innerLoop, captureOnly, callVars, At, Goto
<1>5. ASSUME waitCaptureFrame(c) PROVE CaptureGoesOn(c)
  BY <1>5
  DEF CaptureGoesOn, waitCaptureFrame, captureOnly, callVars, At, Goto, takeCaptureFrame
<1>6. ASSUME captureWoken(c) PROVE CaptureGoesOn(c)
  BY <1>6 DEF CaptureGoesOn, captureWoken, captureOnly, callVars, At, Goto, takeCaptureFrame
<1>7. ASSUME readWindow(c) PROVE CaptureGoesOn(c)
  BY <1>7 DEF CaptureGoesOn, readWindow, captureOnly, callVars, At, Goto
<1>8. ASSUME copyToSurface(c) PROVE CaptureGoesOn(c)
  BY <1>8 DEF CaptureGoesOn, copyToSurface, captureOnly, callVars, At, Goto
<1>9. ASSUME readCallback(c) PROVE CaptureGoesOn(c)
  BY <1>9 DEF CaptureGoesOn, readCallback, captureOnly, callVars, At, Goto
<1>10. ASSUME convertFrame(c) PROVE CaptureGoesOn(c)
  BY <1>10 DEF CaptureGoesOn, convertFrame, captureOnly, callVars, At, Goto
<1>11. ASSUME skipCallback(c) PROVE CaptureGoesOn(c)
  BY <1>11 DEF CaptureGoesOn, skipCallback, captureOnly, callVars, At, Goto
<1>12. ASSUME onFrame(c) PROVE CaptureGoesOn(c)
  BY <1>12 DEF CaptureGoesOn, onFrame, captureOnly, callVars, At, Goto
<1>13. ASSUME recycleCallbackFrame(c) PROVE CaptureGoesOn(c)
  BY <1>13 DEF CaptureGoesOn, recycleCallbackFrame, captureOnly, callVars, At, Goto
<1>14. ASSUME dropWindow(c) PROVE CaptureGoesOn(c)
  BY <1>14 DEF CaptureGoesOn, dropWindow, captureOnly, callVars, At, Goto
<1>15. ASSUME releaseWindow(c) PROVE CaptureGoesOn(c)
  BY <1>15 DEF CaptureGoesOn, releaseWindow, captureOnly, callVars, At, Goto
<1>16. ASSUME clearWindow(c) PROVE CaptureGoesOn(c)
  BY <1>16 DEF CaptureGoesOn, clearWindow, captureOnly, callVars, At, Goto
<1>17. ASSUME captureBroadcast(c) PROVE CaptureGoesOn(c)
  BY <1>17 DEF CaptureGoesOn, captureBroadcast, captureOnly, callVars, At, Goto
<1> QED
  BY <1>1, <1>2, <1>3, <1>4, <1>5, <1>6, <1>7, <1>8, <1>9, <1>10, <1>11, <1>12, <1>13, <1>14,
     <1>15, <1>16, <1>17
  DEF CaptureThread

\* A capture thread's step changes no number.
LEMMA CaptureCounts ==
  ASSUME IInv, NEW c \in CapThreads, CaptureThread(c)
  PROVE  Counts
<1>1. PICK l : l # "off" /\ pc' = [pc EXCEPT ![c] = l] /\ ~At(c, "off")
               /\ UNCHANGED <<mIsRunning, starts>>
  BY CaptureGoesOnStep DEF CaptureGoesOn
<1>2. Started' = Started /\ pc'["preview"] = pc["preview"]
  BY <1>1, CaptureGoes
<1>3. starts' \in Nat /\ starts' >= starts
  BY <1>1 DEF IInv, TypeOK, LocalTypes
<1> QED BY <1>1, <1>2, <1>3 DEF Counts, MayLose

\* A step of one of the three other threads that starts nothing.
Steady == /\ starts' = starts /\ (mIsRunning' => mIsRunning)
          /\ \E t \in {"app", "uvc", "preview"} : \E l :
               /\ pc' = [pc EXCEPT ![t] = l]
               /\ t = "preview" /\ l \in {"decode", "decoded"} => MayLose

\* Such a step changes no number and gives no new chance to lose a frame.
LEMMA SteadyCounts ==
  ASSUME IInv, Steady
  PROVE  Counts
<1>1. PICK t \in {"app", "uvc", "preview"} :
        \E l : /\ pc' = [pc EXCEPT ![t] = l]
               /\ t = "preview" /\ l \in {"decode", "decoded"} => MayLose
  BY DEF Steady
<1>2. PICK l : /\ pc' = [pc EXCEPT ![t] = l]
               /\ t = "preview" /\ l \in {"decode", "decoded"} => MayLose
  BY <1>1
<1>3. /\ Started' = Started
      /\ t # "preview" => pc'["preview"] = pc["preview"]
      /\ t = "preview" => pc'["preview"] = l
  BY <1>2, NotCapture
<1>4. starts' \in Nat /\ starts' >= starts
  BY DEF Steady, IInv, TypeOK, LocalTypes
<1> QED BY <1>2, <1>3, <1>4 DEF Counts, MayLose, Steady

\* The steps of the app thread.
LEMMA AppCounts ==
  ASSUME IInv, AppCalls \/ AppReturns
  PROVE  Counts
<1>1. CASE startPreview
  <2>1. Started' = Started /\ pc'["preview"] = pc["preview"]
    BY <1>1, NotCapture DEF startPreview, Goto
  <2> QED BY <1>1, <2>1 DEF startPreview, Counts, MayLose, IInv, TypeOK, LocalTypes
<1>2. CASE \E attach \in BOOLEAN : setPreviewDisplay(attach)
  <2>1. starts' = starts /\ pc' = pc /\ mIsRunning' = mIsRunning
    BY <1>2 DEF setPreviewDisplay, flagVars
  <2> QED BY <2>1 DEF Counts, MayLose, Started, At, IInv, TypeOK, LocalTypes
<1>3. CASE \E kind \in {"stop", "release"} : stopPreview(kind)
  <2>1. PICK kind \in {"stop", "release"} : stopPreview(kind)
    BY <1>3
  <2> DEFINE l == IF isRunning THEN "signalPreview" ELSE "clearPreview"
  <2>2. pc' = [pc EXCEPT !["app"] = l] /\ starts' = starts /\ mIsRunning' = FALSE
    BY <2>1 DEF stopPreview, Goto
  <2> HIDE DEF l
  <2> QED BY <2>2, SteadyCounts DEF Steady
<1>4. ASSUME NEW kind, NEW val, setBegin(kind, val) PROVE Counts
  <2>1. starts' = starts /\ mIsRunning' = mIsRunning /\ \E l : pc' = [pc EXCEPT !["app"] = l]
    BY <1>4 DEF setBegin, Goto
  <2> QED BY <2>1, SteadyCounts DEF Steady
<1>5. CASE startCreate
  <2>1. starts' = starts /\ mIsRunning' = mIsRunning
    BY <1>5 DEF startCreate, callVars, flagVars
  <2>2. CASE pc' = [pc EXCEPT !["app"] = "ready", !["preview"] = "prepare"]
    <3>1. Started' = Started /\ pc'["preview"] = "prepare"
      BY <2>2, ThreadFacts DEF IInv, TypeOK, PcTypes, Started, At
    <3> QED BY <2>1, <3>1 DEF Counts, MayLose, IInv, TypeOK, LocalTypes
  <2>3. CASE Goto("app", "startFailed")
    BY <2>1, <2>3, SteadyCounts DEF Steady, Goto
  <2> QED BY <1>5, <2>2, <2>3 DEF startCreate
<1>6. CASE joinCapture
  <2>1. starts' = starts /\ mIsRunning' = mIsRunning /\ \E l : pc' = [pc EXCEPT !["app"] = l]
    BY <1>6 DEF joinCapture, flagVars, Goto
  <2> QED BY <2>1, SteadyCounts DEF Steady
<1>7. CASE joinPreview
  <2>1. Started' = Started /\ pc'["preview"] = "off"
    BY <1>7, ThreadFacts DEF joinPreview, IInv, TypeOK, PcTypes, Started, At
  <2> QED
    BY <1>7, <2>1
    DEF joinPreview, callVars, flagVars, Counts, MayLose, IInv, TypeOK, LocalTypes
<1>8. CASE startFailed \/ setWait \/ setWoken \/ setReplace
  BY <1>8, SteadyCounts
  DEF Steady, startFailed, setWait, setWoken, setReplace, flagVars, callVars, Goto
<1>9. CASE signalPreview \/ signalCapture \/ stopClearPreview \/ stopClearCapture
  BY <1>9, SteadyCounts
  DEF Steady, signalPreview, signalCapture, stopClearPreview, stopClearCapture, flagVars,
      callVars, Goto
<1>10. CASE stopReleaseWindows
  <2> DEFINE l == IF req.kind = "release" THEN "deleted" ELSE "ready"
  <2>1. pc' = [pc EXCEPT !["app"] = l] /\ starts' = starts /\ mIsRunning' = mIsRunning
    BY <1>10 DEF stopReleaseWindows, Goto, flagVars
  <2> HIDE DEF l
  <2> QED BY <2>1, SteadyCounts DEF Steady
<1>11. ASSUME NEW c \in CapThreads, captureJoined(c) PROVE Counts
  <2>1. Started' = Started /\ pc'["preview"] = pc["preview"]
    BY <1>11, ThreadFacts DEF captureJoined, IInv, TypeOK, PcTypes, Started, At
  <2> QED
    BY <1>11, <2>1
    DEF captureJoined, flagVars, Counts, MayLose, IInv, TypeOK, LocalTypes
<1> QED
  BY <1>1, <1>2, <1>3, <1>4, <1>5, <1>6, <1>7, <1>8, <1>9, <1>10, <1>11
  DEF AppCalls, AppReturns, setFrameCallback, setCaptureDisplay

\* The steps of libuvc's callback thread.
LEMMA UvcCounts ==
  ASSUME IInv, UvcThread
  PROVE  Counts
BY SteadyCounts
DEF Steady, UvcThread, UvcReturns, uvcFrameArrives, uvcDuplicate, addPreviewFrame, flagVars,
    callVars, Goto

\* The steps of the preview thread.
LEMMA PreviewCounts ==
  ASSUME IInv, PreviewThread
  PROVE  Counts
<1>1. starts' = starts /\ mIsRunning' = mIsRunning
  BY
  DEF PreviewThread, preparePreview, previewClearQueue, createCapture, createCaptureFails, previewLoop,
      waitPreviewFrame, previewWoken, previewDecode, decodeFails, addCaptureFrame, keepLatest,
      recycleIn, previewEnd, stopStreaming, previewOnly, flagVars, callVars
<1>2. CASE preparePreview \/ stopStreaming
  <2>1. /\ \A c \in CapThreads : pc'[c] = pc[c]
        /\ pc'["preview"] \notin {"decode", "decoded"}
    BY <1>2, ThreadFacts DEF preparePreview, stopStreaming, Goto, IInv, TypeOK, PcTypes
  <2> QED BY <1>1, <2>1 DEF Counts, MayLose, Started, At, IInv, TypeOK, LocalTypes
<1>3. CASE previewClearQueue \/ createCaptureFails \/ previewLoop \/ decodeFails \/ addCaptureFrame \/ recycleIn
           \/ previewEnd
  <2>1. \E l : l \notin {"decode", "decoded"} /\ pc' = [pc EXCEPT !["preview"] = l]
    BY <1>3
    DEF previewClearQueue, createCaptureFails, previewLoop, decodeFails, addCaptureFrame, keepLatest, recycleIn,
        previewEnd, Goto
  <2> QED BY <1>1, <2>1, SteadyCounts DEF Steady
<1>4. CASE previewDecode
  BY <1>1, <1>4, SteadyCounts DEF Steady, previewDecode, MayLose, At, Goto
<1>5. CASE waitPreviewFrame \/ previewWoken
  <2>1. \/ mIsRunning /\ pc' = [pc EXCEPT !["preview"] = "decode"]
        \/ pc' = [pc EXCEPT !["preview"] = "loop"]
        \/ pc' = [pc EXCEPT !["preview"] = "blocked"]
    BY <1>5 DEF waitPreviewFrame, previewWoken, takePreviewFrame, isRunning, Goto
  <2> QED BY <1>1, <2>1, SteadyCounts DEF Steady, MayLose
<1>6. ASSUME NEW c \in CapThreads, createCapture(c) PROVE Counts
  <2>1. /\ \A d \in CapThreads \ {c} : pc'[d] = pc[d]
        /\ pc'[c] = "begin" /\ pc'["preview"] = "loop"
    BY <1>6, ThreadFacts DEF createCapture, IInv, TypeOK, PcTypes
  <2>2. Started \subseteq Started' /\ Started' \subseteq Started \cup {c}
    BY <2>1 DEF Started, At
  <2>3. starts' \in Nat /\ starts' >= starts /\ (MayLose' => MayLose)
    BY <1>1, <2>1 DEF MayLose, IInv, TypeOK, LocalTypes
  <2> QED BY <2>2, <2>3 DEF Counts
<1> QED BY <1>2, <1>3, <1>4, <1>5, <1>6 DEF PreviewThread

\* The queue never holds more than its capacity.
LEMMA QueueStays ==
  ASSUME FrameInv, Handled \/ Loses, Len(previewFrames) <= MAX_FRAME
  PROVE  Len(previewFrames') <= MAX_FRAME
<1>1. CASE previewFrames' = previewFrames
  BY <1>1
<1>2. CASE previewFrames' = <<>>
  BY <1>2, ConstantsAssumption
<1>3. CASE Enqueues
  BY <1>3, ConstantsAssumption DEF Enqueues, FrameInv, FrameTypes
<1>4. CASE Dequeues
  BY <1>4, ConstantsAssumption DEF Dequeues, FrameInv, FrameTypes
<1> QED
  BY <1>1, <1>2, <1>3, <1>4
  DEF Handled, Loses, frameVars, clearPreviewFrame, Frees, Gets, get_frame, Recycles,
      recycle_frame, Moves, Replaces

-----------------------------------------------------------------------------
(* Counting. *)

\* A new element makes a set one larger.
LEMMA AddNew ==
  ASSUME NEW S, IsFiniteSet(S), NEW x, x \notin S, NEW T, T = S \cup {x}
  PROVE  IsFiniteSet(T) /\ Cardinality(T) = Cardinality(S) + 1
BY FS_AddElement

\* The pointers of C's threads and the four others hold at most four frames and two for each
\* member of C.
LEMMA CountHeld ==
  ASSUME NEW V, NEW f \in [Pointers -> V], NEW C \in SUBSET CapThreads, IsFiniteSet(C),
         \A c \in CapThreads \ C : f[frame(c)] = NULL /\ f[callbackFrame(c)] = NULL
  PROVE  LET T == {f[p] : p \in Pointers} \ {NULL}
         IN  IsFiniteSet(T) /\ Cardinality(T) <= 4 + 2 * Cardinality(C)
<1> DEFINE K == {"frame", "callback_frame"}
           G == {captureQueu, copy, frameIn, frameOut}
           H == G \cup (C \X K)
           U == {f[p] : p \in H}
           T == {f[p] : p \in Pointers} \ {NULL}
<1>1. IsFiniteSet(K) /\ Cardinality(K) = 2
  <2>1. IsFiniteSet({"frame"}) /\ Cardinality({"frame"}) = 1
    BY FS_Singleton
  <2>2. K = {"frame"} \cup {"callback_frame"} /\ "callback_frame" \notin {"frame"}
    OBVIOUS
  <2> QED BY <2>1, <2>2, AddNew
<1>2. IsFiniteSet(C \X K) /\ Cardinality(C \X K) = Cardinality(C) * 2
  BY <1>1, FS_Product
<1>3. IsFiniteSet(G) /\ Cardinality(G) = 4
  <2> DEFINE G1 == {captureQueu}
             G2 == {captureQueu, copy}
             G3 == {captureQueu, copy, frameIn}
  <2>1. IsFiniteSet(G1) /\ Cardinality(G1) = 1
    BY FS_Singleton
  <2>2. G2 = G1 \cup {copy} /\ copy \notin G1
    BY PointerFacts
  <2>3. IsFiniteSet(G2) /\ Cardinality(G2) = 2
    BY <2>1, <2>2, AddNew
  <2>4. G3 = G2 \cup {frameIn} /\ frameIn \notin G2
    BY PointerFacts
  <2>5. IsFiniteSet(G3) /\ Cardinality(G3) = 3
    <3> HIDE DEF G2, G3
    <3> QED BY <2>3, <2>4, AddNew
  <2>6. G = G3 \cup {frameOut} /\ frameOut \notin G3
    BY PointerFacts
  <2> HIDE DEF G3, G
  <2> QED BY <2>5, <2>6, AddNew
<1>4. H \subseteq Pointers
  BY PointerFacts DEF Pointers
<1>5. T \subseteq U
  <2>1. ASSUME NEW p \in Pointers, p \notin H PROVE f[p] = NULL
    <3>1. PICK c \in CapThreads : p \in {frame(c), callbackFrame(c)}
      BY <2>1 DEF Pointers, frame, callbackFrame
    <3>2. c \notin C
      BY <2>1, <3>1 DEF frame, callbackFrame
    <3> QED BY <3>1, <3>2
  <2> QED BY <2>1
<1> HIDE DEF G, K
<1>6. IsFiniteSet(H) /\ Cardinality(H) <= 4 + 2 * Cardinality(C)
  <2>1. IsFiniteSet(G \cap (C \X K)) /\ Cardinality(G \cap (C \X K)) \in Nat
    BY <1>3, FS_Intersection, FS_CardinalityType
  <2>2. Cardinality(C) \in Nat
    BY FS_CardinalityType
  <2>3. IsFiniteSet(H) /\ Cardinality(H) = 4 + Cardinality(C) * 2 - Cardinality(G \cap (C \X K))
    BY <1>2, <1>3, FS_Union
  <2> QED BY <2>1, <2>2, <2>3
<1> HIDE DEF H
<1>7. IsFiniteSet(U) /\ Cardinality(U) <= Cardinality(H)
  <2> DEFINE g == [p \in H |-> f[p]]
  <2>1. g \in Surjection(H, U)
    BY DEF Surjection
  <2> QED BY <1>6, <2>1, FS_Surjection
<1> HIDE DEF U, T
<1>8. IsFiniteSet(T) /\ Cardinality(T) <= Cardinality(U)
  BY <1>5, <1>7, FS_Subset
<1>9. /\ Cardinality(T) \in Nat /\ Cardinality(U) \in Nat
      /\ Cardinality(H) \in Nat /\ Cardinality(C) \in Nat
  BY <1>6, <1>7, <1>8, FS_CardinalityType
<1>10. IsFiniteSet(T) /\ Cardinality(T) <= 4 + 2 * Cardinality(C)
  BY <1>6, <1>7, <1>8, <1>9
<1> QED BY <1>10 DEF T

\* A queue has at most as many elements as positions.
LEMMA CountQueued ==
  ASSUME NEW S, NEW q \in Seq(S), NEW n \in Nat, Len(q) <= n
  PROVE  LET T == {q[i] : i \in 1..Len(q)}
         IN  IsFiniteSet(T) /\ Cardinality(T) <= n
<1> DEFINE T == {q[i] : i \in 1..Len(q)}
           g == [i \in 1..Len(q) |-> q[i]]
<1>1. Len(q) \in Nat
  OBVIOUS
<1>2. g \in Surjection(1..Len(q), T)
  BY DEF Surjection
<1>3. IsFiniteSet(1..Len(q)) /\ Cardinality(1..Len(q)) = Len(q)
  <2>1. \A b \in Int : /\ IsFiniteSet(1..b)
                       /\ Cardinality(1..b) = IF 1 > b THEN 0 ELSE b - 1 + 1
    BY FS_Interval
  <2>2. \A b \in Nat : IsFiniteSet(1..b) /\ Cardinality(1..b) = b
    BY <2>1
  <2> QED BY <1>1, <2>2
<1> HIDE DEF g, T
<1>4. IsFiniteSet(T) /\ Cardinality(T) <= Len(q)
  BY <1>2, <1>3, FS_Surjection
<1>5. Cardinality(T) \in Nat
  BY <1>4, FS_CardinalityType
<1>6. IsFiniteSet(T) /\ Cardinality(T) <= n
  BY <1>1, <1>4, <1>5
<1> QED BY <1>6 DEF T

\* The size of a union is at most the sum of the sizes.
LEMMA CountUnion ==
  ASSUME NEW A, NEW B, IsFiniteSet(A), IsFiniteSet(B), NEW X, X \subseteq A \cup B
  PROVE  /\ IsFiniteSet(X) /\ Cardinality(X) \in Nat
         /\ Cardinality(A) \in Nat /\ Cardinality(B) \in Nat
         /\ Cardinality(X) <= Cardinality(A) + Cardinality(B)
<1>1. /\ IsFiniteSet(A \cup B)
      /\ Cardinality(A \cup B) = Cardinality(A) + Cardinality(B) - Cardinality(A \cap B)
  BY FS_Union
<1>2. IsFiniteSet(A \cap B)
  BY FS_Intersection
<1>3. IsFiniteSet(X) /\ Cardinality(X) <= Cardinality(A \cup B)
  BY <1>1, FS_Subset
<1>4. /\ Cardinality(A \cap B) \in Nat /\ Cardinality(A) \in Nat /\ Cardinality(B) \in Nat
      /\ Cardinality(X) \in Nat /\ Cardinality(A \cup B) \in Nat
  BY <1>1, <1>2, <1>3, FS_CardinalityType
<1> QED BY <1>1, <1>3, <1>4

-----------------------------------------------------------------------------
(* The two invariants. *)

\* The strengthened count of the lost frames, and what bounds the memory.
LossInv == IsFiniteSet(Lost) /\ LostPerStart /\ (MayLose => Cardinality(Lost) < starts)
MemoryInv == /\ Len(previewFrames) <= MAX_FRAME
             /\ IsFiniteSet(Started) /\ IsFiniteSet(InUse) /\ FrameMemoryBound
CountInv == LossInv /\ MemoryInv

\* Every step handles or loses frames.
LEMMA NextHandles == IInv /\ Next => (Handled \/ Loses) /\ Counts
BY AppCallsHandle, AppReturnsHandle, UvcHandles, PreviewHandles, CaptureHandles, AppCounts,
   UvcCounts, PreviewCounts, CaptureCounts
DEF Next

\* A loss uses up the chance that a start gave.
LEMMA LossStep ==
  ASSUME IInv, LossInv, Handled \/ Loses, Counts
  PROVE  LossInv'
<1>0. /\ FrameInv /\ starts \in Nat /\ starts' >= starts
      /\ MayLose' => MayLose \/ starts' = starts + 1
  BY DEF Counts, IInv, TypeOK, FrameInv, LocalTypes
<1>1. IsFiniteSet(Lost) /\ Cardinality(Lost) \in Nat
  BY FS_CardinalityType DEF LossInv
<1>2. CASE Handled
  <2>1. Lost' = Lost
    BY <1>0, <1>2, HandledFacts
  <2>2. Cardinality(Lost) <= starts /\ starts' \in Nat
    BY DEF LossInv, LostPerStart, Counts
  <2>3. Cardinality(Lost) <= starts'
    BY <1>0, <1>1, <2>2
  <2>4. ASSUME MayLose' PROVE Cardinality(Lost) < starts'
    <3>1. CASE MayLose
      <4>1. Cardinality(Lost) < starts
        BY <3>1 DEF LossInv
      <4> QED BY <1>0, <1>1, <2>2, <4>1
    <3>2. CASE starts' = starts + 1
      BY <1>0, <1>1, <2>2, <3>2
    <3> QED BY <1>0, <2>4, <3>1, <3>2
  <2> QED BY <1>1, <2>1, <2>3, <2>4 DEF LossInv, LostPerStart
<1>3. CASE Loses
  <2>1. Lost' \subseteq Lost \cup {ptr[frameOut]}
    BY <1>0, <1>3, LosesFacts
  <2>2. /\ IsFiniteSet(Lost \cup {ptr[frameOut]})
        /\ Cardinality(Lost \cup {ptr[frameOut]}) <= Cardinality(Lost) + 1
    BY <1>1, FS_AddElement
  <2>3. IsFiniteSet(Lost') /\ Cardinality(Lost') <= Cardinality(Lost) + 1
    <3>1. IsFiniteSet(Lost') /\ Cardinality(Lost') <= Cardinality(Lost \cup {ptr[frameOut]})
      BY <2>1, <2>2, FS_Subset
    <3>2. Cardinality(Lost') \in Nat /\ Cardinality(Lost \cup {ptr[frameOut]}) \in Nat
      BY <2>2, <3>1, FS_CardinalityType
    <3> QED BY <1>1, <2>2, <3>1, <3>2
  <2>4. MayLose /\ ~MayLose' /\ starts' = starts
    BY <1>3 DEF Loses, MayLose, At
  <2>5. Cardinality(Lost) < starts
    BY <2>4 DEF LossInv
  <2>6. Cardinality(Lost') <= starts' /\ Cardinality(Lost') \in Nat
    BY <1>0, <1>1, <2>3, <2>4, <2>5, FS_CardinalityType
  <2> QED BY <2>3, <2>4, <2>6 DEF LossInv, LostPerStart
<1> QED BY <1>2, <1>3

\* The frames in use do not grow, or are all in the queue and in pointers of live threads.
LEMMA MemoryStep ==
  ASSUME IInv, IInv', MemoryInv, Handled \/ Loses, Counts
  PROVE  MemoryInv'
<1>0. FrameInv /\ FrameInv' /\ MAX_FRAME \in Nat
  BY ConstantsAssumption DEF IInv, TypeOK, FrameInv
<1>1. Len(previewFrames') <= MAX_FRAME
  BY <1>0, QueueStays DEF MemoryInv
<1>2. /\ IsFiniteSet(Started') /\ IsFiniteSet(Started)
      /\ Cardinality(Started) <= Cardinality(Started')
  <2>1. PICK x : Started \subseteq Started' /\ Started' \subseteq Started \cup {x}
    BY DEF Counts
  <2>2. IsFiniteSet(Started) /\ IsFiniteSet(Started \cup {x})
    BY FS_AddElement DEF MemoryInv
  <2>3. IsFiniteSet(Started')
    BY <2>1, <2>2, FS_Subset
  <2> QED BY <2>1, <2>2, <2>3, FS_Subset
<1>3. /\ Cardinality(Started) \in Nat /\ Cardinality(Started') \in Nat
  BY <1>2, FS_CardinalityType
<1>4. CASE InUse' \subseteq InUse
  <2>1. IsFiniteSet(InUse) /\ Cardinality(InUse) <= MAX_FRAME + 4 + 2 * Cardinality(Started)
    BY DEF MemoryInv, FrameMemoryBound, InUse, Started
  <2>2. IsFiniteSet(InUse') /\ Cardinality(InUse') <= Cardinality(InUse)
    BY <1>4, <2>1, FS_Subset
  <2>3. Cardinality(InUse) \in Nat /\ Cardinality(InUse') \in Nat
    BY <2>1, <2>2, FS_CardinalityType
  <2>4. Cardinality(InUse') <= MAX_FRAME + 4 + 2 * Cardinality(Started')
    BY <1>0, <1>2, <1>3, <2>1, <2>2, <2>3
  <2> QED BY <1>1, <1>2, <2>2, <2>4 DEF MemoryInv, FrameMemoryBound, InUse, Started
<1>5. CASE mFramePool' = {}
  <2> DEFINE A == {previewFrames'[i] : i \in 1..Len(previewFrames')}
             f == ptr'
             B == {f[p] : p \in Pointers} \ {NULL}
             C == Started'
  <2>1. InUse' \subseteq A \cup B
    <3>1. InUse' \subseteq mFramePool' \cup Queued' \cup Pointed' /\ InUse' \subseteq Frames
      BY DEF InUse, Lost, Pointed
    <3> QED BY <1>5, <3>1, NullIsNoFrame DEF Queued, Pointed
  <2>2. IsFiniteSet(A) /\ Cardinality(A) <= MAX_FRAME
    BY <1>0, <1>1, CountQueued DEF FrameInv, FrameTypes
  <2>3. IsFiniteSet(B) /\ Cardinality(B) <= 4 + 2 * Cardinality(Started')
    <3>1. f \in [Pointers -> Frames \cup {NULL}] /\ C \in SUBSET CapThreads /\ IsFiniteSet(C)
      BY <1>0, <1>2 DEF FrameInv, FrameTypes, Started
    <3>2. \A c \in CapThreads \ C : f[frame(c)] = NULL /\ f[callbackFrame(c)] = NULL
      BY DEF IInv, FramesInHand, Started, At
    <3> HIDE DEF f, C
    <3>3. IsFiniteSet(B) /\ Cardinality(B) <= 4 + 2 * Cardinality(C)
      BY <3>1, <3>2, CountHeld
    <3> QED BY <3>3 DEF C
  <2> HIDE DEF A, B
  <2>4. /\ IsFiniteSet(InUse') /\ Cardinality(InUse') \in Nat
        /\ Cardinality(A) \in Nat /\ Cardinality(B) \in Nat
        /\ Cardinality(InUse') <= Cardinality(A) + Cardinality(B)
    BY <2>1, <2>2, <2>3, CountUnion
  <2>5. Cardinality(InUse') <= MAX_FRAME + 4 + 2 * Cardinality(Started')
    BY <1>0, <1>3, <2>2, <2>3, <2>4
  <2> QED BY <1>1, <1>2, <2>4, <2>5 DEF MemoryInv, FrameMemoryBound, InUse, Started
<1>6. CASE Handled
  <2>1. Lost' = Lost /\ (heap \subseteq heap' \/ mFramePool' = {})
    BY <1>0, <1>6, HandledFacts
  <2> QED BY <1>4, <1>5, <2>1 DEF InUse
<1>7. CASE Loses
  <2>1. Lost \subseteq Lost' /\ heap' = heap
    BY <1>0, <1>7, LosesFacts
  <2> QED BY <1>4, <2>1 DEF InUse
<1> QED BY <1>6, <1>7

\* Nothing is in use or lost in a new object.
LEMMA InitCount == Init => CountInv
<1> SUFFICES ASSUME Init PROVE CountInv
  OBVIOUS
<1>1. Lost = {} /\ InUse = {} /\ Started = {}
  BY ThreadFacts DEF Init, Lost, InUse, Started, At
<1>2. ~MayLose /\ starts = 0 /\ Len(previewFrames) = 0 /\ MAX_FRAME \in Nat
  BY ThreadFacts, ConstantsAssumption DEF Init, MayLose
<1>3. IsFiniteSet({}) /\ Cardinality({}) = 0
  BY FS_EmptySet
<1>4. LossInv
  BY <1>1, <1>2, <1>3 DEF LossInv, LostPerStart
<1>5. /\ Cardinality(InUse) <= MAX_FRAME + 4 + 2 * Cardinality(Started)
      /\ Len(previewFrames) <= MAX_FRAME
  BY <1>1, <1>2, <1>3
<1> QED BY <1>1, <1>3, <1>4, <1>5 DEF CountInv, MemoryInv, FrameMemoryBound, InUse, Started

\* A step that changes nothing keeps the counts.
LEMMA StutterCount == CountInv /\ UNCHANGED vars => CountInv'
BY
DEF CountInv, LossInv, LostPerStart, MemoryInv, FrameMemoryBound, InUse, Started, Lost, Queued,
    MayLose, At, vars, frameVars, flagVars, callVars

\* The strengthened counts are invariants.
THEOREM CountInvariance == Spec => []CountInv
<1>1. IInv /\ IInv' /\ CountInv /\ [Next]_vars => CountInv'
  <2> SUFFICES ASSUME IInv, IInv', CountInv, Next PROVE CountInv'
    BY StutterCount
  <2>1. (Handled \/ Loses) /\ Counts
    BY NextHandles
  <2> QED BY <2>1, LossStep, MemoryStep DEF CountInv
<1> QED BY InitCount, Invariance, <1>1, PTL DEF Spec

\* addCaptureFrame loses at most one frame per startPreview, however the calls, the
\* camera and the threads interleave, and nothing else loses any.
THEOREM LossesBounded == Spec => []LostPerStart
<1>1. CountInv => LostPerStart
  BY DEF CountInv, LossInv
<1> QED BY <1>1, CountInvariance, PTL

\* The allocated frames that somebody owns are never more than the queue, captureQueu and
\* the locals of the threads that were started can hold.
THEOREM MemoryBounded == Spec => []FrameMemoryBound
<1>1. CountInv => FrameMemoryBound
  BY DEF CountInv, MemoryInv
<1> QED BY <1>1, CountInvariance, PTL

=============================================================================
