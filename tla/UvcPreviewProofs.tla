-------------------------- MODULE UvcPreviewProofs --------------------------
(***************************************************************************)
(* TypeOK, FrameOwnership, FramesInHand, StoppedIsDrained and              *)
(* NoMissedPreviewFrame are invariants of UvcPreview for every number of   *)
(* frames and of capture threads, every queue and pool size and any        *)
(* number of calls.                                                        *)
(*                                                                         *)
(* None is inductive alone. A frame keeps one owner because a thread only  *)
(* recycles or hands on a pointer it holds (FramesInHand); that needs the  *)
(* preview and uvc threads to start with empty hands, which follows from   *)
(* when the app thread may start them (Phases). The proof first shows what *)
(* each way of moving a frame does to the ownership (FrameInv), then which *)
(* of these each action is.                                                *)
(***************************************************************************)
EXTENDS UvcPreview, TLAPS

\* The part of the state that ownership is about.
FrameInv == FrameTypes /\ FrameOwnership

\* When the threads are alive, and when the queues are known to be empty.
Phases ==
  /\ pc["preview"] \in {"off", "prepare", "done"} => At("uvc", "off")
  /\ pc["app"] \in {"startCreate", "startFailed", "clearPreview", "clearCapture",
                    "releaseWindows", "deleted"} => At("preview", "off")
  /\ pc["app"] = "startCreate" => mIsRunning
  /\ pc["app"] \in {"ready", "setWait", "setBlocked", "setReplace"} /\ ~mIsRunning
       => At("preview", "off")
  /\ At("preview", "off") /\ ~At("app", "clearPreview") => previewFrames = <<>>
  /\ At("preview", "off") /\ pc["app"] \notin {"clearPreview", "clearCapture"}
       => ptr[captureQueu] = NULL
  /\ NoMissedPreviewFrame

IInv == TypeOK /\ FrameOwnership /\ FramesInHand /\ Phases

-----------------------------------------------------------------------------
(* Lemmas about the data. *)

\* The pointers are pairwise different.
LEMMA PointerFacts ==
  /\ captureQueu \in Pointers /\ copy \in Pointers
  /\ frameIn \in Pointers /\ frameOut \in Pointers
  /\ captureQueu # copy /\ captureQueu # frameIn /\ captureQueu # frameOut
  /\ copy # frameIn /\ copy # frameOut /\ frameIn # frameOut
  /\ \A c \in CapThreads :
       /\ frame(c) \in Pointers /\ callbackFrame(c) \in Pointers
       /\ frame(c) # callbackFrame(c)
       /\ frame(c) \notin {captureQueu, copy, frameIn, frameOut}
       /\ callbackFrame(c) \notin {captureQueu, copy, frameIn, frameOut}
       /\ \A d \in CapThreads : c # d =>
            frame(c) # frame(d) /\ callbackFrame(c) # callbackFrame(d)
            /\ frame(c) # callbackFrame(d)
<1>1. \A c \in CapThreads : c # "this" /\ c # "uvc" /\ c # "preview"
  BY ConstantsAssumption
<1> QED
  BY <1>1 DEF captureQueu, copy, frameIn, frameOut, frame, callbackFrame, Pointers

\* NULL is no frame, no thread is another one of a different kind.
LEMMA NullIsNoFrame == NULL \notin Frames
  BY ConstantsAssumption

\* What Append does to the elements of a sequence without repetitions.
LEMMA AppendElements ==
  ASSUME NEW S, NEW q \in Seq(S), NEW x \in S,
         \A i, j \in 1..Len(q) : q[i] = q[j] => i = j,
         x \notin {q[i] : i \in 1..Len(q)},
         NEW r, r = Append(q, x)
  PROVE  /\ r \in Seq(S)
         /\ {r[i] : i \in 1..Len(r)} = {q[i] : i \in 1..Len(q)} \cup {x}
         /\ \A i, j \in 1..Len(r) : r[i] = r[j] => i = j
<1>1. r \in Seq(S) /\ Len(r) = Len(q) + 1 /\ Len(q) \in Nat
  OBVIOUS
<1>2. r[Len(q) + 1] = x /\ \A i \in 1..Len(q) : r[i] = q[i]
  OBVIOUS
<1>3. 1..Len(r) = 1..Len(q) \cup {Len(q) + 1}
  BY <1>1
<1>4. {r[i] : i \in 1..Len(r)} = {q[i] : i \in 1..Len(q)} \cup {x}
  BY <1>2, <1>3
<1>5. \A i, j \in 1..Len(r) : r[i] = r[j] => i = j
  BY <1>1, <1>2, <1>3
<1> QED BY <1>1, <1>4, <1>5

-----------------------------------------------------------------------------
(* What each way of moving a frame does to the ownership. *)

\* get_frame fills an empty pointer and leaves the others alone.
LEMMA GetFrame ==
  ASSUME FrameInv, NEW p \in Pointers, ptr[p] = NULL, get_frame(p)
  PROVE  /\ FrameInv'
         /\ ptr' = [ptr EXCEPT ![p] = ptr'[p]] /\ ptr'[p] # NULL
<1> DEFINE f == CHOOSE g \in Obtainable : TRUE
<1>1. f \in Obtainable /\ f \in mFramePool \cup heap /\ f \in Frames
  BY DEF get_frame, Obtainable, FrameInv, FrameTypes
<1>2. ptr' = [ptr EXCEPT ![p] = f] /\ mFramePool' = mFramePool \ {f} /\ heap' = heap \ {f}
      /\ previewFrames' = previewFrames
  BY DEF get_frame
<1> HIDE DEF f
<1>3. f # NULL /\ f \notin Queued
  BY <1>1, NullIsNoFrame DEF FrameInv, FrameTypes, FrameOwnership
<1>4. \A q \in Pointers : ptr[q] # f
  BY <1>1, <1>3 DEF FrameInv, FrameTypes, FrameOwnership
<1> QED BY <1>1, <1>2, <1>3, <1>4 DEF FrameInv, FrameTypes, FrameOwnership, Queued

\* recycle_frame empties a pointer that owns a frame and leaves the others alone.
LEMMA RecycleFrame ==
  ASSUME FrameInv, NEW p \in Pointers, ptr[p] # NULL, recycle_frame(p)
  PROVE  FrameInv' /\ ptr' = [ptr EXCEPT ![p] = NULL] /\ previewFrames' = previewFrames
<1>1. ptr' = [ptr EXCEPT ![p] = NULL] /\ previewFrames' = previewFrames
  BY DEF recycle_frame
<1>2. /\ mFramePool' \cap heap' = {} /\ mFramePool' \subseteq Frames /\ heap' \subseteq Frames
      /\ mFramePool' \cup heap' = mFramePool \cup heap \cup {ptr[p]}
  BY DEF recycle_frame, FrameInv, FrameTypes, FrameOwnership
<1> QED BY <1>1, <1>2 DEF FrameInv, FrameTypes, FrameOwnership, Queued

\* clearPreviewFrame empties the queue and touches no pointer.
LEMMA ClearPreview ==
  ASSUME FrameInv, clearPreviewFrame
  PROVE  FrameInv' /\ ptr' = ptr /\ previewFrames' = <<>>
<1>1. ptr' = ptr /\ previewFrames' = <<>>
  BY DEF clearPreviewFrame
<1>2. PICK K : K \subseteq Queued /\ mFramePool' = mFramePool \cup K
                                  /\ heap' = heap \cup (Queued \ K)
  <2> DEFINE room == FRAME_POOL_SZ - Cardinality(mFramePool)
             K == {previewFrames[i] : i \in {j \in 1..Len(previewFrames) : j <= room}}
  <2>1. K \subseteq Queued
    BY DEF Queued
  <2>2. mFramePool' = mFramePool \cup K /\ heap' = heap \cup (Queued \ K)
    BY DEF clearPreviewFrame
  <2> QED BY <2>1, <2>2
<1>3. Queued \subseteq Frames
  BY DEF FrameInv, FrameTypes, Queued
<1>4. Queued' = {}
  BY <1>1 DEF Queued
<1>5. previewFrames' \in Seq(Frames) /\ Len(previewFrames') = 0
  BY <1>1
<1> QED BY <1>1, <1>2, <1>3, <1>4, <1>5 DEF FrameInv, FrameTypes, FrameOwnership

\* A hand-over from one pointer to an empty one.
LEMMA MoveFrame ==
  ASSUME FrameInv, NEW p \in Pointers, NEW q \in Pointers, p # q, ptr[q] = NULL,
         ptr' = [ptr EXCEPT ![q] = ptr[p], ![p] = NULL],
         UNCHANGED <<previewFrames, mFramePool, heap>>
  PROVE  FrameInv'
BY DEF FrameInv, FrameTypes, FrameOwnership, Queued

\* A pointer that is overwritten: its frame has no owner any more.
LEMMA DropFrame ==
  ASSUME FrameInv, NEW p \in Pointers, ptr' = [ptr EXCEPT ![p] = NULL],
         UNCHANGED <<previewFrames, mFramePool, heap>>
  PROVE  FrameInv'
BY DEF FrameInv, FrameTypes, FrameOwnership, Queued

\* addPreviewFrame: a pointer's frame goes to the end of the queue.
LEMMA EnqueueFrame ==
  ASSUME FrameInv, NEW p \in Pointers, ptr[p] # NULL,
         previewFrames' = Append(previewFrames, ptr[p]),
         ptr' = [ptr EXCEPT ![p] = NULL], UNCHANGED <<mFramePool, heap>>
  PROVE  FrameInv'
<1>1. ptr[p] \in Frames /\ ptr[p] \notin mFramePool \cup heap \cup Queued
  BY DEF FrameInv, FrameTypes, FrameOwnership
<1>2. /\ previewFrames' \in Seq(Frames)
      /\ Queued' = Queued \cup {ptr[p]}
      /\ \A i, j \in 1..Len(previewFrames') :
            previewFrames'[i] = previewFrames'[j] => i = j
  BY <1>1, AppendElements DEF FrameInv, FrameTypes, FrameOwnership, Queued
<1> QED BY <1>1, <1>2 DEF FrameInv, FrameTypes, FrameOwnership

\* waitPreviewFrame: the first frame of the queue goes to an empty pointer.
LEMMA DequeueFrame ==
  ASSUME FrameInv, NEW p \in Pointers, ptr[p] = NULL, previewFrames # <<>>,
         previewFrames' = Tail(previewFrames),
         ptr' = [ptr EXCEPT ![p] = Head(previewFrames)], UNCHANGED <<mFramePool, heap>>
  PROVE  FrameInv' /\ ptr'[p] # NULL
<1> DEFINE q == previewFrames
           r == previewFrames'
           f == Head(previewFrames)
<1>1. /\ q \in Seq(Frames) /\ q # <<>> /\ r = Tail(q) /\ f = Head(q)
      /\ \A i, j \in 1..Len(q) : q[i] = q[j] => i = j
  BY DEF FrameInv, FrameTypes, FrameOwnership
<1> HIDE DEF q, r, f
<1>2. r \in Seq(Frames) /\ Len(r) = Len(q) - 1 /\ Len(q) \in Nat /\ Len(q) >= 1
  BY <1>1
<1>3. f = q[1] /\ f \in Frames /\ 1 \in 1..Len(q) /\ \A i \in 1..Len(r) : r[i] = q[i + 1]
  BY <1>1, <1>2
<1>4. \A i \in 1..Len(r) : i + 1 \in 1..Len(q) /\ i + 1 # 1
  BY <1>2
<1>5. \A i \in 1..Len(q) : i # 1 => i - 1 \in 1..Len(r) /\ r[i - 1] = q[i]
  BY <1>2, <1>3
<1>6. {r[i] : i \in 1..Len(r)} = {q[i] : i \in 1..Len(q)} \ {f}
  <2>1. ASSUME NEW i \in 1..Len(r) PROVE r[i] \in {q[k] : k \in 1..Len(q)} \ {f}
    BY <1>1, <1>3, <1>4
  <2>2. ASSUME NEW i \in 1..Len(q), q[i] # f PROVE q[i] \in {r[k] : k \in 1..Len(r)}
    BY <1>3, <1>5, <2>2
  <2> QED BY <2>1, <2>2
<1>7. \A i, j \in 1..Len(r) : r[i] = r[j] => i = j
  BY <1>1, <1>2, <1>3, <1>4
<1>8. Queued' = Queued \ {f} /\ f \in Queued
  BY <1>3, <1>6 DEF q, r, Queued
<1>9. previewFrames' \in Seq(Frames) /\ ptr' = [ptr EXCEPT ![p] = f]
      /\ \A i, j \in 1..Len(previewFrames') :
            previewFrames'[i] = previewFrames'[j] => i = j
  BY <1>2, <1>7 DEF r, f
<1> QED BY <1>3, <1>8, <1>9, NullIsNoFrame DEF FrameInv, FrameTypes, FrameOwnership

\* addCaptureFrame: captureQueu's old frame is recycled, the new one moves in.
LEMMA ReplaceFrame ==
  ASSUME FrameInv, NEW p \in Pointers, NEW q \in Pointers, p # q, ptr[q] # NULL,
         ptr' = [ptr EXCEPT ![q] = ptr[p], ![p] = NULL],
         IF Cardinality(mFramePool) < FRAME_POOL_SZ
           THEN mFramePool' = mFramePool \cup {ptr[q]} /\ UNCHANGED heap
           ELSE heap' = heap \cup {ptr[q]} /\ UNCHANGED mFramePool,
         UNCHANGED previewFrames
  PROVE  FrameInv'
<1>1. /\ mFramePool' \cap heap' = {} /\ mFramePool' \subseteq Frames /\ heap' \subseteq Frames
      /\ mFramePool' \cup heap' = mFramePool \cup heap \cup {ptr[q]}
  BY DEF FrameInv, FrameTypes, FrameOwnership
<1> QED BY <1>1 DEF FrameInv, FrameTypes, FrameOwnership, Queued

\* ~UVCPreview: the pool is freed.
LEMMA FreePool ==
  ASSUME FrameInv, mFramePool' = {}, heap' = heap \cup mFramePool,
         UNCHANGED <<previewFrames, ptr>>
  PROVE  FrameInv'
BY DEF FrameInv, FrameTypes, FrameOwnership, Queued
-----------------------------------------------------------------------------
(* Every step preserves IInv. *)

\* The kinds of threads are pairwise different.
LEMMA ThreadFacts ==
  /\ "app" \in Threads /\ "uvc" \in Threads /\ "preview" \in Threads
  /\ CapThreads \subseteq Threads
  /\ \A c \in CapThreads : c # "app" /\ c # "uvc" /\ c # "preview"
BY ConstantsAssumption DEF Threads

\* The part of the invariant that is about frames.
LEMMA IInvFrames == IInv => FrameInv
BY DEF IInv, FrameInv, TypeOK

\* A step that leaves the frames alone keeps their ownership.
LEMMA SameFrames == FrameInv /\ UNCHANGED frameVars => FrameInv'
BY DEF FrameInv, FrameTypes, FrameOwnership, Queued, frameVars

\* The two setters' first step, while it takes capture_mutex.
LEMMA SetBeginStep ==
  ASSUME IInv, NEW kind \in {"callback", "window"}, NEW val,
         kind = "callback" => val \in Callbacks \cup {NULL},
         kind = "window" => val \in Windows \cup {NULL},
         setBegin(kind, val)
  PROVE  IInv'
<1> USE DEF IInv
<1>1. ASSUME setBegin(kind, val) PROVE IInv'
  <2>1. FrameInv' /\ UNCHANGED frameVars
    BY <1>1, IInvFrames, SameFrames DEF setBegin
  <2>2. FramesInHand'
    BY <1>1, <2>1, PointerFacts, ThreadFacts
    DEF FramesInHand, TypeOK, PcTypes, FrameTypes, frameVars, setBegin, Goto, At
  <2>3. PcTypes'
    BY <1>1, ThreadFacts DEF TypeOK, PcTypes, AppPCs, setBegin, Goto, At
  <2>4. FlagTypes' /\ SyncTypes'
    <3>1. winHeld' \subseteq Windows
      BY <1>1 DEF TypeOK, FlagTypes, setBegin
    <3>2. captureWait' \subseteq CapThreads \cup {"app"} /\ mIsCapturing' \in BOOLEAN
      BY <1>1 DEF TypeOK, FlagTypes, SyncTypes, setBegin, WakeOne
    <3> QED BY <1>1, <3>1, <3>2 DEF TypeOK, FlagTypes, SyncTypes, setBegin
  <2>5. LocalTypes'
    <3>1. CASE kind = "callback"
      BY <1>1, <3>1 DEF TypeOK, LocalTypes, setBegin
    <3>2. CASE kind = "window"
      BY <1>1, <3>2 DEF TypeOK, LocalTypes, setBegin
    <3> QED BY <3>1, <3>2
  <2>6. Phases'
    BY <1>1, <2>1, PointerFacts, ThreadFacts
    DEF Phases, NoMissedPreviewFrame, TypeOK, PcTypes, FlagTypes, FrameTypes, flagVars,
        winVars, syncVars, callVars, frameVars, setBegin, Goto, At, WakeOne, isRunning,
            isCapturing
  <2> QED BY <2>1, <2>2, <2>3, <2>4, <2>5, <2>6 DEF FrameInv, TypeOK
<1> QED BY <1>1

\* The calls of the app thread.
LEMMA AppCallsStep ==
  ASSUME IInv, AppCalls
  PROVE  IInv'
<1> USE DEF IInv
<1>1. ASSUME NEW attach \in BOOLEAN, setPreviewDisplay(attach) PROVE IInv'
  <2>1. FrameInv' /\ UNCHANGED frameVars
    BY <1>1, IInvFrames, SameFrames DEF setPreviewDisplay
  <2>2. FramesInHand'
    BY <1>1, <2>1, PointerFacts, ThreadFacts
    DEF FramesInHand, TypeOK, PcTypes, FrameTypes, frameVars, setPreviewDisplay, Goto,
        At
  <2>3. PcTypes'
    BY <1>1, ThreadFacts DEF TypeOK, PcTypes, AppPCs, setPreviewDisplay, Goto, At
  <2>4. FlagTypes' /\ SyncTypes' /\ LocalTypes'
    BY <1>1
    DEF TypeOK, FlagTypes, SyncTypes, LocalTypes, flagVars, winVars, syncVars,
        callVars, setPreviewDisplay
  <2>5. Phases'
    BY <1>1, <2>1, PointerFacts, ThreadFacts
    DEF Phases, NoMissedPreviewFrame, TypeOK, PcTypes, FlagTypes, FrameTypes, flagVars,
        winVars, syncVars, callVars, frameVars, setPreviewDisplay, Goto, At
  <2> QED BY <2>1, <2>2, <2>3, <2>4, <2>5 DEF FrameInv, TypeOK
<1>2. ASSUME startPreview PROVE IInv'
  <2>1. FrameInv' /\ UNCHANGED frameVars
    BY <1>2, IInvFrames, SameFrames DEF startPreview
  <2>2. FramesInHand'
    BY <1>2, <2>1, PointerFacts, ThreadFacts
    DEF FramesInHand, TypeOK, PcTypes, FrameTypes, frameVars, startPreview, Goto, At
  <2>3. PcTypes'
    BY <1>2, ThreadFacts DEF TypeOK, PcTypes, AppPCs, startPreview, Goto, At
  <2>4. FlagTypes' /\ SyncTypes' /\ LocalTypes'
    BY <1>2
    DEF TypeOK, FlagTypes, SyncTypes, LocalTypes, flagVars, winVars, syncVars,
        callVars, startPreview, isRunning
  <2>5. Phases'
    BY <1>2, <2>1, PointerFacts, ThreadFacts
    DEF Phases, NoMissedPreviewFrame, TypeOK, PcTypes, FlagTypes, FrameTypes, flagVars,
        winVars, syncVars, callVars, frameVars, startPreview, Goto, At, isRunning
  <2> QED BY <2>1, <2>2, <2>3, <2>4, <2>5 DEF FrameInv, TypeOK
<1>3. ASSUME NEW kind \in {"stop", "release"}, stopPreview(kind) PROVE IInv'
  <2>1. FrameInv' /\ UNCHANGED frameVars
    BY <1>3, IInvFrames, SameFrames DEF stopPreview
  <2>2. FramesInHand'
    BY <1>3, <2>1, PointerFacts, ThreadFacts
    DEF FramesInHand, TypeOK, PcTypes, FrameTypes, frameVars, stopPreview, Goto, At
  <2>3. PcTypes'
    BY <1>3, ThreadFacts DEF TypeOK, PcTypes, AppPCs, stopPreview, Goto, At
  <2>4. FlagTypes' /\ SyncTypes' /\ LocalTypes'
    BY <1>3
    DEF TypeOK, FlagTypes, SyncTypes, LocalTypes, flagVars, winVars, syncVars,
        callVars, stopPreview, isRunning
  <2>5. Phases'
    BY <1>3, <2>1, PointerFacts, ThreadFacts
    DEF Phases, NoMissedPreviewFrame, TypeOK, PcTypes, FlagTypes, FrameTypes, flagVars,
        winVars, syncVars, callVars, frameVars, stopPreview, Goto, At, isRunning
  <2> QED BY <2>1, <2>2, <2>3, <2>4, <2>5 DEF FrameInv, TypeOK
<1>4. ASSUME NEW k \in Callbacks \cup {NULL}, setFrameCallback(k) PROVE IInv'
  BY <1>4, SetBeginStep DEF setFrameCallback
<1>5. ASSUME NEW w \in Windows \cup {NULL}, setCaptureDisplay(w) PROVE IInv'
  BY <1>5, SetBeginStep DEF setCaptureDisplay
<1> QED BY <1>1, <1>2, <1>3, <1>4, <1>5 DEF AppCalls

\* The rest of a call.
LEMMA AppReturnsStep ==
  ASSUME IInv, AppReturns
  PROVE  IInv'
<1> USE DEF IInv
<1>1. ASSUME startCreate PROVE IInv'
  <2>1. FrameInv' /\ UNCHANGED frameVars
    BY <1>1, IInvFrames, SameFrames DEF startCreate
  <2>2. FramesInHand'
    BY <1>1, <2>1, PointerFacts, ThreadFacts
    DEF FramesInHand, TypeOK, PcTypes, FrameTypes, frameVars, startCreate, Goto, At,
        Phases
  <2>3. PcTypes'
    BY <1>1, ThreadFacts DEF TypeOK, PcTypes, AppPCs, PreviewPCs, startCreate, Goto, At
  <2>4. FlagTypes' /\ SyncTypes' /\ LocalTypes'
    BY <1>1
    DEF TypeOK, FlagTypes, SyncTypes, LocalTypes, flagVars, winVars, syncVars,
        callVars, startCreate
  <2>5. Phases'
    BY <1>1, <2>1, PointerFacts, ThreadFacts
    DEF Phases, NoMissedPreviewFrame, TypeOK, PcTypes, FlagTypes, FrameTypes, flagVars,
        winVars, syncVars, callVars, frameVars, startCreate, Goto, At
  <2> QED BY <2>1, <2>2, <2>3, <2>4, <2>5 DEF FrameInv, TypeOK
<1>2. ASSUME startFailed PROVE IInv'
  <2>1. FrameInv' /\ UNCHANGED frameVars
    BY <1>2, IInvFrames, SameFrames DEF startFailed
  <2>2. FramesInHand'
    BY <1>2, <2>1, PointerFacts, ThreadFacts
    DEF FramesInHand, TypeOK, PcTypes, FrameTypes, frameVars, startFailed, Goto, At
  <2>3. PcTypes'
    BY <1>2, ThreadFacts DEF TypeOK, PcTypes, AppPCs, startFailed, Goto, At
  <2>4. FlagTypes' /\ SyncTypes' /\ LocalTypes'
    BY <1>2
    DEF TypeOK, FlagTypes, SyncTypes, LocalTypes, flagVars, winVars, syncVars,
        callVars, startFailed
  <2>5. Phases'
    BY <1>2, <2>1, PointerFacts, ThreadFacts
    DEF Phases, NoMissedPreviewFrame, TypeOK, PcTypes, FlagTypes, FrameTypes, flagVars,
        winVars, syncVars, callVars, frameVars, startFailed, Goto, At
  <2> QED BY <2>1, <2>2, <2>3, <2>4, <2>5 DEF FrameInv, TypeOK
<1>3. ASSUME signalPreview PROVE IInv'
  <2>1. FrameInv' /\ UNCHANGED frameVars
    BY <1>3, IInvFrames, SameFrames DEF signalPreview
  <2>2. FramesInHand'
    BY <1>3, <2>1, PointerFacts, ThreadFacts
    DEF FramesInHand, TypeOK, PcTypes, FrameTypes, frameVars, signalPreview, Goto, At
  <2>3. PcTypes'
    BY <1>3, ThreadFacts DEF TypeOK, PcTypes, AppPCs, signalPreview, Goto, At
  <2>4. FlagTypes' /\ SyncTypes'
    BY <1>3, ThreadFacts
    DEF TypeOK, PcTypes, FlagTypes, SyncTypes, LocalTypes, flagVars, winVars, syncVars,
        callVars, signalPreview
  <2>5. LocalTypes'
    BY <1>3
    DEF TypeOK, FlagTypes, LocalTypes, flagVars, winVars, syncVars, callVars,
        signalPreview
  <2>6. Phases'
    BY <1>3, <2>1, PointerFacts, ThreadFacts
    DEF Phases, NoMissedPreviewFrame, TypeOK, PcTypes, FlagTypes, FrameTypes, flagVars,
        winVars, syncVars, callVars, frameVars, signalPreview, Goto, At
  <2> QED BY <2>1, <2>2, <2>3, <2>4, <2>5, <2>6 DEF FrameInv, TypeOK
<1>4. ASSUME signalCapture PROVE IInv'
  <2>1. FrameInv' /\ UNCHANGED frameVars
    BY <1>4, IInvFrames, SameFrames DEF signalCapture
  <2>2. FramesInHand'
    BY <1>4, <2>1, PointerFacts, ThreadFacts
    DEF FramesInHand, TypeOK, PcTypes, FrameTypes, frameVars, signalCapture, Goto, At
  <2>3. PcTypes'
    BY <1>4, ThreadFacts DEF TypeOK, PcTypes, AppPCs, signalCapture, Goto, At
  <2>4. FlagTypes' /\ SyncTypes' /\ LocalTypes'
    BY <1>4
    DEF TypeOK, FlagTypes, SyncTypes, LocalTypes, flagVars, winVars, syncVars,
        callVars, signalCapture, WakeOne
  <2>5. Phases'
    BY <1>4, <2>1, PointerFacts, ThreadFacts
    DEF Phases, NoMissedPreviewFrame, TypeOK, PcTypes, FlagTypes, FrameTypes, flagVars,
        winVars, syncVars, callVars, frameVars, signalCapture, Goto, At, WakeOne
  <2> QED BY <2>1, <2>2, <2>3, <2>4, <2>5 DEF FrameInv, TypeOK
<1>5. ASSUME joinCapture PROVE IInv'
  <2>1. FrameInv' /\ UNCHANGED frameVars
    BY <1>5, IInvFrames, SameFrames DEF joinCapture
  <2>2. FramesInHand'
    BY <1>5, <2>1, PointerFacts, ThreadFacts
    DEF FramesInHand, TypeOK, PcTypes, FrameTypes, frameVars, joinCapture, Goto, At
  <2>3. PcTypes'
    BY <1>5, ThreadFacts DEF TypeOK, PcTypes, AppPCs, joinCapture, Goto, At
  <2>4. FlagTypes' /\ SyncTypes' /\ LocalTypes'
    BY <1>5
    DEF TypeOK, FlagTypes, SyncTypes, LocalTypes, flagVars, winVars, syncVars,
        callVars, joinCapture
  <2>5. Phases'
    BY <1>5, <2>1, PointerFacts, ThreadFacts
    DEF Phases, NoMissedPreviewFrame, TypeOK, PcTypes, FlagTypes, FrameTypes, flagVars,
        winVars, syncVars, callVars, frameVars, joinCapture, Goto, At
  <2> QED BY <2>1, <2>2, <2>3, <2>4, <2>5 DEF FrameInv, TypeOK
<1>6. ASSUME joinPreview PROVE IInv'
  <2>1. FrameInv' /\ UNCHANGED frameVars
    BY <1>6, IInvFrames, SameFrames DEF joinPreview
  <2>2. FramesInHand'
    BY <1>6, <2>1, PointerFacts, ThreadFacts
    DEF FramesInHand, TypeOK, PcTypes, FrameTypes, frameVars, joinPreview, Goto, At
  <2>3. PcTypes'
    BY <1>6, ThreadFacts DEF TypeOK, PcTypes, AppPCs, PreviewPCs, joinPreview, Goto, At
  <2>4. FlagTypes' /\ SyncTypes' /\ LocalTypes'
    BY <1>6
    DEF TypeOK, FlagTypes, SyncTypes, LocalTypes, flagVars, winVars, syncVars,
        callVars, joinPreview
  <2>5. Phases'
    BY <1>6, <2>1, PointerFacts, ThreadFacts
    DEF Phases, NoMissedPreviewFrame, TypeOK, PcTypes, FlagTypes, FrameTypes, flagVars,
        winVars, syncVars, callVars, frameVars, joinPreview, Goto, At
  <2> QED BY <2>1, <2>2, <2>3, <2>4, <2>5 DEF FrameInv, TypeOK
<1>7. ASSUME stopClearPreview PROVE IInv'
  <2>1. FrameInv' /\ ptr' = ptr /\ previewFrames' = <<>>
    BY <1>7, IInvFrames, ClearPreview DEF stopClearPreview
  <2>2. FramesInHand'
    BY <1>7, <2>1, PointerFacts, ThreadFacts
    DEF FramesInHand, TypeOK, PcTypes, FrameTypes, frameVars, stopClearPreview, Goto, At
  <2>3. PcTypes'
    BY <1>7, ThreadFacts DEF TypeOK, PcTypes, AppPCs, stopClearPreview, Goto, At
  <2>4. FlagTypes' /\ SyncTypes' /\ LocalTypes'
    BY <1>7
    DEF TypeOK, FlagTypes, SyncTypes, LocalTypes, flagVars, winVars, syncVars,
        callVars, stopClearPreview
  <2>5. Phases'
    BY <1>7, <2>1, PointerFacts, ThreadFacts
    DEF Phases, NoMissedPreviewFrame, TypeOK, PcTypes, FlagTypes, FrameTypes, flagVars,
        winVars, syncVars, callVars, frameVars, stopClearPreview, Goto, At
  <2> QED BY <2>1, <2>2, <2>3, <2>4, <2>5 DEF FrameInv, TypeOK
<1>8. ASSUME stopClearCapture PROVE IInv'
  <2>1. FrameInv' /\ ptr' = [ptr EXCEPT ![captureQueu] = NULL] /\ UNCHANGED previewFrames
    <3>1. CASE ptr[captureQueu] = NULL
      BY <1>8, <3>1, IInvFrames, SameFrames, PointerFacts
      DEF stopClearCapture, clearCaptureFrame, FrameInv, FrameTypes, frameVars
    <3>2. CASE ptr[captureQueu] # NULL
      BY <1>8, <3>2, IInvFrames, RecycleFrame, PointerFacts
      DEF stopClearCapture, clearCaptureFrame
    <3> QED BY <3>1, <3>2
  <2>2. FramesInHand'
    BY <1>8, <2>1, PointerFacts, ThreadFacts
    DEF FramesInHand, TypeOK, PcTypes, FrameTypes, frameVars, stopClearCapture, Goto, At
  <2>3. PcTypes'
    BY <1>8, ThreadFacts DEF TypeOK, PcTypes, AppPCs, stopClearCapture, Goto, At
  <2>4. FlagTypes' /\ SyncTypes' /\ LocalTypes'
    BY <1>8
    DEF TypeOK, FlagTypes, SyncTypes, LocalTypes, flagVars, winVars, syncVars,
        callVars, stopClearCapture
  <2>5. Phases'
    BY <1>8, <2>1, PointerFacts, ThreadFacts
    DEF Phases, NoMissedPreviewFrame, TypeOK, PcTypes, FlagTypes, FrameTypes, flagVars,
        winVars, syncVars, callVars, frameVars, stopClearCapture, Goto, At
  <2> QED BY <2>1, <2>2, <2>3, <2>4, <2>5 DEF FrameInv, TypeOK
<1>9. ASSUME stopReleaseWindows PROVE IInv'
  <2>1. FrameInv' /\ UNCHANGED <<ptr, previewFrames>>
    BY <1>9, IInvFrames, SameFrames, FreePool DEF stopReleaseWindows, frameVars
  <2>2. FramesInHand'
    BY <1>9, <2>1, PointerFacts, ThreadFacts
    DEF FramesInHand, TypeOK, PcTypes, FrameTypes, frameVars, stopReleaseWindows, Goto,
        At
  <2>3. PcTypes'
    BY <1>9, ThreadFacts DEF TypeOK, PcTypes, AppPCs, stopReleaseWindows, Goto, At
  <2>4. FlagTypes' /\ SyncTypes' /\ LocalTypes'
    BY <1>9
    DEF TypeOK, FlagTypes, SyncTypes, LocalTypes, flagVars, winVars, syncVars,
        callVars, stopReleaseWindows, NoRequest
  <2>5. Phases'
    BY <1>9, <2>1, PointerFacts, ThreadFacts
    DEF Phases, NoMissedPreviewFrame, TypeOK, PcTypes, FlagTypes, FrameTypes, flagVars,
        winVars, syncVars, callVars, frameVars, stopReleaseWindows, Goto, At, NoRequest
  <2> QED BY <2>1, <2>2, <2>3, <2>4, <2>5 DEF FrameInv, TypeOK
<1>10. ASSUME setWait PROVE IInv'
  <2>1. FrameInv' /\ UNCHANGED frameVars
    BY <1>10, IInvFrames, SameFrames DEF setWait
  <2>2. FramesInHand'
    BY <1>10, <2>1, PointerFacts, ThreadFacts
    DEF FramesInHand, TypeOK, PcTypes, FrameTypes, frameVars, setWait, Goto, At
  <2>3. PcTypes'
    BY <1>10, ThreadFacts DEF TypeOK, PcTypes, AppPCs, setWait, Goto, At
  <2>4. FlagTypes' /\ SyncTypes'
    BY <1>10, ThreadFacts
    DEF TypeOK, PcTypes, FlagTypes, SyncTypes, LocalTypes, flagVars, winVars, syncVars,
        callVars, setWait
  <2>5. LocalTypes'
    BY <1>10
    DEF TypeOK, FlagTypes, LocalTypes, flagVars, winVars, syncVars, callVars, setWait
  <2>6. Phases'
    BY <1>10, <2>1, PointerFacts, ThreadFacts
    DEF Phases, NoMissedPreviewFrame, TypeOK, PcTypes, FlagTypes, FrameTypes, flagVars,
        winVars, syncVars, callVars, frameVars, setWait, Goto, At
  <2> QED BY <2>1, <2>2, <2>3, <2>4, <2>5, <2>6 DEF FrameInv, TypeOK
<1>11. ASSUME setWoken PROVE IInv'
  <2>1. FrameInv' /\ UNCHANGED frameVars
    BY <1>11, IInvFrames, SameFrames DEF setWoken
  <2>2. FramesInHand'
    BY <1>11, <2>1, PointerFacts, ThreadFacts
    DEF FramesInHand, TypeOK, PcTypes, FrameTypes, frameVars, setWoken, Goto, At
  <2>3. PcTypes'
    BY <1>11, ThreadFacts DEF TypeOK, PcTypes, AppPCs, setWoken, Goto, At
  <2>4. FlagTypes' /\ SyncTypes' /\ LocalTypes'
    BY <1>11
    DEF TypeOK, FlagTypes, SyncTypes, LocalTypes, flagVars, winVars, syncVars,
        callVars, setWoken
  <2>5. Phases'
    BY <1>11, <2>1, PointerFacts, ThreadFacts
    DEF Phases, NoMissedPreviewFrame, TypeOK, PcTypes, FlagTypes, FrameTypes, flagVars,
        winVars, syncVars, callVars, frameVars, setWoken, Goto, At
  <2> QED BY <2>1, <2>2, <2>3, <2>4, <2>5 DEF FrameInv, TypeOK
<1>12. ASSUME setReplace PROVE IInv'
  <2>1. FrameInv' /\ UNCHANGED frameVars
    BY <1>12, IInvFrames, SameFrames DEF setReplace
  <2>2. FramesInHand'
    BY <1>12, <2>1, PointerFacts, ThreadFacts
    DEF FramesInHand, TypeOK, PcTypes, FrameTypes, frameVars, setReplace, Goto, At
  <2>3. PcTypes'
    BY <1>12, ThreadFacts DEF TypeOK, PcTypes, AppPCs, setReplace, Goto, At
  <2>4. FlagTypes' /\ SyncTypes'
    BY <1>12, ThreadFacts
    DEF TypeOK, PcTypes, FlagTypes, SyncTypes, LocalTypes, flagVars, winVars, syncVars,
        callVars, setReplace, NoRequest
  <2>5. LocalTypes'
    BY <1>12
    DEF TypeOK, FlagTypes, LocalTypes, flagVars, winVars, syncVars, callVars,
        setReplace, NoRequest
  <2>6. Phases'
    BY <1>12, <2>1, PointerFacts, ThreadFacts
    DEF Phases, NoMissedPreviewFrame, TypeOK, PcTypes, FlagTypes, FrameTypes, flagVars,
        winVars, syncVars, callVars, frameVars, setReplace, Goto, At, NoRequest
  <2> QED BY <2>1, <2>2, <2>3, <2>4, <2>5, <2>6 DEF FrameInv, TypeOK
<1>13. ASSUME NEW c \in CapThreads, captureJoined(c) PROVE IInv'
  <2>1. FrameInv' /\ UNCHANGED frameVars
    BY <1>13, IInvFrames, SameFrames DEF captureJoined
  <2>2. FramesInHand'
    BY <1>13, <2>1, PointerFacts, ThreadFacts
    DEF FramesInHand, TypeOK, PcTypes, FrameTypes, frameVars, captureJoined, Goto, At
  <2>3. PcTypes'
    BY <1>13, ThreadFacts DEF TypeOK, PcTypes, AppPCs, CapturePCs, captureJoined, Goto, At
  <2>4. FlagTypes' /\ SyncTypes' /\ LocalTypes'
    BY <1>13
    DEF TypeOK, FlagTypes, SyncTypes, LocalTypes, flagVars, winVars, syncVars,
        callVars, captureJoined
  <2>5. Phases'
    BY <1>13, <2>1, PointerFacts, ThreadFacts
    DEF Phases, NoMissedPreviewFrame, TypeOK, PcTypes, FlagTypes, FrameTypes, flagVars,
        winVars, syncVars, callVars, frameVars, captureJoined, Goto, At
  <2> QED BY <2>1, <2>2, <2>3, <2>4, <2>5 DEF FrameInv, TypeOK
<1> QED BY <1>1, <1>2, <1>3, <1>4, <1>5, <1>6, <1>7, <1>8, <1>9, <1>10, <1>11, <1>12, <1>13
  DEF AppReturns

\* The uvc callback thread.
LEMMA UvcStep ==
  ASSUME IInv, UvcThread
  PROVE  IInv'
<1> USE DEF IInv
<1>1. ASSUME uvcFrameArrives PROVE IInv'
  <2>1. FrameInv' /\ ptr' = [ptr EXCEPT ![copy] = ptr'[copy]] /\ ptr'[copy] # NULL
    BY <1>1, IInvFrames, GetFrame, PointerFacts DEF uvcFrameArrives, FramesInHand, At
  <2>2. FramesInHand'
    BY <1>1, <2>1, PointerFacts, ThreadFacts
    DEF FramesInHand, TypeOK, PcTypes, FrameTypes, frameVars, uvcFrameArrives, Goto, At
  <2>3. PcTypes'
    BY <1>1, ThreadFacts DEF TypeOK, PcTypes, UvcPCs, uvcFrameArrives, Goto, At
  <2>4. FlagTypes' /\ SyncTypes' /\ LocalTypes'
    BY <1>1
    DEF TypeOK, FlagTypes, SyncTypes, LocalTypes, flagVars, winVars, syncVars,
        callVars, uvcFrameArrives, get_frame
  <2>5. Phases'
    BY <1>1, <2>1, PointerFacts, ThreadFacts
    DEF Phases, NoMissedPreviewFrame, TypeOK, PcTypes, FlagTypes, FrameTypes, flagVars,
        winVars, syncVars, callVars, frameVars, uvcFrameArrives, Goto, At, get_frame
  <2> QED BY <2>1, <2>2, <2>3, <2>4, <2>5 DEF FrameInv, TypeOK
<1>2. ASSUME uvcDuplicate PROVE IInv'
  <2>1. FrameInv' /\ previewFrames' = previewFrames
        /\ \/ Goto("uvc", "add") /\ UNCHANGED ptr
           \/ Goto("uvc", "idle") /\ ptr' = [ptr EXCEPT ![copy] = NULL]
    <3>1. CASE Goto("uvc", "add") /\ UNCHANGED frameVars
      BY <3>1, IInvFrames, SameFrames DEF frameVars
    <3>2. CASE recycle_frame(copy) /\ Goto("uvc", "idle")
      BY <1>2, <3>2, IInvFrames, RecycleFrame, PointerFacts
      DEF uvcDuplicate, FramesInHand, At
    <3> QED BY <1>2, <3>1, <3>2 DEF uvcDuplicate
  <2>2. FramesInHand'
    BY <1>2, <2>1, PointerFacts, ThreadFacts
    DEF FramesInHand, TypeOK, PcTypes, FrameTypes, frameVars, uvcDuplicate, Goto, At
  <2>3. PcTypes'
    BY <1>2, ThreadFacts DEF TypeOK, PcTypes, UvcPCs, uvcDuplicate, Goto, At
  <2>4. FlagTypes' /\ SyncTypes' /\ LocalTypes'
    BY <1>2
    DEF TypeOK, FlagTypes, SyncTypes, LocalTypes, flagVars, winVars, syncVars,
        callVars, uvcDuplicate
  <2>5. Phases'
    BY <1>2, <2>1, PointerFacts, ThreadFacts
    DEF Phases, NoMissedPreviewFrame, TypeOK, PcTypes, FlagTypes, FrameTypes, flagVars,
        winVars, syncVars, callVars, frameVars, uvcDuplicate, Goto, At
  <2> QED BY <2>1, <2>2, <2>3, <2>4, <2>5 DEF FrameInv, TypeOK
<1>3. ASSUME addPreviewFrame PROVE IInv'
  <2>1. FrameInv' /\ ptr' = [ptr EXCEPT ![copy] = NULL]
        /\ \/ mIsRunning /\ previewWait' = FALSE
           \/ UNCHANGED <<previewFrames, previewWait>>
    <3>1. ptr[copy] # NULL
      BY <1>3 DEF addPreviewFrame, FramesInHand, At
    <3>2. CASE isRunning /\ Len(previewFrames) < MAX_FRAME
      BY <1>3, <3>1, <3>2, IInvFrames, EnqueueFrame, PointerFacts
      DEF addPreviewFrame, isRunning
    <3>3. CASE ~(isRunning /\ Len(previewFrames) < MAX_FRAME)
      BY <1>3, <3>1, <3>3, IInvFrames, RecycleFrame, PointerFacts DEF addPreviewFrame
    <3> QED BY <3>2, <3>3
  <2>2. FramesInHand'
    BY <1>3, <2>1, PointerFacts, ThreadFacts
    DEF FramesInHand, TypeOK, PcTypes, FrameTypes, frameVars, addPreviewFrame, Goto, At
  <2>3. PcTypes'
    BY <1>3, ThreadFacts DEF TypeOK, PcTypes, UvcPCs, addPreviewFrame, Goto, At
  <2>4. FlagTypes' /\ SyncTypes'
    BY <1>3, ThreadFacts
    DEF TypeOK, PcTypes, FlagTypes, SyncTypes, LocalTypes, flagVars, winVars, syncVars,
        callVars, addPreviewFrame
  <2>5. LocalTypes'
    BY <1>3
    DEF TypeOK, FlagTypes, LocalTypes, flagVars, winVars, syncVars, callVars,
        addPreviewFrame
  <2>6. Phases'
    BY <1>3, <2>1, PointerFacts, ThreadFacts
    DEF Phases, NoMissedPreviewFrame, TypeOK, PcTypes, FlagTypes, FrameTypes, flagVars,
        winVars, syncVars, callVars, frameVars, addPreviewFrame, Goto, At
  <2> QED BY <2>1, <2>2, <2>3, <2>4, <2>5, <2>6 DEF FrameInv, TypeOK
<1> QED BY <1>1, <1>2, <1>3 DEF UvcThread, UvcReturns

\* The preview thread.
LEMMA PreviewStep ==
  ASSUME IInv, PreviewThread
  PROVE  IInv'
<1> USE DEF IInv
<1>1. ASSUME preparePreview PROVE IInv'
  <2>1. FrameInv' /\ UNCHANGED frameVars
    BY <1>1, IInvFrames, SameFrames DEF preparePreview
  <2>2. FramesInHand'
    BY <1>1, <2>1, PointerFacts, ThreadFacts
    DEF FramesInHand, TypeOK, PcTypes, FrameTypes, frameVars, preparePreview, Goto, At,
        previewOnly, Phases
  <2>3. PcTypes'
    BY <1>1, ThreadFacts
    DEF TypeOK, PcTypes, PreviewPCs, UvcPCs, preparePreview, Goto, At, previewOnly
  <2>4. FlagTypes' /\ SyncTypes' /\ LocalTypes'
    BY <1>1
    DEF TypeOK, FlagTypes, SyncTypes, LocalTypes, flagVars, winVars, syncVars,
        callVars, preparePreview, previewOnly
  <2>5. Phases'
    BY <1>1, <2>1, PointerFacts, ThreadFacts
    DEF Phases, NoMissedPreviewFrame, TypeOK, PcTypes, FlagTypes, FrameTypes, flagVars,
        winVars, syncVars, callVars, frameVars, preparePreview, Goto, At, previewOnly
  <2> QED BY <2>1, <2>2, <2>3, <2>4, <2>5 DEF FrameInv, TypeOK
<1>2. ASSUME previewClearQueue PROVE IInv'
  <2>1. FrameInv' /\ UNCHANGED ptr /\ previewFrames' = <<>>
    BY <1>2, IInvFrames, ClearPreview DEF previewClearQueue
  <2>2. FramesInHand'
    BY <1>2, <2>1, PointerFacts, ThreadFacts
    DEF FramesInHand, TypeOK, PcTypes, FrameTypes, frameVars, previewClearQueue, Goto,
        At, previewOnly
  <2>3. PcTypes'
    BY <1>2, ThreadFacts
    DEF TypeOK, PcTypes, PreviewPCs, previewClearQueue, Goto, At, previewOnly
  <2>4. FlagTypes' /\ SyncTypes' /\ LocalTypes'
    BY <1>2
    DEF TypeOK, FlagTypes, SyncTypes, LocalTypes, flagVars, winVars, syncVars,
        callVars, previewClearQueue, previewOnly
  <2>5. Phases'
    BY <1>2, <2>1, PointerFacts, ThreadFacts
    DEF Phases, NoMissedPreviewFrame, TypeOK, PcTypes, FlagTypes, FrameTypes, flagVars,
        winVars, syncVars, callVars, frameVars, previewClearQueue, Goto, At, previewOnly
  <2> QED BY <2>1, <2>2, <2>3, <2>4, <2>5 DEF FrameInv, TypeOK
<1>3. ASSUME NEW c \in CapThreads, createCapture(c) PROVE IInv'
  <2>1. FrameInv' /\ UNCHANGED frameVars
    BY <1>3, IInvFrames, SameFrames DEF createCapture
  <2>2. FramesInHand'
    BY <1>3, <2>1, PointerFacts, ThreadFacts
    DEF FramesInHand, TypeOK, PcTypes, FrameTypes, frameVars, createCapture, Goto, At,
        previewOnly
  <2>3. PcTypes'
    BY <1>3, ThreadFacts
    DEF TypeOK, PcTypes, PreviewPCs, CapturePCs, createCapture, Goto, At, previewOnly
  <2>4. FlagTypes' /\ SyncTypes' /\ LocalTypes'
    BY <1>3
    DEF TypeOK, FlagTypes, SyncTypes, LocalTypes, flagVars, winVars, syncVars,
        callVars, createCapture, previewOnly
  <2>5. Phases'
    BY <1>3, <2>1, PointerFacts, ThreadFacts
    DEF Phases, NoMissedPreviewFrame, TypeOK, PcTypes, FlagTypes, FrameTypes, flagVars,
        winVars, syncVars, callVars, frameVars, createCapture, Goto, At, previewOnly
  <2> QED BY <2>1, <2>2, <2>3, <2>4, <2>5 DEF FrameInv, TypeOK
<1>4. ASSUME previewLoop PROVE IInv'
  <2>1. FrameInv' /\ UNCHANGED frameVars
    BY <1>4, IInvFrames, SameFrames DEF previewLoop
  <2>2. FramesInHand'
    BY <1>4, <2>1, PointerFacts, ThreadFacts
    DEF FramesInHand, TypeOK, PcTypes, FrameTypes, frameVars, previewLoop, Goto, At,
        previewOnly
  <2>3. PcTypes'
    BY <1>4, ThreadFacts
    DEF TypeOK, PcTypes, PreviewPCs, previewLoop, Goto, At, previewOnly
  <2>4. FlagTypes' /\ SyncTypes' /\ LocalTypes'
    BY <1>4
    DEF TypeOK, FlagTypes, SyncTypes, LocalTypes, flagVars, winVars, syncVars,
        callVars, previewLoop, previewOnly, isRunning
  <2>5. Phases'
    BY <1>4, <2>1, PointerFacts, ThreadFacts
    DEF Phases, NoMissedPreviewFrame, TypeOK, PcTypes, FlagTypes, FrameTypes, flagVars,
        winVars, syncVars, callVars, frameVars, previewLoop, Goto, At, previewOnly,
            isRunning
  <2> QED BY <2>1, <2>2, <2>3, <2>4, <2>5 DEF FrameInv, TypeOK
<1>5. ASSUME waitPreviewFrame PROVE IInv'
  <2>1. FrameInv' /\ (\/ pc'["preview"] # "decode" /\ UNCHANGED <<ptr, previewFrames>>
                    \/ /\ pc'["preview"] = "decode" /\ ptr'[frameIn] # NULL
                       /\ ptr' = [ptr EXCEPT ![frameIn] = ptr'[frameIn]])
    <3>1. ptr[frameIn] = NULL
      BY <1>5 DEF waitPreviewFrame, FramesInHand, At
    <3>2. CASE UNCHANGED frameVars
      BY <1>5, <3>2, IInvFrames, SameFrames, ThreadFacts
      DEF waitPreviewFrame, takePreviewFrame, frameVars, Goto, TypeOK, PcTypes
    <3>3. CASE ~UNCHANGED frameVars
      <4>1. /\ previewFrames # <<>> /\ previewFrames' = Tail(previewFrames)
            /\ ptr' = [ptr EXCEPT ![frameIn] = Head(previewFrames)]
            /\ UNCHANGED <<mFramePool, heap>> /\ Goto("preview", "decode")
        BY <1>5, <3>3 DEF waitPreviewFrame, takePreviewFrame
      <4> QED BY <3>1, <4>1, IInvFrames, DequeueFrame, PointerFacts, ThreadFacts
        DEF FrameInv, FrameTypes, Goto, TypeOK, PcTypes
    <3> QED BY <3>2, <3>3
  <2>2. FramesInHand'
    BY <1>5, <2>1, PointerFacts, ThreadFacts
    DEF FramesInHand, TypeOK, PcTypes, FrameTypes, frameVars, waitPreviewFrame, Goto,
        At, previewOnly, takePreviewFrame
  <2>3. PcTypes'
    BY <1>5, ThreadFacts
    DEF TypeOK, PcTypes, PreviewPCs, waitPreviewFrame, Goto, At, previewOnly,
        takePreviewFrame
  <2>4. FlagTypes' /\ SyncTypes' /\ LocalTypes'
    BY <1>5
    DEF TypeOK, FlagTypes, SyncTypes, LocalTypes, flagVars, winVars, syncVars,
        callVars, waitPreviewFrame, previewOnly, takePreviewFrame
  <2>5. Phases'
    BY <1>5, <2>1, PointerFacts, ThreadFacts
    DEF Phases, NoMissedPreviewFrame, TypeOK, PcTypes, FlagTypes, FrameTypes, flagVars,
        winVars, syncVars, callVars, frameVars, waitPreviewFrame, Goto, At,
            previewOnly, takePreviewFrame
  <2> QED BY <2>1, <2>2, <2>3, <2>4, <2>5 DEF FrameInv, TypeOK
<1>6. ASSUME previewWoken PROVE IInv'
  <2>1. FrameInv' /\ (\/ pc'["preview"] # "decode" /\ UNCHANGED <<ptr, previewFrames>>
                    \/ /\ pc'["preview"] = "decode" /\ ptr'[frameIn] # NULL
                       /\ ptr' = [ptr EXCEPT ![frameIn] = ptr'[frameIn]])
    <3>1. ptr[frameIn] = NULL
      BY <1>6 DEF previewWoken, FramesInHand, At
    <3>2. CASE UNCHANGED frameVars
      BY <1>6, <3>2, IInvFrames, SameFrames, ThreadFacts
      DEF previewWoken, takePreviewFrame, frameVars, Goto, TypeOK, PcTypes
    <3>3. CASE ~UNCHANGED frameVars
      <4>1. /\ previewFrames # <<>> /\ previewFrames' = Tail(previewFrames)
            /\ ptr' = [ptr EXCEPT ![frameIn] = Head(previewFrames)]
            /\ UNCHANGED <<mFramePool, heap>> /\ Goto("preview", "decode")
        BY <1>6, <3>3 DEF previewWoken, takePreviewFrame
      <4> QED BY <3>1, <4>1, IInvFrames, DequeueFrame, PointerFacts, ThreadFacts
        DEF FrameInv, FrameTypes, Goto, TypeOK, PcTypes
    <3> QED BY <3>2, <3>3
  <2>2. FramesInHand'
    BY <1>6, <2>1, PointerFacts, ThreadFacts
    DEF FramesInHand, TypeOK, PcTypes, FrameTypes, frameVars, previewWoken, Goto, At,
        previewOnly, takePreviewFrame
  <2>3. PcTypes'
    BY <1>6, ThreadFacts
    DEF TypeOK, PcTypes, PreviewPCs, previewWoken, Goto, At, previewOnly,
        takePreviewFrame
  <2>4. FlagTypes' /\ SyncTypes' /\ LocalTypes'
    BY <1>6
    DEF TypeOK, FlagTypes, SyncTypes, LocalTypes, flagVars, winVars, syncVars,
        callVars, previewWoken, previewOnly, takePreviewFrame
  <2>5. Phases'
    BY <1>6, <2>1, PointerFacts, ThreadFacts
    DEF Phases, NoMissedPreviewFrame, TypeOK, PcTypes, FlagTypes, FrameTypes, flagVars,
        winVars, syncVars, callVars, frameVars, previewWoken, Goto, At, previewOnly,
            takePreviewFrame
  <2> QED BY <2>1, <2>2, <2>3, <2>4, <2>5 DEF FrameInv, TypeOK
<1>7. ASSUME previewDecode PROVE IInv'
  <2>1. FrameInv' /\ UNCHANGED previewFrames /\ ptr'[frameOut] # NULL
        /\ ptr' = [ptr EXCEPT ![frameOut] = ptr'[frameOut]]
    BY <1>7, IInvFrames, GetFrame, PointerFacts
    DEF previewDecode, get_frame, FramesInHand, At
  <2>2. FramesInHand'
    BY <1>7, <2>1, PointerFacts, ThreadFacts
    DEF FramesInHand, TypeOK, PcTypes, FrameTypes, frameVars, previewDecode, Goto, At,
        previewOnly
  <2>3. PcTypes'
    BY <1>7, ThreadFacts
    DEF TypeOK, PcTypes, PreviewPCs, previewDecode, Goto, At, previewOnly
  <2>4. FlagTypes' /\ SyncTypes' /\ LocalTypes'
    BY <1>7
    DEF TypeOK, FlagTypes, SyncTypes, LocalTypes, flagVars, winVars, syncVars,
        callVars, previewDecode, previewOnly
  <2>5. Phases'
    BY <1>7, <2>1, PointerFacts, ThreadFacts
    DEF Phases, NoMissedPreviewFrame, TypeOK, PcTypes, FlagTypes, FrameTypes, flagVars,
        winVars, syncVars, callVars, frameVars, previewDecode, Goto, At, previewOnly
  <2> QED BY <2>1, <2>2, <2>3, <2>4, <2>5 DEF FrameInv, TypeOK
<1>8. ASSUME decodeFails PROVE IInv'
  <2>1. FrameInv' /\ UNCHANGED previewFrames /\ ptr' = [ptr EXCEPT ![frameOut] = NULL]
    BY <1>8, IInvFrames, RecycleFrame, PointerFacts DEF decodeFails, FramesInHand, At
  <2>2. FramesInHand'
    BY <1>8, <2>1, PointerFacts, ThreadFacts
    DEF FramesInHand, TypeOK, PcTypes, FrameTypes, frameVars, decodeFails, Goto, At,
        previewOnly
  <2>3. PcTypes'
    BY <1>8, ThreadFacts
    DEF TypeOK, PcTypes, PreviewPCs, decodeFails, Goto, At, previewOnly
  <2>4. FlagTypes' /\ SyncTypes' /\ LocalTypes'
    BY <1>8
    DEF TypeOK, FlagTypes, SyncTypes, LocalTypes, flagVars, winVars, syncVars,
        callVars, decodeFails, previewOnly
  <2>5. Phases'
    BY <1>8, <2>1, PointerFacts, ThreadFacts
    DEF Phases, NoMissedPreviewFrame, TypeOK, PcTypes, FlagTypes, FrameTypes, flagVars,
        winVars, syncVars, callVars, frameVars, decodeFails, Goto, At, previewOnly
  <2> QED BY <2>1, <2>2, <2>3, <2>4, <2>5 DEF FrameInv, TypeOK
<1>9. ASSUME addCaptureFrame PROVE IInv'
  <2>1. FrameInv' /\ UNCHANGED previewFrames
        /\ \/ ptr' = [ptr EXCEPT ![captureQueu] = ptr[frameOut], ![frameOut] = NULL]
           \/ ptr' = [ptr EXCEPT ![frameOut] = NULL]
    <3>1. CASE ~isRunning
      BY <1>9, <3>1, IInvFrames, DropFrame, PointerFacts DEF addCaptureFrame, keepLatest
    <3>2. CASE isRunning /\ ptr[captureQueu] = NULL
      BY <1>9, <3>2, IInvFrames, MoveFrame, PointerFacts DEF addCaptureFrame, keepLatest
    <3>3. CASE isRunning /\ ptr[captureQueu] # NULL
      BY <1>9, <3>3, IInvFrames, ReplaceFrame, PointerFacts DEF addCaptureFrame, keepLatest
    <3> QED BY <3>1, <3>2, <3>3
  <2>2. FramesInHand'
    BY <1>9, <2>1, PointerFacts, ThreadFacts
    DEF FramesInHand, TypeOK, PcTypes, FrameTypes, frameVars, addCaptureFrame, keepLatest, Goto,
        At, previewOnly
  <2>3. PcTypes'
    BY <1>9, ThreadFacts
    DEF TypeOK, PcTypes, PreviewPCs, addCaptureFrame, keepLatest, Goto, At, previewOnly
  <2>4. FlagTypes' /\ SyncTypes' /\ LocalTypes'
    BY <1>9
    DEF TypeOK, FlagTypes, SyncTypes, LocalTypes, flagVars, winVars, syncVars,
        callVars, addCaptureFrame, keepLatest, previewOnly, WakeAll
  <2>5. Phases'
    BY <1>9, <2>1, PointerFacts, ThreadFacts
    DEF Phases, NoMissedPreviewFrame, TypeOK, PcTypes, FlagTypes, FrameTypes, flagVars,
        winVars, syncVars, callVars, frameVars, addCaptureFrame, keepLatest, Goto, At,
        previewOnly, WakeAll
  <2> QED BY <2>1, <2>2, <2>3, <2>4, <2>5 DEF FrameInv, TypeOK
<1>10. ASSUME recycleIn PROVE IInv'
  <2>1. FrameInv' /\ UNCHANGED previewFrames /\ ptr' = [ptr EXCEPT ![frameIn] = NULL]
    BY <1>10, IInvFrames, RecycleFrame, PointerFacts DEF recycleIn, FramesInHand, At
  <2>2. FramesInHand'
    BY <1>10, <2>1, PointerFacts, ThreadFacts
    DEF FramesInHand, TypeOK, PcTypes, FrameTypes, frameVars, recycleIn, Goto, At,
        previewOnly
  <2>3. PcTypes'
    BY <1>10, ThreadFacts
    DEF TypeOK, PcTypes, PreviewPCs, recycleIn, Goto, At, previewOnly
  <2>4. FlagTypes' /\ SyncTypes' /\ LocalTypes'
    BY <1>10
    DEF TypeOK, FlagTypes, SyncTypes, LocalTypes, flagVars, winVars, syncVars,
        callVars, recycleIn, previewOnly
  <2>5. Phases'
    BY <1>10, <2>1, PointerFacts, ThreadFacts
    DEF Phases, NoMissedPreviewFrame, TypeOK, PcTypes, FlagTypes, FrameTypes, flagVars,
        winVars, syncVars, callVars, frameVars, recycleIn, Goto, At, previewOnly
  <2> QED BY <2>1, <2>2, <2>3, <2>4, <2>5 DEF FrameInv, TypeOK
<1>11. ASSUME previewEnd PROVE IInv'
  <2>1. FrameInv' /\ UNCHANGED frameVars
    BY <1>11, IInvFrames, SameFrames DEF previewEnd
  <2>2. FramesInHand'
    BY <1>11, <2>1, PointerFacts, ThreadFacts
    DEF FramesInHand, TypeOK, PcTypes, FrameTypes, frameVars, previewEnd, Goto, At,
        previewOnly
  <2>3. PcTypes'
    BY <1>11, ThreadFacts
    DEF TypeOK, PcTypes, PreviewPCs, previewEnd, Goto, At, previewOnly
  <2>4. FlagTypes' /\ SyncTypes' /\ LocalTypes'
    BY <1>11
    DEF TypeOK, FlagTypes, SyncTypes, LocalTypes, flagVars, winVars, syncVars,
        callVars, previewEnd, previewOnly, WakeOne
  <2>5. Phases'
    BY <1>11, <2>1, PointerFacts, ThreadFacts
    DEF Phases, NoMissedPreviewFrame, TypeOK, PcTypes, FlagTypes, FrameTypes, flagVars,
        winVars, syncVars, callVars, frameVars, previewEnd, Goto, At, previewOnly,
            WakeOne
  <2> QED BY <2>1, <2>2, <2>3, <2>4, <2>5 DEF FrameInv, TypeOK
<1>12. ASSUME stopStreaming PROVE IInv'
  <2>1. FrameInv' /\ UNCHANGED frameVars
    BY <1>12, IInvFrames, SameFrames DEF stopStreaming
  <2>2. FramesInHand'
    BY <1>12, <2>1, PointerFacts, ThreadFacts
    DEF FramesInHand, TypeOK, PcTypes, FrameTypes, frameVars, stopStreaming, Goto, At,
        previewOnly
  <2>3. PcTypes'
    BY <1>12, ThreadFacts
    DEF TypeOK, PcTypes, PreviewPCs, UvcPCs, stopStreaming, Goto, At, previewOnly
  <2>4. FlagTypes' /\ SyncTypes' /\ LocalTypes'
    BY <1>12
    DEF TypeOK, FlagTypes, SyncTypes, LocalTypes, flagVars, winVars, syncVars,
        callVars, stopStreaming, previewOnly
  <2>5. Phases'
    BY <1>12, <2>1, PointerFacts, ThreadFacts
    DEF Phases, NoMissedPreviewFrame, TypeOK, PcTypes, FlagTypes, FrameTypes, flagVars,
        winVars, syncVars, callVars, frameVars, stopStreaming, Goto, At, previewOnly
  <2> QED BY <2>1, <2>2, <2>3, <2>4, <2>5 DEF FrameInv, TypeOK
<1>13. ASSUME createCaptureFails PROVE IInv'
  <2>1. FrameInv' /\ UNCHANGED frameVars
    BY <1>13, IInvFrames, SameFrames DEF createCaptureFails
  <2>2. FramesInHand'
    BY <1>13, <2>1, PointerFacts, ThreadFacts
    DEF FramesInHand, TypeOK, PcTypes, FrameTypes, frameVars, createCaptureFails, Goto, At,
        previewOnly
  <2>3. PcTypes'
    BY <1>13, ThreadFacts
    DEF TypeOK, PcTypes, PreviewPCs, createCaptureFails, Goto, At, previewOnly
  <2>4. FlagTypes' /\ SyncTypes' /\ LocalTypes'
    BY <1>13
    DEF TypeOK, FlagTypes, SyncTypes, LocalTypes, flagVars, winVars, syncVars,
        callVars, createCaptureFails, previewOnly, isRunning
  <2>5. Phases'
    BY <1>13, <2>1, PointerFacts, ThreadFacts
    DEF Phases, NoMissedPreviewFrame, TypeOK, PcTypes, FlagTypes, FrameTypes, flagVars,
        winVars, syncVars, callVars, frameVars, createCaptureFails, Goto, At, previewOnly,
            isRunning
  <2> QED BY <2>1, <2>2, <2>3, <2>4, <2>5 DEF FrameInv, TypeOK
<1> QED BY <1>1, <1>2, <1>3, <1>4, <1>5, <1>6, <1>7, <1>8, <1>9, <1>10, <1>11, <1>12, <1>13
  DEF PreviewThread

\* A capture thread.
LEMMA CaptureStep ==
  ASSUME IInv, NEW c \in CapThreads, CaptureThread(c)
  PROVE  IInv'
<1> USE DEF IInv
<1>1. ASSUME captureBegin(c) PROVE IInv'
  <2>1. FrameInv' /\ UNCHANGED previewFrames /\ ptr' = [ptr EXCEPT ![captureQueu] = NULL]
    <3>1. CASE ptr[captureQueu] = NULL
      BY <1>1, <3>1, IInvFrames, SameFrames, PointerFacts
      DEF captureBegin, clearCaptureFrame, FrameInv, FrameTypes, frameVars
    <3>2. CASE ptr[captureQueu] # NULL
      BY <1>1, <3>2, IInvFrames, RecycleFrame, PointerFacts
      DEF captureBegin, clearCaptureFrame
    <3> QED BY <3>1, <3>2
  <2>2. FramesInHand'
    BY <1>1, <2>1, PointerFacts, ThreadFacts
    DEF FramesInHand, TypeOK, PcTypes, FrameTypes, frameVars, captureBegin, Goto, At,
        captureOnly
  <2>3. PcTypes'
    BY <1>1, ThreadFacts
    DEF TypeOK, PcTypes, CapturePCs, captureBegin, Goto, At, captureOnly
  <2>4. FlagTypes' /\ SyncTypes' /\ LocalTypes'
    BY <1>1
    DEF TypeOK, FlagTypes, SyncTypes, LocalTypes, flagVars, winVars, syncVars,
        callVars, captureBegin, captureOnly
  <2>5. Phases'
    BY <1>1, <2>1, PointerFacts, ThreadFacts
    DEF Phases, NoMissedPreviewFrame, TypeOK, PcTypes, FlagTypes, FrameTypes, flagVars,
        winVars, syncVars, callVars, frameVars, captureBegin, Goto, At, captureOnly
  <2> QED BY <2>1, <2>2, <2>3, <2>4, <2>5 DEF FrameInv, TypeOK
<1>2. ASSUME do_capture(c) PROVE IInv'
  <2>1. FrameInv' /\ UNCHANGED frameVars
    BY <1>2, IInvFrames, SameFrames DEF do_capture
  <2>2. FramesInHand'
    BY <1>2, <2>1, PointerFacts, ThreadFacts
    DEF FramesInHand, TypeOK, PcTypes, FrameTypes, frameVars, do_capture, Goto, At,
        captureOnly
  <2>3. PcTypes'
    BY <1>2, ThreadFacts
    DEF TypeOK, PcTypes, CapturePCs, do_capture, Goto, At, captureOnly
  <2>4. FlagTypes' /\ SyncTypes' /\ LocalTypes'
    BY <1>2
    DEF TypeOK, FlagTypes, SyncTypes, LocalTypes, flagVars, winVars, syncVars,
        callVars, do_capture, captureOnly, isRunning
  <2>5. Phases'
    BY <1>2, <2>1, PointerFacts, ThreadFacts
    DEF Phases, NoMissedPreviewFrame, TypeOK, PcTypes, FlagTypes, FrameTypes, flagVars,
        winVars, syncVars, callVars, frameVars, do_capture, Goto, At, captureOnly,
            isRunning
  <2> QED BY <2>1, <2>2, <2>3, <2>4, <2>5 DEF FrameInv, TypeOK
<1>3. ASSUME chooseLoop(c) PROVE IInv'
  <2>1. FrameInv' /\ UNCHANGED frameVars
    BY <1>3, IInvFrames, SameFrames DEF chooseLoop
  <2>2. FramesInHand'
    BY <1>3, <2>1, PointerFacts, ThreadFacts
    DEF FramesInHand, TypeOK, PcTypes, FrameTypes, frameVars, chooseLoop, Goto, At,
        captureOnly
  <2>3. PcTypes'
    BY <1>3, ThreadFacts
    DEF TypeOK, PcTypes, CapturePCs, chooseLoop, Goto, At, captureOnly
  <2>4. FlagTypes' /\ SyncTypes'
    BY <1>3, ThreadFacts
    DEF TypeOK, PcTypes, FlagTypes, SyncTypes, LocalTypes, flagVars, winVars, syncVars,
        callVars, chooseLoop, captureOnly
  <2>5. LocalTypes'
    <3> DEFINE b == (mCaptureWindow # NULL)
    <3>1. b \in BOOLEAN /\ cap' = [cap EXCEPT ![c].surface = b]
      BY <1>3 DEF chooseLoop
    <3> HIDE DEF b
    <3> QED BY <1>3, <3>1 DEF TypeOK, LocalTypes, chooseLoop, captureOnly, callVars
  <2>6. Phases'
    BY <1>3, <2>1, PointerFacts, ThreadFacts
    DEF Phases, NoMissedPreviewFrame, TypeOK, PcTypes, FlagTypes, FrameTypes, flagVars,
        winVars, syncVars, callVars, frameVars, chooseLoop, Goto, At, captureOnly
  <2> QED BY <2>1, <2>2, <2>3, <2>4, <2>5, <2>6 DEF FrameInv, TypeOK
<1>4. ASSUME innerLoop(c) PROVE IInv'
  <2>1. FrameInv' /\ UNCHANGED frameVars
    BY <1>4, IInvFrames, SameFrames DEF innerLoop
  <2>2. FramesInHand'
    BY <1>4, <2>1, PointerFacts, ThreadFacts
    DEF FramesInHand, TypeOK, PcTypes, FrameTypes, frameVars, innerLoop, Goto, At,
        captureOnly
  <2>3. PcTypes'
    BY <1>4, ThreadFacts
    DEF TypeOK, PcTypes, CapturePCs, innerLoop, Goto, At, captureOnly
  <2>4. FlagTypes' /\ SyncTypes' /\ LocalTypes'
    BY <1>4
    DEF TypeOK, FlagTypes, SyncTypes, LocalTypes, flagVars, winVars, syncVars,
        callVars, innerLoop, captureOnly, isRunning, isCapturing
  <2>5. Phases'
    BY <1>4, <2>1, PointerFacts, ThreadFacts
    DEF Phases, NoMissedPreviewFrame, TypeOK, PcTypes, FlagTypes, FrameTypes, flagVars,
        winVars, syncVars, callVars, frameVars, innerLoop, Goto, At, captureOnly,
            isRunning, isCapturing
  <2> QED BY <2>1, <2>2, <2>3, <2>4, <2>5 DEF FrameInv, TypeOK
<1>5. ASSUME waitCaptureFrame(c) PROVE IInv'
  <2>1. FrameInv' /\ UNCHANGED previewFrames
        /\ \/ pc'[c] \notin {"readWindow", "readCallback"} /\ UNCHANGED ptr
           \/ /\ pc'[c] \in {"readWindow", "readCallback"} /\ ptr[captureQueu] # NULL
              /\ ptr' = [ptr EXCEPT ![frame(c)] = ptr[captureQueu],
                  ![captureQueu] = NULL]
    <3>1. ptr[frame(c)] = NULL
      BY <1>5 DEF waitCaptureFrame, FramesInHand, At
    <3>2. CASE isRunning /\ ptr[captureQueu] # NULL
      BY <1>5, <3>1, <3>2, IInvFrames, MoveFrame, PointerFacts, ThreadFacts
      DEF waitCaptureFrame, takeCaptureFrame, Goto, TypeOK, PcTypes
    <3>3. CASE ~(isRunning /\ ptr[captureQueu] # NULL)
      BY <1>5, <3>3, IInvFrames, SameFrames, ThreadFacts
      DEF waitCaptureFrame, takeCaptureFrame, Goto, TypeOK, PcTypes, frameVars
    <3> QED BY <3>2, <3>3
  <2>2. FramesInHand'
    BY <1>5, <2>1, PointerFacts, ThreadFacts
    DEF FramesInHand, TypeOK, PcTypes, FrameTypes, frameVars, waitCaptureFrame, Goto,
        At, captureOnly, takeCaptureFrame
  <2>3. PcTypes'
    BY <1>5, ThreadFacts
    DEF TypeOK, PcTypes, CapturePCs, waitCaptureFrame, Goto, At, captureOnly,
        takeCaptureFrame
  <2>4. FlagTypes' /\ SyncTypes' /\ LocalTypes'
    BY <1>5
    DEF TypeOK, FlagTypes, SyncTypes, LocalTypes, flagVars, winVars, syncVars,
        callVars, waitCaptureFrame, captureOnly, takeCaptureFrame
  <2>5. Phases'
    BY <1>5, <2>1, PointerFacts, ThreadFacts
    DEF Phases, NoMissedPreviewFrame, TypeOK, PcTypes, FlagTypes, FrameTypes, flagVars,
        winVars, syncVars, callVars, frameVars, waitCaptureFrame, Goto, At,
            captureOnly, takeCaptureFrame
  <2> QED BY <2>1, <2>2, <2>3, <2>4, <2>5 DEF FrameInv, TypeOK
<1>6. ASSUME captureWoken(c) PROVE IInv'
  <2>1. FrameInv' /\ UNCHANGED previewFrames
        /\ \/ pc'[c] \notin {"readWindow", "readCallback"} /\ UNCHANGED ptr
           \/ /\ pc'[c] \in {"readWindow", "readCallback"} /\ ptr[captureQueu] # NULL
              /\ ptr' = [ptr EXCEPT ![frame(c)] = ptr[captureQueu],
                  ![captureQueu] = NULL]
    <3>1. ptr[frame(c)] = NULL
      BY <1>6 DEF captureWoken, FramesInHand, At
    <3>2. CASE isRunning /\ ptr[captureQueu] # NULL
      BY <1>6, <3>1, <3>2, IInvFrames, MoveFrame, PointerFacts, ThreadFacts
      DEF captureWoken, takeCaptureFrame, Goto, TypeOK, PcTypes
    <3>3. CASE ~(isRunning /\ ptr[captureQueu] # NULL)
      BY <1>6, <3>3, IInvFrames, SameFrames, ThreadFacts
      DEF captureWoken, takeCaptureFrame, Goto, TypeOK, PcTypes, frameVars
    <3> QED BY <3>2, <3>3
  <2>2. FramesInHand'
    BY <1>6, <2>1, PointerFacts, ThreadFacts
    DEF FramesInHand, TypeOK, PcTypes, FrameTypes, frameVars, captureWoken, Goto, At,
        captureOnly, takeCaptureFrame
  <2>3. PcTypes'
    BY <1>6, ThreadFacts
    DEF TypeOK, PcTypes, CapturePCs, captureWoken, Goto, At, captureOnly,
        takeCaptureFrame
  <2>4. FlagTypes' /\ SyncTypes' /\ LocalTypes'
    BY <1>6
    DEF TypeOK, FlagTypes, SyncTypes, LocalTypes, flagVars, winVars, syncVars,
        callVars, captureWoken, captureOnly, takeCaptureFrame
  <2>5. Phases'
    BY <1>6, <2>1, PointerFacts, ThreadFacts
    DEF Phases, NoMissedPreviewFrame, TypeOK, PcTypes, FlagTypes, FrameTypes, flagVars,
        winVars, syncVars, callVars, frameVars, captureWoken, Goto, At, captureOnly,
            takeCaptureFrame
  <2> QED BY <2>1, <2>2, <2>3, <2>4, <2>5 DEF FrameInv, TypeOK
<1>7. ASSUME readWindow(c) PROVE IInv'
  <2>1. FrameInv' /\ UNCHANGED frameVars
    BY <1>7, IInvFrames, SameFrames DEF readWindow
  <2>2. FramesInHand'
    BY <1>7, <2>1, PointerFacts, ThreadFacts
    DEF FramesInHand, TypeOK, PcTypes, FrameTypes, frameVars, readWindow, Goto, At,
        captureOnly
  <2>3. PcTypes'
    BY <1>7, ThreadFacts
    DEF TypeOK, PcTypes, CapturePCs, readWindow, Goto, At, captureOnly
  <2>4. FlagTypes' /\ SyncTypes' /\ LocalTypes'
    BY <1>7
    DEF TypeOK, FlagTypes, SyncTypes, LocalTypes, flagVars, winVars, syncVars,
        callVars, readWindow, captureOnly
  <2>5. Phases'
    BY <1>7, <2>1, PointerFacts, ThreadFacts
    DEF Phases, NoMissedPreviewFrame, TypeOK, PcTypes, FlagTypes, FrameTypes, flagVars,
        winVars, syncVars, callVars, frameVars, readWindow, Goto, At, captureOnly
  <2> QED BY <2>1, <2>2, <2>3, <2>4, <2>5 DEF FrameInv, TypeOK
<1>8. ASSUME copyToSurface(c) PROVE IInv'
  <2>1. FrameInv' /\ UNCHANGED frameVars
    BY <1>8, IInvFrames, SameFrames DEF copyToSurface
  <2>2. FramesInHand'
    BY <1>8, <2>1, PointerFacts, ThreadFacts
    DEF FramesInHand, TypeOK, PcTypes, FrameTypes, frameVars, copyToSurface, Goto, At,
        captureOnly
  <2>3. PcTypes'
    BY <1>8, ThreadFacts
    DEF TypeOK, PcTypes, CapturePCs, copyToSurface, Goto, At, captureOnly
  <2>4. FlagTypes' /\ SyncTypes' /\ LocalTypes'
    BY <1>8
    DEF TypeOK, FlagTypes, SyncTypes, LocalTypes, flagVars, winVars, syncVars,
        callVars, copyToSurface, captureOnly
  <2>5. Phases'
    BY <1>8, <2>1, PointerFacts, ThreadFacts
    DEF Phases, NoMissedPreviewFrame, TypeOK, PcTypes, FlagTypes, FrameTypes, flagVars,
        winVars, syncVars, callVars, frameVars, copyToSurface, Goto, At, captureOnly
  <2> QED BY <2>1, <2>2, <2>3, <2>4, <2>5 DEF FrameInv, TypeOK
<1>9. ASSUME readCallback(c) PROVE IInv'
  <2>1. FrameInv' /\ UNCHANGED previewFrames
        /\ \/ Goto(c, "inner") /\ ptr' = [ptr EXCEPT ![frame(c)] = NULL]
           \/ /\ Goto(c, "onFrame")
              /\ ptr' = [ptr EXCEPT ![callbackFrame(c)] = ptr[frame(c)],
                  ![frame(c)] = NULL]
           \/ /\ Goto(c, "convert") /\ ptr'[callbackFrame(c)] # NULL
              /\ ptr' = [ptr EXCEPT ![callbackFrame(c)] = ptr'[callbackFrame(c)]]
           \/ Goto(c, "skip") /\ UNCHANGED ptr
    <3>1. ptr[frame(c)] # NULL /\ ptr[callbackFrame(c)] = NULL
      BY <1>9 DEF readCallback, FramesInHand, At
    <3>2. CASE recycle_frame(frame(c)) /\ Goto(c, "inner")
      BY <3>1, <3>2, IInvFrames, RecycleFrame, PointerFacts
    <3>3. CASE /\ Goto(c, "onFrame")
               /\ ptr' = [ptr EXCEPT ![callbackFrame(c)] = ptr[frame(c)],
                   ![frame(c)] = NULL]
               /\ UNCHANGED <<previewFrames, mFramePool, heap>>
      BY <3>1, <3>3, IInvFrames, MoveFrame, PointerFacts
    <3>4. CASE Goto(c, "convert") /\ get_frame(callbackFrame(c))
      <4>1. UNCHANGED previewFrames
        BY <3>4 DEF get_frame
      <4> QED BY <3>1, <3>4, <4>1, IInvFrames, GetFrame, PointerFacts
    <3>5. CASE Goto(c, "skip") /\ UNCHANGED frameVars
      BY <3>5, IInvFrames, SameFrames DEF frameVars
    <3> QED BY <1>9, <3>2, <3>3, <3>4, <3>5 DEF readCallback
  <2>2. FramesInHand'
    BY <1>9, <2>1, PointerFacts, ThreadFacts
    DEF FramesInHand, TypeOK, PcTypes, FrameTypes, frameVars, readCallback, Goto, At,
        captureOnly
  <2>3. PcTypes'
    BY <1>9, ThreadFacts
    DEF TypeOK, PcTypes, CapturePCs, readCallback, Goto, At, captureOnly
  <2>4. FlagTypes' /\ SyncTypes' /\ LocalTypes'
    BY <1>9
    DEF TypeOK, FlagTypes, SyncTypes, LocalTypes, flagVars, winVars, syncVars,
        callVars, readCallback, captureOnly
  <2>5. Phases'
    BY <1>9, <2>1, PointerFacts, ThreadFacts
    DEF Phases, NoMissedPreviewFrame, TypeOK, PcTypes, FlagTypes, FrameTypes, flagVars,
        winVars, syncVars, callVars, frameVars, readCallback, Goto, At, captureOnly
  <2> QED BY <2>1, <2>2, <2>3, <2>4, <2>5 DEF FrameInv, TypeOK
<1>10. ASSUME skipCallback(c) PROVE IInv'
  <2>1. FrameInv' /\ UNCHANGED previewFrames /\ ptr' = [ptr EXCEPT ![frame(c)] = NULL]
    BY <1>10, IInvFrames, RecycleFrame, PointerFacts DEF skipCallback, FramesInHand, At
  <2>2. FramesInHand'
    BY <1>10, <2>1, PointerFacts, ThreadFacts
    DEF FramesInHand, TypeOK, PcTypes, FrameTypes, frameVars, skipCallback, Goto, At,
        captureOnly
  <2>3. PcTypes'
    BY <1>10, ThreadFacts
    DEF TypeOK, PcTypes, CapturePCs, skipCallback, Goto, At, captureOnly
  <2>4. FlagTypes' /\ SyncTypes' /\ LocalTypes'
    BY <1>10
    DEF TypeOK, FlagTypes, SyncTypes, LocalTypes, flagVars, winVars, syncVars,
        callVars, skipCallback, captureOnly
  <2>5. Phases'
    BY <1>10, <2>1, PointerFacts, ThreadFacts
    DEF Phases, NoMissedPreviewFrame, TypeOK, PcTypes, FlagTypes, FrameTypes, flagVars,
        winVars, syncVars, callVars, frameVars, skipCallback, Goto, At, captureOnly
  <2> QED BY <2>1, <2>2, <2>3, <2>4, <2>5 DEF FrameInv, TypeOK
<1>11. ASSUME convertFrame(c) PROVE IInv'
  <2>1. FrameInv' /\ UNCHANGED previewFrames /\ ptr' = [ptr EXCEPT ![frame(c)] = NULL]
    BY <1>11, IInvFrames, RecycleFrame, PointerFacts DEF convertFrame, FramesInHand, At
  <2>2. FramesInHand'
    BY <1>11, <2>1, PointerFacts, ThreadFacts
    DEF FramesInHand, TypeOK, PcTypes, FrameTypes, frameVars, convertFrame, Goto, At,
        captureOnly
  <2>3. PcTypes'
    BY <1>11, ThreadFacts
    DEF TypeOK, PcTypes, CapturePCs, convertFrame, Goto, At, captureOnly
  <2>4. FlagTypes' /\ SyncTypes' /\ LocalTypes'
    BY <1>11
    DEF TypeOK, FlagTypes, SyncTypes, LocalTypes, flagVars, winVars, syncVars,
        callVars, convertFrame, captureOnly
  <2>5. Phases'
    BY <1>11, <2>1, PointerFacts, ThreadFacts
    DEF Phases, NoMissedPreviewFrame, TypeOK, PcTypes, FlagTypes, FrameTypes, flagVars,
        winVars, syncVars, callVars, frameVars, convertFrame, Goto, At, captureOnly
  <2> QED BY <2>1, <2>2, <2>3, <2>4, <2>5 DEF FrameInv, TypeOK
<1>12. ASSUME onFrame(c) PROVE IInv'
  <2>1. FrameInv' /\ UNCHANGED frameVars
    BY <1>12, IInvFrames, SameFrames DEF onFrame
  <2>2. FramesInHand'
    BY <1>12, <2>1, PointerFacts, ThreadFacts
    DEF FramesInHand, TypeOK, PcTypes, FrameTypes, frameVars, onFrame, Goto, At,
        captureOnly
  <2>3. PcTypes'
    BY <1>12, ThreadFacts
    DEF TypeOK, PcTypes, CapturePCs, onFrame, Goto, At, captureOnly
  <2>4. FlagTypes' /\ SyncTypes' /\ LocalTypes'
    BY <1>12
    DEF TypeOK, FlagTypes, SyncTypes, LocalTypes, flagVars, winVars, syncVars,
        callVars, onFrame, captureOnly
  <2>5. Phases'
    BY <1>12, <2>1, PointerFacts, ThreadFacts
    DEF Phases, NoMissedPreviewFrame, TypeOK, PcTypes, FlagTypes, FrameTypes, flagVars,
        winVars, syncVars, callVars, frameVars, onFrame, Goto, At, captureOnly
  <2> QED BY <2>1, <2>2, <2>3, <2>4, <2>5 DEF FrameInv, TypeOK
<1>13. ASSUME recycleCallbackFrame(c) PROVE IInv'
  <2>1. FrameInv' /\ UNCHANGED previewFrames /\ ptr' = [ptr EXCEPT ![callbackFrame(c)] = NULL]
    BY <1>13, IInvFrames, RecycleFrame, PointerFacts
    DEF recycleCallbackFrame, FramesInHand, At
  <2>2. FramesInHand'
    BY <1>13, <2>1, PointerFacts, ThreadFacts
    DEF FramesInHand, TypeOK, PcTypes, FrameTypes, frameVars, recycleCallbackFrame,
        Goto, At, captureOnly
  <2>3. PcTypes'
    BY <1>13, ThreadFacts
    DEF TypeOK, PcTypes, CapturePCs, recycleCallbackFrame, Goto, At, captureOnly
  <2>4. FlagTypes' /\ SyncTypes' /\ LocalTypes'
    BY <1>13
    DEF TypeOK, FlagTypes, SyncTypes, LocalTypes, flagVars, winVars, syncVars,
        callVars, recycleCallbackFrame, captureOnly
  <2>5. Phases'
    BY <1>13, <2>1, PointerFacts, ThreadFacts
    DEF Phases, NoMissedPreviewFrame, TypeOK, PcTypes, FlagTypes, FrameTypes, flagVars,
        winVars, syncVars, callVars, frameVars, recycleCallbackFrame, Goto, At,
            captureOnly
  <2> QED BY <2>1, <2>2, <2>3, <2>4, <2>5 DEF FrameInv, TypeOK
<1>14. ASSUME dropWindow(c) PROVE IInv'
  <2>1. FrameInv' /\ UNCHANGED frameVars
    BY <1>14, IInvFrames, SameFrames DEF dropWindow
  <2>2. FramesInHand'
    BY <1>14, <2>1, PointerFacts, ThreadFacts
    DEF FramesInHand, TypeOK, PcTypes, FrameTypes, frameVars, dropWindow, Goto, At,
        captureOnly
  <2>3. PcTypes'
    BY <1>14, ThreadFacts
    DEF TypeOK, PcTypes, CapturePCs, dropWindow, Goto, At, captureOnly
  <2>4. FlagTypes' /\ SyncTypes' /\ LocalTypes'
    BY <1>14
    DEF TypeOK, FlagTypes, SyncTypes, LocalTypes, flagVars, winVars, syncVars,
        callVars, dropWindow, captureOnly
  <2>5. Phases'
    BY <1>14, <2>1, PointerFacts, ThreadFacts
    DEF Phases, NoMissedPreviewFrame, TypeOK, PcTypes, FlagTypes, FrameTypes, flagVars,
        winVars, syncVars, callVars, frameVars, dropWindow, Goto, At, captureOnly
  <2> QED BY <2>1, <2>2, <2>3, <2>4, <2>5 DEF FrameInv, TypeOK
<1>15. ASSUME releaseWindow(c) PROVE IInv'
  <2>1. FrameInv' /\ UNCHANGED frameVars
    BY <1>15, IInvFrames, SameFrames DEF releaseWindow
  <2>2. FramesInHand'
    BY <1>15, <2>1, PointerFacts, ThreadFacts
    DEF FramesInHand, TypeOK, PcTypes, FrameTypes, frameVars, releaseWindow, Goto, At,
        captureOnly
  <2>3. PcTypes'
    BY <1>15, ThreadFacts
    DEF TypeOK, PcTypes, CapturePCs, releaseWindow, Goto, At, captureOnly
  <2>4. FlagTypes' /\ SyncTypes' /\ LocalTypes'
    BY <1>15
    DEF TypeOK, FlagTypes, SyncTypes, LocalTypes, flagVars, winVars, syncVars,
        callVars, releaseWindow, captureOnly
  <2>5. Phases'
    BY <1>15, <2>1, PointerFacts, ThreadFacts
    DEF Phases, NoMissedPreviewFrame, TypeOK, PcTypes, FlagTypes, FrameTypes, flagVars,
        winVars, syncVars, callVars, frameVars, releaseWindow, Goto, At, captureOnly
  <2> QED BY <2>1, <2>2, <2>3, <2>4, <2>5 DEF FrameInv, TypeOK
<1>16. ASSUME clearWindow(c) PROVE IInv'
  <2>1. FrameInv' /\ UNCHANGED frameVars
    BY <1>16, IInvFrames, SameFrames DEF clearWindow
  <2>2. FramesInHand'
    BY <1>16, <2>1, PointerFacts, ThreadFacts
    DEF FramesInHand, TypeOK, PcTypes, FrameTypes, frameVars, clearWindow, Goto, At,
        captureOnly
  <2>3. PcTypes'
    BY <1>16, ThreadFacts
    DEF TypeOK, PcTypes, CapturePCs, clearWindow, Goto, At, captureOnly
  <2>4. FlagTypes' /\ SyncTypes' /\ LocalTypes'
    BY <1>16
    DEF TypeOK, FlagTypes, SyncTypes, LocalTypes, flagVars, winVars, syncVars,
        callVars, clearWindow, captureOnly
  <2>5. Phases'
    BY <1>16, <2>1, PointerFacts, ThreadFacts
    DEF Phases, NoMissedPreviewFrame, TypeOK, PcTypes, FlagTypes, FrameTypes, flagVars,
        winVars, syncVars, callVars, frameVars, clearWindow, Goto, At, captureOnly
  <2> QED BY <2>1, <2>2, <2>3, <2>4, <2>5 DEF FrameInv, TypeOK
<1>17. ASSUME captureBroadcast(c) PROVE IInv'
  <2>1. FrameInv' /\ UNCHANGED frameVars
    BY <1>17, IInvFrames, SameFrames DEF captureBroadcast
  <2>2. FramesInHand'
    BY <1>17, <2>1, PointerFacts, ThreadFacts
    DEF FramesInHand, TypeOK, PcTypes, FrameTypes, frameVars, captureBroadcast, Goto,
        At, captureOnly
  <2>3. PcTypes'
    BY <1>17, ThreadFacts
    DEF TypeOK, PcTypes, CapturePCs, captureBroadcast, Goto, At, captureOnly
  <2>4. FlagTypes' /\ SyncTypes' /\ LocalTypes'
    BY <1>17
    DEF TypeOK, FlagTypes, SyncTypes, LocalTypes, flagVars, winVars, syncVars,
        callVars, captureBroadcast, captureOnly, WakeAll
  <2>5. Phases'
    BY <1>17, <2>1, PointerFacts, ThreadFacts
    DEF Phases, NoMissedPreviewFrame, TypeOK, PcTypes, FlagTypes, FrameTypes, flagVars,
        winVars, syncVars, callVars, frameVars, captureBroadcast, Goto, At,
            captureOnly, WakeAll
  <2> QED BY <2>1, <2>2, <2>3, <2>4, <2>5 DEF FrameInv, TypeOK
<1> QED BY <1>1, <1>2, <1>3, <1>4, <1>5, <1>6, <1>7, <1>8, <1>9, <1>10, <1>11, <1>12,
    <1>13, <1>14, <1>15, <1>16, <1>17
  DEF CaptureThread

-----------------------------------------------------------------------------
(* The invariant, and what it implies. *)

\* The invariant holds of a new UVCPreview object.
LEMMA InitIInv == Init => IInv
<1> SUFFICES ASSUME Init PROVE IInv
  OBVIOUS
<1>1. FrameInv
  BY DEF Init, FrameInv, FrameTypes, FrameOwnership, Queued
<1>2. TypeOK
  <2>1. PcTypes
    BY ThreadFacts DEF Init, PcTypes, Threads, AppPCs, UvcPCs, PreviewPCs, CapturePCs
  <2>2. LocalTypes
    BY DEF Init, LocalTypes, NoRequest
  <2>3. FlagTypes /\ SyncTypes
    BY DEF Init, FlagTypes, SyncTypes
  <2> QED BY <1>1, <2>1, <2>2, <2>3 DEF TypeOK, FrameInv
<1>3. FramesInHand
  BY PointerFacts, ThreadFacts DEF Init, FramesInHand, At
<1>4. Phases
  BY PointerFacts, ThreadFacts DEF Init, Phases, NoMissedPreviewFrame, At
<1> QED BY <1>1, <1>2, <1>3, <1>4 DEF IInv, FrameInv

\* A step that changes nothing keeps the invariant.
LEMMA StutterIInv == IInv /\ UNCHANGED vars => IInv'
BY DEF IInv, TypeOK, FlagTypes, FrameTypes, SyncTypes, PcTypes, LocalTypes,
       FrameOwnership, Queued, FramesInHand, Phases, NoMissedPreviewFrame, At, vars,
           frameVars,
       flagVars, winVars, syncVars, callVars

\* The conjunction of the type invariant, the ownership of frames, which frames
\* each thread holds where, and when the threads live, is inductive.
THEOREM Invariance == Spec => []IInv
<1>1. IInv /\ [Next]_vars => IInv'
  BY AppCallsStep, AppReturnsStep, UvcStep, PreviewStep, CaptureStep, StutterIInv
  DEF Next
<1> QED BY InitIInv, <1>1, PTL DEF Spec

\* UvcPreview's variables, the threads' program counters and locals keep their types.
THEOREM TypeCorrect == Spec => []TypeOK
<1>1. IInv => TypeOK
  BY DEF IInv
<1> QED BY <1>1, Invariance, PTL

\* No frame ever has two owners: none is written by two threads, queued twice,
\* or recycled or freed while somebody holds it.
THEOREM OneOwner == Spec => []FrameOwnership
<1>1. IInv => FrameOwnership
  BY DEF IInv
<1> QED BY <1>1, Invariance, PTL

\* Each thread holds exactly the frames its place in the code says: no loop of
\* do_preview, do_capture or the uvc callback keeps one.
THEOREM NothingKept == Spec => []FramesInHand
<1>1. IInv => FramesInHand
  BY DEF IInv
<1> QED BY <1>1, Invariance, PTL

\* Once stopPreview has returned and until the next startPreview, the stream and
\* the preview thread are gone and both queues are empty.
THEOREM DrainedWhenStopped == Spec => []StoppedIsDrained
<1>1. IInv => StoppedIsDrained
  BY DEF IInv, Phases, StoppedIsDrained, At
<1> QED BY <1>1, Invariance, PTL

\* While the preview runs, its thread never sleeps on a queue that has a frame.
THEOREM NoMissedFrame == Spec => []NoMissedPreviewFrame
<1>1. IInv => NoMissedPreviewFrame
  BY DEF IInv, Phases
<1> QED BY <1>1, Invariance, PTL

=============================================================================
