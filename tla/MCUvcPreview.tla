---------------------------- MODULE MCUvcPreview ----------------------------
(***************************************************************************)
(* Instances of UvcPreview for TLC.                                        *)
(*                                                                         *)
(* Frame identities are interchangeable: while FrameOwnership holds, two   *)
(* states that agree on which pointers hold a frame, on the lengths of the *)
(* queue and on the sizes of the pool and of the heap differ only by a     *)
(* permutation of Frames. UpToFrames is this quotient. FrameOwnership is a *)
(* theorem (OneOwner); where it is also checked, FramesView keeps its      *)
(* truth and that of TypeOK apart, so a state that breaks one is new. The  *)
(* test of ptr in UpToFrames, always TRUE, makes TLC evaluate the function *)
(* as it does every variable that is part of a fingerprint.                *)
(***************************************************************************)
EXTENDS UvcPreview

UpToFrames ==
  <<ptr \in [Pointers -> Frames \cup {NULL}],
    [p \in Pointers |-> ptr[p] # NULL], Len(previewFrames), Cardinality(mFramePool),
    Cardinality(heap), flagVars, winVars, syncVars, callVars, capture_thread, pc, cap>>

FramesView == <<UpToFrames, TypeOK /\ FrameOwnership>>
=============================================================================
