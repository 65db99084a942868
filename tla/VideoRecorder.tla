---------------------------- MODULE VideoRecorder ----------------------------
(***************************************************************************)
(* What VideoCapture does for its client, as OnVideoCaptureCallback tells  *)
(* it: a call of startRecording is refused or begins a recording, there is *)
(* one recording at a time, and a recording ends with one outcome:         *)
(*   "saved"   onVideoSaved and no onError; the file can be played, which  *)
(*             takes a video key frame;                                    *)
(*   "failed"  onError and no onVideoSaved;                                *)
(*   "savedDespiteError"  both. stopRecording's comment promises one or    *)
(*             the other; the client is told both of a recording whose     *)
(*             sound could not be stopped, and of no other.                *)
(***************************************************************************)
CONSTANT Calls        \* calls of startRecording

VARIABLES status,       \* what became of each call
          playable,     \* calls whose file has a video key frame
          soundFailed   \* recordings whose sound could not be stopped

vars == <<status, playable, soundFailed>>

Init == status = [c \in Calls |-> "none"] /\ playable = {} /\ soundFailed = {}

\* onError without onStart: for one in progress, a failed encoder or muxer.
Refuse(c) ==
  /\ status[c] = "none"
  /\ status' = [status EXCEPT ![c] = "refused"]
  /\ UNCHANGED <<playable, soundFailed>>

\* onStart
Begin(c) ==
  /\ status[c] = "none" /\ \A other \in Calls : status[other] # "recording"
  /\ status' = [status EXCEPT ![c] = "recording"]
  /\ UNCHANGED <<playable, soundFailed>>

WriteKeyFrame(c) ==
  /\ status[c] = "recording" /\ c \notin playable
  /\ playable' = playable \cup {c}
  /\ UNCHANGED <<status, soundFailed>>

\* onError of the audio thread, which ends after the video or before it.
SoundFails(c) ==
  /\ status[c] \notin {"none", "refused"}
  /\ soundFailed' = soundFailed \cup {c}
  /\ status' = [status EXCEPT ![c] = IF @ = "saved" THEN "savedDespiteError" ELSE @]
  /\ UNCHANGED playable

\* onVideoSaved, or onError of a recording that began.
Finish(c) ==
  /\ status[c] = "recording"
  /\ \/ status' = [status EXCEPT ![c] = "failed"]
     \/ /\ c \in playable
        /\ status' = [status EXCEPT ![c] = IF c \in soundFailed THEN "savedDespiteError"
                                                                ELSE "saved"]
  /\ UNCHANGED <<playable, soundFailed>>

Next == \E c \in Calls : \/ Refuse(c) \/ Begin(c) \/ WriteKeyFrame(c)
                         \/ SoundFails(c) \/ Finish(c)

Spec == Init /\ [][Next]_vars
=============================================================================
