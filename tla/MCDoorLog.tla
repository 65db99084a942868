----------------------------- MODULE MCDoorLog -----------------------------
(* DoorLog, with its serial line, for TLC; the instance is in DoorLog.cfg. *)
EXTENDS DoorLog
=============================================================================
