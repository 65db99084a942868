--------------------------- MODULE MCVoiceRecord ---------------------------
(* VoiceRecord for TLC; the instance is in VoiceRecord.cfg. *)
EXTENDS VoiceRecord
=============================================================================
