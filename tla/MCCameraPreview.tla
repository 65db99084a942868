-------------------------- MODULE MCCameraPreview --------------------------
(* CameraPreview for TLC; the instance is in CameraPreview.cfg. *)
EXTENDS CameraPreview
=============================================================================
