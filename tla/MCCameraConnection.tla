------------------------ MODULE MCCameraConnection ------------------------
(***************************************************************************)
(* Instances of CameraConnection for TLC. A device is one plugging in, so  *)
(* two of them are also one camera that is unplugged and plugged in again. *)
(***************************************************************************)
EXTENDS CameraConnection

DeviceSymmetry == Permutations(Devices)
=============================================================================
