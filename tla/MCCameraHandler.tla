-------------------------- MODULE MCCameraHandler --------------------------
(* Instances of CameraHandler for TLC. *)
EXTENDS CameraHandler
=============================================================================
