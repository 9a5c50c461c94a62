---------------------------- MODULE MCUvcStream ----------------------------
(* Instances of UvcStream for TLC. *)
EXTENDS UvcStream
=============================================================================
