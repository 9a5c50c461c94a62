---- MODULE MCUvcDevice ----
(* UvcDevice for TLC *)
EXTENDS UvcDevice
====
