---------------------------- MODULE MCUsbMonitor ----------------------------
(* Instances of UsbMonitor for TLC. *)
EXTENDS UsbMonitor
=============================================================================
