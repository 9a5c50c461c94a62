---------------------------- MODULE FrameSource ----------------------------
(***************************************************************************)
(* What a video stream promises to whoever starts it: it calls back, one   *)
(* frame at a time, only while it is started, and no call is in progress   *)
(* when stopping it returns.  UvcStream implements this; UvcPreview relies *)
(* on it for its variable streaming and its thread "uvc".                  *)
(***************************************************************************)
VARIABLES streaming, calling

vars == <<streaming, calling>>

Init == streaming = FALSE /\ calling = FALSE

Start   == ~streaming /\ ~calling /\ streaming' = TRUE /\ UNCHANGED calling
Call    == streaming /\ ~calling /\ calling' = TRUE /\ UNCHANGED streaming
Return  == calling /\ calling' = FALSE /\ UNCHANGED streaming
Stopped == streaming /\ ~calling /\ streaming' = FALSE /\ UNCHANGED calling

Next == Start \/ Call \/ Return \/ Stopped

Spec == Init /\ [][Next]_vars
=============================================================================
