---------------------------- MODULE MuxerProtocol ----------------------------
(***************************************************************************)
(* What a recording promises of its file: every encoder adds its track,    *)
(* the file is started once all tracks are there, samples are written only *)
(* while it is started, and it is stopped once.                            *)
(***************************************************************************)
EXTENDS Naturals

CONSTANT Encoders

VARIABLES
  file,     \* "initialized", "started" or "stopped"
  tracks,   \* encoders that have added their track
  written   \* samples written by each encoder

vars == <<file, tracks, written>>

Init ==
  /\ file = "initialized" /\ tracks = {}
  /\ written = [e \in Encoders |-> 0]

AddTrack(e) ==
  /\ file = "initialized" /\ e \notin tracks
  /\ tracks' = tracks \cup {e}
  /\ UNCHANGED <<file, written>>

Start ==
  /\ file = "initialized" /\ tracks = Encoders
  /\ file' = "started"
  /\ UNCHANGED <<tracks, written>>

Write(e) ==
  /\ file = "started"
  /\ written' = [written EXCEPT ![e] = @ + 1]
  /\ UNCHANGED <<file, tracks>>

Stop ==
  /\ file = "started"
  /\ file' = "stopped"
  /\ UNCHANGED <<tracks, written>>

Next == Start \/ Stop \/ \E e \in Encoders : AddTrack(e) \/ Write(e)

Spec == Init /\ [][Next]_vars
=============================================================================
