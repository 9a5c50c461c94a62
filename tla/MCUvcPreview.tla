---------------------------- MODULE MCUvcPreview ----------------------------
(* Instances of UvcPreview for TLC. *)
EXTENDS UvcPreview, TLC

FrameSymmetry == Permutations(Frames)
=============================================================================
