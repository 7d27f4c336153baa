------------------------- MODULE MCH264StreamTrack -------------------------
(* Model-checking instance of H264StreamTrack. *)
EXTENDS H264StreamTrack
=============================================================================
