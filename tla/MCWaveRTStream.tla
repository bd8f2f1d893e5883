--------------------------- MODULE MCWaveRTStream ---------------------------
(* Instances of WaveRTStream for model checking; the bounds are in the .cfg. *)
EXTENDS WaveRTStream
=============================================================================
