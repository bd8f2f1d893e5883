--------------------------- MODULE MCAudioControl ---------------------------
(* Instances of AudioControl for model checking.  Samples are 5 bits and a    *)
(* ULONG 13 bits wide, the proportion the scaling depends on: a ULONG holds   *)
(* the product of a sample and a percentage and a clamp is reached.           *)
EXTENDS AudioControl, TLC

MCSamples == {-16, -1, 0, 1, 15}
MCTwoSamples == {-16, 15}

AudioSymmetry == Permutations(Streams)
=============================================================================
