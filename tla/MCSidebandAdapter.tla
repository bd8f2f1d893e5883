------------------------- MODULE MCSidebandAdapter --------------------------
(* Instances of SidebandAdapter for model checking.  Objects are              *)
(* interchangeable, and so are links; different links have different hashes.  *)
EXTENDS SidebandAdapter, TLC

MCNameOf(l) == l
SidebandSymmetry == Permutations(Objects) \union Permutations(Links)
=============================================================================
