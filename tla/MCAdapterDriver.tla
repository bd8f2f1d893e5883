--------------------------- MODULE MCAdapterDriver --------------------------
(* Instances of AdapterDriver for model checking.  The devices are model     *)
(* values and interchangeable.                                               *)
EXTENDS AdapterDriver, TLC

DeviceSymmetry == Permutations(Devices)
=============================================================================
