----------------------------- MODULE MCSaveData -----------------------------
(* Instances of SaveData for model checking; the bounds are in the .cfg files. *)
EXTENDS SaveData
=============================================================================
