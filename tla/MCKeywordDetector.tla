-------------------------- MODULE MCKeywordDetector --------------------------
(* Instances of KeywordDetector for model checking; Keywords are model values *)
(* and the bounds are in the .cfg files.                                      *)
EXTENDS KeywordDetector
=============================================================================
