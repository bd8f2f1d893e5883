-------------------------- MODULE MCSidebandDevice --------------------------
(* Instances of SidebandDevice for model checking.  Requests, streams and the *)
(* threads of the work item are model values of the configuration.            *)
EXTENDS SidebandDevice
=============================================================================
