---------------------------- MODULE MCRenderPath ----------------------------
(* Instances of RenderPath for model checking. *)
EXTENDS RenderPath

MCFrameSizes == {DmaSize * FrameFactor}
=============================================================================
