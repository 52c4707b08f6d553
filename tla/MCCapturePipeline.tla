------------------------- MODULE MCCapturePipeline -------------------------
(***************************************************************************)
(* An instance of CapturePipeline for TLC;                                 *)
(* the values are in CapturePipeline.cfg.                                  *)
(***************************************************************************)
EXTENDS CapturePipeline
=============================================================================
