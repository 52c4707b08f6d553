------------------------------ MODULE MCRenderer ------------------------------
(***************************************************************************)
(* An instance of Renderer for TLC; the values are in Renderer.cfg.        *)
(***************************************************************************)
EXTENDS Renderer
=============================================================================
