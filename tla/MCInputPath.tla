----------------------------- MODULE MCInputPath -----------------------------
(***************************************************************************)
(* An instance of InputPath for TLC; the values are in InputPath.cfg.      *)
(***************************************************************************)
EXTENDS InputPath
=============================================================================
