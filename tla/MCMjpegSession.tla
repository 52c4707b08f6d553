--------------------------- MODULE MCMjpegSession ---------------------------
(***************************************************************************)
(* Instances of MjpegSession for TLC; the values are in MjpegSession.cfg   *)
(* and MjpegSessionLiveness.cfg.                                           *)
(***************************************************************************)
EXTENDS MjpegSession
=============================================================================
