---------------------------- MODULE MCMjpegStream ----------------------------
(***************************************************************************)
(* An instance of MjpegStream for TLC; the values are in MjpegStream.cfg.  *)
(***************************************************************************)
EXTENDS MjpegStream
=============================================================================
