----------------------------- MODULE MCRtpStream -----------------------------
(***************************************************************************)
(* An instance of RtpStream for TLC; the values are in RtpStream.cfg.      *)
(***************************************************************************)
EXTENDS RtpStream
=============================================================================
