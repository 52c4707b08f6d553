---------------------------- MODULE MCLiveSession ----------------------------
(***************************************************************************)
(* An instance of LiveSession for TLC; the values are in LiveSession.cfg.  *)
(***************************************************************************)
EXTENDS LiveSession
=============================================================================
