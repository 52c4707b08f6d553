----------------------------- MODULE MCHostTray -----------------------------
(***************************************************************************)
(* Instances of HostTray for TLC; the constants are in the .cfg files.     *)
(***************************************************************************)
EXTENDS HostTray
=============================================================================
