--------------------------- MODULE MCMonitorDriver ---------------------------
(***************************************************************************)
(* An instance of MonitorDriver for TLC;                                   *)
(* the values are in MonitorDriver.cfg.                                    *)
(***************************************************************************)
EXTENDS MonitorDriver
=============================================================================
