------------------------------ MODULE MCMonitor ------------------------------
(***************************************************************************)
(* Small instances of the main loop for TLC; each Monitor*.cfg gives the   *)
(* constants the values that one question needs.                           *)
(***************************************************************************)
EXTENDS MonitorProperties
=============================================================================
