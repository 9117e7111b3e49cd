---------------------------- MODULE MCEventStream ----------------------------
(***************************************************************************)
(* One goroutine against a legacy or a UniFi OS controller.                *)
(***************************************************************************)
EXTENDS EventStream
=============================================================================
