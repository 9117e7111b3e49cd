----------------------------- MODULE MCDatabase -----------------------------
(***************************************************************************)
(* Two identifiers and six seconds: enough for an identifier to go, come   *)
(* back, go again and be forgotten while the other's allow lapses.         *)
(***************************************************************************)
EXTENDS Database
=============================================================================
