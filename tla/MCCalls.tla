------------------------------ MODULE MCCalls ------------------------------
(***************************************************************************)
(* One alert and two lists of addresses; a service that limits the rate    *)
(* asks for nothing, 0, 0.3, 1.5 or 2 seconds.                             *)
(***************************************************************************)
EXTENDS BlockingCalls

MCHints == {Unreadable, 0, 3, 15, 20}
=============================================================================
