-------------------------------- MODULE MCWAL --------------------------------
(* WAL with a short and a long command. *)
EXTENDS WAL, TLC

CONSTANTS a, b

MCSize == (a :> 1) @@ (b :> 2)
=============================================================================
