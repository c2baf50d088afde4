--------------------------- MODULE MCDurableTurns ---------------------------
(* Instances of DurableTurns for TLC: the constants come from the cfg files. *)
EXTENDS DurableTurns
=============================================================================
