----------------------------- MODULE MCFortress -----------------------------
(* Fortress with two guests.                                               *)
EXTENDS Fortress

CONSTANTS g1, g2
=============================================================================
