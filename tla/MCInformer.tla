----------------------------- MODULE MCInformer -----------------------------
(* Informer with two objects.                                              *)
EXTENDS Informer

CONSTANTS a, b

(* The objects are alike: the one that is written first may be called a.   *)
(* (A symmetry set would not do, because a liveness property is checked.)  *)
MCFirst == Now > 1 => world[2][a] # Absent
=============================================================================
