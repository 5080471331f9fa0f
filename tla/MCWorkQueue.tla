---------------------------- MODULE MCWorkQueue ----------------------------
(* WorkQueue with a few items and workers.                                 *)
EXTENDS WorkQueue

CONSTANTS i1, i2, i3, w1, w2, w3
=============================================================================
