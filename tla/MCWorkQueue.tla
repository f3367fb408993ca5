---------------------------- MODULE MCWorkQueue ----------------------------
(* Small instances of WorkQueue for TLC. *)
EXTENDS WorkQueue

CONSTANTS k1, k2, w1, w2
=============================================================================
