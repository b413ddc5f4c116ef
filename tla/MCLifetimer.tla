---------------------------- MODULE MCLifetimer ----------------------------
(***************************************************************************)
(* Small instances of Lifetimer for TLC: the entries of one key are to be  *)
(* removed, those of the other to be refreshed.                            *)
(***************************************************************************)
EXTENDS Lifetimer

CONSTANTS k1, k2, c1, w1

KeyModes == [k \in Keys |-> {k = k1}]
=============================================================================
