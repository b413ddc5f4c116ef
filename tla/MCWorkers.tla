----------------------------- MODULE MCWorkers -----------------------------
(***************************************************************************)
(* A small instance of Workers for TLC.                                    *)
(***************************************************************************)
EXTENDS Workers

CONSTANTS w1, w2, f1
=============================================================================
