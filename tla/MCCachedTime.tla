---------------------------- MODULE MCCachedTime ----------------------------
(***************************************************************************)
(* A small instance of CachedTime for TLC.                                 *)
(***************************************************************************)
EXTENDS CachedTime

CONSTANTS i1, i2
=============================================================================
