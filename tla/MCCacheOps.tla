----------------------------- MODULE MCCacheOps -----------------------------
(***************************************************************************)
(* Small instances of CacheOps for TLC.                                    *)
(***************************************************************************)
EXTENDS CacheOps

CONSTANTS p1, p2, k1, k2

\* Payloads vary in size, or do not.
MCSizes == [k \in Keys |-> {0, 1}]
MCFixed == [k \in Keys |-> {0}]
MCMixed == [k \in Keys |-> IF k = k1 THEN {0, 1} ELSE {0}]

\* Each key has a hash of its own, or all have the same.
MCDistinct == [k \in Keys |-> IF k = k1 THEN 1 ELSE 2]
MCCollide  == [k \in Keys |-> 1]
=============================================================================
