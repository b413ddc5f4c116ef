----------------------------- MODULE MCTinyLFU -----------------------------
(***************************************************************************)
(* Small instances of TinyLFU for TLC: two words of two counters; the keys *)
(* share a counter and a bit.                                              *)
(***************************************************************************)
EXTENDS TinyLFU, Admitter, TLC

CONSTANTS k1, k2, g1, g2

MCIndex == (k1 :> <<0, 1>>) @@ (k2 :> <<1, 2>>)
MCDoorIndex == (k1 :> <<0, 1>>) @@ (k2 :> <<1, 2>>)
MCDoorBits == 0..2

\* Below, at and above powers of two, and above what an uint32 of 4 bits holds.
MCConfigs ==
  [capacity : {-1, 0, 1, 2, 3, 5, 8, 9, 16, 17, 31, 33, 64}, shards : 1..6,
   minLen : {-1, 0, 1, 3, 4, 8, 12, 16, 20}, doorBits : {-1, 0, 1, 2, 3}]

ASSUME SizesAreRight ==
  /\ LeastPow2 /\ TablesFit /\ PanicsForMinLen
  /\ HashesStayInTables /\ EveryCounterReached /\ ShardsReached
=============================================================================
