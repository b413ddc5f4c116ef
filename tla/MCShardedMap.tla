---------------------------- MODULE MCShardedMap ----------------------------
(***************************************************************************)
(* Small instances of ShardedMap for TLC.                                  *)
(***************************************************************************)
EXTENDS ShardedMap

CONSTANTS p1, p2

\* Three keys share shard 0, so that a list has an order to keep.
MCKeys == {0, 1, 2, 4}

\* One key changes weight when it is set again.
MCMaxWeight == [k \in MCKeys |-> IF k = 0 THEN 2 ELSE 1]

\* The block sums are the sums one would write by recursion.
Plus[S \in SUBSET (0 .. 2)] ==
  [f \in [0 .. 2 -> -2 .. 2] |->
     IF S = {} THEN 0
     ELSE LET x == CHOOSE x \in S : TRUE IN f[x] + Plus[S \ {x}][f]]

ASSUME BlockSumsAreSums ==
  \A S \in SUBSET (0 .. 2) : \A f \in [0 .. 2 -> -2 .. 2] :
    NetOn(f, S) = Plus[S][f]
=============================================================================
