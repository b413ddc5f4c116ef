-------------------------------- MODULE Sums --------------------------------
(***************************************************************************)
(* Sums of a function over a finite set of indices, written as the size of *)
(* a set of unit blocks: index x contributes the blocks <<x, 1>> up to     *)
(* <<x, f[x]>>.  A sum defined this way obeys the library's theorems on    *)
(* finite cardinalities, so that the accounting invariants of ShardedMap   *)
(* can be proved for every value of its constants.                         *)
(***************************************************************************)
EXTENDS Integers, FiniteSets

Blocks(f, S) == UNION { {x} \X (1 .. f[x]) : x \in S }

\* The sum of the natural numbers f[x], x \in S.
SumOn(f, S) == Cardinality(Blocks(f, S))

Positive(f) == [x \in DOMAIN f |-> IF f[x] > 0 THEN f[x] ELSE 0]
Negative(f) == [x \in DOMAIN f |-> IF f[x] < 0 THEN -f[x] ELSE 0]

\* The sum of the integers f[x], x \in S.
NetOn(f, S) == SumOn(Positive(f), S) - SumOn(Negative(f), S)

\* How many indices of S carry a value other than zero.
Support(f, S) == { x \in S : f[x] # 0 }
=============================================================================
