-------------------------- MODULE ShardedMapProofs --------------------------
(***************************************************************************)
(* The accounting of ShardedMap is exact, and its lists keep their order,  *)
(* for any number of shards, keys, goroutines and any weights.             *)
(***************************************************************************)
EXTENDS ShardedMap, NumberTheorems, SequenceTheorems

(***************************************************************************)
(* LRU lists without duplicates.                                           *)
(***************************************************************************)

\* In a list without duplicates RemoveFirst takes out the one occurrence.
LEMMA RemoveFirstDef ==
  ASSUME NEW S, NEW l \in Seq(S), IsInjective(l), NEW i \in 1 .. Len(l)
  PROVE  RemoveFirst(l, l[i]) = SubSeq(l, 1, i - 1) \o SubSeq(l, i + 1, Len(l))
<1> DEFINE I == { j \in 1 .. Len(l) : l[j] = l[i] }
<1>1. I = {i}
  BY DEF IsInjective
<1>2. Min(I) = i
  BY <1>1 DEF Min
<1>3. I # {}
  BY <1>1
<1>4. SelectInSeq(l, LAMBDA v : v = l[i]) = i
  BY <1>2, <1>3 DEF SelectInSeq
<1> QED BY <1>4 DEF RemoveFirst, RemoveAt

LEMMA RemoveFirstAbsent ==
  ASSUME NEW l, NEW k, ~InList(l, k)
  PROVE  RemoveFirst(l, k) = l
BY DEF InList, RemoveFirst

\* RemoveFirst, element by element.
LEMMA RemoveFirstElements ==
  ASSUME NEW S, NEW l \in Seq(S), IsInjective(l), NEW i \in 1 .. Len(l)
  PROVE  LET r == RemoveFirst(l, l[i]) IN
           /\ r \in Seq(S)
           /\ Len(r) = Len(l) - 1
           /\ \A j \in 1 .. Len(l) - 1 : r[j] = IF j < i THEN l[j] ELSE l[j + 1]
<1> DEFINE a == SubSeq(l, 1, i - 1)
           b == SubSeq(l, i + 1, Len(l))
<1>1. Len(l) \in Nat
  BY LenProperties
<1>2. a \in Seq(S) /\ Len(a) = i - 1 /\ \A j \in 1 .. i - 1 : a[j] = l[j]
  BY <1>1, SubSeqProperties
<1>3. /\ b \in Seq(S) /\ Len(b) = Len(l) - i
      /\ \A j \in 1 .. Len(l) - i : b[j] = l[i + j]
  <2>1. i + 1 \in 1 .. Len(l) + 1 /\ Len(l) \in i .. Len(l)
    BY <1>1
  <2> QED BY <1>1, <2>1, SubSeqProperties
<1> HIDE DEF a, b
<1>4. /\ a \o b \in Seq(S) /\ Len(a \o b) = Len(l) - 1
      /\ \A j \in 1 .. Len(l) - 1 :
           (a \o b)[j] = IF j < i THEN l[j] ELSE l[j + 1]
  <2>1. /\ a \o b \in Seq(S) /\ Len(a \o b) = Len(a) + Len(b)
        /\ \A j \in 1 .. Len(a) + Len(b) :
             (a \o b)[j] = IF j <= Len(a) THEN a[j] ELSE b[j - Len(a)]
    BY <1>2, <1>3, ConcatProperties
  <2>2. Len(a) + Len(b) = Len(l) - 1
    BY <1>1, <1>2, <1>3
  <2>3. ASSUME NEW j \in 1 .. Len(l) - 1, j < i
        PROVE  (a \o b)[j] = l[j]
    <3>1. j \in 1 .. Len(a) + Len(b) /\ j <= Len(a) /\ j \in 1 .. i - 1
      BY <1>1, <1>2, <2>2, <2>3
    <3> QED BY <1>2, <2>1, <3>1
  <2>4. ASSUME NEW j \in 1 .. Len(l) - 1, ~(j < i)
        PROVE  (a \o b)[j] = l[j + 1]
    <3>1. /\ j \in 1 .. Len(a) + Len(b) /\ ~(j <= Len(a))
          /\ j - (i - 1) \in 1 .. Len(l) - i
          /\ i + (j - (i - 1)) = j + 1
      BY <1>1, <1>2, <2>2, <2>4
    <3> QED BY <1>2, <1>3, <2>1, <3>1
  <2> QED BY <2>1, <2>2, <2>3, <2>4
<1>5. RemoveFirst(l, l[i]) = a \o b
  BY RemoveFirstDef DEF a, b
<1> QED BY <1>4, <1>5

LEMMA RemoveFirstInjective ==
  ASSUME NEW S, NEW l \in Seq(S), IsInjective(l), NEW k
  PROVE  /\ RemoveFirst(l, k) \in Seq(S)
         /\ IsInjective(RemoveFirst(l, k))
         /\ Range(RemoveFirst(l, k)) = Range(l) \ {k}
<1>1. CASE ~InList(l, k)
  <2>1. k \notin Range(l)
    BY <1>1 DEF InList, Range
  <2> QED BY <1>1, <2>1, RemoveFirstAbsent
<1>2. CASE InList(l, k)
  <2>1. PICK i \in 1 .. Len(l) : l[i] = k
    BY <1>2 DEF InList
  <2> DEFINE r == RemoveFirst(l, k)
  <2>2. /\ r \in Seq(S)
        /\ Len(r) = Len(l) - 1
        /\ \A j \in 1 .. Len(l) - 1 : r[j] = IF j < i THEN l[j] ELSE l[j + 1]
    BY <2>1, RemoveFirstElements
  <2>3. Len(l) \in Nat /\ DOMAIN l = 1 .. Len(l) /\ DOMAIN r = 1 .. Len(l) - 1
    BY <2>2
  <2> HIDE DEF r
  <2>4. IsInjective(r)
    BY SMTT(30), <2>2, <2>3 DEF IsInjective
  <2>5. ASSUME NEW j \in 1 .. Len(l) - 1 PROVE r[j] \in Range(l) \ {k}
    <3> DEFINE n == IF j < i THEN j ELSE j + 1
    <3>1. n \in 1 .. Len(l) /\ n # i
      BY <2>1, <2>3
    <3>2. r[j] = l[n]
      BY <2>2
    <3>3. l[n] # l[i]
      BY <2>1, <2>3, <3>1 DEF IsInjective
    <3>4. l[n] \in Range(l)
      BY <2>3, <3>1 DEF Range
    <3> QED BY <2>1, <3>2, <3>3, <3>4
  <2>6. ASSUME NEW j \in 1 .. Len(l), l[j] # k
        PROVE  \E m \in 1 .. Len(l) - 1 : r[m] = l[j]
    <3>1. CASE j < i
      BY <2>1, <2>2, <2>3, <3>1
    <3>2. CASE j > i
      <4>1. j - 1 \in 1 .. Len(l) - 1 /\ ~(j - 1 < i) /\ (j - 1) + 1 = j
        BY <3>2, <2>3
      <4>2. r[j - 1] = l[j]
        BY <4>1, <2>2
      <4> QED BY <4>1, <4>2
    <3> QED BY <2>1, <2>6, <3>1, <3>2
  <2>7. Range(r) \subseteq Range(l) \ {k}
    BY <2>3, <2>5 DEF Range
  <2>8. ASSUME NEW v \in Range(l) \ {k} PROVE v \in Range(r)
    <3>1. PICK j \in 1 .. Len(l) : l[j] = v
      BY <2>3 DEF Range
    <3>2. PICK m \in 1 .. Len(l) - 1 : r[m] = l[j]
      BY <2>6, <3>1
    <3> QED BY <2>3, <3>1, <3>2 DEF Range
  <2>9. Range(r) = Range(l) \ {k}
    BY <2>7, <2>8
  <2> QED BY <2>2, <2>4, <2>9 DEF r
<1> QED BY <1>1, <1>2

LEMMA ToFrontInjective ==
  ASSUME NEW S, NEW l \in Seq(S), IsInjective(l), NEW k \in S
  PROVE  /\ ToFront(l, k) \in Seq(S)
         /\ IsInjective(ToFront(l, k))
         /\ Range(ToFront(l, k)) = Range(l) \cup {k}
<1> DEFINE r == RemoveFirst(l, k)
<1>1. r \in Seq(S) /\ IsInjective(r) /\ Range(r) = Range(l) \ {k}
  BY RemoveFirstInjective
<1> HIDE DEF r
<1> DEFINE t == <<k>> \o r
<1>2. /\ t \in Seq(S) /\ Len(t) = Len(r) + 1 /\ Len(r) \in Nat
      /\ t[1] = k /\ \A j \in 1 .. Len(r) : t[j + 1] = r[j]
  BY <1>1
<1>3. DOMAIN t = 1 .. Len(r) + 1 /\ DOMAIN r = 1 .. Len(r)
  BY <1>1, <1>2
<1> HIDE DEF t
<1>4. \A j \in 2 .. Len(r) + 1 : j - 1 \in 1 .. Len(r) /\ t[j] = r[j - 1]
  BY <1>2
<1>5. k \notin Range(r)
  BY <1>1
<1>6. IsInjective(t)
  <2> SUFFICES ASSUME NEW x \in 1 .. Len(r) + 1, NEW y \in 1 .. Len(r) + 1,
                      t[x] = t[y]
               PROVE  x = y
    BY <1>3 DEF IsInjective
  <2>1. \A j \in 1 .. Len(r) : r[j] # k
    BY <1>3, <1>5 DEF Range
  <2>2. CASE x = 1
    BY <1>2, <1>4, <2>1, <2>2
  <2>3. CASE y = 1
    BY <1>2, <1>4, <2>1, <2>3
  <2>4. CASE x # 1 /\ y # 1
    <3>1. r[x - 1] = r[y - 1] /\ x - 1 \in 1 .. Len(r) /\ y - 1 \in 1 .. Len(r)
      BY <1>2, <1>4, <2>4
    <3>2. x - 1 = y - 1
      BY <1>1, <1>3, <3>1 DEF IsInjective
    <3> QED BY <3>2
  <2> QED BY <2>2, <2>3, <2>4
<1>7. Range(t) = Range(r) \cup {k}
  <2>1. ASSUME NEW j \in 1 .. Len(r) + 1 PROVE t[j] \in Range(r) \cup {k}
    <3>1. CASE j = 1
      BY <1>2, <3>1
    <3>2. CASE j # 1
      <4>1. j - 1 \in DOMAIN r /\ t[j] = r[j - 1]
        BY <1>2, <1>3, <1>4, <3>2
      <4> QED BY <4>1 DEF Range
    <3> QED BY <3>1, <3>2
  <2>2. k \in Range(t)
    BY <1>2, <1>3 DEF Range
  <2>3. ASSUME NEW j \in 1 .. Len(r) PROVE r[j] \in Range(t)
    <3>1. j + 1 \in DOMAIN t /\ t[j + 1] = r[j]
      BY <1>2, <1>3
    <3> QED BY <3>1 DEF Range
  <2>4. Range(t) \subseteq Range(r) \cup {k}
    BY <1>3, <2>1 DEF Range
  <2>5. Range(r) \subseteq Range(t)
    BY <1>3, <2>3 DEF Range
  <2> QED BY <2>2, <2>4, <2>5
<1>8. ToFront(l, k) = t
  BY DEF ToFront, t, r
<1> QED BY <1>1, <1>2, <1>6, <1>7, <1>8
-----------------------------------------------------------------------------
(***************************************************************************)
(* What a change of items does to the counts and weights of the shards.    *)
(***************************************************************************)

LEMMA ShardsPartitionKeys ==
  /\ \A k \in Keys : Shard(k) \in Shards /\ k \in KeysOf(Shard(k))
  /\ \A s : KeysOf(s) \subseteq Keys /\ IsFiniteSet(KeysOf(s))
  /\ \A s : \A k \in KeysOf(s) : Shard(k) = s
<1>1. \A k \in Keys : Shard(k) \in Shards
  BY KeysAssumption, NumShardsAssumption DEF Shard, Shards
<1>2. ASSUME NEW s PROVE KeysOf(s) \subseteq Keys /\ IsFiniteSet(KeysOf(s))
  <2>1. KeysOf(s) \in SUBSET Keys
    BY DEF KeysOf
  <2> QED BY <2>1, KeysAssumption, FS_Subset
<1> QED BY <1>1, <1>2 DEF KeysOf

\* How many entries a change of weight from u to v adds.
Added(u, v) == (IF v # 0 THEN 1 ELSE 0) - (IF u # 0 THEN 1 ELSE 0)

\* One key gets another weight (0: it goes).
LEMMA OneKeyChanges ==
  ASSUME NEW f \in [Keys -> Nat], NEW k \in Keys, NEW v \in Nat,
         NEW g \in [Keys -> Nat], g[k] = v, \A x \in Keys \ {k} : g[x] = f[x],
         NEW n, n = Added(f[k], v),
         NEW s, s = Shard(k)
  PROVE  /\ SumOn(g, Keys) = SumOn(f, Keys) + (v - f[k])
         /\ Cardinality(Support(g, Keys)) = Cardinality(Support(f, Keys)) + n
         /\ SumOn(g, KeysOf(s)) = SumOn(f, KeysOf(s)) + (v - f[k])
         /\ Cardinality(Support(g, KeysOf(s)))
              = Cardinality(Support(f, KeysOf(s))) + n
         /\ Support(g, KeysOf(s)) =
              IF v # 0 THEN Support(f, KeysOf(s)) \cup {k}
                       ELSE Support(f, KeysOf(s)) \ {k}
         /\ \A t : t # s => /\ SumOn(g, KeysOf(t)) = SumOn(f, KeysOf(t))
                            /\ Support(g, KeysOf(t)) = Support(f, KeysOf(t))
<1>2. ASSUME NEW S, IsFiniteSet(S), S \subseteq Keys, k \in S
      PROVE  /\ SumOn(g, S) = SumOn(f, S) + (v - f[k])
             /\ Cardinality(Support(g, S)) = Cardinality(Support(f, S)) + n
  <2>1. /\ \A x \in S : f[x] \in Nat /\ g[x] \in Nat
        /\ \A x \in S \ {k} : g[x] = f[x]
    BY <1>2
  <2>2. SumOn(g, S) = SumOn(f, S) + (g[k] - f[k])
    BY <1>2, <2>1, SumUpdate
  <2>3. Cardinality(Support(g, S)) = Cardinality(Support(f, S))
           + (IF g[k] # 0 THEN 1 ELSE 0) - (IF f[k] # 0 THEN 1 ELSE 0)
    BY <1>2, <2>1, SupportUpdate
  <2>4. Cardinality(Support(f, S)) \in Nat
    BY <1>2, SupportType
  <2> QED BY <2>2, <2>3, <2>4 DEF Added
<1>3. IsFiniteSet(Keys) /\ IsFiniteSet(KeysOf(s)) /\ KeysOf(s) \subseteq Keys
      /\ k \in KeysOf(s)
  BY KeysAssumption, ShardsPartitionKeys
<1>4. ASSUME NEW t, t # s
      PROVE  /\ SumOn(g, KeysOf(t)) = SumOn(f, KeysOf(t))
             /\ Support(g, KeysOf(t)) = Support(f, KeysOf(t))
  <2>1. \A x \in KeysOf(t) : g[x] = f[x]
    BY <1>4, ShardsPartitionKeys
  <2> QED BY <2>1, SumCong DEF Support
<1>5. Support(g, KeysOf(s)) = IF v # 0 THEN Support(f, KeysOf(s)) \cup {k}
                                       ELSE Support(f, KeysOf(s)) \ {k}
  BY <1>3 DEF Support
<1>6. /\ SumOn(g, Keys) = SumOn(f, Keys) + (v - f[k])
      /\ Cardinality(Support(g, Keys)) = Cardinality(Support(f, Keys)) + n
  BY <1>2, <1>3
<1>7. /\ SumOn(g, KeysOf(s)) = SumOn(f, KeysOf(s)) + (v - f[k])
      /\ Cardinality(Support(g, KeysOf(s)))
           = Cardinality(Support(f, KeysOf(s))) + n
  BY <1>2, <1>3
<1> QED BY <1>4, <1>5, <1>6, <1>7

\* A whole shard goes.
LEMMA OneShardGoes ==
  ASSUME NEW f \in [Keys -> Nat], NEW s,
         NEW g, g = [k \in Keys |-> IF Shard(k) = s THEN 0 ELSE f[k]]
  PROVE  /\ g \in [Keys -> Nat]
         /\ SumOn(g, Keys) = SumOn(f, Keys) - SumOn(f, KeysOf(s))
         /\ Cardinality(Support(g, Keys)) =
              Cardinality(Support(f, Keys)) - Cardinality(Support(f, KeysOf(s)))
         /\ SumOn(g, KeysOf(s)) = 0 /\ Support(g, KeysOf(s)) = {}
         /\ \A t : t # s => /\ SumOn(g, KeysOf(t)) = SumOn(f, KeysOf(t))
                            /\ Support(g, KeysOf(t)) = Support(f, KeysOf(t))
<1> DEFINE K == KeysOf(s)
           R == Keys \ K
<1>1. /\ IsFiniteSet(K) /\ IsFiniteSet(R) /\ K \cap R = {} /\ K \cup R = Keys
  BY KeysAssumption, ShardsPartitionKeys, FS_Difference
<1>2. /\ g \in [Keys -> Nat]
      /\ \A x \in K : g[x] = 0
      /\ \A x \in R : g[x] = f[x]
      /\ \A t : t # s => \A x \in KeysOf(t) : g[x] = f[x]
  BY ShardsPartitionKeys DEF KeysOf
<1> HIDE DEF K, R
<1>3. SumOn(g, K) = 0 /\ SumOn(g, R) = SumOn(f, R)
  BY <1>2, SumZero, SumCong
<1>4. Support(g, K) = {} /\ Support(g, R) = Support(f, R)
  BY <1>2 DEF Support
<1>5. /\ \A x \in Keys : f[x] \in Nat
      /\ \A x \in Keys : g[x] \in Nat
  BY <1>1, <1>2
<1>6. /\ SumOn(f, Keys) = SumOn(f, K) + SumOn(f, R)
      /\ SumOn(g, Keys) = SumOn(g, K) + SumOn(g, R)
      /\ SumOn(f, K) \in Nat /\ SumOn(f, R) \in Nat
  <2>1. IsFiniteSet(K) /\ IsFiniteSet(R) /\ K \cap R = {} /\ Keys = K \cup R
    BY <1>1
  <2>2. SumOn(f, K) \in Nat /\ SumOn(f, R) \in Nat
    BY <1>1, <1>5, SumType
  <2>3. SumOn(f, Keys) = SumOn(f, K) + SumOn(f, R)
    BY <2>1, <1>5, SumSplit
  <2>4. SumOn(g, Keys) = SumOn(g, K) + SumOn(g, R)
    BY <2>1, <1>5, SumSplit
  <2> QED BY <2>2, <2>3, <2>4
<1>7. /\ Cardinality(Support(f, Keys)) =
           Cardinality(Support(f, K)) + Cardinality(Support(f, R))
      /\ Cardinality(Support(g, Keys)) =
           Cardinality(Support(g, K)) + Cardinality(Support(g, R))
      /\ Cardinality(Support(f, K)) \in Nat /\ Cardinality(Support(f, R)) \in Nat
  BY <1>1, SupportSplit, SupportType
<1>8. Cardinality({}) = 0
  BY FS_EmptySet
<1>9. SumOn(g, Keys) = SumOn(f, Keys) - SumOn(f, K)
  BY <1>1, <1>3, <1>6
<1>10. Cardinality(Support(g, Keys)) =
         Cardinality(Support(f, Keys)) - Cardinality(Support(f, K))
  BY <1>1, <1>4, <1>7, <1>8
<1>11. ASSUME NEW t, t # s
       PROVE  /\ SumOn(g, KeysOf(t)) = SumOn(f, KeysOf(t))
              /\ Support(g, KeysOf(t)) = Support(f, KeysOf(t))
  <2>1. \A x \in KeysOf(t) : g[x] = f[x]
    BY <1>2, <1>11
  <2> QED BY <2>1, SumCong DEF Support
<1> QED BY <1>2, <1>3, <1>4, <1>9, <1>10, <1>11 DEF K
-----------------------------------------------------------------------------
(***************************************************************************)
(* The inductive invariant.                                                *)
(***************************************************************************)

\* A call enters its eviction steps owing nothing, with an iteration left, and
\* pops from a shard that exists.
LocalsOK ==
  \A p \in Procs :
    /\ pc[p] \in {"idle", "evictLen", "evictPop"} => Settled(p)
    /\ pc[p] \in {"evictLen", "evictPop"} => backoff[p] > 0
    /\ pc[p] = "evictPop" => cursor[p] \in Shards

ShardsOK == ShardCountersExact /\ LRUMatchesItems

IInv == TypeOK /\ LocalsOK /\ ShardsOK /\ CountersConserved

ShardTypes ==
  /\ items \in [Keys -> Nat]
  /\ lru \in [Shards -> Seq(Keys)]
  /\ shardLen \in [Shards -> Int]
  /\ shardMem \in [Shards -> Int]

TotalMem == SumOn(items, Keys)
TotalLen == Cardinality(Support(items, Keys))

LEMMA TotalsType ==
  ASSUME items \in [Keys -> Nat]
  PROVE  TotalMem \in Nat /\ TotalLen \in Nat
BY KeysAssumption, SumType, SupportType DEF TotalMem, TotalLen

LEMMA ShardTotalsType ==
  ASSUME items \in [Keys -> Nat]
  PROVE  \A s \in Shards : /\ SumOn(items, KeysOf(s)) \in Nat
                           /\ Cardinality(Support(items, KeysOf(s))) \in Nat
<1> TAKE s \in Shards
<1>1. IsFiniteSet(KeysOf(s)) /\ KeysOf(s) \subseteq Keys
  BY ShardsPartitionKeys
<1>2. \A x \in KeysOf(s) : items[x] \in Nat
  BY <1>1
<1> QED BY <1>1, <1>2, SumType, SupportType

\* A section that gives key k of shard s the weight v, the shard's list becoming l.
KeySection(s, k, v, l) ==
  /\ items' = [items EXCEPT ![k] = v]
  /\ lru' = [lru EXCEPT ![s] = l]
  /\ shardLen' = [shardLen EXCEPT ![s] = @ + Added(items[k], v)]
  /\ shardMem' = [shardMem EXCEPT ![s] = @ + (v - items[k])]

\* Such a section keeps the shards consistent when the list follows.
LEMMA OneKeySection ==
  ASSUME ShardTypes, ShardsOK, NEW k \in Keys, NEW v \in Nat, NEW l \in Seq(Keys),
         NEW b, b = Shard(k), KeySection(b, k, v, l),
         IF Listing
           THEN /\ IsInjective(l)
                /\ Range(l) = IF v # 0 THEN Range(lru[b]) \cup {k}
                                       ELSE Range(lru[b]) \ {k}
           ELSE l = <<>>
  PROVE  /\ ShardTypes' /\ ShardsOK'
         /\ TotalMem' = TotalMem + (v - items[k])
         /\ TotalLen' = TotalLen + Added(items[k], v)
<1> DEFINE n == Added(items[k], v)
<1>1. b \in Shards
  BY ShardsPartitionKeys
<1>2. items \in [Keys -> Nat]
  BY DEF ShardTypes
<1>a. /\ items' \in [Keys -> Nat] /\ items'[k] = v
      /\ \A x \in Keys \ {k} : items'[x] = items[x]
  BY <1>2 DEF KeySection
<1>b. n = Added(items[k], v)
  OBVIOUS
<1> HIDE DEF n
<1>3. /\ SumOn(items', Keys) = SumOn(items, Keys) + (v - items[k])
      /\ Cardinality(Support(items', Keys)) =
           Cardinality(Support(items, Keys)) + n
      /\ SumOn(items', KeysOf(b)) = SumOn(items, KeysOf(b)) + (v - items[k])
      /\ Cardinality(Support(items', KeysOf(b))) =
           Cardinality(Support(items, KeysOf(b))) + n
      /\ Support(items', KeysOf(b)) =
           IF v # 0 THEN Support(items, KeysOf(b)) \cup {k}
                    ELSE Support(items, KeysOf(b)) \ {k}
      /\ \A s : s # b => /\ SumOn(items', KeysOf(s)) = SumOn(items, KeysOf(s))
                         /\ Support(items', KeysOf(s)) = Support(items, KeysOf(s))
  BY SMTT(30), <1>2, <1>a, <1>b, OneKeyChanges
<1>4. n \in Int /\ v - items[k] \in Int
  BY <1>2, <1>b DEF Added
<1>5. /\ lru' = [lru EXCEPT ![b] = l]
      /\ shardLen' = [shardLen EXCEPT ![b] = @ + n]
      /\ shardMem' = [shardMem EXCEPT ![b] = @ + (v - items[k])]
  BY DEF KeySection, n
<1>6. ShardTypes'
  <2>1. \A x \in Int : \A y \in Int : x + y \in Int
    OBVIOUS
  <2>2. shardLen[b] + n \in Int /\ shardMem[b] + (v - items[k]) \in Int
    BY <1>1, <1>4, <2>1 DEF ShardTypes
  <2>3. /\ lru' \in [Shards -> Seq(Keys)]
        /\ shardLen' \in [Shards -> Int]
        /\ shardMem' \in [Shards -> Int]
    BY <1>1, <1>5, <2>2 DEF ShardTypes
  <2> QED BY <1>a, <2>3 DEF ShardTypes
<1>7. ShardCountersExact'
  <2> SUFFICES ASSUME NEW s \in Shards
               PROVE  /\ shardLen'[s] = Cardinality(Support(items', KeysOf(s)))
                      /\ shardMem'[s] = SumOn(items', KeysOf(s))
    BY DEF ShardCountersExact, PresentIn
  <2>1. /\ shardLen[s] = Cardinality(Support(items, KeysOf(s)))
        /\ shardMem[s] = SumOn(items, KeysOf(s))
    BY DEF ShardsOK, ShardCountersExact, PresentIn
  <2>2. CASE s = b
    BY <1>3, <1>5, <2>1, <2>2 DEF ShardTypes
  <2>3. CASE s # b
    BY <1>3, <1>5, <2>1, <2>3 DEF ShardTypes
  <2> QED BY <2>2, <2>3
<1>8. LRUMatchesItems'
  <2> SUFFICES ASSUME NEW s \in Shards
               PROVE  IF Listing
                        THEN /\ IsInjective(lru'[s])
                             /\ Range(lru'[s]) = Support(items', KeysOf(s))
                        ELSE lru'[s] = <<>>
    BY DEF LRUMatchesItems, PresentIn
  <2>1. IF Listing THEN /\ IsInjective(lru[s])
                        /\ Range(lru[s]) = Support(items, KeysOf(s))
                   ELSE lru[s] = <<>>
    BY DEF ShardsOK, LRUMatchesItems, PresentIn
  <2>2. CASE s = b
    <3>1. lru'[s] = l
      BY <1>1, <1>5, <2>2 DEF ShardTypes
    <3>2. CASE Listing
      <4>1. Range(l) = IF v # 0 THEN Range(lru[b]) \cup {k} ELSE Range(lru[b]) \ {k}
        BY <3>2
      <4> QED BY <1>3, <2>1, <2>2, <3>1, <3>2, <4>1
    <3>3. CASE ~Listing
      BY <3>1, <3>3
    <3> QED BY <3>2, <3>3
  <2>3. CASE s # b
    <3>1. lru'[s] = lru[s]
      BY <1>5, <2>3 DEF ShardTypes
    <3> QED BY <1>3, <2>1, <2>3, <3>1
  <2> QED BY <2>2, <2>3
<1> QED BY <1>3, <1>6, <1>7, <1>8 DEF ShardsOK, TotalMem, TotalLen, n

LEMMA SetSection ==
  ASSUME ShardTypes, ShardsOK, NEW k \in Keys, NEW w \in Nat \ {0}, ShardSet(k, w)
  PROVE  /\ ShardTypes' /\ ShardsOK'
         /\ TotalMem' = TotalMem + (w - items[k])
         /\ TotalLen' = TotalLen + (IF Present(k) THEN 0 ELSE 1)
<1> DEFINE s == Shard(k)
           l == IF Present(k) THEN LruOnAccess(lru[s], k) ELSE LruOnInsert(lru[s], k)
<1>1. s \in Shards /\ k \in KeysOf(s) /\ lru[s] \in Seq(Keys)
  BY ShardsPartitionKeys DEF ShardTypes
<1>2. IF Listing THEN IsInjective(lru[s]) /\ Range(lru[s]) = Support(items, KeysOf(s))
                 ELSE lru[s] = <<>>
  BY <1>1 DEF ShardsOK, LRUMatchesItems, PresentIn
<1>3. /\ l \in Seq(Keys)
      /\ IF Listing THEN IsInjective(l) /\ Range(l) = Range(lru[s]) \cup {k}
                    ELSE l = <<>>
  <2>1. CASE ~Listing
    BY <1>1, <1>2, <2>1 DEF LruOnAccess, LruOnInsert
  <2>2. CASE Listing
    <3>1. /\ ToFront(lru[s], k) \in Seq(Keys)
          /\ IsInjective(ToFront(lru[s], k))
          /\ Range(ToFront(lru[s], k)) = Range(lru[s]) \cup {k}
      BY <1>1, <1>2, <2>2, ToFrontInjective
    <3>2. Present(k) => k \in Range(lru[s])
      BY <1>1, <1>2, <2>2 DEF Present, Support
    <3>3. Present(k) => InList(lru[s], k)
      BY <1>1, <3>2 DEF InList, Range
    <3>4. l = ToFront(lru[s], k)
      BY <2>2, <3>3 DEF LruOnAccess, LruOnInsert
    <3> QED BY <2>2, <3>1, <3>4
  <2> QED BY <2>1, <2>2
<1>4. (IF Present(k) THEN 0 ELSE 1) = Added(items[k], w)
  BY DEF Present, Added
<1>5. KeySection(s, k, w, l)
  BY <1>1, <1>4 DEF ShardSet, KeySection, ShardTypes
<1> HIDE DEF l, s
<1>6. s = Shard(k)
  BY DEF s
<1>7. Listing => Range(l) = IF w # 0 THEN Range(lru[s]) \cup {k}
                                     ELSE Range(lru[s]) \ {k}
  BY <1>3
<1> QED BY <1>3, <1>4, <1>5, <1>6, <1>7, OneKeySection

LEMMA RemoveSection ==
  ASSUME ShardTypes, ShardsOK, NEW k \in Keys, Present(k), ShardRemove(k)
  PROVE  /\ ShardTypes' /\ ShardsOK'
         /\ TotalMem' = TotalMem - items[k]
         /\ TotalLen' = TotalLen - 1
<1> DEFINE s == Shard(k)
           l == LruOnDelete(lru[s], k)
<1>1. s \in Shards /\ lru[s] \in Seq(Keys) /\ items[k] \in Nat \ {0}
  BY ShardsPartitionKeys DEF ShardTypes, Present
<1>2. IF Listing THEN IsInjective(lru[s]) /\ Range(lru[s]) = Support(items, KeysOf(s))
                 ELSE lru[s] = <<>>
  BY <1>1 DEF ShardsOK, LRUMatchesItems, PresentIn
<1>3. /\ l \in Seq(Keys)
      /\ IF Listing THEN IsInjective(l) /\ Range(l) = Range(lru[s]) \ {k}
                    ELSE l = <<>>
  <2>1. CASE ~Listing
    BY <1>1, <1>2, <2>1 DEF LruOnDelete
  <2>2. CASE Listing
    BY <1>1, <1>2, <2>2, RemoveFirstInjective DEF LruOnDelete
  <2> QED BY <2>1, <2>2
<1>4. Added(items[k], 0) = -1
  BY <1>1 DEF Added
<1>5. KeySection(s, k, 0, l)
  <2>1. shardMem[s] - items[k] = shardMem[s] + (0 - items[k])
    BY <1>1 DEF ShardTypes
  <2>2. shardLen[s] - 1 = shardLen[s] + Added(items[k], 0)
    BY <1>1, <1>4 DEF ShardTypes
  <2> HIDE DEF s
  <2> QED BY <1>1, <2>1, <2>2 DEF ShardRemove, KeySection, ShardTypes, s
<1> HIDE DEF l, s
<1>6. s = Shard(k) /\ 0 \in Nat
  BY DEF s
<1>7. /\ ShardTypes' /\ ShardsOK'
      /\ TotalMem' = TotalMem + (0 - items[k])
      /\ TotalLen' = TotalLen + Added(items[k], 0)
  BY <1>3, <1>5, <1>6, OneKeySection
<1>8. TotalMem \in Nat /\ TotalLen \in Nat
  BY TotalsType DEF ShardTypes
<1> QED BY <1>1, <1>4, <1>7, <1>8

LEMMA ClearSection ==
  ASSUME ShardTypes, ShardsOK, NEW s \in Shards, ShardClear(s)
  PROVE  /\ ShardTypes' /\ ShardsOK'
         /\ TotalMem' = TotalMem - shardMem[s]
         /\ TotalLen' = TotalLen - shardLen[s]
<1>1. /\ shardLen[s] = Cardinality(Support(items, KeysOf(s)))
      /\ shardMem[s] = SumOn(items, KeysOf(s))
  BY DEF ShardsOK, ShardCountersExact, PresentIn
<1>2. /\ items' \in [Keys -> Nat]
      /\ SumOn(items', Keys) = SumOn(items, Keys) - SumOn(items, KeysOf(s))
      /\ Cardinality(Support(items', Keys)) =
           Cardinality(Support(items, Keys)) - Cardinality(Support(items, KeysOf(s)))
      /\ SumOn(items', KeysOf(s)) = 0 /\ Support(items', KeysOf(s)) = {}
      /\ \A t : t # s => /\ SumOn(items', KeysOf(t)) = SumOn(items, KeysOf(t))
                         /\ Support(items', KeysOf(t)) = Support(items, KeysOf(t))
  <2>1. items \in [Keys -> Nat]
    BY DEF ShardTypes
  <2>2. items' = [k \in Keys |-> IF Shard(k) = s THEN 0 ELSE items[k]]
    BY DEF ShardClear
  <2> QED BY SMTT(30), <2>1, <2>2, OneShardGoes
<1>3. /\ lru' = [lru EXCEPT ![s] = <<>>]
      /\ shardLen' = [shardLen EXCEPT ![s] = 0]
      /\ shardMem' = [shardMem EXCEPT ![s] = 0]
  BY DEF ShardClear
<1>4. ShardTypes'
  BY <1>2, <1>3 DEF ShardTypes
<1>5. IsInjective(<<>>) /\ Range(<<>>) = {}
  BY DEF IsInjective, Range
<1>6. Cardinality({}) = 0
  BY FS_EmptySet
<1>7. ShardCountersExact'
  <2> SUFFICES ASSUME NEW t \in Shards
               PROVE  /\ shardLen'[t] = Cardinality(Support(items', KeysOf(t)))
                      /\ shardMem'[t] = SumOn(items', KeysOf(t))
    BY DEF ShardCountersExact, PresentIn
  <2>1. /\ shardLen[t] = Cardinality(Support(items, KeysOf(t)))
        /\ shardMem[t] = SumOn(items, KeysOf(t))
    BY DEF ShardsOK, ShardCountersExact, PresentIn
  <2>2. CASE t = s
    BY <1>2, <1>3, <1>6, <2>2 DEF ShardTypes
  <2>3. CASE t # s
    BY <1>2, <1>3, <2>1, <2>3 DEF ShardTypes
  <2> QED BY <2>2, <2>3
<1>8. LRUMatchesItems'
  <2> SUFFICES ASSUME NEW t \in Shards
               PROVE  IF Listing
                        THEN /\ IsInjective(lru'[t])
                             /\ Range(lru'[t]) = Support(items', KeysOf(t))
                        ELSE lru'[t] = <<>>
    BY DEF LRUMatchesItems, PresentIn
  <2>1. IF Listing THEN /\ IsInjective(lru[t])
                        /\ Range(lru[t]) = Support(items, KeysOf(t))
                   ELSE lru[t] = <<>>
    BY DEF ShardsOK, LRUMatchesItems, PresentIn
  <2>2. CASE t = s
    BY <1>2, <1>3, <1>5, <2>2 DEF ShardTypes
  <2>3. CASE t # s
    BY <1>2, <1>3, <2>1, <2>3 DEF ShardTypes
  <2> QED BY <2>2, <2>3
<1> QED BY <1>1, <1>2, <1>4, <1>7, <1>8 DEF ShardsOK, TotalMem, TotalLen
-----------------------------------------------------------------------------
(***************************************************************************)
(* Every step keeps the invariant.                                         *)
(***************************************************************************)

LocalTypes ==
  /\ len \in Int /\ mem \in Int
  /\ iter \in Shards /\ done \in BOOLEAN
  /\ pc \in [Procs -> PCs]
  /\ dLen \in [Procs -> Int] /\ dMem \in [Procs -> Int]
  /\ cursor \in [Procs -> 0 .. NumShards]
  /\ backoff \in [Procs -> 0 .. Backoff]
  /\ freed \in [Procs -> Nat]

LEMMA TypeOKSplit == TypeOK <=> ShardTypes /\ LocalTypes
BY DEF TypeOK, ShardTypes, LocalTypes

LEMMA ShardFrame ==
  ASSUME ShardTypes, ShardsOK, UNCHANGED shardVars
  PROVE  ShardTypes' /\ ShardsOK' /\ TotalMem' = TotalMem /\ TotalLen' = TotalLen
BY DEF ShardTypes, ShardsOK, shardVars, ShardCountersExact, LRUMatchesItems,
       PresentIn, TotalMem, TotalLen

LEMMA OweNet ==
  ASSUME NEW p \in Procs, dMem \in [Procs -> Int], dLen \in [Procs -> Int],
         NEW bytes \in Int, NEW n \in Int, Owe(p, bytes, n)
  PROVE  /\ dMem' \in [Procs -> Int] /\ dLen' \in [Procs -> Int]
         /\ NetOn(dMem', Procs) = NetOn(dMem, Procs) + (bytes - dMem[p])
         /\ NetOn(dLen', Procs) = NetOn(dLen, Procs) + (n - dLen[p])
         /\ \A q \in Procs \ {p} : dMem'[q] = dMem[q] /\ dLen'[q] = dLen[q]
<1>1. /\ dMem' \in [Procs -> Int] /\ dLen' \in [Procs -> Int]
      /\ dMem'[p] = bytes /\ dLen'[p] = n
      /\ \A q \in Procs \ {p} : dMem'[q] = dMem[q] /\ dLen'[q] = dLen[q]
  BY DEF Owe
<1>2. NetOn(dMem', Procs) = NetOn(dMem, Procs) + (bytes - dMem[p])
  BY <1>1, ProcsAssumption, NetUpdate
<1>3. NetOn(dLen', Procs) = NetOn(dLen, Procs) + (n - dLen[p])
  BY <1>1, ProcsAssumption, NetUpdate
<1> QED BY <1>1, <1>2, <1>3

\* A section whose effect on the totals is what its goroutine then owes.
LEMMA SectionConserves ==
  ASSUME IInv, NEW p \in Procs, Settled(p), NEW bytes \in Int, NEW n \in Int,
         Owe(p, bytes, n), UNCHANGED globalVars, ShardTypes', ShardsOK',
         TotalMem' = TotalMem + bytes, TotalLen' = TotalLen + n
  PROVE  /\ CountersConserved'
         /\ dMem' \in [Procs -> Int] /\ dLen' \in [Procs -> Int]
         /\ \A q \in Procs \ {p} : Settled(q) => Settled(q)'
<1>1. /\ dMem \in [Procs -> Int] /\ dLen \in [Procs -> Int]
      /\ mem \in Int /\ len \in Int /\ items \in [Keys -> Nat]
  BY DEF IInv, TypeOK
<1>2. /\ NetOn(dMem, Procs) \in Int /\ NetOn(dLen, Procs) \in Int
      /\ TotalMem \in Nat /\ TotalLen \in Nat
  BY <1>1, ProcsAssumption, NetType, TotalsType
<1>3. /\ dMem' \in [Procs -> Int] /\ dLen' \in [Procs -> Int]
      /\ NetOn(dMem', Procs) = NetOn(dMem, Procs) + (bytes - dMem[p])
      /\ NetOn(dLen', Procs) = NetOn(dLen, Procs) + (n - dLen[p])
      /\ \A q \in Procs \ {p} : dMem'[q] = dMem[q] /\ dLen'[q] = dLen[q]
  BY <1>1, OweNet
<1>4. dMem[p] = 0 /\ dLen[p] = 0
  BY DEF Settled
<1>5. mem + NetOn(dMem, Procs) = TotalMem /\ len + NetOn(dLen, Procs) = TotalLen
  BY DEF IInv, CountersConserved, TotalMem, TotalLen
<1>6. mem' = mem /\ len' = len
  BY DEF globalVars
<1>7. /\ mem' + NetOn(dMem', Procs) = TotalMem'
      /\ len' + NetOn(dLen', Procs) = TotalLen'
  BY <1>1, <1>2, <1>3, <1>4, <1>5, <1>6
<1> QED BY <1>3, <1>7 DEF CountersConserved, TotalMem, TotalLen, Settled

\* Steps that touch neither the shards nor any count.
LEMMA CountersFrame ==
  ASSUME IInv, UNCHANGED <<shardVars, globalVars, dLen, dMem>>
  PROVE  ShardTypes' /\ ShardsOK' /\ CountersConserved'
<1>1. ShardTypes' /\ ShardsOK' /\ TotalMem' = TotalMem /\ TotalLen' = TotalLen
  BY TypeOKSplit, ShardFrame DEF IInv
<1> QED BY <1>1 DEF IInv, CountersConserved, globalVars, TotalMem, TotalLen

LEMMA AggregateMemStep ==
  ASSUME IInv, NEW p \in Procs, AggregateMem(p)
  PROVE  IInv'
<1>1. /\ dMem \in [Procs -> Int] /\ mem \in Int /\ dMem[p] \in Int
  BY DEF IInv, TypeOK
<1>2. ShardTypes' /\ ShardsOK' /\ TotalMem' = TotalMem /\ TotalLen' = TotalLen
  BY TypeOKSplit, ShardFrame DEF IInv, AggregateMem
<1>3. NetOn(dMem', Procs) = NetOn(dMem, Procs) + (0 - dMem[p])
      /\ dMem' \in [Procs -> Int]
  <2>1. dMem' \in [Procs -> Int] /\ dMem'[p] = 0
        /\ \A q \in Procs \ {p} : dMem'[q] = dMem[q]
    BY <1>1 DEF AggregateMem
  <2> QED BY <1>1, <2>1, ProcsAssumption, NetUpdate
<1>4. NetOn(dMem, Procs) \in Int
  BY <1>1, ProcsAssumption, NetType
<1>5. mem' = mem + dMem[p] /\ len' = len /\ dLen' = dLen
  BY DEF AggregateMem
<1>6. CountersConserved'
  BY <1>1, <1>2, <1>3, <1>4, <1>5 DEF IInv, CountersConserved, TotalMem, TotalLen
<1>7. LocalTypes'
  BY SMTT(30), <1>1, <1>3 DEF IInv, TypeOK, LocalTypes, AggregateMem
<1>8. LocalsOK'
  BY <1>1 DEF IInv, LocalsOK, AggregateMem, Settled
<1> QED BY <1>2, <1>6, <1>7, <1>8 DEF IInv, TypeOK, ShardTypes, LocalTypes

LEMMA AggregateLenStep ==
  ASSUME IInv, NEW p \in Procs, AggregateLen(p)
  PROVE  IInv'
<1>1. /\ dLen \in [Procs -> Int] /\ len \in Int /\ dLen[p] \in Int
  BY DEF IInv, TypeOK
<1>2. ShardTypes' /\ ShardsOK' /\ TotalMem' = TotalMem /\ TotalLen' = TotalLen
  BY TypeOKSplit, ShardFrame DEF IInv, AggregateLen
<1>3. NetOn(dLen', Procs) = NetOn(dLen, Procs) + (0 - dLen[p])
      /\ dLen' \in [Procs -> Int]
  <2>1. dLen' \in [Procs -> Int] /\ dLen'[p] = 0
        /\ \A q \in Procs \ {p} : dLen'[q] = dLen[q]
    BY <1>1 DEF AggregateLen
  <2> QED BY <1>1, <2>1, ProcsAssumption, NetUpdate
<1>4. NetOn(dLen, Procs) \in Int
  BY <1>1, ProcsAssumption, NetType
<1>5. len' = len + dLen[p] /\ mem' = mem /\ dMem' = dMem
  BY DEF AggregateLen
<1>6. CountersConserved'
  BY <1>1, <1>2, <1>3, <1>4, <1>5 DEF IInv, CountersConserved, TotalMem, TotalLen
<1>7. LocalTypes'
  BY SMTT(30), <1>1, <1>3 DEF IInv, TypeOK, LocalTypes, AggregateLen
<1>8. LocalsOK'
  BY <1>1 DEF IInv, LocalsOK, AggregateLen, Settled
<1> QED BY <1>2, <1>6, <1>7, <1>8 DEF IInv, TypeOK, ShardTypes, LocalTypes

LEMMA SetStep ==
  ASSUME IInv, NEW p \in Procs, NEW k \in Keys, NEW w \in Weights(k), Set(p, k, w)
  PROVE  IInv'
<1> DEFINE n == IF Present(k) THEN 0 ELSE 1
<1>1. w \in Nat \ {0} /\ items[k] \in Nat /\ ShardTypes /\ ShardsOK /\ Settled(p)
  BY SMTT(30), WeightAssumption, TypeOKSplit
  DEF IInv, Weights, Set, LocalsOK, TypeOK
<1>2. ShardSet(k, w) /\ Owe(p, w - items[k], n) /\ UNCHANGED globalVars
  BY DEF Set
<1>3. w - items[k] \in Int /\ n \in Int
  BY <1>1
<1>4. /\ ShardTypes' /\ ShardsOK'
      /\ TotalMem' = TotalMem + (w - items[k]) /\ TotalLen' = TotalLen + n
  BY <1>1, <1>2, SetSection
<1> HIDE DEF n
<1>5. /\ CountersConserved'
      /\ dMem' \in [Procs -> Int] /\ dLen' \in [Procs -> Int]
      /\ \A q \in Procs \ {p} : Settled(q) => Settled(q)'
  BY <1>1, <1>2, <1>3, <1>4, SectionConserves
<1>6. LocalTypes'
  BY <1>5 DEF IInv, TypeOK, LocalTypes, Set, Goto, globalVars, PCs
<1>7. LocalsOK'
  BY <1>5 DEF IInv, TypeOK, LocalsOK, Set, Goto
<1> QED BY <1>4, <1>5, <1>6, <1>7 DEF IInv, TypeOK, ShardTypes, LocalTypes

LEMMA RemoveStep ==
  ASSUME IInv, NEW p \in Procs, NEW k \in Keys, Remove_(p, k)
  PROVE  IInv'
<1>1. /\ Present(k) /\ items[k] \in Nat /\ ShardTypes /\ ShardsOK /\ Settled(p)
  BY TypeOKSplit DEF IInv, Remove_, LocalsOK, TypeOK
<1>2. ShardRemove(k) /\ Owe(p, -items[k], -1) /\ UNCHANGED globalVars
  BY DEF Remove_
<1>3. -items[k] \in Int /\ -1 \in Int
  BY <1>1
<1>4. /\ ShardTypes' /\ ShardsOK'
      /\ TotalMem' = TotalMem - items[k] /\ TotalLen' = TotalLen - 1
  BY <1>1, <1>2, RemoveSection
<1>5. TotalMem \in Nat /\ TotalLen \in Nat
  BY <1>1, TotalsType DEF ShardTypes
<1>6. TotalMem' = TotalMem + (-items[k]) /\ TotalLen' = TotalLen + (-1)
  BY <1>1, <1>4, <1>5
<1>7. /\ CountersConserved'
      /\ dMem' \in [Procs -> Int] /\ dLen' \in [Procs -> Int]
      /\ \A q \in Procs \ {p} : Settled(q) => Settled(q)'
  BY <1>1, <1>2, <1>3, <1>4, <1>6, SectionConserves
<1>8. LocalTypes'
  BY <1>7 DEF IInv, TypeOK, LocalTypes, Remove_, Goto, globalVars, PCs
<1>9. LocalsOK'
  BY <1>7 DEF IInv, TypeOK, LocalsOK, Remove_, Goto
<1> QED BY <1>4, <1>7, <1>8, <1>9 DEF IInv, TypeOK, ShardTypes, LocalTypes

LEMMA TouchStep ==
  ASSUME IInv, NEW p \in Procs, NEW k \in Keys, Touch(p, k)
  PROVE  IInv'
<1> DEFINE s == Shard(k)
           l == LruOnAccess(lru[s], k)
<1>1. s \in Shards /\ ShardTypes /\ ShardsOK
  BY ShardsPartitionKeys, TypeOKSplit DEF IInv
<1>2. /\ lru' = [lru EXCEPT ![s] = l]
      /\ UNCHANGED <<items, shardLen, shardMem, globalVars, iter, done, localVars>>
  BY <1>1 DEF Touch, ShardTypes
<1>3. l \in Seq(Keys)
      /\ IF Listing THEN IsInjective(l) /\ Range(l) = PresentIn(s) ELSE l = <<>>
  <2>1. /\ lru[s] \in Seq(Keys)
        /\ IF Listing THEN IsInjective(lru[s]) /\ Range(lru[s]) = PresentIn(s)
                      ELSE lru[s] = <<>>
    BY <1>1 DEF ShardTypes, ShardsOK, LRUMatchesItems
  <2>2. CASE Listing /\ InList(lru[s], k)
    <3>1. /\ ToFront(lru[s], k) \in Seq(Keys)
          /\ IsInjective(ToFront(lru[s], k))
          /\ Range(ToFront(lru[s], k)) = Range(lru[s]) \cup {k}
      BY <2>1, <2>2, ToFrontInjective
    <3>2. k \in Range(lru[s])
      BY <2>1, <2>2 DEF InList, Range
    <3> QED BY <2>1, <2>2, <3>1, <3>2 DEF LruOnAccess
  <2>3. CASE ~(Listing /\ InList(lru[s], k))
    BY <2>1, <2>3 DEF LruOnAccess
  <2> QED BY <2>2, <2>3
<1> HIDE DEF l, s
<1>4. ShardTypes'
  BY <1>1, <1>2, <1>3 DEF ShardTypes
<1>5. ShardCountersExact'
  BY <1>1, <1>2 DEF ShardsOK, ShardCountersExact, PresentIn
<1>6. LRUMatchesItems'
  BY <1>1, <1>2, <1>3 DEF ShardTypes, ShardsOK, LRUMatchesItems, PresentIn
<1>7. CountersConserved'
  BY <1>2 DEF IInv, CountersConserved, globalVars, localVars
<1>8. LocalTypes'
  BY <1>2 DEF IInv, TypeOK, LocalTypes, globalVars, localVars
<1>9. LocalsOK'
  BY <1>2 DEF IInv, LocalsOK, Settled, localVars
<1> QED BY <1>4, <1>5, <1>6, <1>7, <1>8, <1>9 DEF IInv, TypeOK, ShardTypes, LocalTypes, ShardsOK

LEMMA ClearShardStep ==
  ASSUME IInv, NEW p \in Procs, ClearShard(p)
  PROVE  IInv'
<1> DEFINE s == cursor[p]
<1>a. cursor[p] \in 0 .. NumShards /\ cursor[p] < NumShards /\ Settled(p)
  BY DEF IInv, ClearShard, TypeOK
<1>b. ShardTypes /\ ShardsOK
  BY TypeOKSplit DEF IInv
<1>1. s \in Shards /\ ShardTypes /\ ShardsOK /\ Settled(p)
  BY <1>a, <1>b, NumShardsAssumption DEF Shards
<1>2. /\ ShardClear(s) /\ Owe(p, -shardMem[s], -shardLen[s])
      /\ UNCHANGED <<globalVars, iter, done, pc, backoff, freed>>
      /\ cursor' = [cursor EXCEPT ![p] = s + 1]
  BY DEF ClearShard
<1> HIDE DEF s
<1>3. /\ shardMem[s] \in Int /\ shardLen[s] \in Int
      /\ -shardMem[s] \in Int /\ -shardLen[s] \in Int
  BY <1>1 DEF ShardTypes
<1>4. /\ ShardTypes' /\ ShardsOK'
      /\ TotalMem' = TotalMem - shardMem[s] /\ TotalLen' = TotalLen - shardLen[s]
  BY <1>1, <1>2, ClearSection
<1>5. TotalMem \in Nat /\ TotalLen \in Nat
  BY <1>1, TotalsType DEF ShardTypes
<1>6. /\ TotalMem' = TotalMem + (-shardMem[s])
      /\ TotalLen' = TotalLen + (-shardLen[s])
  BY <1>3, <1>4, <1>5
<1>7. /\ CountersConserved'
      /\ dMem' \in [Procs -> Int] /\ dLen' \in [Procs -> Int]
      /\ \A q \in Procs \ {p} : Settled(q) => Settled(q)'
  <2>1. UNCHANGED globalVars
    BY <1>2
  <2> QED BY <1>1, <1>2, <1>3, <1>4, <1>6, <2>1, SectionConserves
<1>8. s + 1 \in 0 .. NumShards
  BY <1>1, NumShardsAssumption DEF Shards
<1>9. LocalTypes'
  BY <1>2, <1>7, <1>8 DEF IInv, TypeOK, LocalTypes, globalVars
<1>10. LocalsOK'
  BY <1>2, <1>7 DEF IInv, TypeOK, LocalsOK, ClearShard
<1> QED BY <1>4, <1>7, <1>9, <1>10 DEF IInv, TypeOK, ShardTypes, LocalTypes
LEMMA EvictPopStep ==
  ASSUME IInv, NEW p \in Procs, EvictPop(p)
  PROVE  IInv'
<1> DEFINE s == cursor[p]
           k == lru[s][Len(lru[s])]
<1>1. s \in Shards /\ Settled(p) /\ backoff[p] > 0 /\ ShardTypes /\ ShardsOK
  BY TypeOKSplit DEF IInv, EvictPop, LocalsOK
<1>2. /\ lru[s] # <<>> /\ ShardRemove(k) /\ Owe(p, -items[k], -1)
      /\ freed' = [freed EXCEPT ![p] = @ + items[k]]
      /\ backoff' = [backoff EXCEPT ![p] = @ - 1]
      /\ pc' = [pc EXCEPT ![p] = "evict"]
      /\ UNCHANGED globalVars /\ UNCHANGED <<iter, done, cursor>>
  BY DEF EvictPop, Goto
<1>3. k \in Keys /\ Present(k)
  <2>1. lru[s] \in Seq(Keys) /\ Range(lru[s]) = Support(items, KeysOf(s))
    BY <1>1, <1>2 DEF ShardTypes, ShardsOK, LRUMatchesItems, PresentIn
  <2>2. Len(lru[s]) \in DOMAIN lru[s]
    BY <1>2, <2>1
  <2>3. k \in Range(lru[s])
    BY <2>2 DEF Range
  <2> HIDE DEF k, s
  <2> QED BY <2>1, <2>3 DEF Support, KeysOf, Present
<1> HIDE DEF k, s
<1>4. items[k] \in Nat /\ -items[k] \in Int /\ -1 \in Int
  BY <1>1, <1>3 DEF ShardTypes
<1>5. /\ ShardTypes' /\ ShardsOK'
      /\ TotalMem' = TotalMem - items[k] /\ TotalLen' = TotalLen - 1
  BY <1>1, <1>2, <1>3, RemoveSection
<1>6. TotalMem \in Nat /\ TotalLen \in Nat
  BY <1>1, TotalsType DEF ShardTypes
<1>7. TotalMem' = TotalMem + (-items[k]) /\ TotalLen' = TotalLen + (-1)
  BY <1>4, <1>5, <1>6
<1>8. /\ CountersConserved'
      /\ dMem' \in [Procs -> Int] /\ dLen' \in [Procs -> Int]
      /\ \A q \in Procs \ {p} : Settled(q) => Settled(q)'
  BY <1>1, <1>2, <1>4, <1>5, <1>7, SectionConserves
<1>9. LocalTypes'
  <2>1. LocalTypes
    BY DEF IInv, TypeOK, LocalTypes
  <2>2. freed' \in [Procs -> Nat]
    BY SMTT(30), <1>2, <1>4, <2>1 DEF LocalTypes
  <2>3. backoff' \in [Procs -> 0 .. Backoff]
    BY <1>1, <1>2, <2>1, LimitsAssumption DEF LocalTypes
  <2> QED BY <1>2, <1>8, <2>1, <2>2, <2>3 DEF LocalTypes, globalVars, PCs
<1>10. LocalsOK'
  BY <1>2, <1>8 DEF IInv, TypeOK, LocalsOK
<1> QED BY <1>5, <1>8, <1>9, <1>10 DEF IInv, TypeOK, ShardTypes, LocalTypes

\* The steps that only move their goroutine.
LEMMA ControlStep ==
  ASSUME IInv, NEW p \in Procs,
         \/ Return(p) \/ BeginClear(p) \/ EndClear(p) \/ BeginEvict(p)
         \/ EvictCheckMem(p) \/ EndEvict(p) \/ EvictNextShard(p) \/ EvictSkip(p)
         \/ Cancel
  PROVE  IInv'
<1>1. LocalTypes /\ LocalsOK
  BY TypeOKSplit DEF IInv
<1>2. UNCHANGED <<shardVars, globalVars, dLen, dMem>>
  BY DEF Return, BeginClear, EndClear, BeginEvict, EvictCheckMem, EndEvict,
         EvictNextShard, EvictSkip, Cancel, localVars
<1>3. ShardTypes' /\ ShardsOK' /\ CountersConserved'
  BY <1>2, CountersFrame
<1>4. 0 \in 0 .. NumShards /\ 0 \in 0 .. Backoff /\ Backoff \in 0 .. Backoff
  BY NumShardsAssumption, LimitsAssumption
<1>5. LocalTypes' /\ LocalsOK'
  <2>1. CASE Return(p)
    BY <1>1, <1>4, <2>1
    DEF LocalTypes, LocalsOK, Settled, Return, Finish, Goto, globalVars, PCs
  <2>2. CASE BeginClear(p)
    BY <1>1, <2>2
    DEF LocalTypes, LocalsOK, Settled, BeginClear, Goto, globalVars, PCs
  <2>3. CASE EndClear(p)
    BY <1>1, <1>4, <2>3
    DEF LocalTypes, LocalsOK, Settled, EndClear, Finish, Goto, globalVars, PCs
  <2>4. CASE BeginEvict(p)
    BY <1>1, <1>4, <2>4
    DEF LocalTypes, LocalsOK, Settled, BeginEvict, Goto, globalVars, PCs
  <2>5. CASE EvictCheckMem(p)
    BY <1>1, <2>5
    DEF LocalTypes, LocalsOK, Settled, EvictCheckMem, Goto, globalVars, PCs
  <2>6. CASE EndEvict(p)
    BY <1>1, <1>4, <2>6
    DEF LocalTypes, LocalsOK, Settled, EndEvict, Finish, Goto, globalVars, PCs
  <2>7. CASE EvictNextShard(p)
    <3>1. (iter + 1) % NumShards \in Shards
      BY <1>1, NumShardsAssumption DEF LocalTypes, Shards
    <3>2. (iter + 1) % NumShards \in 0 .. NumShards
      BY <3>1, NumShardsAssumption DEF Shards
    <3> DEFINE n == (iter + 1) % NumShards
    <3>3. /\ iter' = n /\ cursor' = [cursor EXCEPT ![p] = n]
          /\ pc' = [pc EXCEPT ![p] = "evictPop"] /\ pc[p] = "evictLen"
          /\ UNCHANGED <<shardVars, globalVars, done, dLen, dMem, backoff, freed>>
      BY <2>7 DEF EvictNextShard, Goto
    <3> HIDE DEF n
    <3>4. n \in Shards /\ n \in 0 .. NumShards
      BY <3>1, <3>2 DEF n
    <3> QED BY <1>1, <3>3, <3>4 DEF LocalTypes, LocalsOK, Settled, globalVars, PCs
  <2>8. CASE EvictSkip(p)
    <3>1. backoff[p] - 1 \in 0 .. Backoff
      BY <1>1, <2>8, LimitsAssumption DEF LocalTypes, LocalsOK, EvictSkip
    <3> QED BY <1>1, <2>8, <3>1
            DEF LocalTypes, LocalsOK, Settled, EvictSkip, Goto, globalVars, PCs
  <2>9. CASE Cancel
    BY <1>1, <2>9
    DEF LocalTypes, LocalsOK, Settled, Cancel, localVars, globalVars
  <2> QED BY <2>1, <2>2, <2>3, <2>4, <2>5, <2>6, <2>7, <2>8, <2>9
<1> QED BY <1>3, <1>5 DEF IInv, TypeOK, ShardTypes, LocalTypes

LEMMA InitIInv == Init => IInv
<1> SUFFICES ASSUME Init PROVE IInv
  OBVIOUS
<1>1. TypeOK
  <2>1. 0 \in Shards /\ 0 \in 0 .. NumShards /\ 0 \in 0 .. Backoff
    BY NumShardsAssumption, LimitsAssumption DEF Shards
  <2>2. <<>> \in Seq(Keys) /\ 0 \in Nat /\ 0 \in Int
    OBVIOUS
  <2>3. ShardTypes
    BY <2>2 DEF Init, ShardTypes
  <2>4. LocalTypes
    BY <2>1, <2>2 DEF Init, LocalTypes, PCs
  <2> QED BY <2>3, <2>4, TypeOKSplit
<1>2. LocalsOK
  BY DEF Init, LocalsOK, Settled
<1>3. /\ \A S : Support(items, S \cap Keys) = {}
      /\ \A S : SumOn(items, S \cap Keys) = 0
  <2>1. \A x \in Keys : items[x] = 0
    BY DEF Init
  <2>2. ASSUME NEW S
        PROVE  Support(items, S \cap Keys) = {} /\ SumOn(items, S \cap Keys) = 0
    BY <2>1, SumZero DEF Support
  <2> QED BY <2>2
<1>4. Support(items, Keys) = {} /\ SumOn(items, Keys) = 0
  <2>1. Keys = Keys \cap Keys
    OBVIOUS
  <2> QED BY <1>3, <2>1
<1>5. Cardinality({}) = 0
  BY FS_EmptySet
<1>6. \A s : Support(items, KeysOf(s)) = {} /\ SumOn(items, KeysOf(s)) = 0
  <2>1. \A s : KeysOf(s) = KeysOf(s) \cap Keys
    BY DEF KeysOf
  <2> QED BY <1>3, <2>1
<1>7. ShardCountersExact
  BY <1>5, <1>6 DEF Init, ShardCountersExact, PresentIn
<1>8. LRUMatchesItems
  BY <1>6 DEF Init, LRUMatchesItems, PresentIn, IsInjective, Range
<1>9. NetOn(dMem, Procs) = 0 /\ NetOn(dLen, Procs) = 0
  <2>1. /\ dMem \in [Procs -> Int] /\ dLen \in [Procs -> Int]
        /\ \A p \in Procs : dMem[p] = 0 /\ dLen[p] = 0
    BY DEF Init
  <2> QED BY <2>1, NetZero
<1>10. CountersConserved
  <2>1. mem = 0 /\ len = 0
    BY DEF Init
  <2>2. mem + NetOn(dMem, Procs) = 0 /\ len + NetOn(dLen, Procs) = 0
    BY <1>9, <2>1
  <2> QED BY <1>4, <1>5, <2>2 DEF CountersConserved
<1> QED BY <1>1, <1>2, <1>7, <1>8, <1>10 DEF IInv, ShardsOK

LEMMA StepIInv == IInv /\ [Next]_vars => IInv'
<1> SUFFICES ASSUME IInv, [Next]_vars PROVE IInv'
  OBVIOUS
<1>1. CASE UNCHANGED vars
  <2>1. UNCHANGED <<shardVars, globalVars, iter, done, localVars>>
    BY <1>1 DEF vars
  <2>2. ShardTypes' /\ ShardsOK' /\ CountersConserved'
    BY <2>1, CountersFrame DEF localVars
  <2>3. LocalTypes' /\ LocalsOK'
    BY <2>1 DEF IInv, TypeOK, LocalTypes, LocalsOK, Settled, localVars, globalVars
  <2> QED BY <2>2, <2>3 DEF IInv, TypeOK, ShardTypes, LocalTypes
<1>2. CASE Cancel
  <2>1. CASE Procs = {}
    <3>1. UNCHANGED <<shardVars, globalVars, dLen, dMem>>
      BY <1>2 DEF Cancel, localVars
    <3>2. ShardTypes' /\ ShardsOK' /\ CountersConserved'
      BY <3>1, CountersFrame
    <3>3. LocalTypes' /\ LocalsOK'
      BY <1>2 DEF IInv, TypeOK, LocalTypes, LocalsOK, Settled, Cancel, localVars,
                  globalVars
    <3> QED BY <3>2, <3>3 DEF IInv, TypeOK, ShardTypes, LocalTypes
  <2>2. CASE Procs # {}
    BY <1>2, <2>2, ControlStep
  <2> QED BY <2>1, <2>2
<1>3. ASSUME NEW p \in Procs, Call(p) PROVE IInv'
  BY <1>3, SetStep, RemoveStep, TouchStep, ControlStep DEF Call
<1>4. ASSUME NEW p \in Procs, Step(p) PROVE IInv'
  BY <1>4, AggregateMemStep, AggregateLenStep, ClearShardStep, EvictPopStep,
     ControlStep DEF Step
<1> QED BY <1>1, <1>2, <1>3, <1>4 DEF Next

\* Every reachable state satisfies the inductive invariant.
THEOREM Invariance == Spec => []IInv
<1>1. Init => IInv
  BY InitIInv
<1>2. IInv /\ [Next]_vars => IInv'
  BY StepIInv
<1> QED BY <1>1, <1>2, PTL DEF Spec

-----------------------------------------------------------------------------

\* Every value stays in its type.
THEOREM TypeCorrect == Spec => []TypeOK
<1>1. IInv => TypeOK
  BY DEF IInv
<1> QED BY <1>1, Invariance, PTL

\* Whatever the shards, goroutines and weights, a shard's counters are exact.
THEOREM ShardCountersAlwaysExact == Spec => []ShardCountersExact
<1>1. IInv => ShardCountersExact
  BY DEF IInv, ShardsOK
<1> QED BY <1>1, Invariance, PTL

\* Lists and maps never diverge: every entry can be evicted and nothing else.
THEOREM LRUAlwaysMatchesItems == Spec => []LRUMatchesItems
<1>1. IInv => LRUMatchesItems
  BY DEF IInv, ShardsOK
<1> QED BY <1>1, Invariance, PTL

\* No addition to the global counters is lost or made twice.
THEOREM CountersAlwaysConserved == Spec => []CountersConserved
<1>1. IInv => CountersConserved
  BY DEF IInv
<1> QED BY <1>1, Invariance, PTL

\* The global counters are precise whenever no call is running.
THEOREM CountersPreciseAtRest == Spec => []QuiescentPrecise
<1>1. IInv => QuiescentPrecise
  <2> SUFFICES ASSUME IInv, \A p \in Procs : pc[p] = "idle"
               PROVE  /\ len = Cardinality(Support(items, Keys))
                      /\ mem = SumOn(items, Keys)
    BY DEF QuiescentPrecise
  <2>1. /\ dMem \in [Procs -> Int] /\ dLen \in [Procs -> Int]
        /\ mem \in Int /\ len \in Int
    BY DEF IInv, TypeOK
  <2>2. \A p \in Procs : dMem[p] = 0 /\ dLen[p] = 0
    BY DEF IInv, LocalsOK, Settled
  <2>3. NetOn(dMem, Procs) = 0 /\ NetOn(dLen, Procs) = 0
    BY <2>1, <2>2, NetZero
  <2> QED BY <2>1, <2>3 DEF IInv, CountersConserved
<1> QED BY <1>1, Invariance, PTL
-----------------------------------------------------------------------------
(***************************************************************************)
(* The order of the lists.                                                 *)
(***************************************************************************)

\* In a list without duplicates two keys cannot be ahead of each other.
LEMMA AheadAntisymmetric ==
  ASSUME NEW S, NEW l \in Seq(S), IsInjective(l), NEW i, NEW j,
         Ahead(l, i, j), Ahead(l, j, i)
  PROVE  FALSE
<1>1. PICK m \in 1 .. Len(l), n \in 1 .. Len(l) : m < n /\ l[m] = i /\ l[n] = j
  BY DEF Ahead
<1>2. PICK x \in 1 .. Len(l), y \in 1 .. Len(l) : x < y /\ l[x] = j /\ l[y] = i
  BY DEF Ahead
<1>3. m = y /\ n = x
  BY <1>1, <1>2 DEF IsInjective
<1> QED BY <1>1, <1>2, <1>3

\* A removal leaves the rest of the list in its order.
LEMMA RemoveFirstKeepsOrder ==
  ASSUME NEW S, NEW l \in Seq(S), IsInjective(l), NEW k, NEW i, NEW j,
         Ahead(RemoveFirst(l, k), i, j)
  PROVE  Ahead(l, i, j)
<1>1. CASE ~InList(l, k)
  BY <1>1, RemoveFirstAbsent
<1>2. CASE InList(l, k)
  <2>1. PICK c \in 1 .. Len(l) : l[c] = k
    BY <1>2 DEF InList
  <2> DEFINE r == RemoveFirst(l, k)
             At(a) == IF a < c THEN a ELSE a + 1
  <2>2. Len(r) = Len(l) - 1 /\ \A a \in 1 .. Len(l) - 1 : r[a] = l[At(a)]
    BY <2>1, RemoveFirstElements
  <2>3. PICK m \in 1 .. Len(r), n \in 1 .. Len(r) :
               m < n /\ r[m] = i /\ r[n] = j
    BY DEF Ahead
  <2> HIDE DEF r
  <2>4. l[At(m)] = i /\ l[At(n)] = j
    BY <2>2, <2>3
  <2>5. At(m) \in 1 .. Len(l) /\ At(n) \in 1 .. Len(l) /\ At(m) < At(n)
    BY <2>1, <2>2, <2>3
  <2> QED BY <2>4, <2>5 DEF Ahead
<1> QED BY <1>1, <1>2

\* Moving a key to the head lets only that key overtake.
LEMMA ToFrontKeepsOrder ==
  ASSUME NEW S, NEW l \in Seq(S), IsInjective(l), NEW k \in S, NEW i, NEW j,
         Ahead(l, i, j), Ahead(ToFront(l, k), j, i)
  PROVE  /\ ToFront(l, k)[1] = j
         /\ RemoveFirst(ToFront(l, k), j) = RemoveFirst(l, j)
<1> DEFINE r == RemoveFirst(l, k)
           t == ToFront(l, k)
<1>1. r \in Seq(S) /\ t \in Seq(S) /\ IsInjective(t)
  BY RemoveFirstInjective, ToFrontInjective
<1>2. /\ Len(r) \in Nat /\ Len(t) = Len(r) + 1
      /\ t[1] = k /\ \A a \in 1 .. Len(r) : t[a + 1] = r[a]
  <2>1. t = <<k>> \o r
    BY DEF ToFront
  <2> HIDE DEF t, r
  <2> QED BY <1>1, <2>1
<1>3. PICK m \in 1 .. Len(t), n \in 1 .. Len(t) : m < n /\ t[m] = j /\ t[n] = i
  BY DEF Ahead
<1>4. m = 1
  <2> SUFFICES ASSUME m # 1 PROVE FALSE
    OBVIOUS
  <2> HIDE DEF r, t
  <2>1. /\ m - 1 \in 1 .. Len(r) /\ n - 1 \in 1 .. Len(r) /\ m - 1 < n - 1
        /\ (m - 1) + 1 = m /\ (n - 1) + 1 = n
    BY <1>2, <1>3
  <2>2. r[m - 1] = j /\ r[n - 1] = i
    BY <1>2, <1>3, <2>1
  <2>3. Ahead(r, j, i)
    BY <2>1, <2>2 DEF Ahead
  <2>4. Ahead(l, j, i)
    BY <2>3, RemoveFirstKeepsOrder DEF r
  <2> QED BY <2>4, AheadAntisymmetric
<1>5. j = k /\ t[1] = j
  BY <1>2, <1>3, <1>4
<1>6. RemoveFirst(t, j) = r
  <2> DEFINE u == RemoveFirst(t, t[1])
  <2>1. 1 \in 1 .. Len(t)
    BY <1>2
  <2>2. /\ u \in Seq(S) /\ Len(u) = Len(t) - 1
        /\ \A a \in 1 .. Len(t) - 1 : u[a] = IF a < 1 THEN t[a] ELSE t[a + 1]
    BY <1>1, <2>1, RemoveFirstElements
  <2> HIDE DEF u, t, r
  <2>3. Len(u) = Len(r) /\ \A a \in 1 .. Len(u) : u[a] = r[a]
    <3>1. Len(u) = Len(r)
      BY <1>2, <2>2
    <3>2. ASSUME NEW a \in 1 .. Len(r) PROVE u[a] = r[a]
      <4>1. a \in 1 .. Len(t) - 1 /\ ~(a < 1)
        BY <1>2
      <4>2. u[a] = t[a + 1]
        BY <2>2, <4>1
      <4> QED BY <1>2, <4>2
    <3> QED BY <3>1, <3>2
  <2>4. u = r
    BY <1>1, <2>2, <2>3, SeqEqual
  <2> QED BY <1>5, <2>4 DEF u
<1> QED BY <1>5, <1>6

\* What a step can do to a shard's list.
ListStep(s) ==
  \/ lru'[s] = lru[s]
  \/ lru'[s] = <<>>
  \/ \E k \in Keys : lru'[s] = ToFront(lru[s], k)
  \/ \E k : lru'[s] = RemoveFirst(lru[s], k)

LEMMA StepMovesLists ==
  ASSUME IInv, [Next]_vars, NEW s \in Shards
  PROVE  ListStep(s)
<1>1. lru \in [Shards -> Seq(Keys)]
  BY DEF IInv, TypeOK
<1>2. ASSUME UNCHANGED lru PROVE ListStep(s)
  BY <1>2 DEF ListStep
<1>3. ASSUME NEW k, ShardRemove(k) PROVE ListStep(s)
  <2>1. lru'[s] \in {lru[s], RemoveFirst(lru[s], k)}
    BY <1>1, <1>3 DEF ShardRemove, LruOnDelete
  <2> QED BY <2>1 DEF ListStep
<1>4. ASSUME NEW c, ShardClear(c) PROVE ListStep(s)
  <2>1. lru'[s] \in {lru[s], <<>>}
    BY <1>1, <1>4 DEF ShardClear
  <2> QED BY <2>1 DEF ListStep
<1>5. ASSUME NEW k \in Keys, NEW w, ShardSet(k, w) PROVE ListStep(s)
  <2>1. lru'[s] \in {lru[s], ToFront(lru[s], k)}
    BY <1>1, <1>5 DEF ShardSet, LruOnAccess, LruOnInsert
  <2> QED BY <2>1 DEF ListStep
<1>6. ASSUME NEW p, NEW k \in Keys, Touch(p, k) PROVE ListStep(s)
  <2>1. lru'[s] \in {lru[s], ToFront(lru[s], k)}
    BY <1>1, <1>6 DEF Touch, LruOnAccess
  <2> QED BY <2>1 DEF ListStep
<1>7. ASSUME NEW p, Call(p) PROVE ListStep(s)
  <2>1. ASSUME NEW k \in Keys, NEW w, Set(p, k, w) PROVE ListStep(s)
    BY <2>1, <1>5 DEF Set
  <2>2. ASSUME NEW k, Remove_(p, k) PROVE ListStep(s)
    BY <2>2, <1>3 DEF Remove_
  <2>3. ASSUME BeginClear(p) \/ BeginEvict(p) PROVE ListStep(s)
    BY <2>3, <1>2 DEF BeginClear, BeginEvict, shardVars
  <2> QED BY <1>6, <1>7, <2>1, <2>2, <2>3 DEF Call
<1>8. ASSUME NEW p, Step(p) PROVE ListStep(s)
  <2>1. CASE ClearShard(p)
    BY <2>1, <1>4 DEF ClearShard
  <2>2. CASE EvictPop(p)
    BY <2>2, <1>3 DEF EvictPop
  <2>3. ASSUME ~ClearShard(p), ~EvictPop(p) PROVE UNCHANGED lru
    BY <1>8, <2>3 DEF Step, AggregateMem, AggregateLen, Return, EndClear,
       EvictCheckMem, EndEvict, EvictNextShard, EvictSkip, shardVars
  <2> QED BY <1>2, <2>1, <2>2, <2>3
<1>9. CASE Cancel \/ UNCHANGED vars
  BY <1>9, <1>2 DEF Cancel, vars, shardVars
<1> QED BY <1>7, <1>8, <1>9 DEF Next

\* Whatever the goroutines do, an entry overtakes another only by its own move
\* to the head of its list: the order of eviction is never reshuffled.
THEOREM RecencyNeverReshuffled == Spec => RecencyOrderStable
<1> DEFINE Stable ==
      \A s \in Shards : \A i, j \in Keys :
        Ahead(lru[s], i, j) /\ Ahead(lru'[s], j, i) =>
          /\ lru'[s][1] = j
          /\ RemoveFirst(lru'[s], j) = RemoveFirst(lru[s], j)
<1>1. IInv /\ [Next]_vars => Stable
  <2> SUFFICES ASSUME IInv, [Next]_vars, NEW s \in Shards,
                      NEW i \in Keys, NEW j \in Keys,
                      Ahead(lru[s], i, j), Ahead(lru'[s], j, i)
               PROVE  /\ lru'[s][1] = j
                      /\ RemoveFirst(lru'[s], j) = RemoveFirst(lru[s], j)
    OBVIOUS
  <2>1. lru[s] \in Seq(Keys) /\ IsInjective(lru[s])
    BY DEF IInv, TypeOK, ShardsOK, LRUMatchesItems, IsInjective
  <2>2. ListStep(s)
    BY StepMovesLists
  <2>3. CASE lru'[s] = lru[s]
    BY <2>1, <2>3, AheadAntisymmetric
  <2>4. CASE lru'[s] = <<>>
    BY <2>4 DEF Ahead
  <2>5. ASSUME NEW k, lru'[s] = RemoveFirst(lru[s], k) PROVE FALSE
    <3>1. Ahead(lru[s], j, i)
      BY <2>1, <2>5, RemoveFirstKeepsOrder
    <3> QED BY <2>1, <3>1, AheadAntisymmetric
  <2>6. ASSUME NEW k \in Keys, lru'[s] = ToFront(lru[s], k)
        PROVE  /\ lru'[s][1] = j
               /\ RemoveFirst(lru'[s], j) = RemoveFirst(lru[s], j)
    BY <2>1, <2>6, ToFrontKeepsOrder
  <2> QED BY <2>2, <2>3, <2>4, <2>5, <2>6 DEF ListStep
<1>2. IInv /\ [Next]_vars => [Stable]_vars
  BY <1>1
<1> QED BY <1>2, Invariance, PTL DEF Spec, RecencyOrderStable
=============================================================================
