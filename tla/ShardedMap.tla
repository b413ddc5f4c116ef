----------------------------- MODULE ShardedMap -----------------------------
(***************************************************************************)
(* The sharded map of internal/cache/db (map.go, shard.go, lru.go and the  *)
(* listing half of eviction.go) under concurrent goroutines.               *)
(*                                                                         *)
(* A section under a shard's lock is one action; the atomic additions to   *)
(* the map's global counters that follow it, after the lock is released,   *)
(* are actions of their own.  An entry is abstracted to its weight, which  *)
(* is at least sizeof(Entry): weight 0 stands for "no entry".  Replacing   *)
(* the payload of a stored entry in place is the subject of CacheOps.      *)
(***************************************************************************)
EXTENDS Sums, Sequences, SequencesExt

CONSTANTS
  Keys,        \* the hashed keys in use, as numbers: the hash picks the shard
  NumShards,   \* NumOfShards, 1024 in the code
  Procs,       \* goroutines that call the map
  MaxWeight,   \* the heaviest entry of each key
  Listing,     \* the map keeps LRU lists (LRUModeListing)
  Limit,       \* limit given to EvictUntilWithinLimit
  MinLimit,    \* minLimit of evictUntilWithinLimitByList, 8 MiB in the code
  Backoff      \* backoff given to EvictUntilWithinLimit

ASSUME KeysAssumption      == Keys \subseteq Nat /\ IsFiniteSet(Keys)
ASSUME NumShardsAssumption == NumShards \in Nat \ {0}
ASSUME ProcsAssumption     == IsFiniteSet(Procs)
ASSUME WeightAssumption    == MaxWeight \in [Keys -> Nat \ {0}]
ASSUME ListingAssumption   == Listing \in BOOLEAN
ASSUME LimitsAssumption    == {Limit, MinLimit, Backoff} \subseteq Nat

Shards   == 0 .. NumShards - 1
Weights(k) == 1 .. MaxWeight[k]
Shard(k) == k % NumShards
KeysOf(s) == { k \in Keys : Shard(k) = s }

VARIABLES
  items,      \* weight of the entry stored under each key, 0 if there is none
  lru,        \* each shard's LRU list, most recently used key first
  shardLen,   \* Shard.len
  shardMem,   \* Shard.mem
  len,        \* Map.len
  mem,        \* Map.mem
  iter,       \* Map.iter, of which only the masked value is ever used
  done,       \* the context given to NewMap is cancelled
  pc,         \* where each goroutine is
  dLen,       \* what it has still to add to Map.len
  dMem,       \* what it has still to add to Map.mem
  cursor,     \* Clear: next shard of WalkShards
  backoff,    \* eviction: iterations left
  freed       \* eviction: bytes freed by this call

shardVars  == <<items, lru, shardLen, shardMem>>
globalVars == <<len, mem>>
localVars  == <<pc, dLen, dMem, cursor, backoff, freed>>
vars == <<shardVars, globalVars, iter, done, localVars>>

PCs == {"idle", "set", "remove", "clear", "evict", "evictLen", "evictPop"}

TypeOK ==
  /\ items \in [Keys -> Nat]
  /\ lru \in [Shards -> Seq(Keys)]
  /\ shardLen \in [Shards -> Int]
  /\ shardMem \in [Shards -> Int]
  /\ len \in Int
  /\ mem \in Int
  /\ iter \in Shards
  /\ done \in BOOLEAN
  /\ pc \in [Procs -> PCs]
  /\ dLen \in [Procs -> Int]
  /\ dMem \in [Procs -> Int]
  /\ cursor \in [Procs -> 0 .. NumShards]
  /\ backoff \in [Procs -> 0 .. Backoff]
  /\ freed \in [Procs -> Nat]

Init ==
  /\ items    = [k \in Keys |-> 0]
  /\ lru      = [s \in Shards |-> <<>>]
  /\ shardLen = [s \in Shards |-> 0]
  /\ shardMem = [s \in Shards |-> 0]
  /\ len = 0 /\ mem = 0 /\ iter = 0 /\ done = FALSE
  /\ pc      = [p \in Procs |-> "idle"]
  /\ dLen    = [p \in Procs |-> 0]
  /\ dMem    = [p \in Procs |-> 0]
  /\ cursor  = [p \in Procs |-> 0]
  /\ backoff = [p \in Procs |-> 0]
  /\ freed   = [p \in Procs |-> 0]

-----------------------------------------------------------------------------
(* The LRU list of a shard.  lidx holds exactly the keys with a list       *)
(* element, so that lidx[key] # nil is "key is in the list".               *)

InList(l, k)  == \E i \in 1 .. Len(l) : l[i] = k
ToFront(l, k) == <<k>> \o RemoveFirst(l, k)

LruOnInsert(l, k) == IF Listing THEN ToFront(l, k) ELSE l

\* Mutant: an accessed key goes to the back.
LruOnAccessToBack(l, k) ==
  IF Listing /\ InList(l, k) THEN Append(RemoveFirst(l, k), k) ELSE l

LruOnAccess(l, k) == IF Listing /\ InList(l, k) THEN ToFront(l, k) ELSE l

\* Mutant: a removed key stays in the list.
LruOnDeleteForgets(l, k) == l

LruOnDelete(l, k) == IF Listing THEN RemoveFirst(l, k) ELSE l

-----------------------------------------------------------------------------
(* Shard.items and the shard's own counters, under the shard's lock.       *)

Present(k) == items[k] # 0

ShardSet(k, w) ==
  LET s == Shard(k) IN
  /\ items' = [items EXCEPT ![k] = w]
  /\ lru' = [lru EXCEPT ![s] = IF Present(k) THEN LruOnAccess(@, k)
                                             ELSE LruOnInsert(@, k)]
  /\ shardLen' = [shardLen EXCEPT ![s] = @ + (IF Present(k) THEN 0 ELSE 1)]
  /\ shardMem' = [shardMem EXCEPT ![s] = @ + (w - items[k])]

\* Mutant: the shard's own weight is not brought down.
ShardRemoveKeepsMem(k) ==
  LET s == Shard(k) IN
  /\ items' = [items EXCEPT ![k] = 0]
  /\ lru' = [lru EXCEPT ![s] = LruOnDelete(@, k)]
  /\ shardLen' = [shardLen EXCEPT ![s] = @ - 1]
  /\ UNCHANGED shardMem

ShardRemove(k) ==
  LET s == Shard(k) IN
  /\ items' = [items EXCEPT ![k] = 0]
  /\ lru' = [lru EXCEPT ![s] = LruOnDelete(@, k)]
  /\ shardLen' = [shardLen EXCEPT ![s] = @ - 1]
  /\ shardMem' = [shardMem EXCEPT ![s] = @ - items[k]]

ShardClear(s) ==
  /\ items' = [k \in Keys |-> IF Shard(k) = s THEN 0 ELSE items[k]]
  /\ lru' = [lru EXCEPT ![s] = <<>>]
  /\ shardLen' = [shardLen EXCEPT ![s] = 0]
  /\ shardMem' = [shardMem EXCEPT ![s] = 0]

-----------------------------------------------------------------------------
(* Goroutine p returns from the locked section owing bytes to Map.mem and  *)
(* items to Map.len.  Remove pays len first, every other operation mem.    *)

Owe(p, bytes, n) ==
  /\ dMem' = [dMem EXCEPT ![p] = bytes]
  /\ dLen' = [dLen EXCEPT ![p] = n]

Settled(p) == dMem[p] = 0 /\ dLen[p] = 0
Goto(p, l) == pc' = [pc EXCEPT ![p] = l]

\* The call returns and its local variables go.
Finish(p) ==
  /\ Goto(p, "idle")
  /\ cursor' = [cursor EXCEPT ![p] = 0]
  /\ backoff' = [backoff EXCEPT ![p] = 0]
  /\ freed' = [freed EXCEPT ![p] = 0]

\* Mutant: the delta is stored instead of added.
AggregateMemStores(p) ==
  /\ dMem[p] # 0
  /\ pc[p] = "remove" => dLen[p] = 0
  /\ mem' = dMem[p]
  /\ dMem' = [dMem EXCEPT ![p] = 0]
  /\ UNCHANGED <<shardVars, len, iter, done, pc, dLen, cursor, backoff, freed>>

AggregateMem(p) ==
  /\ dMem[p] # 0
  /\ pc[p] = "remove" => dLen[p] = 0
  /\ mem' = mem + dMem[p]
  /\ dMem' = [dMem EXCEPT ![p] = 0]
  /\ UNCHANGED <<shardVars, len, iter, done, pc, dLen, cursor, backoff, freed>>

AggregateLen(p) ==
  /\ dLen[p] # 0
  /\ pc[p] # "remove" => dMem[p] = 0
  /\ len' = len + dLen[p]
  /\ dLen' = [dLen EXCEPT ![p] = 0]
  /\ UNCHANGED <<shardVars, mem, iter, done, pc, dMem, cursor, backoff, freed>>

\* Set and Remove return once they have paid what they owe.
Return(p) ==
  /\ pc[p] \in {"set", "remove"}
  /\ Settled(p)
  /\ Finish(p)
  /\ UNCHANGED <<shardVars, globalVars, iter, done, dLen, dMem>>

\* Mutant: the weight of the replaced entry is not deducted.
SetForgetsOld(p, k, w) ==
  /\ pc[p] = "idle"
  /\ ShardSet(k, w)
  /\ Owe(p, w, IF Present(k) THEN 0 ELSE 1)
  /\ Goto(p, "set")
  /\ UNCHANGED <<globalVars, iter, done, cursor, backoff, freed>>

Set(p, k, w) ==
  /\ pc[p] = "idle"
  /\ ShardSet(k, w)
  /\ Owe(p, w - items[k], IF Present(k) THEN 0 ELSE 1)
  /\ Goto(p, "set")
  /\ UNCHANGED <<globalVars, iter, done, cursor, backoff, freed>>

\* A Remove that misses changes nothing.
Remove_(p, k) ==
  /\ pc[p] = "idle"
  /\ Present(k)
  /\ ShardRemove(k)
  /\ Owe(p, -items[k], -1)
  /\ Goto(p, "remove")
  /\ UNCHANGED <<globalVars, iter, done, cursor, backoff, freed>>

\* touchLRU.  When TryLock fails the touch is dropped: a step that changes
\* nothing, so the model takes it by not taking this action.
Touch(p, k) ==
  /\ pc[p] = "idle"
  /\ lru' = [lru EXCEPT ![Shard(k)] = LruOnAccess(@, k)]
  /\ UNCHANGED <<items, shardLen, shardMem, globalVars, iter, done, localVars>>

-----------------------------------------------------------------------------
(* Clear: WalkShards over the shards in order, stopping at a cancelled     *)
(* context.                                                                *)

BeginClear(p) ==
  /\ pc[p] = "idle"
  /\ Goto(p, "clear")
  /\ UNCHANGED <<shardVars, globalVars, iter, done, dLen, dMem, cursor, backoff,
                 freed>>

ClearShard(p) ==
  LET s == cursor[p] IN
  /\ pc[p] = "clear"
  /\ Settled(p)
  /\ s < NumShards
  /\ ~done
  /\ ShardClear(s)
  /\ Owe(p, -shardMem[s], -shardLen[s])
  /\ cursor' = [cursor EXCEPT ![p] = @ + 1]
  /\ UNCHANGED <<globalVars, iter, done, pc, backoff, freed>>

EndClear(p) ==
  /\ pc[p] = "clear"
  /\ Settled(p)
  /\ cursor[p] = NumShards \/ done
  /\ Finish(p)
  /\ UNCHANGED <<shardVars, globalVars, iter, done, dLen, dMem>>

-----------------------------------------------------------------------------
(* evictUntilWithinLimitByList.                                            *)

BeginEvict(p) ==
  /\ Listing
  /\ pc[p] = "idle"
  /\ Goto(p, "evict")
  /\ backoff' = [backoff EXCEPT ![p] = Backoff]
  /\ UNCHANGED <<shardVars, globalVars, iter, done, dLen, dMem, cursor, freed>>

\* The loop goes round: iterations are left and, of the usage it loads, the
\* call has not had enough.
Enough(p) == mem <= Limit /\ freed[p] <= MinLimit

EvictCheckMem(p) ==
  /\ pc[p] = "evict"
  /\ Settled(p)
  /\ backoff[p] > 0
  /\ ~Enough(p)
  /\ Goto(p, "evictLen")
  /\ UNCHANGED <<shardVars, globalVars, iter, done, dLen, dMem, cursor, backoff,
                 freed>>

EndEvict(p) ==
  /\ \/ pc[p] = "evict" /\ Settled(p) /\ (backoff[p] = 0 \/ Enough(p))
     \/ pc[p] = "evictLen" /\ len = 0
  /\ Finish(p)
  /\ UNCHANGED <<shardVars, globalVars, iter, done, dLen, dMem>>

\* Mutant: the cursor is not masked.
EvictNextShardUnmasked(p) ==
  /\ pc[p] = "evictLen"
  /\ len # 0
  /\ iter' = iter + 1
  /\ cursor' = [cursor EXCEPT ![p] = iter + 1]
  /\ Goto(p, "evictPop")
  /\ UNCHANGED <<shardVars, globalVars, done, dLen, dMem, backoff, freed>>

EvictNextShard(p) ==
  /\ pc[p] = "evictLen"
  /\ len # 0
  /\ iter' = (iter + 1) % NumShards
  /\ cursor' = [cursor EXCEPT ![p] = (iter + 1) % NumShards]
  /\ Goto(p, "evictPop")
  /\ UNCHANGED <<shardVars, globalVars, done, dLen, dMem, backoff, freed>>

EvictSkip(p) ==
  /\ pc[p] = "evictPop"
  /\ lru[cursor[p]] = <<>>
  /\ backoff' = [backoff EXCEPT ![p] = @ - 1]
  /\ Goto(p, "evict")
  /\ UNCHANGED <<shardVars, globalVars, iter, done, dLen, dMem, cursor, freed>>

\* Mutant: only the iterations that find nothing count.
EvictPopFree(p) ==
  LET l == lru[cursor[p]]
      k == l[Len(l)]
  IN
  /\ pc[p] = "evictPop"
  /\ l # <<>>
  /\ ShardRemove(k)
  /\ Owe(p, -items[k], -1)
  /\ Goto(p, "evict")
  /\ UNCHANGED <<globalVars, iter, done, cursor, backoff, freed>>

\* lruPopTail.
EvictPop(p) ==
  LET l == lru[cursor[p]]
      k == l[Len(l)]
  IN
  /\ pc[p] = "evictPop"
  /\ l # <<>>
  /\ ShardRemove(k)
  /\ Owe(p, -items[k], -1)
  /\ freed' = [freed EXCEPT ![p] = @ + items[k]]
  /\ backoff' = [backoff EXCEPT ![p] = @ - 1]
  /\ Goto(p, "evict")
  /\ UNCHANGED <<globalVars, iter, done, cursor>>

-----------------------------------------------------------------------------

Cancel ==
  /\ ~done
  /\ done' = TRUE
  /\ UNCHANGED <<shardVars, globalVars, iter, localVars>>

\* The steps of a call that has begun.
Step(p) ==
  \/ AggregateMem(p) \/ AggregateLen(p) \/ Return(p)
  \/ ClearShard(p) \/ EndClear(p)
  \/ EvictCheckMem(p) \/ EndEvict(p) \/ EvictNextShard(p)
  \/ EvictSkip(p) \/ EvictPop(p)

\* A client begins a call.
Call(p) ==
  \/ \E k \in Keys : \/ \E w \in Weights(k) : Set(p, k, w)
                     \/ Remove_(p, k)
                     \/ Touch(p, k)
  \/ BeginClear(p)
  \/ BeginEvict(p)

Next == Cancel \/ \E p \in Procs : Call(p) \/ Step(p)

Spec == Init /\ [][Next]_vars

\* A goroutine inside a call is never blocked for ever: the locks are held for
\* a bounded section only.  Nobody is obliged to make a call.
Fairness == \A p \in Procs : WF_vars(Step(p))

FairSpec == Spec /\ Fairness

-----------------------------------------------------------------------------
(* Properties *)

PresentIn(s) == Support(items, KeysOf(s))

\* What a shard counts about itself is what it holds, whatever was set, popped
\* or wiped: the counters live under the same lock as the map (shard.go:47-116,
\* lru.go:104-127).
ShardCountersExact ==
  \A s \in Shards : /\ shardLen[s] = Cardinality(PresentIn(s))
                    /\ shardMem[s] = SumOn(items, KeysOf(s))

\* A shard's list and its map hold the same keys, each once, so lruPopTail never
\* meets a list element whose key is gone (its branch lru.go:115-119) and
\* eviction can reach every entry.
LRUMatchesItems ==
  \A s \in Shards :
    IF Listing THEN /\ IsInjective(lru[s])
                    /\ Range(lru[s]) = PresentIn(s)
               ELSE lru[s] = <<>>

\* No update of the global counters is lost or applied twice: at any moment they
\* differ from the contents of the shards by exactly what the running calls have
\* still to add (map.go:53-76, 124-134, eviction.go:37-41).
CountersConserved ==
  /\ mem + NetOn(dMem, Procs) = SumOn(items, Keys)
  /\ len + NetOn(dLen, Procs) = Cardinality(Support(items, Keys))

\* "precise global counters" (map.go:24): when no call is running, Len and Mem
\* are the number and the total weight of the entries.
QuiescentPrecise ==
  (\A p \in Procs : pc[p] = "idle") =>
    /\ len = Cardinality(Support(items, Keys))
    /\ mem = SumOn(items, Keys)

\* j is ahead of i in list l.
Ahead(l, j, i) == \E m, n \in 1 .. Len(l) : m < n /\ l[m] = j /\ l[n] = i

\* Recency is never reshuffled: an entry overtakes another in the order of
\* eviction only by moving to the head of its list, and then nothing else moves.
RecencyOrderStable ==
  [][\A s \in Shards : \A i, j \in Keys :
       Ahead(lru[s], i, j) /\ Ahead(lru'[s], j, i) =>
         /\ lru'[s][1] = j
         /\ RemoveFirst(lru'[s], j) = RemoveFirst(lru[s], j)]_vars

\* Every call returns: Clear visits each shard once and eviction gives up after
\* Backoff iterations, however busy the other goroutines are.
EveryCallReturns == \A p \in Procs : pc[p] # "idle" ~> pc[p] = "idle"

\* "evicts item from the cache until within limit" (evictor.go:123): an
\* eviction that has nobody beside it takes no entry from a cache within limit.
EvictionStopsAtLimit ==
  [][\A p \in Procs : EvictPop(p) => mem > Limit]_vars
=============================================================================
