------------------------------ MODULE CacheOps ------------------------------
(***************************************************************************)
(* The cache a client sees (internal/cache/cache.go) over the entries of   *)
(* internal/cache/db/model, in sampling mode: Get with its callback, Del,  *)
(* Clear, Around, admission, updates in place and eviction by sampling.    *)
(*                                                                         *)
(* Entries are objects that goroutines share by reference and whose        *)
(* payload is replaced without a lock, so they have an identity here, and  *)
(* each load or store of shared memory is a step.  The map is one shard:   *)
(* what many shards add is the subject of ShardedMap.  No lifetime is      *)
(* configured, so no entry expires.                                        *)
(***************************************************************************)
EXTENDS Sums

CONSTANTS
  Keys,         \* the strings clients ask for
  HashOf,       \* the 64-bit hash of each
  Sizes,        \* capacities of the payloads callbacks return for each key
  EntrySize,    \* unsafe.Sizeof(Entry)
  Entries,      \* identities of entries, positive numbers
  Procs,        \* goroutines
  Nil,          \* a nil pointer
  Admission,    \* admission control is enabled
  Eviction,     \* eviction is enabled
  Rewrites,     \* clients of Around set payloads
  SizeBytes,    \* DB.SizeBytes, the hard limit
  SoftLimit,    \* SoftMemoryLimitBytes
  Spins,        \* iterations of an eviction
  MaxDrift      \* bound: how far off the counters may be when a call begins

ASSUME HashAssumption    == HashOf \in [Keys -> Nat] /\ IsFiniteSet(Keys)
ASSUME SizesAssumption   == Sizes \in [Keys -> SUBSET Nat] /\ EntrySize \in Nat \ {0}
ASSUME EntriesAssumption == Entries \subseteq Nat \ {0}
ASSUME ProcsAssumption   == IsFiniteSet(Procs)
ASSUME SwitchAssumption  == {Admission, Eviction, Rewrites} \subseteq BOOLEAN
ASSUME LimitAssumption   == {SizeBytes, SoftLimit, Spins, MaxDrift} \subseteq Nat

Hashes   == { HashOf[k] : k \in Keys }
Payloads == [owner : Keys, size : UNION { Sizes[k] : k \in Keys }]

ASSUME NilAssumption     == Nil \notin Procs \cup Keys \cup Payloads

VARIABLES
  items,     \* Shard.items: the entry under each hash, 0 if there is none
  key,       \* Entry.key of each entry
  payload,   \* Entry.payload of each entry
  shardMem,  \* Shard.mem
  len,       \* Map.len
  mem,       \* Map.mem
  lock,      \* the goroutine inside Shard.Clear, Nil when nobody is
  pc,        \* where each goroutine is
  new,       \* the entry it made and has not published
  ref,       \* the entry it found in the map
  dMem,      \* what it has to add to Map.mem
  dLen,      \* what it has to add to Map.len
  backoff,   \* eviction: iterations left
  raced      \* history: the kinds of race that left a memory counter wrong

mapVars   == <<items, shardMem, lock>>
entryVars == <<key, payload>>
procVars  == <<pc, new, ref, dMem, dLen, backoff>>
vars == <<mapVars, entryVars, len, mem, procVars, raced>>

PCs == {"idle", "hit", "compute", "set", "compare", "weigh", "swap", "addMem",
        "addShardMem", "admit", "limit", "evict", "evictLock", "insert",
        "inserted", "remove", "removed", "clear", "cleared"}

TypeOK ==
  /\ items \in [Hashes -> Entries \cup {0}]
  /\ key \in [Entries -> Keys \cup {Nil}]
  /\ payload \in [Entries -> Payloads \cup {Nil}]
  /\ {shardMem, len, mem} \subseteq Int
  /\ lock \in Procs \cup {Nil}
  /\ pc \in [Procs -> PCs]
  /\ {new, ref} \subseteq [Procs -> Entries \cup {0}]
  /\ {dMem, dLen} \subseteq [Procs -> Int]
  /\ backoff \in [Procs -> 0 .. Spins]
  /\ raced \subseteq {"update", "pending", "lost"}

Init ==
  /\ items = [h \in Hashes |-> 0]
  /\ key = [e \in Entries |-> Nil]
  /\ payload = [e \in Entries |-> Nil]
  /\ shardMem = 0 /\ len = 0 /\ mem = 0
  /\ lock = Nil
  /\ pc = [p \in Procs |-> "idle"]
  /\ new = [p \in Procs |-> 0] /\ ref = [p \in Procs |-> 0]
  /\ dMem = [p \in Procs |-> 0] /\ dLen = [p \in Procs |-> 0]
  /\ backoff = [p \in Procs |-> 0]
  /\ raced = {}

-----------------------------------------------------------------------------
(* Entries *)

\* Mutant: every key has the same value.
KeyValueCoarse(k) == CHOOSE h \in Hashes : TRUE

KeyValue(k) == HashOf[k]

Weight(e) == EntrySize + (IF payload[e] = Nil THEN 0 ELSE payload[e].size)

IsTheSamePayload(d, e) == payload[d] = payload[e]

\* The entries in the map or in a goroutine's hands; the others are garbage,
\* and their identities can be used again.
Live(its, n, r) ==
  { its[h] : h \in Hashes } \cup { n[p] : p \in Procs } \cup { r[p] : p \in Procs }

Unused == Entries \ Live(items, new, ref)

\* What is left of a field f of the entries once the garbage is collected.
Swept(f) == [e \in Entries |-> IF e \in Live(items', new', ref') THEN f[e] ELSE Nil]

\* The fields as they are, but for the garbage.
Collect == key' = Swept(key) /\ payload' = Swept(payload)

-----------------------------------------------------------------------------
(* Helpers *)

\* A race of this kind happens when cond holds.
Races(kind, cond) == raced' = IF cond THEN raced \cup {kind} ELSE raced

Found(k) == items[KeyValue(k)]

\* Nobody holds the shard: its read or write lock can be taken.
Unlocked == lock = Nil

Goto(p, l) == pc' = [pc EXCEPT ![p] = l]

Owe(p, bytes, n) ==
  /\ dMem' = [dMem EXCEPT ![p] = bytes]
  /\ dLen' = [dLen EXCEPT ![p] = n]

Settled(p) == dMem[p] = 0 /\ dLen[p] = 0

\* The call returns and its local variables go.
Finish(p) ==
  /\ Goto(p, "idle")
  /\ new' = [new EXCEPT ![p] = 0]
  /\ ref' = [ref EXCEPT ![p] = 0]
  /\ backoff' = [backoff EXCEPT ![p] = 0]

-----------------------------------------------------------------------------
(* Get *)

\* The key is cached: its entry is found under the read lock.
GetFind(p, k) ==
  /\ pc[p] = "idle"
  /\ Unlocked
  /\ Found(k) # 0
  /\ key[Found(k)] = k
  /\ ref' = [ref EXCEPT ![p] = Found(k)]
  /\ Goto(p, "hit")
  /\ UNCHANGED <<mapVars, entryVars, len, mem, new, dMem, dLen, backoff, raced>>

\* The payload is loaded once the lock is released, and returned.
GetHit(p) ==
  /\ pc[p] = "hit"
  /\ Finish(p)
  /\ UNCHANGED <<mapVars, len, mem, dMem, dLen, raced>>
  /\ Collect

\* The key is not cached, or another key with its hash is: a new entry.
GetMiss(p, k) ==
  /\ pc[p] = "idle"
  /\ Unlocked
  /\ Found(k) # 0 => key[Found(k)] # k
  /\ \E e \in Unused :
       /\ \A d \in Unused : e <= d
       /\ new' = [new EXCEPT ![p] = e]
       /\ key' = [key EXCEPT ![e] = k]
  /\ Goto(p, "compute")
  /\ UNCHANGED <<mapVars, payload, len, mem, ref, dMem, dLen, backoff, raced>>

\* The callback returns an error, which Get returns.
ComputeFails(p) ==
  /\ pc[p] = "compute"
  /\ Finish(p)
  /\ UNCHANGED <<mapVars, len, mem, dMem, dLen, raced>>
  /\ Collect

\* The callback returns a payload, stored in the entry while it is private.
Compute(p) ==
  /\ pc[p] = "compute"
  /\ \E n \in Sizes[key[new[p]]] :
       payload' = [payload EXCEPT ![new[p]] = [owner |-> key[new[p]], size |-> n]]
  /\ Goto(p, "set")
  /\ UNCHANGED <<mapVars, key, len, mem, new, ref, dMem, dLen, backoff, raced>>

-----------------------------------------------------------------------------
(* set *)

SetFind(p) ==
  LET old == Found(key[new[p]]) IN
  /\ pc[p] = "set"
  /\ Unlocked
  /\ ref' = [ref EXCEPT ![p] = old]
  /\ Goto(p, IF old # 0 THEN "compare" ELSE "admit")
  /\ UNCHANGED <<mapVars, entryVars, len, mem, new, dMem, dLen, backoff, raced>>

\* The cached payload is the same: the entry is touched and stays.
SetSame(p) ==
  /\ pc[p] = "compare"
  /\ IsTheSamePayload(ref[p], new[p])
  /\ Finish(p)
  /\ UNCHANGED <<mapVars, len, mem, dMem, dLen, raced>>
  /\ Collect

SetDiffers(p) ==
  /\ pc[p] = "compare"
  /\ ~IsTheSamePayload(ref[p], new[p])
  /\ Goto(p, "weigh")
  /\ UNCHANGED <<mapVars, entryVars, len, mem, new, ref, dMem, dLen, backoff, raced>>

\* SwapPayloads loads the two weights...
UpdateWeigh(p) ==
  /\ pc[p] = "weigh"
  /\ Owe(p, Weight(new[p]) - Weight(ref[p]), 0)
  /\ Goto(p, "swap")
  /\ UNCHANGED <<mapVars, entryVars, len, mem, new, ref, backoff, raced>>

\* Mutant: set does not return after the update, and inserts the new entry too.
UpdateSwapNoReturn(p) ==
  LET e == ref[p] IN
  /\ pc[p] = "swap"
  /\ ref' = [ref EXCEPT ![p] = 0]
  /\ dMem' = [dMem EXCEPT ![p] = 0]
  /\ mem' = mem + dMem[p]
  /\ shardMem' = shardMem + dMem[p]
  /\ Goto(p, "admit")
  /\ UNCHANGED <<items, lock, len, new, dLen, backoff, raced>>
  /\ key' = Swept(key)
  /\ payload' = Swept([payload EXCEPT ![e] = payload[new[p]]])

\* ... then swaps the payload.  The weight it loaded is no longer the entry's,
\* or the entry is no longer in the map: what will be added is wrong.
UpdateSwap(p) ==
  LET e == ref[p] IN
  /\ pc[p] = "swap"
  /\ new' = [new EXCEPT ![p] = 0]
  /\ ref' = [ref EXCEPT ![p] = 0]
  /\ Races("update", \/ items[KeyValue(key[e])] # e
                     \/ dMem[p] # Weight(new[p]) - Weight(e))
  /\ Goto(p, "addMem")
  /\ UNCHANGED <<mapVars, len, mem, dMem, dLen, backoff>>
  /\ key' = Swept(key)
  /\ payload' = Swept([payload EXCEPT ![e] = payload[new[p]]])

UpdateAddMem(p) ==
  /\ pc[p] = "addMem"
  /\ mem' = mem + dMem[p]
  /\ Goto(p, "addShardMem")
  /\ UNCHANGED <<mapVars, entryVars, len, new, ref, dMem, dLen, backoff, raced>>

\* Mutant: the shard's counter is forgotten.
UpdateAddShardMemForgets(p) ==
  /\ pc[p] = "addShardMem"
  /\ dMem' = [dMem EXCEPT ![p] = 0]
  /\ Races("lost", ~Unlocked /\ dMem[p] # 0)
  /\ Finish(p)
  /\ UNCHANGED <<mapVars, entryVars, len, mem, dLen>>

\* Nothing keeps it out of a shard that is being cleared: between the load and
\* the store of Shard.Clear, what it adds is lost.
UpdateAddShardMem(p) ==
  /\ pc[p] = "addShardMem"
  /\ shardMem' = shardMem + dMem[p]
  /\ dMem' = [dMem EXCEPT ![p] = 0]
  /\ Races("lost", ~Unlocked /\ dMem[p] # 0)
  /\ Finish(p)
  /\ UNCHANGED <<items, lock, entryVars, len, mem, dLen>>

\* Admission control is on and both counters are positive.
Guarded == Admission /\ len > 0 /\ mem > 0

\* No victim is found, or the filter prefers it to the new entry.
AdmitReject(p) ==
  /\ pc[p] = "admit"
  /\ Guarded
  /\ Finish(p)
  /\ UNCHANGED <<mapVars, len, mem, dMem, dLen, raced>>
  /\ Collect

\* PickVictim needs an entry to compare the new one with.
AdmitPass(p) ==
  /\ pc[p] = "admit"
  /\ Guarded => Unlocked /\ \E h \in Hashes : items[h] # 0
  /\ Goto(p, "limit")
  /\ UNCHANGED <<mapVars, entryVars, len, mem, new, ref, dMem, dLen, backoff, raced>>

HardMemoryLimitOvercome == Eviction /\ len > 0 /\ mem > SizeBytes

CheckLimit(p) ==
  /\ pc[p] = "limit"
  /\ IF HardMemoryLimitOvercome
       THEN Goto(p, "evict") /\ backoff' = [backoff EXCEPT ![p] = Spins]
       ELSE Goto(p, "insert") /\ UNCHANGED backoff
  /\ UNCHANGED <<mapVars, entryVars, len, mem, new, ref, dMem, dLen, raced>>

\* Mutant: the weight of the entry that came first is not deducted.
InsertForgetsOld(p) ==
  LET h   == KeyValue(key[new[p]])
      old == items[h]
      by  == Weight(new[p])
  IN
  /\ pc[p] = "insert"
  /\ Unlocked
  /\ items' = [items EXCEPT ![h] = new[p]]
  /\ shardMem' = shardMem + by
  /\ Owe(p, by, IF old = 0 THEN 1 ELSE 0)
  /\ new' = [new EXCEPT ![p] = 0]
  /\ Goto(p, "inserted")
  /\ UNCHANGED ref
  /\ UNCHANGED <<lock, len, mem, backoff, raced>>
  /\ Collect

\* Shard.Set: the entry is published.  A goroutine that came first loses its
\* entry.
Insert(p) ==
  LET h   == KeyValue(key[new[p]])
      old == items[h]
      by  == Weight(new[p]) - (IF old = 0 THEN 0 ELSE Weight(old))
  IN
  /\ pc[p] = "insert"
  /\ Unlocked
  /\ items' = [items EXCEPT ![h] = new[p]]
  /\ shardMem' = shardMem + by
  /\ Owe(p, by, IF old = 0 THEN 1 ELSE 0)
  /\ new' = [new EXCEPT ![p] = 0]
  /\ Goto(p, "inserted")
  /\ UNCHANGED ref
  /\ UNCHANGED <<lock, len, mem, backoff, raced>>
  /\ Collect

-----------------------------------------------------------------------------
(* Del and Clear *)

DelFind(p, k) ==
  /\ pc[p] = "idle"
  /\ Unlocked
  /\ Found(k) # 0
  /\ key[Found(k)] = k
  /\ ref' = [ref EXCEPT ![p] = Found(k)]
  /\ Goto(p, "remove")
  /\ UNCHANGED <<mapVars, entryVars, len, mem, new, dMem, dLen, backoff, raced>>

\* Shard.RemoveUnlocked: takes out the entry that has the key of e now, which
\* need not be e, and owes what it weighs.
RemoveKeyOf(p, e) ==
  LET h   == KeyValue(key[e])
      old == items[h]
  IN
  /\ Unlocked
  /\ IF old = 0
       THEN UNCHANGED <<items, shardMem, dMem, dLen>>
       ELSE /\ items' = [items EXCEPT ![h] = 0]
            /\ shardMem' = shardMem - Weight(old)
            /\ Owe(p, -Weight(old), -1)
  /\ ref' = [ref EXCEPT ![p] = 0]
  /\ UNCHANGED <<lock, new, len, mem, raced>>
  /\ Collect

Remove(p) ==
  /\ pc[p] = "remove"
  /\ RemoveKeyOf(p, ref[p])
  /\ Goto(p, "removed")
  /\ UNCHANGED backoff

NumItems == Cardinality(Support(items, Hashes))

\* Shard.Clear takes the lock and loads the shard's counters...
ClearLock(p) ==
  /\ pc[p] = "idle"
  /\ Unlocked
  /\ lock' = p
  /\ Owe(p, -shardMem, -NumItems)
  /\ Goto(p, "clear")
  /\ UNCHANGED <<items, shardMem, entryVars, len, mem, new, ref, backoff, raced>>

\* ... and stores zeros.  An update that has swapped its payload and not yet
\* added to the shard is not in what was loaded: it will add to both counters for
\* an entry that is gone.
ClearStore(p) ==
  /\ pc[p] = "clear"
  /\ items' = [h \in Hashes |-> 0]
  /\ shardMem' = 0
  /\ lock' = Nil
  /\ Races("pending", \E q \in Procs : pc[q] \in {"addMem", "addShardMem"} /\ dMem[q] # 0)
  /\ Goto(p, "cleared")
  /\ UNCHANGED <<new, ref>>
  /\ UNCHANGED <<len, mem, dMem, dLen, backoff>>
  /\ Collect

-----------------------------------------------------------------------------
(* What Set, Remove, Clear and an eviction add to the map's counters once    *)
(* the shard is unlocked: Remove the length first, the others the bytes.     *)

Owes(p) == pc[p] \in {"inserted", "removed", "cleared", "evict"}

AggregateMem(p) ==
  /\ Owes(p)
  /\ dMem[p] # 0
  /\ pc[p] = "removed" => dLen[p] = 0
  /\ mem' = mem + dMem[p]
  /\ dMem' = [dMem EXCEPT ![p] = 0]
  /\ UNCHANGED <<mapVars, entryVars, len, pc, new, ref, dLen, backoff, raced>>

\* Mutant: the number of items only grows.
AggregateLenGrows(p) ==
  /\ Owes(p)
  /\ dLen[p] # 0
  /\ pc[p] # "removed" => dMem[p] = 0
  /\ len' = len + (IF dLen[p] > 0 THEN dLen[p] ELSE 0)
  /\ dLen' = [dLen EXCEPT ![p] = 0]
  /\ UNCHANGED <<mapVars, entryVars, mem, pc, new, ref, dMem, backoff, raced>>

AggregateLen(p) ==
  /\ Owes(p)
  /\ dLen[p] # 0
  /\ pc[p] # "removed" => dMem[p] = 0
  /\ len' = len + dLen[p]
  /\ dLen' = [dLen EXCEPT ![p] = 0]
  /\ UNCHANGED <<mapVars, entryVars, mem, pc, new, ref, dMem, backoff, raced>>

Return(p) ==
  /\ pc[p] \in {"inserted", "removed", "cleared"}
  /\ Settled(p)
  /\ Finish(p)
  /\ UNCHANGED <<mapVars, entryVars, len, mem, dMem, dLen, raced>>

-----------------------------------------------------------------------------
(* EvictUntilWithinLimit by sampling, for the hard limit inside set and for  *)
(* the soft limit in the evictor's goroutine.                                *)

BeginSoftEvict(p) ==
  /\ Eviction
  /\ pc[p] = "idle"
  /\ len > 0
  /\ Goto(p, "evict")
  /\ backoff' = [backoff EXCEPT ![p] = Spins]
  /\ UNCHANGED <<mapVars, entryVars, len, mem, new, ref, dMem, dLen, raced>>

\* The goroutine inside set has an entry to insert.
EvictLimit(p) == IF new[p] = 0 THEN SoftLimit ELSE SizeBytes

\* Mutant: the iterations are not counted down to an end.
EvictingForever(p) ==
  /\ pc[p] = "evict"
  /\ Settled(p)
  /\ mem > EvictLimit(p)

\* An iteration is left and usage is still above the limit.
Evicting(p) ==
  /\ pc[p] = "evict"
  /\ Settled(p)
  /\ mem > EvictLimit(p)
  /\ backoff[p] > 0

\* PickVictim holds the read lock while it chooses, and returns a reference.
EvictPick(p) ==
  /\ Evicting(p)
  /\ Unlocked
  /\ \E h \in Hashes : items[h] # 0 /\ ref' = [ref EXCEPT ![p] = items[h]]
  /\ Goto(p, "evictLock")
  /\ UNCHANGED <<mapVars, entryVars, len, mem, new, dMem, dLen, backoff, raced>>

\* The sampled shards are empty, or somebody holds their locks.
EvictNoVictim(p) ==
  /\ Evicting(p)
  /\ backoff' = [backoff EXCEPT ![p] = @ - 1]
  /\ UNCHANGED <<mapVars, entryVars, len, mem, pc, new, ref, dMem, dLen, raced>>

\* Mutant: a failed attempt costs no iteration.
EvictTryLockFailsFree(p) ==
  /\ pc[p] = "evictLock"
  /\ \E q \in Procs \ {p} : pc[q] # "idle"
  /\ ref' = [ref EXCEPT ![p] = 0]
  /\ Goto(p, "evict")
  /\ UNCHANGED <<mapVars, len, mem, new, dMem, dLen, backoff, raced>>
  /\ Collect

\* tryLock gives up: somebody is in the shard.
EvictTryLockFails(p) ==
  /\ pc[p] = "evictLock"
  /\ \E q \in Procs \ {p} : pc[q] # "idle"
  /\ ref' = [ref EXCEPT ![p] = 0]
  /\ backoff' = [backoff EXCEPT ![p] = @ - 1]
  /\ Goto(p, "evict")
  /\ UNCHANGED <<mapVars, len, mem, new, dMem, dLen, raced>>
  /\ Collect

\* Removes by the victim's key what is there now.
EvictRemove(p) ==
  /\ pc[p] = "evictLock"
  /\ RemoveKeyOf(p, ref[p])
  /\ backoff' = [backoff EXCEPT ![p] = @ - 1]
  /\ Goto(p, "evict")

EndEvict(p) ==
  /\ pc[p] = "evict"
  /\ Settled(p)
  /\ mem <= EvictLimit(p) \/ backoff[p] = 0
  /\ IF new[p] = 0
       THEN Finish(p)
       ELSE /\ Goto(p, "insert")
            /\ backoff' = [backoff EXCEPT ![p] = 0]
            /\ UNCHANGED <<new, ref>>
  /\ UNCHANGED <<mapVars, entryVars, len, mem, dMem, dLen, raced>>

-----------------------------------------------------------------------------

\* What each entry of the map weighs now.
Held == [h \in Hashes |-> IF items[h] = 0 THEN 0 ELSE Weight(items[h])]

\* What goroutines have still to add to each counter.
OwedMem   == [p \in Procs |-> IF pc[p] \in {"swap", "clear", "addShardMem"} THEN 0 ELSE dMem[p]]
OwedShard == [p \in Procs |-> IF pc[p] \in {"addMem", "addShardMem"} THEN dMem[p] ELSE 0]
OwedLen   == [p \in Procs |-> IF pc[p] = "clear" THEN 0 ELSE dLen[p]]

Drift(counter, owed) == counter + NetOn(owed, Procs) - SumOn(Held, Hashes)

\* The bound on how far the memory counters drift.  Nothing in the code has it.
DriftBounded == {Drift(mem, OwedMem), Drift(shardMem, OwedShard)} \subseteq -MaxDrift .. MaxDrift

\* Around: the client's function sets an entry's payload under the shard's
\* lock.  No counter is told.
AroundSetPayload(k, n) ==
  LET e == Found(k) IN
  /\ Rewrites
  /\ DriftBounded
  /\ Unlocked
  /\ e # 0
  /\ key[e] = k
  /\ payload' = [payload EXCEPT ![e] = [owner |-> k, size |-> n]]
  /\ Races("update", Weight(e) # EntrySize + n)
  /\ UNCHANGED <<mapVars, key, len, mem, procVars>>

\* The steps of a call that has begun.
Step(p) ==
  \/ GetHit(p) \/ ComputeFails(p) \/ Compute(p)
  \/ SetFind(p) \/ SetSame(p) \/ SetDiffers(p)
  \/ UpdateWeigh(p) \/ UpdateSwap(p) \/ UpdateAddMem(p) \/ UpdateAddShardMem(p)
  \/ AdmitReject(p) \/ AdmitPass(p) \/ CheckLimit(p) \/ Insert(p)
  \/ Remove(p) \/ ClearStore(p)
  \/ AggregateMem(p) \/ AggregateLen(p) \/ Return(p)
  \/ EvictPick(p) \/ EvictNoVictim(p) \/ EvictTryLockFails(p)
  \/ EvictRemove(p) \/ EndEvict(p)

\* A client, or the evictor, begins a call.
Call(p) ==
  \/ /\ DriftBounded
     /\ \/ \E k \in Keys : GetFind(p, k) \/ GetMiss(p, k) \/ DelFind(p, k)
        \/ BeginSoftEvict(p)
  \/ ClearLock(p)

Next ==
  \/ \E p \in Procs : Call(p) \/ Step(p)
  \/ \E k \in Keys : \E n \in Sizes[k] : AroundSetPayload(k, n)

Spec == Init /\ [][Next]_vars

\* A goroutine inside a call goes on, its callback returns, and Go's RWMutex
\* does not starve who waits for it.
FairSpec == Spec /\ \A p \in Procs : SF_vars(Step(p))

-----------------------------------------------------------------------------
(* Properties *)

\* No insertion, eviction, removal or Clear is counted twice or lost, however
\* they interleave (cache.go:82, 165, map.go:53-76, 124-134, eviction.go:57-67).
LenConserved == len + NetOn(OwedLen, Procs) = Cardinality(Support(items, Hashes))

\* Replacing payloads in place without a lock keeps both memory counters exact
\* but for the races named in UpdateSwap, UpdateAddShardMem and ClearStore, and
\* for payloads set through Around (cache.go:183-189, payload.go:31-36,
\* map.go:140-143, shard.go:104-121).
MemConservedUnlessRaced ==
  raced = {} => Drift(mem, OwedMem) = 0 /\ Drift(shardMem, OwedShard) = 0

\* The map's memory counter and its shards' agree even after updates have left
\* both wrong, also updates whose addition was pending while the shard was cleared,
\* so that a later Clear brings both back to zero.  Only an update that adds to a
\* shard between the load and the store of its Clear parts them (map.go:28,
\* 124-134, 140-143, shard.go:104-121).
CountersAgree ==
  "lost" \notin raced => Drift(mem, OwedMem) = Drift(shardMem, OwedShard)

\* A hit returns a payload made for the key it was asked for: what the entry of
\* a key holds was computed for that key (cache.go:47-52, 138-144).  It needs
\* hashes without collisions.
OwnPayload ==
  \A h \in Hashes :
    items[h] # 0 => /\ payload[items[h]] # Nil
                    /\ payload[items[h]].owner = key[items[h]]

\* What the cache holds for each key, and what each call has still to store.
Contents == [k \in Keys |->
  IF Found(k) # 0 /\ key[Found(k)] = k THEN payload[Found(k)] ELSE Nil]
Answers  == [p \in Procs |-> IF new[p] = 0 THEN Nil ELSE payload[new[p]]]

Contract == INSTANCE CacheContract WITH contents <- Contents, answer <- Answers

\* To a client the cache is CacheContract: whichever calls, evictions, removals and
\* updates of an entry that has left the map come between, an answer enters once,
\* under its own key and while its call runs, and what was removed does not come
\* back by itself (cache.go:46-73, 138-172, 183-189, payload.go:31-36).  It needs
\* hashes without collisions.
ImplementsContract == Contract!ContractSpec

\* Every call returns: an eviction gives up after its iterations, and nobody
\* waits for ever for a shard.
EveryCallReturns == \A p \in Procs : pc[p] # "idle" ~> pc[p] = "idle"

\* "a sharded concurrent map with precise global counters" (map.go:24).
MemPreciseAtRest ==
  (\A p \in Procs : pc[p] = "idle") => mem = SumOn(Held, Hashes)
=============================================================================
