---------------------------- MODULE CacheOpsProofs ----------------------------
(***************************************************************************)
(* The accounting of CacheOps is right, and a key yields its own payload,  *)
(* for any number of keys, entries and goroutines and any sizes.           *)
(***************************************************************************)
EXTENDS CacheOps, NumberTheorems, FiniteSetTheorems, TLAPS

LEMMA HashesFinite == IsFiniteSet(Hashes)
<1> DEFINE f == [k \in Keys |-> HashOf[k]]
<1>1. f \in Surjection(Keys, Hashes)
  BY DEF Surjection, Hashes
<1> QED BY <1>1, HashAssumption, FS_Surjection

LEMMA KeyValueType == \A k \in Keys : KeyValue(k) \in Hashes
BY DEF KeyValue, Hashes

-----------------------------------------------------------------------------
(***************************************************************************)
(* Types, and what a goroutine holds at which point.                       *)
(***************************************************************************)

MapTypes ==
  /\ items \in [Hashes -> Entries \cup {0}]
  /\ shardMem \in Int /\ len \in Int /\ mem \in Int
  /\ lock \in Procs \cup {Nil}
  /\ raced \in SUBSET {"update", "pending", "lost"}

EntryTypes ==
  /\ key \in [Entries -> Keys \cup {Nil}]
  /\ payload \in [Entries -> Payloads \cup {Nil}]

ProcTypes ==
  /\ pc \in [Procs -> PCs]
  /\ new \in [Procs -> Entries \cup {0}] /\ ref \in [Procs -> Entries \cup {0}]
  /\ dMem \in [Procs -> Int] /\ dLen \in [Procs -> Int]
  /\ backoff \in [Procs -> 0 .. Spins]

LEMMA TypeOKSplit == TypeOK <=> MapTypes /\ EntryTypes /\ ProcTypes
BY DEF TypeOK, MapTypes, EntryTypes, ProcTypes

\* A goroutine owes something only after a section of its own, an update or
\* inside an eviction, and has in hands what its step works on.
LocalsOK ==
  \A p \in Procs :
    /\ pc[p] \in {"compute", "set", "compare", "weigh", "swap", "admit", "limit", "insert"}
         => new[p] # 0
    /\ pc[p] \in {"hit", "compare", "weigh", "swap", "remove", "evictLock"} => ref[p] # 0
    /\ pc[p] = "evictLock" => backoff[p] > 0
    /\ pc[p] \notin {"inserted", "removed", "cleared", "evict", "clear"} => dLen[p] = 0
    /\ pc[p] \notin {"inserted", "removed", "cleared", "evict", "clear",
                     "swap", "addMem", "addShardMem"} => dMem[p] = 0
    /\ pc[p] = "clear" => lock = p

\* The entries of the map and of the goroutines have keys, those of the map the
\* keys they are found under.
KeysOK ==
  /\ \A h \in Hashes :
       items[h] # 0 => key[items[h]] \in Keys /\ KeyValue(key[items[h]]) = h
  /\ \A p \in Procs : new[p] # 0 => key[new[p]] \in Keys
  /\ \A p \in Procs : ref[p] # 0 => key[ref[p]] \in Keys

Base == MapTypes /\ EntryTypes /\ ProcTypes /\ LocalsOK /\ KeysOK

LEMMA WeightType ==
  ASSUME EntryTypes, NEW e \in Entries
  PROVE  Weight(e) \in Nat /\ Weight(e) # 0
<1>1. EntrySize \in Nat \ {0} /\ \A k \in Keys : Sizes[k] \subseteq Nat
  BY SizesAssumption
<1>2. \A d \in Payloads : d.size \in Nat
  BY <1>1 DEF Payloads
<1>3. payload[e] # Nil => payload[e].size \in Nat
  BY <1>2 DEF EntryTypes
<1> QED BY <1>1, <1>3 DEF Weight

\* What Collect keeps.
LEMMA SweptKeeps ==
  ASSUME NEW f, NEW e \in Entries,
         \/ \E h \in Hashes : items'[h] = e
         \/ \E p \in Procs : new'[p] = e \/ ref'[p] = e
  PROVE  Swept(f)[e] = f[e]
<1>1. e \in Live(items', new', ref')
  BY DEF Live
<1> QED BY <1>1 DEF Swept

LEMMA SweptType ==
  ASSUME NEW S, NEW f \in [Entries -> S \cup {Nil}]
  PROVE  Swept(f) \in [Entries -> S \cup {Nil}]
BY DEF Swept

-----------------------------------------------------------------------------
(***************************************************************************)
(* Types and locals, step by step.                                         *)
(***************************************************************************)

\* The goroutine p moves and leaves the others where they are.
Others(p) ==
  \A q \in Procs \ {p} :
    /\ pc'[q] = pc[q] /\ new'[q] = new[q] /\ ref'[q] = ref[q]
    /\ dMem'[q] = dMem[q] /\ dLen'[q] = dLen[q] /\ backoff'[q] = backoff[q]

Moved(p) == ProcTypes' /\ LocalsOK' /\ Others(p)

\* Steps that leave the map alone.
LEMMA QuietSteps ==
  ASSUME Base, NEW p \in Procs,
         \/ \E k \in Keys : GetFind(p, k) \/ GetMiss(p, k) \/ DelFind(p, k)
         \/ GetHit(p) \/ ComputeFails(p) \/ Compute(p)
         \/ SetFind(p) \/ SetSame(p) \/ SetDiffers(p)
         \/ AdmitReject(p) \/ AdmitPass(p) \/ CheckLimit(p) \/ BeginSoftEvict(p)
         \/ EvictPick(p) \/ EvictNoVictim(p) \/ EvictTryLockFails(p) \/ EndEvict(p)
         \/ Return(p)
  PROVE  Moved(p)
<1> USE DEF Moved, Others, ProcTypes, LocalsOK, PCs, Goto, Finish
<1>0. /\ ProcTypes /\ LocalsOK /\ 0 \in 0 .. Spins /\ Spins \in 0 .. Spins
      /\ \A h \in Hashes : items[h] \in Entries \cup {0}
      /\ lock \in Procs \cup {Nil}
      /\ \A e \in Entries : e # 0
  BY LimitAssumption, EntriesAssumption DEF Base, MapTypes
<1>1. ASSUME NEW k \in Keys, GetFind(p, k) PROVE Moved(p)
  <2>1. Found(k) \in Entries \cup {0}
    BY <1>0, KeyValueType DEF Found
  <2> QED BY <1>0, <1>1, <2>1 DEF GetFind, mapVars
<1>2. CASE GetHit(p)
  BY <1>0, <1>2 DEF GetHit, mapVars
<1>3. ASSUME NEW k \in Keys, GetMiss(p, k) PROVE Moved(p)
  <2>1. PICK e \in Unused : new' = [new EXCEPT ![p] = e]
    BY <1>3 DEF GetMiss
  <2>2. e \in Entries
    BY DEF Unused
  <2> QED BY <1>0, <1>3, <2>1, <2>2 DEF GetMiss, mapVars
<1>4. CASE ComputeFails(p)
  BY <1>0, <1>4 DEF ComputeFails, mapVars
<1>5. CASE Compute(p)
  BY <1>0, <1>5 DEF Compute, mapVars
<1>6. CASE SetFind(p)
  <2>1. Found(key[new[p]]) \in Entries \cup {0}
    BY <1>0, <1>6, KeyValueType DEF Found, SetFind, Base, KeysOK
  <2> QED BY <1>0, <1>6, <2>1 DEF SetFind, mapVars
<1>7. CASE SetSame(p)
  BY <1>0, <1>7 DEF SetSame, mapVars
<1>8. CASE SetDiffers(p)
  BY <1>0, <1>8 DEF SetDiffers, mapVars
<1>9. CASE AdmitReject(p)
  BY <1>0, <1>9 DEF AdmitReject, mapVars
<1>10. CASE AdmitPass(p)
  BY <1>0, <1>10 DEF AdmitPass, mapVars
<1>11. CASE CheckLimit(p)
  BY <1>0, <1>11 DEF CheckLimit, mapVars
<1>12. ASSUME NEW k \in Keys, DelFind(p, k) PROVE Moved(p)
  <2>1. Found(k) \in Entries \cup {0}
    BY <1>0, KeyValueType DEF Found
  <2> QED BY <1>0, <1>12, <2>1 DEF DelFind, mapVars
<1>13. CASE BeginSoftEvict(p)
  BY <1>0, <1>13 DEF BeginSoftEvict, mapVars
<1>14. CASE EvictPick(p)
  BY <1>0, <1>14 DEF EvictPick, Evicting, Settled, mapVars
<1>15. CASE EvictNoVictim(p)
  <2>1. backoff[p] - 1 \in 0 .. Spins
    BY <1>0, <1>15, LimitAssumption DEF EvictNoVictim, Evicting
  <2> QED BY <1>0, <1>15, <2>1 DEF EvictNoVictim, Evicting, mapVars
<1>16. CASE EvictTryLockFails(p)
  <2>1. backoff[p] - 1 \in 0 .. Spins
    BY <1>0, <1>16, LimitAssumption DEF EvictTryLockFails
  <2> QED BY <1>0, <1>16, <2>1 DEF EvictTryLockFails, mapVars
<1>17. CASE EndEvict(p)
  BY <1>0, <1>17 DEF EndEvict, Settled, mapVars
<1>18. CASE Return(p)
  BY <1>0, <1>18 DEF Return, Settled, mapVars
<1> QED BY <1>1, <1>2, <1>3, <1>4, <1>5, <1>6, <1>7, <1>8, <1>9, <1>10, <1>11,
           <1>12, <1>13, <1>14, <1>15, <1>16, <1>17, <1>18

\* Steps of an update.
LEMMA UpdateSteps ==
  ASSUME Base, NEW p \in Procs,
         \/ UpdateWeigh(p) \/ UpdateSwap(p) \/ UpdateAddMem(p) \/ UpdateAddShardMem(p)
  PROVE  Moved(p)
<1> USE DEF Moved, Others, ProcTypes, LocalsOK, PCs, Goto, Finish, Owe
<1>0. /\ ProcTypes /\ LocalsOK /\ 0 \in 0 .. Spins
      /\ lock \in Procs \cup {Nil}
  BY LimitAssumption DEF Base, MapTypes
<1>1. CASE UpdateWeigh(p)
  <2>1. Weight(new[p]) \in Nat /\ Weight(ref[p]) \in Nat
    BY <1>0, <1>1, WeightType DEF Base, UpdateWeigh
  <2>2. Weight(new[p]) - Weight(ref[p]) \in Int
    BY <2>1
  <2> QED BY <1>0, <1>1, <2>2 DEF UpdateWeigh, mapVars
<1>2. CASE UpdateSwap(p)
  BY <1>0, <1>2 DEF UpdateSwap, mapVars
<1>3. CASE UpdateAddMem(p)
  BY <1>0, <1>3 DEF UpdateAddMem, mapVars
<1>4. CASE UpdateAddShardMem(p)
  BY <1>0, <1>4 DEF UpdateAddShardMem
<1> QED BY <1>1, <1>2, <1>3, <1>4

LEMMA NumItemsType ==
  ASSUME MapTypes
  PROVE  NumItems \in Nat
BY HashesFinite, SupportType DEF NumItems

\* A goroutine that holds a lock would keep p out.
LEMMA NobodyClears ==
  ASSUME LocalsOK, Unlocked
  PROVE  \A q \in Procs : pc[q] # "clear"
BY NilAssumption DEF LocalsOK, Unlocked

\* Steps that change the map or a global counter.
LEMMA SectionSteps ==
  ASSUME Base, NEW p \in Procs,
         \/ Insert(p) \/ Remove(p) \/ EvictRemove(p) \/ ClearLock(p) \/ ClearStore(p)
         \/ AggregateMem(p) \/ AggregateLen(p)
  PROVE  Moved(p)
<1> USE DEF Moved, Others, ProcTypes, LocalsOK, PCs, Goto, Owe
<1>0. /\ ProcTypes /\ LocalsOK /\ 0 \in 0 .. Spins
      /\ \A h \in Hashes : items[h] \in Entries \cup {0}
      /\ lock \in Procs \cup {Nil} /\ shardMem \in Int
      /\ EntryTypes
      /\ \A e \in Entries : Weight(e) \in Nat
  BY LimitAssumption, WeightType DEF Base, MapTypes
<1>1. CASE Insert(p)
  <2> DEFINE h == KeyValue(key[new[p]])
             by == Weight(new[p]) - (IF items[h] = 0 THEN 0 ELSE Weight(items[h]))
  <2>1. h \in Hashes /\ new[p] \in Entries
    BY <1>0, <1>1, KeyValueType DEF Base, KeysOK, Insert
  <2>2. by \in Int
    BY <1>0, <2>1
  <2>3. Owe(p, by, IF items[h] = 0 THEN 1 ELSE 0)
    BY <1>1 DEF Insert
  <2> HIDE DEF by, h
  <2> QED BY <1>0, <1>1, <2>2, <2>3, NobodyClears DEF Insert
<1>2. ASSUME pc[p] \in {"remove", "evictLock"}, RemoveKeyOf(p, ref[p])
      PROVE  /\ dMem' \in [Procs -> Int] /\ dLen' \in [Procs -> Int]
             /\ \A q \in Procs \ {p} : dMem'[q] = dMem[q] /\ dLen'[q] = dLen[q]
             /\ ref' \in [Procs -> Entries \cup {0}]
             /\ \A q \in Procs \ {p} : ref'[q] = ref[q]
             /\ new' = new /\ lock' = lock
             /\ \A q \in Procs : pc[q] # "clear"
  <2> DEFINE h == KeyValue(key[ref[p]])
  <2>1. h \in Hashes
    BY <1>0, <1>2, KeyValueType DEF Base, KeysOK
  <2>2. CASE items[h] = 0
    BY <1>0, <1>2, <2>2, NobodyClears DEF RemoveKeyOf
  <2>3. CASE items[h] # 0
    <3>1. -Weight(items[h]) \in Int
      BY <1>0, <2>1, <2>3
    <3>2. Owe(p, -Weight(items[h]), -1)
      BY <1>2, <2>3 DEF RemoveKeyOf
    <3> HIDE DEF h
    <3> QED BY <1>0, <1>2, <3>1, <3>2, NobodyClears DEF RemoveKeyOf
  <2> QED BY <2>2, <2>3
<1>3. CASE Remove(p)
  <2> HIDE DEF Owe
  <2> QED BY <1>0, <1>2, <1>3 DEF Remove
<1>4. CASE EvictRemove(p)
  <2>1. backoff[p] - 1 \in 0 .. Spins
    BY <1>0, <1>4, LimitAssumption DEF EvictRemove
  <2> HIDE DEF Owe
  <2> QED BY <1>0, <1>2, <1>4, <2>1 DEF EvictRemove
<1>5. CASE ClearLock(p)
  <2>1. -shardMem \in Int /\ -NumItems \in Int
    BY <1>0, NumItemsType DEF Base
  <2> QED BY <1>0, <1>5, <2>1, NobodyClears DEF ClearLock
<1>6. CASE ClearStore(p)
  BY <1>0, <1>6 DEF ClearStore
<1>7. CASE AggregateMem(p)
  BY <1>0, <1>7 DEF AggregateMem, Owes, mapVars
<1>8. CASE AggregateLen(p)
  BY <1>0, <1>8 DEF AggregateLen, Owes, mapVars
<1> QED BY <1>1, <1>3, <1>4, <1>5, <1>6, <1>7, <1>8

\* Every step of a goroutine.
LEMMA Moves ==
  ASSUME Base, NEW p \in Procs, Call(p) \/ Step(p)
  PROVE  Moved(p)
BY QuietSteps, UpdateSteps, SectionSteps DEF Call, Step

-----------------------------------------------------------------------------
(***************************************************************************)
(* Entries: what they can be reached by, and their keys.                   *)
(***************************************************************************)

\* References come from where references were; the entry that p has made may
\* get into the map, under its hash.
Shape(p) ==
  /\ \A h \in Hashes :
       \/ items'[h] = items[h] \/ items'[h] = 0
       \/ new[p] # 0 /\ items'[h] = new[p] /\ h = KeyValue(key[new[p]])
  /\ \A q \in Procs : new'[q] = new[q] \/ new'[q] = 0
  /\ \A q \in Procs :
       \/ ref'[q] = ref[q] \/ ref'[q] = 0
       \/ \E h \in Hashes : ref'[q] = items[h]

\* The entries that can be reached have the fields f they had.
Kept(f, g) ==
  /\ \A h \in Hashes : items'[h] # 0 => g[items'[h]] = f[items'[h]]
  /\ \A q \in Procs : new'[q] # 0 => g[new'[q]] = f[new'[q]]
  /\ \A q \in Procs : ref'[q] # 0 => g[ref'[q]] = f[ref'[q]]

LEMMA SweptKept ==
  ASSUME MapTypes', ProcTypes', NEW f
  PROVE  Kept(f, Swept(f))
<1>1. ASSUME NEW h \in Hashes, items'[h] # 0 PROVE Swept(f)[items'[h]] = f[items'[h]]
  <2>1. items'[h] \in Entries
    BY <1>1 DEF MapTypes
  <2> QED BY <2>1, SweptKeeps
<1>2. ASSUME NEW q \in Procs, new'[q] # 0 PROVE Swept(f)[new'[q]] = f[new'[q]]
  <2>1. new'[q] \in Entries
    BY <1>2 DEF ProcTypes
  <2> QED BY <2>1, SweptKeeps
<1>3. ASSUME NEW q \in Procs, ref'[q] # 0 PROVE Swept(f)[ref'[q]] = f[ref'[q]]
  <2>1. ref'[q] \in Entries
    BY <1>3 DEF ProcTypes
  <2> QED BY <2>1, SweptKeeps
<1> QED BY <1>1, <1>2, <1>3 DEF Kept

LEMMA ShapeKeepsKeys ==
  ASSUME Base, NEW p \in Procs, Shape(p), Kept(key, key')
  PROVE  KeysOK'
<1>1. ASSUME NEW h \in Hashes, items'[h] # 0
      PROVE  key'[items'[h]] \in Keys /\ KeyValue(key'[items'[h]]) = h
  <2>1. key'[items'[h]] = key[items'[h]]
    BY <1>1 DEF Kept
  <2> QED BY <1>1, <2>1 DEF Base, KeysOK, Shape
<1>2. ASSUME NEW q \in Procs, new'[q] # 0 PROVE key'[new'[q]] \in Keys
  <2>1. key'[new'[q]] = key[new'[q]]
    BY <1>2 DEF Kept
  <2> QED BY <1>2, <2>1 DEF Base, KeysOK, Shape
<1>3. ASSUME NEW q \in Procs, ref'[q] # 0 PROVE key'[ref'[q]] \in Keys
  <2>1. key'[ref'[q]] = key[ref'[q]]
    BY <1>3 DEF Kept
  <2> QED BY <1>3, <2>1 DEF Base, KeysOK, Shape
<1> QED BY <1>1, <1>2, <1>3 DEF KeysOK, KeyValue

\* The steps of p, by what they do to the entries.
Collects(p) ==
  \/ GetHit(p) \/ ComputeFails(p) \/ SetSame(p) \/ AdmitReject(p)
  \/ Insert(p) \/ Remove(p) \/ EvictRemove(p) \/ ClearStore(p) \/ EvictTryLockFails(p)

Leaves(p) ==
  \/ \E k \in Keys : GetFind(p, k) \/ DelFind(p, k)
  \/ SetFind(p) \/ SetDiffers(p)
  \/ UpdateWeigh(p) \/ UpdateAddMem(p) \/ UpdateAddShardMem(p)
  \/ AdmitPass(p) \/ CheckLimit(p) \/ ClearLock(p) \/ BeginSoftEvict(p)
  \/ AggregateMem(p) \/ AggregateLen(p) \/ Return(p)
  \/ EvictPick(p) \/ EvictNoVictim(p) \/ EndEvict(p)

LEMMA StepsSplit ==
  ASSUME NEW p, Call(p) \/ Step(p)
  PROVE  \/ Collects(p) \/ Leaves(p) \/ \E k \in Keys : GetMiss(p, k)
         \/ Compute(p) \/ UpdateSwap(p)
BY DEF Call, Step, Collects, Leaves

LEMMA CollectsShape ==
  ASSUME Base, NEW p \in Procs, Collects(p)
  PROVE  /\ Shape(p) /\ Collect
         /\ items' \in [Hashes -> Entries \cup {0}]
         /\ lock' \in Procs \cup {Nil}
         /\ len' = len /\ mem' = mem
<1>0. /\ items \in [Hashes -> Entries \cup {0}]
      /\ new \in [Procs -> Entries \cup {0}] /\ ref \in [Procs -> Entries \cup {0}]
      /\ lock \in Procs \cup {Nil} /\ LocalsOK
  BY DEF Base, MapTypes, ProcTypes
<1> USE DEF Shape
<1>1. CASE GetHit(p)
  BY <1>0, <1>1 DEF GetHit, Finish, mapVars
<1>2. CASE ComputeFails(p)
  BY <1>0, <1>2 DEF ComputeFails, Finish, mapVars
<1>3. CASE SetSame(p)
  BY <1>0, <1>3 DEF SetSame, Finish, mapVars
<1>4. CASE AdmitReject(p)
  BY <1>0, <1>4 DEF AdmitReject, Finish, mapVars
<1>5. CASE Insert(p)
  <2> DEFINE h == KeyValue(key[new[p]])
  <2>1. h \in Hashes /\ new[p] \in Entries /\ new[p] # 0
    BY <1>0, <1>5, KeyValueType DEF Base, KeysOK, Insert, LocalsOK
  <2>2. /\ items' = [items EXCEPT ![h] = new[p]]
        /\ new' = [new EXCEPT ![p] = 0] /\ ref' = ref
        /\ lock' = lock /\ len' = len /\ mem' = mem /\ Collect
    BY <1>5 DEF Insert
  <2>3. h = KeyValue(key[new[p]])
    OBVIOUS
  <2> HIDE DEF h
  <2> QED BY <1>0, <2>1, <2>2, <2>3
<1>6. ASSUME RemoveKeyOf(p, ref[p])
      PROVE  /\ \A h \in Hashes : items'[h] = items[h] \/ items'[h] = 0
             /\ items' \in [Hashes -> Entries \cup {0}]
             /\ new' = new /\ ref' = [ref EXCEPT ![p] = 0]
             /\ lock' = lock /\ len' = len /\ mem' = mem /\ Collect
  <2> DEFINE h == KeyValue(key[ref[p]])
  <2>1. items' = items \/ items' = [items EXCEPT ![h] = 0]
    BY <1>6 DEF RemoveKeyOf
  <2>2. /\ new' = new /\ ref' = [ref EXCEPT ![p] = 0]
        /\ lock' = lock /\ len' = len /\ mem' = mem /\ Collect
    BY <1>6 DEF RemoveKeyOf
  <2> HIDE DEF h
  <2> QED BY <1>0, <2>1, <2>2
<1>7. CASE Remove(p)
  BY <1>0, <1>6, <1>7 DEF Remove
<1>8. CASE EvictRemove(p)
  BY <1>0, <1>6, <1>8 DEF EvictRemove
<1>9. CASE ClearStore(p)
  BY <1>0, <1>9 DEF ClearStore
<1>10. CASE EvictTryLockFails(p)
  BY <1>0, <1>10 DEF EvictTryLockFails, mapVars
<1> QED BY <1>1, <1>2, <1>3, <1>4, <1>5, <1>7, <1>8, <1>9, <1>10 DEF Collects

LEMMA LeavesShape ==
  ASSUME Base, NEW p \in Procs, Leaves(p)
  PROVE  Shape(p) /\ items' = items /\ key' = key /\ payload' = payload
         /\ lock' \in Procs \cup {Nil}
<1>0. /\ items \in [Hashes -> Entries \cup {0}]
      /\ new \in [Procs -> Entries \cup {0}] /\ ref \in [Procs -> Entries \cup {0}]
      /\ lock \in Procs \cup {Nil} /\ LocalsOK
  BY DEF Base, MapTypes, ProcTypes
<1> USE DEF Shape, entryVars
<1>1. CASE \E k \in Keys : GetFind(p, k) \/ DelFind(p, k)
  BY <1>0, <1>1, KeyValueType DEF GetFind, DelFind, Found, mapVars
<1>2. CASE SetFind(p)
  <2>1. KeyValue(key[new[p]]) \in Hashes
    BY <1>0, <1>2, KeyValueType DEF Base, KeysOK, SetFind, LocalsOK
  <2> QED BY <1>0, <1>2, <2>1 DEF SetFind, Found, mapVars
<1>3. CASE SetDiffers(p) \/ UpdateWeigh(p) \/ AdmitPass(p) \/ CheckLimit(p) \/ BeginSoftEvict(p)
  BY <1>0, <1>3
  DEF SetDiffers, UpdateWeigh, AdmitPass, CheckLimit, BeginSoftEvict, mapVars
<1>4. CASE UpdateAddMem(p)
  BY <1>0, <1>4 DEF UpdateAddMem, mapVars
<1>5. CASE UpdateAddShardMem(p)
  BY <1>0, <1>5 DEF UpdateAddShardMem, Finish
<1>6. CASE ClearLock(p)
  BY <1>0, <1>6 DEF ClearLock
<1>7. CASE AggregateMem(p) \/ AggregateLen(p)
  BY <1>0, <1>7 DEF AggregateMem, AggregateLen, mapVars
<1>8. CASE Return(p)
  BY <1>0, <1>8 DEF Return, Finish, mapVars
<1>9. CASE EvictPick(p)
  BY <1>0, <1>9 DEF EvictPick, mapVars
<1>10. CASE EvictNoVictim(p)
  BY <1>0, <1>10 DEF EvictNoVictim, mapVars
<1>11. CASE EndEvict(p)
  BY <1>0, <1>11 DEF EndEvict, Finish, mapVars
<1> QED BY <1>1, <1>2, <1>3, <1>4, <1>5, <1>6, <1>7, <1>8, <1>9, <1>10, <1>11 DEF Leaves

\* A miss makes an entry nobody has.
LEMMA MissMakes ==
  ASSUME Base, NEW p \in Procs, NEW k \in Keys, GetMiss(p, k)
  PROVE  \E e \in Entries :
           /\ new' = [new EXCEPT ![p] = e] /\ key' = [key EXCEPT ![e] = k]
           /\ \A h \in Hashes : items[h] # e
           /\ \A q \in Procs : new[q] # e /\ ref[q] # e
           /\ UNCHANGED <<items, shardMem, lock, payload, len, mem, ref, dMem, dLen, raced>>
<1>1. PICK e \in Unused : new' = [new EXCEPT ![p] = e] /\ key' = [key EXCEPT ![e] = k]
  BY DEF GetMiss
<1>2. e \in Entries /\ e \notin Live(items, new, ref)
  BY DEF Unused
<1>3. /\ \A h \in Hashes : items[h] # e
      /\ \A q \in Procs : new[q] # e /\ ref[q] # e
  BY <1>2 DEF Live
<1> QED BY <1>1, <1>2, <1>3 DEF GetMiss, mapVars

LEMMA CounterTypes ==
  ASSUME Base, NEW p \in Procs, Call(p) \/ Step(p)
  PROVE  /\ shardMem' \in Int /\ len' \in Int /\ mem' \in Int
         /\ raced' \in SUBSET {"update", "pending", "lost"}
<1>0. /\ shardMem \in Int /\ len \in Int /\ mem \in Int
      /\ raced \in SUBSET {"update", "pending", "lost"}
      /\ dMem[p] \in Int /\ dLen[p] \in Int
      /\ \A h \in Hashes : items[h] \in Entries \cup {0}
      /\ \A e \in Entries : Weight(e) \in Nat
      /\ LocalsOK /\ KeysOK
  BY WeightType DEF Base, MapTypes, ProcTypes
<1>1. CASE Insert(p)
  <2> DEFINE h == KeyValue(key[new[p]])
             by == Weight(new[p]) - (IF items[h] = 0 THEN 0 ELSE Weight(items[h]))
  <2>1. h \in Hashes /\ new[p] \in Entries
    BY <1>0, <1>1, KeyValueType DEF Base, ProcTypes, KeysOK, LocalsOK, Insert
  <2>2. by \in Int
    BY <1>0, <2>1
  <2>3. shardMem' = shardMem + by /\ len' = len /\ mem' = mem /\ raced' = raced
    BY <1>1 DEF Insert
  <2> HIDE DEF by, h
  <2> QED BY <1>0, <2>2, <2>3
<1>2. ASSUME ref[p] # 0, RemoveKeyOf(p, ref[p])
      PROVE  shardMem' \in Int /\ len' = len /\ mem' = mem /\ raced' = raced
  <2> DEFINE h == KeyValue(key[ref[p]])
  <2>1. h \in Hashes
    BY <1>0, <1>2, KeyValueType DEF KeysOK
  <2>2. \/ shardMem' = shardMem
        \/ items[h] # 0 /\ shardMem' = shardMem - Weight(items[h])
    BY <1>2 DEF RemoveKeyOf
  <2>3. items[h] # 0 => Weight(items[h]) \in Nat
    BY <1>0, <2>1
  <2>4. len' = len /\ mem' = mem /\ raced' = raced
    BY <1>2 DEF RemoveKeyOf
  <2> HIDE DEF h
  <2> QED BY <1>0, <2>2, <2>3, <2>4
<1>3. CASE Remove(p) \/ EvictRemove(p)
  BY <1>0, <1>2, <1>3 DEF Remove, EvictRemove, LocalsOK
<1>4. CASE ClearStore(p)
  BY <1>0, <1>4 DEF ClearStore, Races
<1>5. CASE Collects(p) /\ ~(Insert(p) \/ Remove(p) \/ EvictRemove(p) \/ ClearStore(p))
  BY <1>0, <1>5
  DEF Collects, GetHit, ComputeFails, SetSame, AdmitReject, EvictTryLockFails, mapVars
<1>6. CASE UpdateAddMem(p) \/ UpdateAddShardMem(p)
  BY <1>0, <1>6 DEF UpdateAddMem, UpdateAddShardMem, Races, mapVars
<1>7. CASE AggregateMem(p) \/ AggregateLen(p)
  <2>1. \/ mem' = mem + dMem[p] /\ UNCHANGED <<shardMem, len, raced>>
        \/ len' = len + dLen[p] /\ UNCHANGED <<shardMem, mem, raced>>
    BY <1>7 DEF AggregateMem, AggregateLen, mapVars
  <2>2. mem + dMem[p] \in Int /\ len + dLen[p] \in Int
    BY <1>0
  <2> QED BY <1>0, <2>1, <2>2
<1>8. CASE Leaves(p) /\ ~(\/ UpdateAddMem(p) \/ UpdateAddShardMem(p)
                          \/ AggregateMem(p) \/ AggregateLen(p))
  BY <1>0, <1>8
  DEF Leaves, GetFind, DelFind, SetFind, SetDiffers, UpdateWeigh, AdmitPass, CheckLimit,
      ClearLock, BeginSoftEvict, Return, EvictPick, EvictNoVictim, EndEvict, mapVars
<1>9. CASE \E k \in Keys : GetMiss(p, k)
  BY <1>0, <1>9 DEF GetMiss, mapVars
<1>10. CASE Compute(p)
  BY <1>0, <1>10 DEF Compute, mapVars
<1>11. CASE UpdateSwap(p)
  BY <1>0, <1>11 DEF UpdateSwap, Races, mapVars
<1> QED BY <1>1, <1>3, <1>4, <1>5, <1>6, <1>7, <1>8, <1>9, <1>10, <1>11, StepsSplit

LEMMA ComputeEffect ==
  ASSUME Base, NEW p \in Procs, Compute(p)
  PROVE  \E d \in Payloads :
           /\ d.owner = key[new[p]]
           /\ payload' = [payload EXCEPT ![new[p]] = d]
           /\ new[p] \in Entries
           /\ UNCHANGED <<items, shardMem, lock, key, len, mem, new, ref, dMem, dLen, raced>>
<1>1. new[p] \in Entries /\ key[new[p]] \in Keys
  BY DEF Base, LocalsOK, KeysOK, ProcTypes, Compute
<1>2. PICK n \in Sizes[key[new[p]]] :
        payload' = [payload EXCEPT ![new[p]] = [owner |-> key[new[p]], size |-> n]]
  BY DEF Compute
<1>3. [owner |-> key[new[p]], size |-> n] \in Payloads
  BY <1>1 DEF Payloads
<1> QED BY <1>1, <1>2, <1>3 DEF Compute, mapVars

\* The entry p works on gets the new payload, should it still be of use.
LEMMA SwapEffect ==
  ASSUME Base, NEW p \in Procs, UpdateSwap(p)
  PROVE  /\ Shape(p) /\ Kept(key, key')
         /\ new[p] \in Entries /\ ref[p] \in Entries
         /\ Kept([payload EXCEPT ![ref[p]] = payload[new[p]]], payload')
         /\ EntryTypes'
         /\ UNCHANGED <<items, shardMem, lock, len, mem, dMem, dLen>>
<1>1. /\ items \in [Hashes -> Entries \cup {0}]
      /\ new \in [Procs -> Entries \cup {0}] /\ ref \in [Procs -> Entries \cup {0}]
      /\ new[p] \in Entries /\ ref[p] \in Entries /\ EntryTypes
  BY DEF Base, MapTypes, ProcTypes, LocalsOK, UpdateSwap
<1>2. UNCHANGED <<items, shardMem, lock, len, mem, dMem, dLen>>
  BY DEF UpdateSwap, mapVars
<1>3. Shape(p)
  BY <1>1 DEF UpdateSwap, mapVars, Shape
<1>4. MapTypes' /\ ProcTypes'
  <2>1. ProcTypes'
    BY Moves DEF Moved, Step
  <2>2. raced' \in SUBSET {"update", "pending", "lost"}
    BY CounterTypes DEF Step
  <2> QED BY <1>2, <2>1, <2>2 DEF Base, MapTypes
<1> DEFINE f == [payload EXCEPT ![ref[p]] = payload[new[p]]]
<1>5. f \in [Entries -> Payloads \cup {Nil}]
  BY <1>1 DEF EntryTypes
<1>6. key' = Swept(key) /\ payload' = Swept(f)
  BY DEF UpdateSwap
<1> HIDE DEF f
<1>7. Kept(key, key') /\ Kept(f, payload')
  BY <1>4, <1>6, SweptKept
<1>8. EntryTypes'
  BY <1>1, <1>5, <1>6, SweptType DEF EntryTypes
<1> QED BY <1>1, <1>2, <1>3, <1>7, <1>8 DEF f

\* Every step of a goroutine keeps types, locals and keys.
LEMMA BaseStep ==
  ASSUME Base, NEW p \in Procs, Call(p) \/ Step(p)
  PROVE  Base'
<1>0. /\ ProcTypes' /\ LocalsOK'
      /\ shardMem' \in Int /\ len' \in Int /\ mem' \in Int
      /\ raced' \in SUBSET {"update", "pending", "lost"}
      /\ MapTypes /\ EntryTypes /\ KeysOK
  BY Moves, CounterTypes DEF Moved, Base
<1>1. CASE Collects(p)
  <2>1. /\ Shape(p) /\ Collect
        /\ items' \in [Hashes -> Entries \cup {0}] /\ lock' \in Procs \cup {Nil}
    BY <1>1, CollectsShape
  <2>2. MapTypes'
    BY <1>0, <2>1 DEF MapTypes
  <2>3. Kept(key, key')
    BY <1>0, <2>1, <2>2, SweptKept DEF Collect
  <2>4. EntryTypes'
    BY <1>0, <2>1, SweptType DEF Collect, EntryTypes
  <2> QED BY <1>0, <2>1, <2>2, <2>3, <2>4, ShapeKeepsKeys DEF Base
<1>2. CASE Leaves(p)
  <2>1. /\ Shape(p) /\ items' = items /\ key' = key /\ payload' = payload
        /\ lock' \in Procs \cup {Nil}
    BY <1>2, LeavesShape
  <2>2. MapTypes' /\ EntryTypes'
    BY <1>0, <2>1 DEF MapTypes, EntryTypes
  <2>3. Kept(key, key')
    BY <2>1 DEF Kept
  <2> QED BY <1>0, <2>1, <2>2, <2>3, ShapeKeepsKeys DEF Base
<1>3. ASSUME NEW k \in Keys, GetMiss(p, k) PROVE Base'
  <2>1. PICK e \in Entries :
           /\ new' = [new EXCEPT ![p] = e] /\ key' = [key EXCEPT ![e] = k]
           /\ \A h \in Hashes : items[h] # e
           /\ \A q \in Procs : new[q] # e /\ ref[q] # e
           /\ UNCHANGED <<items, shardMem, lock, payload, len, mem, ref, dMem, dLen, raced>>
    BY <1>3, MissMakes
  <2>2. MapTypes' /\ EntryTypes'
    BY <1>0, <2>1 DEF MapTypes, EntryTypes
  <2>3. KeysOK'
    <3>1. /\ items \in [Hashes -> Entries \cup {0}]
          /\ new \in [Procs -> Entries \cup {0}] /\ ref \in [Procs -> Entries \cup {0}]
          /\ key \in [Entries -> Keys \cup {Nil}]
      BY DEF Base, MapTypes, ProcTypes, EntryTypes
    <3>2. key' \in [Entries -> Keys \cup {Nil}] /\ \A d \in Entries \ {e} : key'[d] = key[d]
      BY <2>1, <3>1
    <3>3. key'[e] = k /\ k \in Keys
      BY <2>1, <3>1
    <3>4. ASSUME NEW h \in Hashes, items'[h] # 0
          PROVE  key'[items'[h]] \in Keys /\ KeyValue(key'[items'[h]]) = h
      <4>1. items'[h] = items[h] /\ items[h] \in Entries \ {e}
        BY <2>1, <3>1, <3>4
      <4> QED BY <1>0, <3>2, <3>4, <4>1 DEF KeysOK
    <3>5. ASSUME NEW q \in Procs, new'[q] # 0 PROVE key'[new'[q]] \in Keys
      <4>1. CASE q = p
        BY <2>1, <3>1, <3>3, <4>1
      <4>2. CASE q # p
        <5>1. new'[q] = new[q] /\ new[q] \in Entries \ {e}
          BY <2>1, <3>1, <3>5, <4>2
        <5> QED BY <1>0, <3>2, <3>5, <5>1 DEF KeysOK
      <4> QED BY <4>1, <4>2
    <3>6. ASSUME NEW q \in Procs, ref'[q] # 0 PROVE key'[ref'[q]] \in Keys
      <4>1. ref'[q] = ref[q] /\ ref[q] \in Entries \ {e}
        BY <2>1, <3>1, <3>6
      <4> QED BY <1>0, <3>2, <3>6, <4>1 DEF KeysOK
    <3> QED BY <3>4, <3>5, <3>6 DEF KeysOK, KeyValue
  <2> QED BY <1>0, <2>2, <2>3 DEF Base
<1>4. CASE Compute(p)
  <2>1. PICK d \in Payloads :
          /\ payload' = [payload EXCEPT ![new[p]] = d]
          /\ UNCHANGED <<items, shardMem, lock, key, len, mem, new, ref, raced>>
    BY <1>4, ComputeEffect
  <2>2. MapTypes' /\ EntryTypes'
    BY <1>0, <2>1 DEF MapTypes, EntryTypes
  <2>3. KeysOK'
    BY <1>0, <2>1 DEF KeysOK, KeyValue
  <2> QED BY <1>0, <2>2, <2>3 DEF Base
<1>5. CASE UpdateSwap(p)
  <2>1. /\ Shape(p) /\ Kept(key, key') /\ EntryTypes'
        /\ UNCHANGED <<items, lock>>
    BY <1>5, SwapEffect
  <2>2. MapTypes'
    BY <1>0, <2>1 DEF MapTypes
  <2> QED BY <1>0, <2>1, <2>2, ShapeKeepsKeys DEF Base
<1> QED BY <1>1, <1>2, <1>3, <1>4, <1>5, StepsSplit

LEMMA AroundEffect ==
  ASSUME Base, NEW k \in Keys, NEW n \in Sizes[k], AroundSetPayload(k, n)
  PROVE  \E e \in Entries : \E d \in Payloads :
           /\ e = Found(k) /\ key[e] = k /\ d = [owner |-> k, size |-> n]
           /\ payload' = [payload EXCEPT ![e] = d]
           /\ raced' \in SUBSET {"update", "pending", "lost"} /\ raced \subseteq raced'
           /\ raced' = raced => Weight(e) = EntrySize + n \/ "update" \in raced
           /\ UNCHANGED <<mapVars, key, len, mem, procVars>>
<1>1. Found(k) \in Entries
  BY KeyValueType DEF Base, MapTypes, Found, AroundSetPayload
<1>2. [owner |-> k, size |-> n] \in Payloads
  BY DEF Payloads
<1>3. /\ raced' \in SUBSET {"update", "pending", "lost"} /\ raced \subseteq raced'
      /\ raced' = raced => Weight(Found(k)) = EntrySize + n \/ "update" \in raced
  BY DEF AroundSetPayload, Races, Base, MapTypes
<1> QED BY <1>1, <1>2, <1>3 DEF AroundSetPayload

LEMMA BaseAround ==
  ASSUME Base, NEW k \in Keys, NEW n \in Sizes[k], AroundSetPayload(k, n)
  PROVE  Base'
<1>1. PICK e \in Entries, d \in Payloads :
        /\ payload' = [payload EXCEPT ![e] = d]
        /\ raced' \in SUBSET {"update", "pending", "lost"}
        /\ UNCHANGED <<mapVars, key, len, mem, procVars>>
  BY AroundEffect
<1>2. MapTypes' /\ EntryTypes' /\ ProcTypes'
  BY <1>1 DEF Base, MapTypes, EntryTypes, ProcTypes, mapVars, procVars
<1>3. LocalsOK' /\ KeysOK'
  BY <1>1 DEF Base, LocalsOK, KeysOK, KeyValue, mapVars, procVars
<1> QED BY <1>2, <1>3 DEF Base

LEMMA BaseNext == Base /\ [Next]_vars => Base'
<1> SUFFICES ASSUME Base, [Next]_vars PROVE Base'
  OBVIOUS
<1>1. CASE UNCHANGED vars
  <2>1. MapTypes' /\ EntryTypes' /\ ProcTypes'
    BY <1>1 DEF Base, MapTypes, EntryTypes, ProcTypes, vars, mapVars, entryVars, procVars
  <2>2. LocalsOK' /\ KeysOK'
    BY <1>1 DEF Base, LocalsOK, KeysOK, KeyValue, vars, mapVars, entryVars, procVars
  <2> QED BY <2>1, <2>2 DEF Base
<1> QED BY <1>1, BaseStep, BaseAround DEF Next

LEMMA BaseInit == Init => Base
<1> SUFFICES ASSUME Init PROVE Base
  OBVIOUS
<1>1. 0 \in 0 .. Spins
  BY LimitAssumption
<1> QED BY <1>1 DEF Init, Base, MapTypes, EntryTypes, ProcTypes, LocalsOK, KeysOK, PCs

\* Counters, references and locals keep their types, and iterations run out.
THEOREM CacheTypeCorrect == Spec => []TypeOK
<1>1. Base => TypeOK
  BY TypeOKSplit DEF Base
<1> QED BY <1>1, BaseInit, BaseNext, PTL DEF Spec

-----------------------------------------------------------------------------
(***************************************************************************)
(* The number of items.                                                    *)
(***************************************************************************)

\* A Clear owes what it found, as nobody enters the shard meanwhile.
LenInv ==
  /\ len + NetOn(OwedLen, Procs) = NumItems
  /\ \A p \in Procs : pc[p] = "clear" => dLen[p] = -NumItems

LEMMA OwedLenType ==
  ASSUME ProcTypes
  PROVE  OwedLen \in [Procs -> Int] /\ NetOn(OwedLen, Procs) \in Int
<1>1. OwedLen \in [Procs -> Int]
  BY DEF ProcTypes, OwedLen
<1> QED BY <1>1, ProcsAssumption, NetType

\* A step of p balances if p's debt changes by what counter and items differ.
LEMMA LenBalance ==
  ASSUME Base, LenInv, NEW p \in Procs, Call(p) \/ Step(p),
         (len' - len) + (OwedLen'[p] - OwedLen[p]) = NumItems' - NumItems
  PROVE  len' + NetOn(OwedLen', Procs) = NumItems'
<1>1. Base' /\ Moved(p)
  BY BaseStep, Moves
<1>2. /\ OwedLen \in [Procs -> Int] /\ NetOn(OwedLen, Procs) \in Int
      /\ OwedLen' \in [Procs -> Int] /\ NetOn(OwedLen', Procs) \in Int
  <2>1. ProcTypes /\ ProcTypes'
    BY <1>1 DEF Base
  <2>2. OwedLen' \in [Procs -> Int]
    BY <2>1 DEF ProcTypes, OwedLen
  <2> QED BY <2>1, <2>2, OwedLenType, ProcsAssumption, NetType
<1>3. \A q \in Procs \ {p} : OwedLen'[q] = OwedLen[q]
  BY <1>1 DEF Moved, Others, OwedLen
<1>4. NetOn(OwedLen', Procs) = NetOn(OwedLen, Procs) + (OwedLen'[p] - OwedLen[p])
  BY <1>2, <1>3, ProcsAssumption, NetUpdate
<1>5. /\ len \in Int /\ len' \in Int /\ NumItems \in Nat /\ NumItems' \in Nat
      /\ OwedLen[p] \in Int /\ OwedLen'[p] \in Int
  <2>1. NumItems \in Nat /\ NumItems' \in Nat
    BY <1>1, HashesFinite, SupportType DEF NumItems
  <2> QED BY <1>1, <1>2, <2>1 DEF Base, MapTypes
<1> QED BY <1>2, <1>4, <1>5 DEF LenInv

\* Steps that change neither the items nor what is known of them.
LEMMA LenQuiet ==
  ASSUME Base, LenInv, NEW p \in Procs, Call(p) \/ Step(p),
         items' = items, len' = len, dLen'[p] = dLen[p],
         pc[p] # "clear", pc'[p] # "clear"
  PROVE  LenInv'
<1>1. Base' /\ Moved(p)
  BY BaseStep, Moves
<1>2. NumItems' = NumItems /\ NumItems \in Nat
  BY NumItemsType DEF NumItems, Base
<1>3. OwedLen'[p] = OwedLen[p] /\ OwedLen[p] \in Int /\ len \in Int
  BY DEF OwedLen, Base, ProcTypes, MapTypes
<1>4. len' + NetOn(OwedLen', Procs) = NumItems'
  <2>1. (len' - len) + (OwedLen'[p] - OwedLen[p]) = NumItems' - NumItems
    BY <1>2, <1>3
  <2> QED BY <2>1, LenBalance
<1>5. \A q \in Procs : pc'[q] = "clear" => dLen'[q] = -NumItems'
  BY <1>1, <1>2 DEF LenInv, Moved, Others
<1> QED BY <1>4, <1>5 DEF LenInv, NumItems

\* Steps inside the shard.
LEMMA LenSection ==
  ASSUME Base, LenInv, NEW p \in Procs, Call(p) \/ Step(p), Unlocked,
         NEW n \in Int, NumItems' = NumItems + n, len' = len,
         dLen[p] = 0, dLen'[p] = n, pc'[p] # "clear"
  PROVE  LenInv'
<1>1. Base' /\ Moved(p)
  BY BaseStep, Moves
<1>2. \A q \in Procs : pc[q] # "clear"
  BY NobodyClears DEF Base
<1>3. OwedLen'[p] = n /\ OwedLen[p] = 0 /\ len \in Int /\ NumItems \in Nat
  BY <1>1, <1>2, NumItemsType DEF OwedLen, Base, MapTypes
<1>4. len' + NetOn(OwedLen', Procs) = NumItems'
  <2>1. (len' - len) + (OwedLen'[p] - OwedLen[p]) = NumItems' - NumItems
    BY <1>3
  <2> QED BY <2>1, LenBalance
<1>5. \A q \in Procs : pc'[q] # "clear"
  BY <1>1, <1>2 DEF Moved, Others
<1> QED BY <1>4, <1>5 DEF LenInv, NumItems

\* One hash has another entry.
LEMMA ItemsUpdate ==
  ASSUME MapTypes, NEW h \in Hashes,
         \A y \in Hashes \ {h} : items'[y] = items[y]
  PROVE  NumItems' = NumItems + ((IF items'[h] # 0 THEN 1 ELSE 0) - (IF items[h] # 0 THEN 1 ELSE 0))
<1>1. \A f, g : (\A y \in Hashes \ {h} : g[y] = f[y]) =>
         Cardinality(Support(g, Hashes)) = Cardinality(Support(f, Hashes))
           + (IF g[h] # 0 THEN 1 ELSE 0) - (IF f[h] # 0 THEN 1 ELSE 0)
  BY HashesFinite, SupportUpdate
<1>2. Cardinality(Support(items', Hashes)) = Cardinality(Support(items, Hashes))
           + (IF items'[h] # 0 THEN 1 ELSE 0) - (IF items[h] # 0 THEN 1 ELSE 0)
  BY <1>1
<1>3. NumItems' = Cardinality(Support(items', Hashes))
  BY DEF NumItems
<1> QED BY <1>2, <1>3, NumItemsType DEF NumItems

LEMMA LenRemove ==
  ASSUME Base, LenInv, NEW p \in Procs, Remove(p) \/ EvictRemove(p)
  PROVE  LenInv'
<1> DEFINE h == KeyValue(key[ref[p]])
<1>1. h \in Hashes
  BY KeyValueType DEF Base, LocalsOK, KeysOK, Remove, EvictRemove
<1>2. /\ RemoveKeyOf(p, ref[p]) /\ pc[p] # "clear" /\ pc'[p] # "clear"
      /\ dLen[p] = 0 /\ len' = len /\ Unlocked
  BY DEF Remove, EvictRemove, RemoveKeyOf, Goto, Base, ProcTypes, LocalsOK
<1>3. Step(p)
  BY DEF Step
<1>4. CASE items[h] = 0
  <2>1. items' = items /\ dLen'[p] = dLen[p]
    BY <1>2, <1>4 DEF RemoveKeyOf
  <2> QED BY <1>2, <1>3, <2>1, LenQuiet
<1>5. CASE items[h] # 0
  <2>1. items' = [items EXCEPT ![h] = 0] /\ dLen' = [dLen EXCEPT ![p] = -1]
    BY <1>2, <1>5 DEF RemoveKeyOf, Owe
  <2>2. dLen'[p] = -1
    BY <2>1 DEF Base, ProcTypes
  <2> HIDE DEF h
  <2>3. NumItems' = NumItems + (-1)
    <3>1. items'[h] = 0 /\ \A y \in Hashes \ {h} : items'[y] = items[y]
      BY <1>1, <2>1 DEF Base, MapTypes
    <3>2. NumItems' = NumItems + ((IF items'[h] # 0 THEN 1 ELSE 0) - (IF items[h] # 0 THEN 1 ELSE 0))
      BY <1>1, <3>1, ItemsUpdate DEF Base
    <3> QED BY <1>5, <3>1, <3>2, NumItemsType DEF Base
  <2>4. -1 \in Int
    OBVIOUS
  <2> QED BY <1>2, <1>3, <2>2, <2>3, <2>4, LenSection
<1> QED BY <1>4, <1>5

LEMMA LenInsert ==
  ASSUME Base, LenInv, NEW p \in Procs, Insert(p)
  PROVE  LenInv'
<1> DEFINE h == KeyValue(key[new[p]])
           n == IF items[h] = 0 THEN 1 ELSE 0
<1>1. h \in Hashes /\ new[p] \in Entries /\ new[p] # 0
  BY KeyValueType DEF Base, ProcTypes, LocalsOK, KeysOK, Insert
<1>2. /\ items' = [items EXCEPT ![h] = new[p]] /\ dLen' = [dLen EXCEPT ![p] = n]
      /\ len' = len /\ Unlocked
  BY DEF Insert, Owe
<1>3. dLen'[p] = n /\ dLen[p] = 0 /\ pc'[p] # "clear" /\ Step(p)
  <2>1. dLen'[p] = n
    BY <1>2 DEF Base, ProcTypes
  <2>2. dLen[p] = 0 /\ pc'[p] # "clear" /\ Step(p)
    BY DEF Insert, Goto, Base, ProcTypes, LocalsOK, Step
  <2> QED BY <2>1, <2>2
<1> HIDE DEF h
<1>4. NumItems' = NumItems + n /\ n \in Int
  <2>1. items'[h] = new[p] /\ \A y \in Hashes \ {h} : items'[y] = items[y]
    BY <1>1, <1>2 DEF Base, MapTypes
  <2>2. NumItems' = NumItems + ((IF items'[h] # 0 THEN 1 ELSE 0) - (IF items[h] # 0 THEN 1 ELSE 0))
    BY <1>1, <2>1, ItemsUpdate DEF Base
  <2> QED BY <1>1, <2>1, <2>2
<1> HIDE DEF n
<1> QED BY <1>2, <1>3, <1>4, LenSection

LEMMA LenClear ==
  ASSUME Base, LenInv, NEW p \in Procs, ClearLock(p) \/ ClearStore(p)
  PROVE  LenInv'
<1>1. Base' /\ Moved(p) /\ (Call(p) \/ Step(p))
  BY BaseStep, Moves DEF Call, Step
<1>2. NumItems \in Nat /\ len \in Int
  BY NumItemsType DEF Base, MapTypes
<1>3. CASE ClearLock(p)
  <2>1. /\ items' = items /\ len' = len /\ dLen'[p] = -NumItems /\ pc'[p] = "clear"
        /\ dLen[p] = 0 /\ Unlocked /\ pc[p] = "idle"
    BY <1>3 DEF ClearLock, Owe, Goto, Base, ProcTypes, LocalsOK
  <2>2. NumItems' = NumItems
    BY <2>1 DEF NumItems
  <2>3. OwedLen'[p] = 0 /\ OwedLen[p] = 0
    BY <2>1 DEF OwedLen
  <2>4. (len' - len) + (OwedLen'[p] - OwedLen[p]) = NumItems' - NumItems
    BY <1>2, <2>1, <2>2, <2>3
  <2>5. len' + NetOn(OwedLen', Procs) = NumItems'
    BY <1>1, <2>4, LenBalance
  <2>6. \A q \in Procs : pc'[q] = "clear" => dLen'[q] = -NumItems'
    BY <1>1, <2>1, <2>2, NobodyClears DEF Base, Moved, Others
  <2> QED BY <2>5, <2>6 DEF LenInv, NumItems
<1>4. CASE ClearStore(p)
  <2>1. /\ pc[p] = "clear" /\ pc'[p] = "cleared" /\ len' = len /\ dLen' = dLen
        /\ \A h \in Hashes : items'[h] = 0
    BY <1>4 DEF ClearStore, Goto, Base, ProcTypes
  <2>2. NumItems' = 0
    <3>1. Support(items', Hashes) = {}
      BY <2>1 DEF Support
    <3> QED BY <3>1, FS_EmptySet DEF NumItems
  <2>3. OwedLen'[p] = -NumItems /\ OwedLen[p] = 0
    BY <2>1 DEF OwedLen, LenInv
  <2>4. (len' - len) + (OwedLen'[p] - OwedLen[p]) = NumItems' - NumItems
    BY <1>2, <2>1, <2>2, <2>3
  <2>5. len' + NetOn(OwedLen', Procs) = NumItems'
    BY <1>1, <2>4, LenBalance
  <2>6. \A q \in Procs : pc'[q] # "clear"
    BY <1>1, <2>1 DEF Base, LocalsOK, Moved, Others
  <2> QED BY <2>5, <2>6 DEF LenInv, NumItems
<1> QED BY <1>3, <1>4

LEMMA LenAggregate ==
  ASSUME Base, LenInv, NEW p \in Procs, AggregateLen(p)
  PROVE  LenInv'
<1>1. Base' /\ Moved(p) /\ Step(p)
  BY BaseStep, Moves DEF Step
<1>2. /\ len' = len + dLen[p] /\ dLen'[p] = 0 /\ pc' = pc /\ items' = items
      /\ pc[p] # "clear"
  BY DEF AggregateLen, Owes, mapVars, Base, ProcTypes
<1>3. NumItems' = NumItems /\ NumItems \in Nat /\ len \in Int /\ dLen[p] \in Int
  BY <1>2, NumItemsType DEF NumItems, Base, MapTypes, ProcTypes
<1>4. OwedLen'[p] = 0 /\ OwedLen[p] = dLen[p]
  BY <1>2 DEF OwedLen
<1>5. (len' - len) + (OwedLen'[p] - OwedLen[p]) = NumItems' - NumItems
  BY <1>2, <1>3, <1>4
<1>6. len' + NetOn(OwedLen', Procs) = NumItems'
  BY <1>1, <1>5, LenBalance
<1>7. \A q \in Procs : pc'[q] = "clear" => dLen'[q] = -NumItems'
  BY <1>1, <1>2, <1>3 DEF LenInv, Moved, Others
<1> QED BY <1>6, <1>7 DEF LenInv, NumItems

LEMMA LenStep ==
  ASSUME Base, LenInv, NEW p \in Procs, Call(p) \/ Step(p)
  PROVE  LenInv'
<1>0. ProcTypes /\ LocalsOK
  BY DEF Base
<1> USE DEF ProcTypes, Goto, Finish, mapVars
<1>1. CASE Insert(p) \/ Remove(p) \/ EvictRemove(p) \/ ClearLock(p) \/ ClearStore(p)
           \/ AggregateLen(p)
  BY <1>1, LenInsert, LenRemove, LenClear, LenAggregate
<1>2. CASE GetHit(p) \/ ComputeFails(p) \/ SetSame(p) \/ AdmitReject(p) \/ EvictTryLockFails(p)
  <2>1. /\ items' = items /\ len' = len /\ dLen'[p] = dLen[p]
        /\ pc[p] # "clear" /\ pc'[p] # "clear"
    BY <1>0, <1>2 DEF GetHit, ComputeFails, SetSame, AdmitReject, EvictTryLockFails
  <2> QED BY <2>1, LenQuiet
<1>3. CASE \E k \in Keys : GetFind(p, k) \/ DelFind(p, k) \/ GetMiss(p, k)
  <2>1. /\ items' = items /\ len' = len /\ dLen'[p] = dLen[p]
        /\ pc[p] # "clear" /\ pc'[p] # "clear"
    BY <1>0, <1>3 DEF GetFind, DelFind, GetMiss
  <2> QED BY <2>1, LenQuiet
<1>4. CASE \/ SetFind(p) \/ SetDiffers(p) \/ UpdateAddMem(p) \/ AdmitPass(p)
           \/ CheckLimit(p) \/ BeginSoftEvict(p) \/ Return(p)
           \/ EvictPick(p) \/ EvictNoVictim(p) \/ EndEvict(p)
  <2>1. /\ items' = items /\ len' = len /\ dLen'[p] = dLen[p]
        /\ pc[p] # "clear" /\ pc'[p] # "clear"
    BY <1>0, <1>4
    DEF SetFind, SetDiffers, UpdateAddMem, AdmitPass, CheckLimit, BeginSoftEvict, Return,
        EvictPick, EvictNoVictim, Evicting, EndEvict
  <2> QED BY <2>1, LenQuiet
<1>5. CASE UpdateWeigh(p) \/ UpdateAddShardMem(p) \/ UpdateSwap(p) \/ Compute(p)
           \/ AggregateMem(p)
  <2>1. /\ items' = items /\ len' = len /\ dLen'[p] = dLen[p]
        /\ pc[p] # "clear" /\ pc'[p] # "clear"
    BY <1>0, <1>5
    DEF UpdateWeigh, UpdateAddShardMem, UpdateSwap, Compute, AggregateMem, Owe, Owes, LocalsOK
  <2> QED BY <2>1, LenQuiet
<1> QED BY <1>1, <1>2, <1>3, <1>4, <1>5 DEF Call, Step

LEMMA LenNext == Base /\ LenInv /\ [Next]_vars => LenInv'
<1> SUFFICES ASSUME Base, LenInv, [Next]_vars PROVE LenInv'
  OBVIOUS
<1>1. ASSUME UNCHANGED <<items, len, pc, dLen>> PROVE LenInv'
  <2>1. OwedLen' = OwedLen /\ NumItems' = NumItems
    BY <1>1 DEF OwedLen, NumItems
  <2> QED BY <1>1, <2>1 DEF LenInv
<1>2. CASE UNCHANGED vars
  BY <1>1, <1>2 DEF vars, mapVars, procVars
<1>3. CASE \E k \in Keys : \E n \in Sizes[k] : AroundSetPayload(k, n)
  BY <1>1, <1>3 DEF AroundSetPayload, mapVars, procVars
<1> QED BY <1>2, <1>3, LenStep DEF Next

LEMMA LenInit == Init => LenInv
<1> SUFFICES ASSUME Init PROVE LenInv
  OBVIOUS
<1>1. NumItems = 0
  <2>1. Support(items, Hashes) = {}
    BY DEF Support, Init
  <2> QED BY <2>1, FS_EmptySet DEF NumItems
<1>2. OwedLen \in [Procs -> Int] /\ \A p \in Procs : OwedLen[p] = 0
  BY DEF Init, OwedLen
<1>3. NetOn(OwedLen, Procs) = 0
  BY <1>2, NetZero
<1> QED BY <1>1, <1>3 DEF Init, LenInv

\* However insertions, evictions, removals and Clears interleave, Map.len and
\* what goroutines have still to add make up the number of items.
THEOREM LenAlwaysConserved == Spec => []LenConserved
<1>1. LenInv => LenConserved
  BY DEF LenInv, LenConserved, NumItems
<1> QED BY <1>1, BaseInit, BaseNext, LenInit, LenNext, PTL DEF Spec

-----------------------------------------------------------------------------
(***************************************************************************)
(* A key yields its own payload, if no two keys have one hash.             *)
(***************************************************************************)

NoCollisions == \A k, l \in Keys : HashOf[k] = HashOf[l] => k = l

\* With keys ks and payloads ps, the payload of e was made for its key.
Owned(ks, ps, e) == ps[e] # Nil /\ ps[e].owner = ks[e]

Updating == {"compare", "weigh", "swap"}

\* What is reachable was made for its key, but for a new entry whose callback
\* has not returned; an update works on two entries of one hash.
OwnInv ==
  /\ \A h \in Hashes : items[h] # 0 => Owned(key, payload, items[h])
  /\ \A p \in Procs : ref[p] # 0 => Owned(key, payload, ref[p])
  /\ \A p \in Procs : new[p] # 0 /\ pc[p] # "compute" => Owned(key, payload, new[p])
  /\ \A p \in Procs : pc[p] \in Updating => KeyValue(key[ref[p]]) = KeyValue(key[new[p]])

\* Steps that leave the fields of what can be reached alone.
LEMMA OwnShape ==
  ASSUME Base, OwnInv, NEW p \in Procs, Moved(p), Shape(p),
         Kept(key, key'), Kept(payload, payload'),
         pc[p] = "compute" => items' = items /\ new'[p] = 0,
         pc'[p] \in Updating => KeyValue(key[ref'[p]]) = KeyValue(key[new'[p]])
  PROVE  OwnInv'
<1>1. ASSUME NEW h \in Hashes, items'[h] # 0 PROVE Owned(key', payload', items'[h])
  <2>1. key'[items'[h]] = key[items'[h]] /\ payload'[items'[h]] = payload[items'[h]]
    BY <1>1 DEF Kept
  <2>2. Owned(key, payload, items'[h])
    BY <1>1 DEF OwnInv, Shape
  <2> QED BY <2>1, <2>2 DEF Owned
<1>2. ASSUME NEW q \in Procs, ref'[q] # 0 PROVE Owned(key', payload', ref'[q])
  <2>1. key'[ref'[q]] = key[ref'[q]] /\ payload'[ref'[q]] = payload[ref'[q]]
    BY <1>2 DEF Kept
  <2>2. Owned(key, payload, ref'[q])
    BY <1>2 DEF OwnInv, Shape
  <2> QED BY <2>1, <2>2 DEF Owned
<1>3. ASSUME NEW q \in Procs, new'[q] # 0, pc'[q] # "compute" PROVE Owned(key', payload', new'[q])
  <2>1. key'[new'[q]] = key[new'[q]] /\ payload'[new'[q]] = payload[new'[q]]
    BY <1>3 DEF Kept
  <2>2. Owned(key, payload, new'[q])
    BY <1>3 DEF OwnInv, Shape, Moved, Others
  <2> QED BY <2>1, <2>2 DEF Owned
<1>4. ASSUME NEW q \in Procs, pc'[q] \in Updating
      PROVE  KeyValue(key'[ref'[q]]) = KeyValue(key'[new'[q]])
  <2>1. ref'[q] # 0 /\ new'[q] # 0
    BY <1>4 DEF Moved, LocalsOK, Updating
  <2>2. key'[ref'[q]] = key[ref'[q]] /\ key'[new'[q]] = key[new'[q]]
    BY <2>1 DEF Kept
  <2>3. KeyValue(key[ref'[q]]) = KeyValue(key[new'[q]])
    BY <1>4 DEF OwnInv, Moved, Others
  <2> QED BY <2>2, <2>3
<1> QED BY <1>1, <1>2, <1>3, <1>4 DEF OwnInv, Owned, KeyValue

LEMMA CollectsPlaces ==
  ASSUME Base, NEW p \in Procs, Collects(p)
  PROVE  /\ pc'[p] \notin Updating
         /\ pc[p] = "compute" => items' = items /\ new'[p] = 0
<1>0. ProcTypes
  BY DEF Base
<1> USE DEF ProcTypes, Updating
<1>1. CASE GetHit(p) \/ ComputeFails(p) \/ SetSame(p) \/ AdmitReject(p)
  BY <1>0, <1>1 DEF GetHit, ComputeFails, SetSame, AdmitReject, Finish, Goto, mapVars
<1>2. CASE Insert(p) \/ ClearStore(p)
  BY <1>0, <1>2 DEF Insert, ClearStore, Goto
<1>3. CASE Remove(p) \/ EvictRemove(p) \/ EvictTryLockFails(p)
  BY <1>0, <1>3 DEF Remove, EvictRemove, EvictTryLockFails, Goto
<1> QED BY <1>1, <1>2, <1>3 DEF Collects

LEMMA LeavesPlaces ==
  ASSUME Base, OwnInv, NEW p \in Procs, Leaves(p)
  PROVE  /\ pc'[p] \in Updating => KeyValue(key[ref'[p]]) = KeyValue(key[new'[p]])
         /\ pc[p] # "compute"
<1>0. /\ ProcTypes /\ LocalsOK /\ KeysOK
      /\ \A q \in Procs : pc[q] \in Updating => KeyValue(key[ref[q]]) = KeyValue(key[new[q]])
  BY DEF Base, OwnInv
<1> USE DEF ProcTypes, Updating, Goto
<1>1. CASE SetFind(p)
  <2> DEFINE h == KeyValue(key[new[p]])
  <2>1. h \in Hashes /\ ref'[p] = items[h] /\ new' = new /\ pc[p] = "set"
        /\ (pc'[p] = "compare" => items[h] # 0) /\ pc'[p] \in {"compare", "admit"}
    BY <1>0, <1>1, KeyValueType DEF SetFind, Found, LocalsOK, KeysOK
  <2>2. items[h] # 0 => KeyValue(key[items[h]]) = h
    BY <1>0, <2>1 DEF KeysOK
  <2> QED BY <2>1, <2>2
<1>2. CASE SetDiffers(p) \/ UpdateWeigh(p)
  <2>1. pc[p] \in Updating /\ ref' = ref /\ new' = new
    BY <1>2 DEF SetDiffers, UpdateWeigh
  <2> QED BY <1>0, <2>1
<1>3. CASE Leaves(p) /\ ~(SetFind(p) \/ SetDiffers(p) \/ UpdateWeigh(p))
  BY <1>0, <1>3
  DEF Leaves, GetFind, DelFind, UpdateAddMem, UpdateAddShardMem, AdmitPass, CheckLimit,
      ClearLock, BeginSoftEvict, AggregateMem, AggregateLen, Owes, Return, Finish,
      EvictPick, EvictNoVictim, Evicting, EndEvict
<1> QED BY <1>1, <1>2, <1>3

\* The payload of one entry is replaced by one made for its key.
LEMMA OwnReplaced ==
  ASSUME EntryTypes, OwnInv, NEW e \in Entries, NEW d \in Payloads, d.owner = key[e],
         payload' = [payload EXCEPT ![e] = d], key' = key,
         NEW x, x = e \/ (Owned(key, payload, x) /\ x \in Entries)
  PROVE  Owned(key', payload', x)
<1>1. d # Nil
  BY NilAssumption
<1> QED BY <1>1 DEF EntryTypes, Owned

LEMMA OwnMiss ==
  ASSUME Base, OwnInv, NEW p \in Procs, NEW k \in Keys, GetMiss(p, k)
  PROVE  OwnInv'
<1>1. PICK e \in Entries :
        /\ new' = [new EXCEPT ![p] = e] /\ key' = [key EXCEPT ![e] = k]
        /\ \A h \in Hashes : items[h] # e
        /\ \A q \in Procs : new[q] # e /\ ref[q] # e
        /\ UNCHANGED <<items, payload, ref>>
  BY MissMakes
<1>2. /\ items \in [Hashes -> Entries \cup {0}]
      /\ new \in [Procs -> Entries \cup {0}] /\ ref \in [Procs -> Entries \cup {0}]
      /\ key \in [Entries -> Keys \cup {Nil}]
  BY DEF Base, MapTypes, ProcTypes, EntryTypes
<1>3. pc'[p] = "compute" /\ \A q \in Procs \ {p} : pc'[q] = pc[q]
  BY DEF GetMiss, Goto, Base, ProcTypes
<1>4. \A x \in Entries \ {e} : key'[x] = key[x]
  BY <1>1, <1>2
<1>5. ASSUME NEW h \in Hashes, items'[h] # 0 PROVE Owned(key', payload', items'[h])
  BY <1>1, <1>2, <1>4, <1>5 DEF OwnInv, Owned
<1>6. ASSUME NEW q \in Procs, ref'[q] # 0 PROVE Owned(key', payload', ref'[q])
  BY <1>1, <1>2, <1>4, <1>6 DEF OwnInv, Owned
<1>7. ASSUME NEW q \in Procs, new'[q] # 0, pc'[q] # "compute"
      PROVE  Owned(key', payload', new'[q])
  <2>1. q # p /\ new'[q] = new[q] /\ pc[q] # "compute"
    BY <1>1, <1>2, <1>3, <1>7
  <2>2. new[q] \in Entries \ {e} /\ Owned(key, payload, new[q])
    BY <1>1, <1>2, <1>7, <2>1 DEF OwnInv
  <2> QED BY <1>1, <1>4, <2>1, <2>2 DEF Owned
<1>8. ASSUME NEW q \in Procs, pc'[q] \in Updating
      PROVE  KeyValue(key'[ref'[q]]) = KeyValue(key'[new'[q]])
  <2>1. q # p /\ pc[q] \in Updating /\ new'[q] = new[q] /\ ref'[q] = ref[q]
    BY <1>1, <1>2, <1>3, <1>8 DEF Updating
  <2>2. new[q] \in Entries \ {e} /\ ref[q] \in Entries \ {e}
    BY <1>1, <1>2, <2>1 DEF Base, LocalsOK, Updating
  <2> QED BY <1>4, <2>1, <2>2 DEF OwnInv
<1> QED BY <1>5, <1>6, <1>7, <1>8 DEF OwnInv, Owned, KeyValue

LEMMA OwnCompute ==
  ASSUME Base, OwnInv, NEW p \in Procs, Compute(p)
  PROVE  OwnInv'
<1>1. PICK d \in Payloads :
        /\ d.owner = key[new[p]]
        /\ payload' = [payload EXCEPT ![new[p]] = d]
        /\ new[p] \in Entries
        /\ UNCHANGED <<items, key, new, ref>>
  BY ComputeEffect
<1>2. /\ items \in [Hashes -> Entries \cup {0}] /\ EntryTypes
      /\ new \in [Procs -> Entries \cup {0}] /\ ref \in [Procs -> Entries \cup {0}]
  BY DEF Base, MapTypes, ProcTypes
<1>3. pc'[p] = "set" /\ \A q \in Procs \ {p} : pc'[q] = pc[q]
  BY DEF Compute, Goto, Base, ProcTypes
<1>4. \A x \in Entries : x = new[p] \/ Owned(key, payload, x) => Owned(key', payload', x)
  BY <1>1, <1>2, OwnReplaced
<1>5. \A h \in Hashes : items'[h] # 0 => Owned(key', payload', items'[h])
  BY <1>1, <1>2, <1>4 DEF OwnInv
<1>6. \A q \in Procs : ref'[q] # 0 => Owned(key', payload', ref'[q])
  BY <1>1, <1>2, <1>4 DEF OwnInv
<1>7. \A q \in Procs : new'[q] # 0 /\ pc'[q] # "compute" => Owned(key', payload', new'[q])
  BY <1>1, <1>2, <1>3, <1>4 DEF OwnInv
<1>8. \A q \in Procs : pc'[q] \in Updating => KeyValue(key'[ref'[q]]) = KeyValue(key'[new'[q]])
  BY <1>1, <1>3 DEF OwnInv, Updating
<1> QED BY <1>5, <1>6, <1>7, <1>8 DEF OwnInv, Owned, KeyValue

\* The entry found and the entry made have one key.
LEMMA OwnSwap ==
  ASSUME NoCollisions, Base, OwnInv, NEW p \in Procs, UpdateSwap(p)
  PROVE  OwnInv'
<1> DEFINE f == [payload EXCEPT ![ref[p]] = payload[new[p]]]
<1>1. /\ Shape(p) /\ Kept(key, key') /\ Kept(f, payload') /\ items' = items
      /\ new[p] \in Entries /\ ref[p] \in Entries
  BY SwapEffect
<1>2. /\ items \in [Hashes -> Entries \cup {0}] /\ EntryTypes
      /\ new \in [Procs -> Entries \cup {0}] /\ ref \in [Procs -> Entries \cup {0}]
      /\ KeysOK /\ \A e \in Entries : e # 0
  BY EntriesAssumption DEF Base, MapTypes, ProcTypes
<1>3. pc[p] = "swap" /\ pc'[p] = "addMem" /\ \A q \in Procs \ {p} : pc'[q] = pc[q]
  BY DEF UpdateSwap, Goto, Base, ProcTypes
<1>4. key[ref[p]] = key[new[p]]
  <2>1. KeyValue(key[ref[p]]) = KeyValue(key[new[p]])
    BY <1>3 DEF OwnInv, Updating
  <2>2. key[ref[p]] \in Keys /\ key[new[p]] \in Keys
    BY <1>1, <1>2 DEF KeysOK
  <2> QED BY <2>1, <2>2 DEF NoCollisions, KeyValue
<1>5. Owned(key, payload, new[p])
  BY <1>1, <1>2, <1>3 DEF OwnInv
<1>6. \A x \in Entries : Owned(key, payload, x) => Owned(key, f, x)
  BY <1>1, <1>2, <1>4, <1>5 DEF Owned, EntryTypes
<1> HIDE DEF f
<1>7. ASSUME NEW h \in Hashes, items'[h] # 0 PROVE Owned(key', payload', items'[h])
  <2>1. key'[items'[h]] = key[items'[h]] /\ payload'[items'[h]] = f[items'[h]]
    BY <1>1, <1>7 DEF Kept
  <2>2. items'[h] \in Entries /\ Owned(key, payload, items'[h])
    BY <1>1, <1>2, <1>7 DEF OwnInv
  <2> QED BY <1>6, <2>1, <2>2 DEF Owned
<1>8. ASSUME NEW q \in Procs, ref'[q] # 0 PROVE Owned(key', payload', ref'[q])
  <2>1. key'[ref'[q]] = key[ref'[q]] /\ payload'[ref'[q]] = f[ref'[q]]
    BY <1>1, <1>8 DEF Kept
  <2>2. ref'[q] \in Entries /\ Owned(key, payload, ref'[q])
    BY <1>1, <1>2, <1>8 DEF OwnInv, Shape
  <2> QED BY <1>6, <2>1, <2>2 DEF Owned
<1>9. ASSUME NEW q \in Procs, new'[q] # 0, pc'[q] # "compute"
      PROVE  Owned(key', payload', new'[q])
  <2>1. key'[new'[q]] = key[new'[q]] /\ payload'[new'[q]] = f[new'[q]]
    BY <1>1, <1>9 DEF Kept
  <2>2. new'[q] \in Entries /\ Owned(key, payload, new'[q])
    BY <1>1, <1>2, <1>3, <1>9 DEF OwnInv, Shape
  <2> QED BY <1>6, <2>1, <2>2 DEF Owned
<1>10. ASSUME NEW q \in Procs, pc'[q] \in Updating
       PROVE  KeyValue(key'[ref'[q]]) = KeyValue(key'[new'[q]])
  <2>1. q # p /\ pc[q] \in Updating
    BY <1>3, <1>10 DEF Updating
  <2>2. Moved(p)
    BY Moves DEF Step
  <2>3. ref'[q] = ref[q] /\ new'[q] = new[q] /\ ref'[q] # 0 /\ new'[q] # 0
    BY <1>10, <2>1, <2>2 DEF Moved, Others, LocalsOK, Updating
  <2>4. key'[ref'[q]] = key[ref'[q]] /\ key'[new'[q]] = key[new'[q]]
    BY <1>1, <2>3 DEF Kept
  <2> QED BY <2>1, <2>3, <2>4 DEF OwnInv
<1> QED BY <1>7, <1>8, <1>9, <1>10 DEF OwnInv, Owned, KeyValue

LEMMA OwnAround ==
  ASSUME Base, OwnInv, NEW k \in Keys, NEW n \in Sizes[k], AroundSetPayload(k, n)
  PROVE  OwnInv'
<1>1. PICK e \in Entries, d \in Payloads :
        /\ key[e] = k /\ d = [owner |-> k, size |-> n]
        /\ payload' = [payload EXCEPT ![e] = d]
        /\ UNCHANGED <<mapVars, key, procVars>>
  BY AroundEffect
<1>2. /\ items \in [Hashes -> Entries \cup {0}] /\ EntryTypes
      /\ new \in [Procs -> Entries \cup {0}] /\ ref \in [Procs -> Entries \cup {0}]
      /\ items' = items /\ new' = new /\ ref' = ref /\ pc' = pc /\ key' = key
  BY <1>1 DEF Base, MapTypes, ProcTypes, mapVars, procVars
<1>3. \A x \in Entries : Owned(key, payload, x) => Owned(key', payload', x)
  BY <1>1, <1>2, OwnReplaced
<1>4. \A h \in Hashes : items'[h] # 0 => Owned(key', payload', items'[h])
  BY <1>2, <1>3 DEF OwnInv
<1>5. \A q \in Procs : ref'[q] # 0 => Owned(key', payload', ref'[q])
  BY <1>2, <1>3 DEF OwnInv
<1>6. \A q \in Procs : new'[q] # 0 /\ pc'[q] # "compute" => Owned(key', payload', new'[q])
  BY <1>2, <1>3 DEF OwnInv
<1>7. \A q \in Procs : pc'[q] \in Updating => KeyValue(key'[ref'[q]]) = KeyValue(key'[new'[q]])
  BY <1>2 DEF OwnInv
<1> QED BY <1>4, <1>5, <1>6, <1>7 DEF OwnInv, Owned, KeyValue

LEMMA OwnNext ==
  ASSUME NoCollisions
  PROVE  Base /\ OwnInv /\ [Next]_vars => OwnInv'
<1> SUFFICES ASSUME Base, OwnInv, [Next]_vars PROVE OwnInv'
  OBVIOUS
<1>1. ASSUME NEW p \in Procs, Call(p) \/ Step(p) PROVE OwnInv'
  <2>1. Moved(p) /\ Base'
    BY <1>1, Moves, BaseStep
  <2>2. CASE Collects(p)
    <3>1. Shape(p) /\ Collect
      BY <2>2, CollectsShape
    <3>2. Kept(key, key') /\ Kept(payload, payload')
      BY <2>1, <3>1, SweptKept DEF Collect, Base
    <3> QED BY <2>1, <2>2, <3>1, <3>2, CollectsPlaces, OwnShape
  <2>3. CASE Leaves(p)
    <3>1. Shape(p) /\ Kept(key, key') /\ Kept(payload, payload')
      BY <2>3, LeavesShape DEF Kept
    <3> QED BY <2>1, <2>3, <3>1, LeavesPlaces, OwnShape
  <2> QED BY <1>1, <2>2, <2>3, StepsSplit, OwnMiss, OwnCompute, OwnSwap
<1>2. CASE UNCHANGED vars
  BY <1>2 DEF OwnInv, Owned, KeyValue, vars, mapVars, entryVars, procVars
<1> QED BY <1>1, <1>2, OwnAround DEF Next

LEMMA OwnInit == Init => OwnInv
BY DEF Init, OwnInv, Updating

\* What the entry of a key holds was computed for that key, whichever calls,
\* updates in place and evictions come between, if no two keys have one hash.
THEOREM KeyOwnsPayload ==
  ASSUME NoCollisions
  PROVE  Spec => []OwnPayload
<1>1. OwnInv => OwnPayload
  BY DEF OwnInv, Owned, OwnPayload
<1> QED BY <1>1, BaseInit, BaseNext, OwnInit, OwnNext, PTL DEF Spec

-----------------------------------------------------------------------------
(***************************************************************************)
(* The bytes.  The map's counter and its shard's are moved by the same     *)
(* amounts unless an update adds to a shard that is being cleared; the     *)
(* shard's follows the weights of its entries unless one of the races      *)
(* happens.                                                                *)
(***************************************************************************)

CountInv ==
  /\ "lost" \notin raced =>
       mem + NetOn(OwedMem, Procs) = shardMem + NetOn(OwedShard, Procs)
  /\ raced = {} => shardMem + NetOn(OwedShard, Procs) = SumOn(Held, Hashes)
  /\ "lost" \notin raced => \A p \in Procs : pc[p] = "clear" => dMem[p] = -shardMem

\* A new entry is its maker's alone until it is published.
Private ==
  \A p \in Procs : new[p] # 0 =>
    /\ \A h \in Hashes : items[h] # new[p]
    /\ \A q \in Procs \ {p} : new[q] # new[p]

LEMMA HeldType ==
  ASSUME MapTypes, EntryTypes
  PROVE  Held \in [Hashes -> Nat] /\ SumOn(Held, Hashes) \in Nat
<1>1. Held \in [Hashes -> Nat]
  BY WeightType DEF Held, MapTypes
<1> QED BY <1>1, HashesFinite, SumType

LEMMA HeldTypeNext ==
  ASSUME MapTypes', EntryTypes'
  PROVE  Held' \in [Hashes -> Nat] /\ SumOn(Held', Hashes) \in Nat
<1>1. EntrySize \in Nat \ {0} /\ \A d \in Payloads : d.size \in Nat
  <2>1. \A k \in Keys : Sizes[k] \subseteq Nat
    BY SizesAssumption
  <2> QED BY <2>1, SizesAssumption DEF Payloads
<1>2. Held' \in [Hashes -> Nat]
  BY <1>1 DEF Held, Weight, MapTypes, EntryTypes
<1> QED BY <1>2, HashesFinite, SumType

LEMMA HeldUpdate ==
  ASSUME Base, Base', NEW h \in Hashes, \A y \in Hashes \ {h} : Held'[y] = Held[y]
  PROVE  SumOn(Held', Hashes) = SumOn(Held, Hashes) + (Held'[h] - Held[h])
<1>1. /\ \A y \in Hashes : Held[y] \in Nat
      /\ \A y \in Hashes : Held'[y] \in Nat
  BY HeldType, HeldTypeNext DEF Base
<1>2. \A f, g : /\ \A y \in Hashes : f[y] \in Nat /\ g[y] \in Nat
                /\ \A y \in Hashes \ {h} : g[y] = f[y]
                => SumOn(g, Hashes) = SumOn(f, Hashes) + (g[h] - f[h])
  BY HashesFinite, SumUpdate
<1> QED BY <1>1, <1>2

\* Nothing of what the map holds changes.
LEMMA HeldKept ==
  ASSUME items' = items, Kept(payload, payload')
  PROVE  Held' = Held
<1>1. \A h \in Hashes : items[h] # 0 => payload'[items[h]] = payload[items[h]]
  BY DEF Kept
<1> QED BY <1>1 DEF Held, Weight

LEMMA OwedTypes ==
  ASSUME ProcTypes
  PROVE  /\ OwedMem \in [Procs -> Int] /\ NetOn(OwedMem, Procs) \in Int
         /\ OwedShard \in [Procs -> Int] /\ NetOn(OwedShard, Procs) \in Int
<1>1. OwedMem \in [Procs -> Int] /\ OwedShard \in [Procs -> Int]
  BY DEF ProcTypes, OwedMem, OwedShard
<1> QED BY <1>1, ProcsAssumption, NetType

LEMMA OwedMove ==
  ASSUME Base, NEW p \in Procs, Moved(p)
  PROVE  /\ OwedMem' \in [Procs -> Int] /\ OwedShard' \in [Procs -> Int]
         /\ NetOn(OwedMem', Procs) = NetOn(OwedMem, Procs) + (OwedMem'[p] - OwedMem[p])
         /\ NetOn(OwedShard', Procs) = NetOn(OwedShard, Procs) + (OwedShard'[p] - OwedShard[p])
<1>1. OwedMem' \in [Procs -> Int] /\ OwedShard' \in [Procs -> Int]
  BY DEF Moved, ProcTypes, OwedMem, OwedShard
<1>2. OwedMem \in [Procs -> Int] /\ OwedShard \in [Procs -> Int]
  BY OwedTypes DEF Base
<1>3. \A q \in Procs \ {p} : OwedMem'[q] = OwedMem[q] /\ OwedShard'[q] = OwedShard[q]
  BY DEF Moved, Others, OwedMem, OwedShard
<1> QED BY <1>1, <1>2, <1>3, ProcsAssumption, NetUpdate

\* A step of p balances if counters, debts and weights move together.
LEMMA CountBalance ==
  ASSUME Base, CountInv, NEW p \in Procs, Call(p) \/ Step(p), raced \subseteq raced',
         "lost" \notin raced' =>
           (mem' - mem) + (OwedMem'[p] - OwedMem[p])
             = (shardMem' - shardMem) + (OwedShard'[p] - OwedShard[p]),
         raced' = {} =>
           (shardMem' - shardMem) + (OwedShard'[p] - OwedShard[p])
             = SumOn(Held', Hashes) - SumOn(Held, Hashes),
         "lost" \notin raced' => \A q \in Procs : pc'[q] = "clear" => dMem'[q] = -shardMem'
  PROVE  CountInv'
<1>1. Base' /\ Moved(p)
  BY BaseStep, Moves
<1>2. /\ NetOn(OwedMem', Procs) = NetOn(OwedMem, Procs) + (OwedMem'[p] - OwedMem[p])
      /\ NetOn(OwedShard', Procs) = NetOn(OwedShard, Procs) + (OwedShard'[p] - OwedShard[p])
      /\ OwedMem'[p] \in Int /\ OwedShard'[p] \in Int
  BY <1>1, OwedMove
<1>3. /\ NetOn(OwedMem, Procs) \in Int /\ NetOn(OwedShard, Procs) \in Int
      /\ OwedMem[p] \in Int /\ OwedShard[p] \in Int
  BY OwedTypes DEF Base
<1>4. /\ mem \in Int /\ mem' \in Int /\ shardMem \in Int /\ shardMem' \in Int
      /\ SumOn(Held, Hashes) \in Nat /\ SumOn(Held', Hashes) \in Nat
  BY <1>1, HeldType, HeldTypeNext DEF Base, MapTypes
<1>5. "lost" \notin raced' =>
        mem' + NetOn(OwedMem', Procs) = shardMem' + NetOn(OwedShard', Procs)
  BY <1>2, <1>3, <1>4 DEF CountInv
<1>6. ASSUME raced' = {} PROVE shardMem' + NetOn(OwedShard', Procs) = SumOn(Held', Hashes)
  <2>1. raced = {}
    BY <1>6
  <2>2. shardMem + NetOn(OwedShard, Procs) = SumOn(Held, Hashes)
    BY <2>1 DEF CountInv
  <2>3. (shardMem' - shardMem) + (OwedShard'[p] - OwedShard[p])
          = SumOn(Held', Hashes) - SumOn(Held, Hashes)
    BY <1>6
  <2> QED BY <1>2, <1>3, <1>4, <2>2, <2>3
<1> QED BY <1>5, <1>6 DEF CountInv

LEMMA CountQuiet ==
  ASSUME Base, CountInv, NEW p \in Procs, Call(p) \/ Step(p),
         raced' = raced, mem' = mem, shardMem' = shardMem, Held' = Held,
         OwedMem'[p] = OwedMem[p], OwedShard'[p] = OwedShard[p], pc'[p] # "clear"
  PROVE  CountInv'
<1>1. Moved(p)
  BY Moves
<1>2. /\ mem \in Int /\ shardMem \in Int /\ OwedMem[p] \in Int /\ OwedShard[p] \in Int
      /\ SumOn(Held, Hashes) \in Nat
  BY OwedTypes, HeldType DEF Base, MapTypes
<1>3. SumOn(Held', Hashes) = SumOn(Held, Hashes)
  OBVIOUS
<1>4. "lost" \notin raced' => \A q \in Procs : pc'[q] = "clear" => dMem'[q] = -shardMem'
  BY <1>1 DEF CountInv, Moved, Others
<1>5. (mem' - mem) + (OwedMem'[p] - OwedMem[p])
        = (shardMem' - shardMem) + (OwedShard'[p] - OwedShard[p])
  BY <1>2
<1>6. (shardMem' - shardMem) + (OwedShard'[p] - OwedShard[p])
        = SumOn(Held', Hashes) - SumOn(Held, Hashes)
  BY <1>2, <1>3
<1> QED BY <1>4, <1>5, <1>6, CountBalance

LEMMA PrivateShape ==
  ASSUME Base, Private, NEW p \in Procs, Shape(p),
         new'[p] # 0 => \A h \in Hashes : items'[h] = items[h] \/ items'[h] = 0
  PROVE  Private'
<1>1. ASSUME NEW q \in Procs, new'[q] # 0
      PROVE  /\ \A h \in Hashes : items'[h] # new'[q]
             /\ \A r \in Procs \ {q} : new'[r] # new'[q]
  <2>1. new'[q] = new[q] /\ new[q] # 0
    BY <1>1 DEF Shape
  <2>2. \A r \in Procs \ {q} : new'[r] # new'[q]
    BY <1>1, <2>1 DEF Shape, Private
  <2>3. ASSUME NEW h \in Hashes PROVE items'[h] # new'[q]
    <3>1. CASE items'[h] = items[h] \/ items'[h] = 0
      BY <1>1, <2>1, <3>1 DEF Private
    <3>2. CASE ~(items'[h] = items[h] \/ items'[h] = 0)
      <4>1. items'[h] = new[p] /\ new[p] # 0 /\ q # p
        BY <1>1, <3>2 DEF Shape
      <4> QED BY <2>1, <4>1 DEF Private
    <3> QED BY <3>1, <3>2
  <2> QED BY <2>2, <2>3
<1> QED BY <1>1 DEF Private

LEMMA CollectsPublishes ==
  ASSUME Base, NEW p \in Procs, Collects(p), new'[p] # 0
  PROVE  \A h \in Hashes : items'[h] = items[h] \/ items'[h] = 0
<1>0. new \in [Procs -> Entries \cup {0}] /\ items \in [Hashes -> Entries \cup {0}]
  BY DEF Base, ProcTypes, MapTypes
<1>1. CASE Insert(p)
  BY <1>0, <1>1 DEF Insert
<1>2. CASE ClearStore(p)
  BY <1>2 DEF ClearStore
<1>3. CASE Remove(p) \/ EvictRemove(p)
  <2>1. RemoveKeyOf(p, ref[p])
    BY <1>3 DEF Remove, EvictRemove
  <2> DEFINE h == KeyValue(key[ref[p]])
  <2>2. items' = items \/ items' = [items EXCEPT ![h] = 0]
    BY <2>1 DEF RemoveKeyOf
  <2> HIDE DEF h
  <2> QED BY <1>0, <2>2
<1>4. CASE GetHit(p) \/ ComputeFails(p) \/ SetSame(p) \/ AdmitReject(p) \/ EvictTryLockFails(p)
  BY <1>4 DEF GetHit, ComputeFails, SetSame, AdmitReject, EvictTryLockFails, mapVars
<1> QED BY <1>1, <1>2, <1>3, <1>4 DEF Collects

LEMMA PrivateNext == Base /\ Private /\ [Next]_vars => Private'
<1> SUFFICES ASSUME Base, Private, [Next]_vars PROVE Private'
  OBVIOUS
<1>1. ASSUME NEW p \in Procs, Call(p) \/ Step(p) PROVE Private'
  <2>1. CASE Collects(p)
    BY <2>1, CollectsShape, CollectsPublishes, PrivateShape
  <2>2. CASE Leaves(p)
    BY <2>2, LeavesShape, PrivateShape
  <2>3. ASSUME NEW k \in Keys, GetMiss(p, k) PROVE Private'
    <3>1. PICK e \in Entries :
            /\ new' = [new EXCEPT ![p] = e]
            /\ \A h \in Hashes : items[h] # e
            /\ \A q \in Procs : new[q] # e
            /\ items' = items
      BY <2>3, MissMakes
    <3>2. new \in [Procs -> Entries \cup {0}]
      BY DEF Base, ProcTypes
    <3> QED BY <3>1, <3>2 DEF Private
  <2>4. CASE Compute(p)
    <3>1. items' = items /\ new' = new
      BY <2>4, ComputeEffect
    <3> QED BY <3>1 DEF Private
  <2>5. CASE UpdateSwap(p)
    BY <2>5, SwapEffect, PrivateShape
  <2> QED BY <1>1, <2>1, <2>2, <2>3, <2>4, <2>5, StepsSplit
<1>2. CASE UNCHANGED vars
  BY <1>2 DEF Private, vars, mapVars, procVars
<1>3. CASE \E k \in Keys : \E n \in Sizes[k] : AroundSetPayload(k, n)
  BY <1>3 DEF AroundSetPayload, Private, mapVars, procVars
<1> QED BY <1>1, <1>2, <1>3 DEF Next

\* A new entry's payload is not among those of the map.
LEMMA CountCompute ==
  ASSUME Base, Private, CountInv, NEW p \in Procs, Compute(p)
  PROVE  CountInv'
<1>1. PICK d \in Payloads :
        /\ payload' = [payload EXCEPT ![new[p]] = d]
        /\ new[p] \in Entries
        /\ UNCHANGED <<items, shardMem, mem, dMem, raced>>
  BY ComputeEffect
<1>2. /\ items \in [Hashes -> Entries \cup {0}] /\ EntryTypes
      /\ \A h \in Hashes : items[h] # new[p]
  BY <1>1, EntriesAssumption DEF Base, MapTypes, Private
<1>3. \A h \in Hashes : items[h] # 0 => payload'[items[h]] = payload[items[h]]
  BY <1>1, <1>2 DEF EntryTypes
<1>4. Held' = Held
  BY <1>1, <1>3 DEF Held, Weight
<1>5. pc[p] = "compute" /\ pc'[p] = "set"
  BY DEF Compute, Goto, Base, ProcTypes
<1>6. OwedMem'[p] = OwedMem[p] /\ OwedShard'[p] = OwedShard[p]
  BY <1>1, <1>5 DEF OwedMem, OwedShard
<1> QED BY <1>1, <1>4, <1>5, <1>6, CountQuiet DEF Step

LEMMA CountMiss ==
  ASSUME Base, CountInv, NEW p \in Procs, Call(p) \/ Step(p), NEW k \in Keys,
         GetMiss(p, k)
  PROVE  CountInv'
<1>1. UNCHANGED <<items, shardMem, payload, mem, dMem, raced>>
  BY DEF GetMiss, mapVars
<1>2. Held' = Held
  BY <1>1 DEF Held, Weight
<1>3. pc[p] = "idle" /\ pc'[p] = "compute"
  BY DEF GetMiss, Goto, Base, ProcTypes
<1>4. OwedMem'[p] = OwedMem[p] /\ OwedShard'[p] = OwedShard[p]
  BY <1>1, <1>3 DEF OwedMem, OwedShard
<1> QED BY <1>1, <1>2, <1>3, <1>4, CountQuiet

\* Nothing but the places and the hands of p change.
Still(p) ==
  /\ items' = items /\ raced' = raced /\ mem' = mem /\ shardMem' = shardMem
  /\ OwedMem'[p] = OwedMem[p] /\ OwedShard'[p] = OwedShard[p]
  /\ pc'[p] # "clear"

\* Steps that touch no counter and leave no debt.
LEMMA CountStill ==
  ASSUME Base, CountInv, NEW p \in Procs, Call(p) \/ Step(p),
         Collects(p) \/ Leaves(p), Still(p)
  PROVE  CountInv'
<1>1. Kept(payload, payload')
  <2>1. CASE Collects(p)
    <3>1. Collect /\ Base'
      BY <2>1, CollectsShape, BaseStep
    <3> QED BY <3>1, SweptKept DEF Collect, Base
  <2>2. CASE Leaves(p)
    BY <2>2, LeavesShape DEF Kept
  <2> QED BY <2>1, <2>2
<1>2. Held' = Held
  BY <1>1, HeldKept DEF Still
<1> QED BY <1>2, CountQuiet DEF Still

StillStep(p) ==
  \/ \E k \in Keys : GetFind(p, k) \/ DelFind(p, k)
  \/ GetHit(p) \/ ComputeFails(p) \/ SetFind(p) \/ SetSame(p) \/ SetDiffers(p)
  \/ UpdateWeigh(p) \/ AdmitReject(p) \/ AdmitPass(p) \/ CheckLimit(p)
  \/ BeginSoftEvict(p) \/ EvictPick(p) \/ EvictNoVictim(p) \/ EvictTryLockFails(p)
  \/ EndEvict(p) \/ AggregateLen(p) \/ Return(p)

LEMMA StillSteps ==
  ASSUME Base, NEW p \in Procs, StillStep(p)
  PROVE  Still(p)
<1>0. /\ pc \in [Procs -> PCs] /\ dMem \in [Procs -> Int]
      /\ pc[p] \notin {"inserted", "removed", "cleared", "evict", "clear",
                      "swap", "addMem", "addShardMem"} => dMem[p] = 0
  BY DEF Base, ProcTypes, LocalsOK
<1> USE DEF Still, OwedMem, OwedShard, Goto, Finish, mapVars
<1>1. CASE \E k \in Keys : GetFind(p, k) \/ DelFind(p, k)
  BY <1>0, <1>1 DEF GetFind, DelFind
<1>2. CASE GetHit(p) \/ ComputeFails(p) \/ SetSame(p) \/ AdmitReject(p)
  BY <1>0, <1>2 DEF GetHit, ComputeFails, SetSame, AdmitReject
<1>3. CASE SetFind(p) \/ SetDiffers(p)
  BY <1>0, <1>3 DEF SetFind, SetDiffers
<1>4. CASE UpdateWeigh(p)
  BY <1>0, <1>4 DEF UpdateWeigh
<1>5. CASE AdmitPass(p) \/ CheckLimit(p)
  BY <1>0, <1>5 DEF AdmitPass, CheckLimit
<1>6. CASE BeginSoftEvict(p)
  BY <1>0, <1>6 DEF BeginSoftEvict
<1>7. CASE EvictPick(p) \/ EvictNoVictim(p)
  BY <1>0, <1>7 DEF EvictPick, EvictNoVictim, Evicting, Settled
<1>8. CASE EvictTryLockFails(p)
  BY <1>0, <1>8 DEF EvictTryLockFails
<1>9. CASE EndEvict(p)
  BY <1>0, <1>9 DEF EndEvict, Settled
<1>10. CASE AggregateLen(p)
  BY <1>0, <1>10 DEF AggregateLen, Owes
<1>11. CASE Return(p)
  BY <1>0, <1>11 DEF Return, Settled
<1> QED BY <1>1, <1>2, <1>3, <1>4, <1>5, <1>6, <1>7, <1>8, <1>9, <1>10, <1>11
           DEF StillStep

\* What p adds to a counter it owed to it.
LEMMA CountAdds ==
  ASSUME Base, CountInv, NEW p \in Procs, UpdateAddMem(p) \/ AggregateMem(p)
  PROVE  CountInv'
<1>0. /\ pc \in [Procs -> PCs] /\ dMem \in [Procs -> Int] /\ LocalsOK
      /\ mem \in Int /\ shardMem \in Int /\ dMem[p] \in Int
      /\ SumOn(Held, Hashes) \in Nat
  BY HeldType DEF Base, ProcTypes, MapTypes
<1>1. /\ Leaves(p) /\ Step(p) /\ Moved(p)
  BY Moves DEF Leaves, Step
<1>2. /\ items' = items /\ raced' = raced /\ shardMem' = shardMem /\ mem' = mem + dMem[p]
      /\ OwedMem[p] = dMem[p] /\ OwedMem'[p] = 0 /\ OwedShard'[p] = OwedShard[p]
      /\ OwedShard[p] \in Int /\ pc'[p] # "clear"
  BY <1>0 DEF UpdateAddMem, AggregateMem, Owes, Goto, mapVars, OwedMem, OwedShard
<1>3. Held' = Held
  BY <1>1, <1>2, LeavesShape, HeldKept DEF Kept
<1>4. \A q \in Procs : pc'[q] = "clear" => pc[q] = "clear" /\ dMem'[q] = dMem[q]
  BY <1>1, <1>2 DEF Moved, Others
<1>5. (mem' - mem) + (OwedMem'[p] - OwedMem[p])
        = (shardMem' - shardMem) + (OwedShard'[p] - OwedShard[p])
  BY <1>0, <1>2
<1>6. (shardMem' - shardMem) + (OwedShard'[p] - OwedShard[p])
        = SumOn(Held', Hashes) - SumOn(Held, Hashes)
  BY <1>0, <1>2, <1>3
<1>7. "lost" \notin raced' => \A q \in Procs : pc'[q] = "clear" => dMem'[q] = -shardMem'
  BY <1>2, <1>4 DEF CountInv
<1> QED BY <1>1, <1>2, <1>5, <1>6, <1>7, CountBalance

\* An addition to the shard would be lost on a Clear in between.
LEMMA CountAddsShard ==
  ASSUME Base, CountInv, NEW p \in Procs, UpdateAddShardMem(p)
  PROVE  CountInv'
<1>0. /\ pc \in [Procs -> PCs] /\ dMem \in [Procs -> Int] /\ LocalsOK
      /\ mem \in Int /\ shardMem \in Int /\ dMem[p] \in Int
      /\ SumOn(Held, Hashes) \in Nat
  BY HeldType DEF Base, ProcTypes, MapTypes
<1>1. /\ Leaves(p) /\ Step(p) /\ Moved(p)
  BY Moves DEF Leaves, Step
<1>2. /\ items' = items /\ mem' = mem /\ shardMem' = shardMem + dMem[p] /\ pc'[p] = "idle"
      /\ OwedMem[p] = 0 /\ OwedMem'[p] = 0 /\ OwedShard'[p] = 0 /\ OwedShard[p] = dMem[p]
  BY <1>0 DEF UpdateAddShardMem, Goto, Finish, OwedMem, OwedShard
<1>3. Held' = Held
  BY <1>1, <1>2, LeavesShape, HeldKept DEF Kept
<1>4. raced \subseteq raced' /\ ("lost" \notin raced' => Unlocked \/ dMem[p] = 0)
  BY DEF UpdateAddShardMem, Races
<1>5. (mem' - mem) + (OwedMem'[p] - OwedMem[p])
        = (shardMem' - shardMem) + (OwedShard'[p] - OwedShard[p])
  BY <1>0, <1>2
<1>6. (shardMem' - shardMem) + (OwedShard'[p] - OwedShard[p])
        = SumOn(Held', Hashes) - SumOn(Held, Hashes)
  BY <1>0, <1>2, <1>3
<1>7. ASSUME "lost" \notin raced', NEW q \in Procs, pc'[q] = "clear"
      PROVE  dMem'[q] = -shardMem'
  <2>1. pc[q] = "clear" /\ dMem'[q] = dMem[q]
    BY <1>1, <1>2, <1>7 DEF Moved, Others
  <2>2. dMem[p] = 0
    BY <1>0, <1>4, <1>7, <2>1, NobodyClears
  <2>3. shardMem' = shardMem /\ dMem[q] = -shardMem
    BY <1>0, <1>2, <1>4, <1>7, <2>1, <2>2 DEF CountInv
  <2> QED BY <2>1, <2>3
<1> QED BY <1>1, <1>4, <1>5, <1>6, <1>7, CountBalance

LEMMA CountSwap ==
  ASSUME Base, CountInv, NEW p \in Procs, UpdateSwap(p)
  PROVE  CountInv'
<1> DEFINE e == ref[p]
           h == KeyValue(key[e])
           f == [payload EXCEPT ![e] = payload[new[p]]]
<1>0. /\ pc \in [Procs -> PCs] /\ dMem \in [Procs -> Int] /\ LocalsOK /\ KeysOK
      /\ mem \in Int /\ shardMem \in Int /\ dMem[p] \in Int
      /\ items \in [Hashes -> Entries \cup {0}] /\ EntryTypes
  BY DEF Base, ProcTypes, MapTypes
<1>1. /\ Step(p) /\ Moved(p) /\ Base'
  BY Moves, BaseStep DEF Step
<1>2. /\ Kept(f, payload') /\ items' = items /\ shardMem' = shardMem /\ mem' = mem
      /\ dMem' = dMem /\ new[p] \in Entries /\ e \in Entries
  BY SwapEffect
<1>3. /\ pc[p] = "swap" /\ pc'[p] = "addMem" /\ raced \subseteq raced'
      /\ raced' = {} => items[h] = e /\ dMem[p] = Weight(new[p]) - Weight(e)
  BY <1>0 DEF UpdateSwap, Goto, Races
<1>4. OwedMem[p] = 0 /\ OwedMem'[p] = dMem[p] /\ OwedShard[p] = 0 /\ OwedShard'[p] = dMem[p]
  BY <1>2, <1>3 DEF OwedMem, OwedShard
<1>5. (mem' - mem) + (OwedMem'[p] - OwedMem[p])
        = (shardMem' - shardMem) + (OwedShard'[p] - OwedShard[p])
  BY <1>0, <1>2, <1>4
<1>6. ASSUME raced' = {}
      PROVE  (shardMem' - shardMem) + (OwedShard'[p] - OwedShard[p])
               = SumOn(Held', Hashes) - SumOn(Held, Hashes)
  <2>1. h \in Hashes /\ items[h] = e /\ e # 0
    BY <1>0, <1>2, <1>3, <1>6, KeyValueType, EntriesAssumption DEF KeysOK, LocalsOK
  <2>2. Held[h] = Weight(e) /\ Held'[h] = Weight(new[p])
    <3>1. payload'[e] = payload[new[p]]
      BY <1>0, <1>2, <2>1 DEF Kept, EntryTypes
    <3>2. Held[h] = Weight(e)
      BY <2>1 DEF Held
    <3>3. Held'[h] = EntrySize + (IF payload'[e] = Nil THEN 0 ELSE payload'[e].size)
      BY <1>2, <2>1 DEF Held, Weight
    <3> QED BY <3>1, <3>2, <3>3 DEF Weight
  <2>3. ASSUME NEW y \in Hashes \ {h} PROVE Held'[y] = Held[y]
    <3>1. CASE items[y] = 0
      BY <1>2, <3>1 DEF Held
    <3>2. CASE items[y] # 0
      <4>1. items[y] # e /\ items[y] \in Entries
        BY <1>0, <3>2 DEF KeysOK
      <4>2. payload'[items[y]] = f[items[y]] /\ f[items[y]] = payload[items[y]]
        BY <1>0, <1>2, <3>2, <4>1 DEF Kept, EntryTypes
      <4> HIDE DEF f
      <4>3. payload'[items'[y]] = payload[items[y]]
        BY <1>2, <4>2
      <4> QED BY <1>2, <4>3 DEF Held, Weight
    <3> QED BY <3>1, <3>2
  <2> HIDE DEF h, e, f
  <2>4. SumOn(Held', Hashes) = SumOn(Held, Hashes) + (Held'[h] - Held[h])
    BY <1>1, <2>1, <2>3, HeldUpdate
  <2>5. SumOn(Held, Hashes) \in Nat /\ Weight(e) \in Nat /\ Weight(new[p]) \in Nat
    BY <1>2, HeldType, WeightType DEF Base
  <2> QED BY <1>0, <1>2, <1>3, <1>4, <1>6, <2>2, <2>4, <2>5
<1>7. "lost" \notin raced' => \A q \in Procs : pc'[q] = "clear" => dMem'[q] = -shardMem'
  BY <1>1, <1>2, <1>3 DEF CountInv, Moved, Others
<1> QED BY <1>1, <1>3, <1>5, <1>6, <1>7, CountBalance

\* A section in the shard: what enters or leaves the map is owed to it.
LEMMA CountSection ==
  ASSUME Base, CountInv, NEW p \in Procs, Step(p), NEW h \in Hashes, Unlocked, Collect,
         \A y \in Hashes \ {h} : items'[y] = items[y],
         raced' = raced, mem' = mem, dMem[p] = 0, dMem'[p] = Held'[h] - Held[h],
         shardMem' = shardMem + dMem'[p],
         pc[p] \in {"insert", "remove", "evictLock"},
         pc'[p] \in {"inserted", "removed", "evict"}
  PROVE  CountInv'
<1>1. Moved(p) /\ Base'
  BY Moves, BaseStep
<1>2. /\ mem \in Int /\ shardMem \in Int /\ Held[h] \in Nat /\ Held'[h] \in Nat
      /\ SumOn(Held, Hashes) \in Nat
  BY <1>1, HeldType, HeldTypeNext DEF Base, MapTypes
<1>3. OwedMem[p] = 0 /\ OwedMem'[p] = dMem'[p] /\ OwedShard[p] = 0 /\ OwedShard'[p] = 0
  BY DEF OwedMem, OwedShard
<1>4. ASSUME NEW y \in Hashes \ {h} PROVE Held'[y] = Held[y]
  <2>1. Kept(payload, payload')
    BY <1>1, SweptKept DEF Collect, Base
  <2>2. items'[y] = items[y] /\ (items'[y] # 0 => payload'[items'[y]] = payload[items'[y]])
    BY <2>1 DEF Kept
  <2> QED BY <2>2 DEF Held, Weight
<1>5. SumOn(Held', Hashes) = SumOn(Held, Hashes) + (Held'[h] - Held[h])
  BY <1>1, <1>4, HeldUpdate
<1>6. \A q \in Procs : pc'[q] # "clear"
  BY <1>1, NobodyClears DEF Base, Moved, Others
<1>7. (mem' - mem) + (OwedMem'[p] - OwedMem[p])
        = (shardMem' - shardMem) + (OwedShard'[p] - OwedShard[p])
  BY <1>2, <1>3
<1>8. (shardMem' - shardMem) + (OwedShard'[p] - OwedShard[p])
        = SumOn(Held', Hashes) - SumOn(Held, Hashes)
  BY <1>2, <1>3, <1>5
<1> QED BY <1>6, <1>7, <1>8, CountBalance

LEMMA CountInsert ==
  ASSUME Base, CountInv, NEW p \in Procs, Insert(p)
  PROVE  CountInv'
<1> DEFINE h == KeyValue(key[new[p]])
           by == Weight(new[p]) - (IF items[h] = 0 THEN 0 ELSE Weight(items[h]))
<1>0. /\ pc \in [Procs -> PCs] /\ dMem \in [Procs -> Int] /\ LocalsOK /\ KeysOK /\ MapTypes
      /\ items \in [Hashes -> Entries \cup {0}] /\ EntryTypes /\ shardMem \in Int
      /\ new \in [Procs -> Entries \cup {0}]
  BY DEF Base, ProcTypes, MapTypes
<1>1. Step(p) /\ Base' /\ Collect
  BY BaseStep DEF Step, Insert
<1>2. /\ pc[p] = "insert" /\ pc'[p] = "inserted" /\ Unlocked /\ raced' = raced /\ mem' = mem
      /\ items' = [items EXCEPT ![h] = new[p]] /\ shardMem' = shardMem + by
      /\ dMem' = [dMem EXCEPT ![p] = by]
  BY <1>0 DEF Insert, Goto, Owe
<1>3. new[p] \in Entries /\ new[p] # 0 /\ h \in Hashes /\ dMem[p] = 0
  BY <1>0, <1>2, KeyValueType DEF KeysOK, LocalsOK
<1>4. by = Held'[h] - Held[h]
  <2>1. items'[h] = new[p] /\ \A y \in Hashes \ {h} : items'[y] = items[y]
    BY <1>0, <1>2, <1>3
  <2>2. payload'[new[p]] = payload[new[p]]
    <3>1. Kept(payload, payload')
      BY <1>1, SweptKept DEF Collect, Base
    <3> QED BY <1>3, <2>1, <3>1 DEF Kept
  <2>3. Held'[h] = EntrySize + (IF payload'[new[p]] = Nil THEN 0 ELSE payload'[new[p]].size)
    BY <1>3, <2>1 DEF Held, Weight
  <2>4. Held[h] = IF items[h] = 0 THEN 0 ELSE Weight(items[h])
    BY <1>3 DEF Held
  <2> QED BY <2>2, <2>3, <2>4 DEF Weight
<1>5. dMem'[p] = by /\ \A y \in Hashes \ {h} : items'[y] = items[y]
  BY <1>0, <1>2, <1>3
<1> HIDE DEF by, h
<1> QED BY <1>1, <1>2, <1>3, <1>4, <1>5, CountSection

LEMMA CountRemove ==
  ASSUME Base, CountInv, NEW p \in Procs, Remove(p) \/ EvictRemove(p)
  PROVE  CountInv'
<1> DEFINE h == KeyValue(key[ref[p]])
<1>0. /\ pc \in [Procs -> PCs] /\ dMem \in [Procs -> Int] /\ LocalsOK /\ KeysOK
      /\ items \in [Hashes -> Entries \cup {0}] /\ EntryTypes /\ shardMem \in Int
  BY DEF Base, ProcTypes, MapTypes
<1>1. Step(p) /\ Collects(p) /\ RemoveKeyOf(p, ref[p]) /\ Base'
  BY BaseStep DEF Step, Collects, Remove, EvictRemove
<1>2. /\ pc[p] \in {"remove", "evictLock"} /\ pc'[p] \in {"removed", "evict"}
      /\ Unlocked /\ Collect /\ raced' = raced /\ mem' = mem
  BY <1>0, <1>1 DEF Remove, EvictRemove, RemoveKeyOf, Goto
<1>3. h \in Hashes /\ dMem[p] = 0
  BY <1>0, <1>2, KeyValueType DEF KeysOK, LocalsOK
<1>4. CASE items[h] = 0
  <2>1. items' = items /\ shardMem' = shardMem /\ dMem' = dMem
    BY <1>1, <1>4 DEF RemoveKeyOf
  <2>2. Still(p)
    BY <1>2, <1>3, <2>1 DEF Still, OwedMem, OwedShard
  <2> QED BY <1>1, <2>2, CountStill
<1>5. CASE items[h] # 0
  <2>1. /\ items' = [items EXCEPT ![h] = 0] /\ shardMem' = shardMem - Weight(items[h])
        /\ dMem' = [dMem EXCEPT ![p] = -Weight(items[h])]
    BY <1>1, <1>5 DEF RemoveKeyOf, Owe
  <2>2. items'[h] = 0 /\ \A y \in Hashes \ {h} : items'[y] = items[y]
    BY <1>0, <1>3, <2>1
  <2>3. dMem'[p] = -Weight(items[h]) /\ Weight(items[h]) \in Nat
    BY <1>0, <1>3, <1>5, <2>1, WeightType
  <2>4. Held'[h] = 0 /\ Held[h] = Weight(items[h])
    BY <1>3, <1>5, <2>2 DEF Held
  <2> HIDE DEF h
  <2>5. dMem'[p] = Held'[h] - Held[h] /\ shardMem' = shardMem + dMem'[p]
    BY <1>0, <2>1, <2>3, <2>4
  <2> QED BY <1>1, <1>2, <1>3, <2>2, <2>5, CountSection
<1> QED BY <1>4, <1>5

LEMMA CountClearLock ==
  ASSUME Base, CountInv, NEW p \in Procs, ClearLock(p)
  PROVE  CountInv'
<1>0. /\ pc \in [Procs -> PCs] /\ dMem \in [Procs -> Int] /\ LocalsOK /\ shardMem \in Int
      /\ mem \in Int /\ SumOn(Held, Hashes) \in Nat
  BY HeldType DEF Base, ProcTypes, MapTypes
<1>1. Call(p) /\ Leaves(p) /\ Moved(p)
  BY Moves DEF Call, Leaves
<1>2. /\ items' = items /\ shardMem' = shardMem /\ mem' = mem /\ raced' = raced
      /\ dMem'[p] = -shardMem /\ pc[p] = "idle" /\ pc'[p] = "clear" /\ dMem[p] = 0 /\ Unlocked
  BY <1>0 DEF ClearLock, Goto, Owe, LocalsOK
<1>3. OwedMem'[p] = 0 /\ OwedMem[p] = 0 /\ OwedShard'[p] = 0 /\ OwedShard[p] = 0
  BY <1>2 DEF OwedMem, OwedShard
<1>4. Held' = Held
  BY <1>1, <1>2, LeavesShape, HeldKept DEF Kept
<1>5. \A q \in Procs : pc'[q] = "clear" => dMem'[q] = -shardMem'
  BY <1>0, <1>1, <1>2, NobodyClears DEF Moved, Others
<1>6. (mem' - mem) + (OwedMem'[p] - OwedMem[p])
        = (shardMem' - shardMem) + (OwedShard'[p] - OwedShard[p])
  BY <1>0, <1>2, <1>3
<1>7. (shardMem' - shardMem) + (OwedShard'[p] - OwedShard[p])
        = SumOn(Held', Hashes) - SumOn(Held, Hashes)
  BY <1>0, <1>2, <1>3, <1>4
<1> QED BY <1>1, <1>2, <1>5, <1>6, <1>7, CountBalance

LEMMA CountClearStore ==
  ASSUME Base, CountInv, NEW p \in Procs, ClearStore(p)
  PROVE  CountInv'
<1>0. /\ pc \in [Procs -> PCs] /\ dMem \in [Procs -> Int] /\ LocalsOK /\ shardMem \in Int
      /\ mem \in Int
  BY DEF Base, ProcTypes, MapTypes
<1>1. Step(p) /\ Moved(p)
  BY Moves DEF Step
<1>2. /\ \A h \in Hashes : items'[h] = 0
      /\ shardMem' = 0 /\ mem' = mem /\ dMem' = dMem /\ raced \subseteq raced'
      /\ pc[p] = "clear" /\ pc'[p] = "cleared"
      /\ raced' = {} => \A q \in Procs : pc[q] \in {"addMem", "addShardMem"} => dMem[q] = 0
  BY <1>0 DEF ClearStore, Goto, Races
<1>3. OwedMem[p] = 0 /\ OwedMem'[p] = dMem[p] /\ OwedShard'[p] = 0 /\ OwedShard[p] = 0
  BY <1>2 DEF OwedMem, OwedShard
<1>4. ASSUME "lost" \notin raced'
      PROVE  (mem' - mem) + (OwedMem'[p] - OwedMem[p])
               = (shardMem' - shardMem) + (OwedShard'[p] - OwedShard[p])
  <2>1. dMem[p] = -shardMem
    BY <1>2, <1>4 DEF CountInv
  <2> QED BY <1>0, <1>2, <1>3, <2>1
<1>5. ASSUME raced' = {}
      PROVE  (shardMem' - shardMem) + (OwedShard'[p] - OwedShard[p])
               = SumOn(Held', Hashes) - SumOn(Held, Hashes)
  <2>1. OwedShard \in [Procs -> Int] /\ \A q \in Procs : OwedShard[q] = 0
    BY <1>2, <1>5, OwedTypes DEF OwedShard, Base
  <2>2. NetOn(OwedShard, Procs) = 0
    BY <2>1, NetZero
  <2>3. SumOn(Held', Hashes) = 0
    <3>1. \A h \in Hashes : Held'[h] = 0
      BY <1>2 DEF Held
    <3>2. \A f : (\A h \in Hashes : f[h] = 0) => SumOn(f, Hashes) = 0
      BY SumZero
    <3> QED BY <3>1, <3>2
  <2>4. raced = {}
    BY <1>2, <1>5
  <2>5. shardMem + 0 = SumOn(Held, Hashes)
    BY <2>2, <2>4 DEF CountInv
  <2> QED BY <1>0, <1>2, <1>3, <2>3, <2>5
<1>6. \A q \in Procs : pc'[q] # "clear"
  <2>1. \A q \in Procs : pc[q] = "clear" => q = p
    BY <1>0, <1>2 DEF LocalsOK
  <2> QED BY <1>1, <1>2, <2>1 DEF Moved, Others
<1> QED BY <1>1, <1>2, <1>4, <1>5, <1>6, CountBalance

\* A payload set through Around is a race unless it weighs as much.
LEMMA CountAround ==
  ASSUME Base, CountInv, NEW k \in Keys, NEW n \in Sizes[k], AroundSetPayload(k, n)
  PROVE  CountInv'
<1>1. PICK e \in Entries, d \in Payloads :
        /\ d = [owner |-> k, size |-> n]
        /\ payload' = [payload EXCEPT ![e] = d]
        /\ raced \subseteq raced'
        /\ raced' = raced => Weight(e) = EntrySize + n \/ "update" \in raced
        /\ UNCHANGED <<mapVars, len, mem, procVars>>
  BY AroundEffect
<1>2. OwedMem' = OwedMem /\ OwedShard' = OwedShard
  BY <1>1 DEF OwedMem, OwedShard, procVars
<1>3. items \in [Hashes -> Entries \cup {0}] /\ EntryTypes
  BY DEF Base, MapTypes
<1>4. raced' = {} => Held' = Held
  <2>1. SUFFICES ASSUME raced' = {} PROVE Held' = Held
    OBVIOUS
  <2>2. Weight(e) = EntrySize + n /\ items' = items
    BY <1>1, <2>1 DEF mapVars
  <2>3. ASSUME NEW h \in Hashes, items[h] # 0
        PROVE  Weight(items[h])
                 = EntrySize + (IF payload'[items[h]] = Nil THEN 0 ELSE payload'[items[h]].size)
    <3>1. CASE items[h] = e
      <4>1. payload'[e] = d /\ d # Nil /\ d.size = n
        BY <1>1, <1>3, NilAssumption DEF EntryTypes
      <4> QED BY <2>2, <3>1, <4>1
    <3>2. CASE items[h] # e
      <4>1. payload'[items[h]] = payload[items[h]]
        BY <1>1, <1>3, <2>3, <3>2 DEF EntryTypes
      <4> QED BY <4>1 DEF Weight
    <3> QED BY <3>1, <3>2
  <2> QED BY <2>2, <2>3 DEF Held, Weight
<1>5. UNCHANGED <<mem, shardMem, pc, dMem>>
  BY <1>1 DEF mapVars, procVars
<1>6. "lost" \notin raced' => mem' + NetOn(OwedMem', Procs) = shardMem' + NetOn(OwedShard', Procs)
  BY <1>1, <1>2, <1>5 DEF CountInv
<1>7. raced' = {} => shardMem' + NetOn(OwedShard', Procs) = SumOn(Held', Hashes)
  <2>1. raced' = {} => raced = {}
    BY <1>1
  <2> QED BY <1>2, <1>4, <1>5, <2>1 DEF CountInv
<1>8. "lost" \notin raced' => \A p \in Procs : pc'[p] = "clear" => dMem'[p] = -shardMem'
  BY <1>1, <1>5 DEF CountInv
<1> QED BY <1>6, <1>7, <1>8 DEF CountInv

LEMMA CountNext == Base /\ Private /\ CountInv /\ [Next]_vars => CountInv'
<1> SUFFICES ASSUME Base, Private, CountInv, [Next]_vars PROVE CountInv'
  OBVIOUS
<1>1. ASSUME NEW p \in Procs, Call(p) \/ Step(p) PROVE CountInv'
  <2>1. CASE StillStep(p)
    <3>1. Collects(p) \/ Leaves(p)
      BY <2>1 DEF StillStep, Collects, Leaves
    <3> QED BY <1>1, <2>1, <3>1, StillSteps, CountStill
  <2>2. CASE Insert(p) \/ Remove(p) \/ EvictRemove(p) \/ ClearLock(p) \/ ClearStore(p)
    BY <2>2, CountInsert, CountRemove, CountClearLock, CountClearStore
  <2>3. CASE \/ UpdateSwap(p) \/ UpdateAddMem(p) \/ UpdateAddShardMem(p) \/ AggregateMem(p)
             \/ Compute(p)
    BY <2>3, CountSwap, CountAdds, CountAddsShard, CountCompute
  <2>4. CASE \E k \in Keys : GetMiss(p, k)
    BY <1>1, <2>4, CountMiss
  <2> QED BY <1>1, <2>1, <2>2, <2>3, <2>4 DEF Call, Step, StillStep
<1>2. CASE UNCHANGED vars
  <2>1. /\ OwedMem' = OwedMem /\ OwedShard' = OwedShard /\ Held' = Held
        /\ UNCHANGED <<mem, shardMem, pc, dMem, raced>>
    BY <1>2 DEF vars, mapVars, entryVars, procVars, OwedMem, OwedShard, Held, Weight
  <2> QED BY <2>1 DEF CountInv
<1> QED BY <1>1, <1>2, CountAround DEF Next

LEMMA CountInit == Init => CountInv /\ Private
<1> SUFFICES ASSUME Init PROVE CountInv /\ Private
  OBVIOUS
<1>1. /\ OwedMem \in [Procs -> Int] /\ \A p \in Procs : OwedMem[p] = 0
      /\ OwedShard \in [Procs -> Int] /\ \A p \in Procs : OwedShard[p] = 0
      /\ \A h \in Hashes : Held[h] = 0
  BY DEF Init, OwedMem, OwedShard, Held
<1>2. NetOn(OwedMem, Procs) = 0 /\ NetOn(OwedShard, Procs) = 0 /\ SumOn(Held, Hashes) = 0
  BY <1>1, NetZero, SumZero
<1> QED BY <1>2 DEF Init, CountInv, Private

LEMMA CountTypes ==
  ASSUME Base
  PROVE  /\ mem \in Int /\ shardMem \in Int /\ SumOn(Held, Hashes) \in Int
         /\ NetOn(OwedMem, Procs) \in Int /\ NetOn(OwedShard, Procs) \in Int
BY HeldType, OwedTypes DEF Base, MapTypes

\* The map's memory counter and its shard's agree, whatever updates have made
\* of them, unless one has added to a shard that was being cleared.
THEOREM CountersAlwaysAgree == Spec => []CountersAgree
<1>1. Base /\ CountInv => CountersAgree
  BY CountTypes DEF CountInv, CountersAgree, Drift
<1> QED BY <1>1, BaseInit, BaseNext, CountInit, PrivateNext, CountNext, PTL DEF Spec

\* Both memory counters are exact but for what goroutines have still to add,
\* unless one of the named races happens.
THEOREM MemAlwaysConserved == Spec => []MemConservedUnlessRaced
<1>1. Base /\ CountInv => MemConservedUnlessRaced
  BY CountTypes DEF CountInv, MemConservedUnlessRaced, Drift
<1> QED BY <1>1, BaseInit, BaseNext, CountInit, PrivateNext, CountNext, PTL DEF Spec

-----------------------------------------------------------------------------
(***************************************************************************)
(* The cache implements CacheContract, if no two keys have one hash.       *)
(***************************************************************************)

\* A goroutine holds entries only where its code uses them.
HandsOK ==
  \A p \in Procs :
    /\ pc[p] \notin {"hit", "compare", "weigh", "swap", "remove", "evictLock"} => ref[p] = 0
    /\ pc[p] \in {"idle", "hit", "addMem", "addShardMem", "inserted", "remove",
                  "removed", "clear", "cleared"} => new[p] = 0

\* What nobody can reach has no payload, a new entry none before its callback
\* has returned, and nobody else finds a new entry.
FreshInv ==
  /\ \A e \in Entries : e \notin Live(items, new, ref) => payload[e] = Nil
  /\ \A p \in Procs : pc[p] = "compute" => payload[new[p]] = Nil
  /\ \A p, q \in Procs : new[p] # 0 => ref[q] # new[p]

ContractInv == Base /\ OwnInv /\ Private /\ HandsOK /\ FreshInv

LEMMA HandsStep ==
  ASSUME Base, HandsOK, NEW p \in Procs, Call(p) \/ Step(p)
  PROVE  HandsOK'
<1>0. /\ ProcTypes /\ items \in [Hashes -> Entries \cup {0}]
      /\ \A q \in Procs \ {p} : pc'[q] = pc[q] /\ new'[q] = new[q] /\ ref'[q] = ref[q]
  BY Moves DEF Base, MapTypes, Moved, Others
<1> SUFFICES
      /\ pc'[p] \notin {"hit", "compare", "weigh", "swap", "remove", "evictLock"} => ref'[p] = 0
      /\ pc'[p] \in {"idle", "hit", "addMem", "addShardMem", "inserted", "remove",
                     "removed", "clear", "cleared"} => new'[p] = 0
  BY <1>0 DEF HandsOK
<1> USE DEF ProcTypes, HandsOK, Goto, Finish
<1>1. ASSUME NEW k \in Keys, GetFind(p, k) \/ GetMiss(p, k) \/ DelFind(p, k)
      PROVE  /\ pc'[p] \in {"hit", "compute", "remove"}
             /\ pc'[p] = "compute" => ref'[p] = 0
             /\ pc'[p] # "compute" => new'[p] = 0
  BY <1>0, <1>1 DEF GetFind, GetMiss, DelFind
<1>2. CASE GetHit(p) \/ ComputeFails(p) \/ Compute(p) \/ SetSame(p) \/ SetDiffers(p)
           \/ UpdateWeigh(p) \/ UpdateSwap(p) \/ UpdateAddMem(p) \/ UpdateAddShardMem(p)
  BY <1>0, <1>2 DEF GetHit, ComputeFails, Compute, SetSame, SetDiffers, UpdateWeigh,
                    UpdateSwap, UpdateAddMem, UpdateAddShardMem
<1>3. CASE SetFind(p)
  BY <1>0, <1>3 DEF SetFind
<1>4. CASE AdmitReject(p) \/ AdmitPass(p) \/ CheckLimit(p) \/ Insert(p)
  BY <1>0, <1>4 DEF AdmitReject, AdmitPass, CheckLimit, Insert
<1>5. CASE Remove(p) \/ EvictRemove(p) \/ EvictTryLockFails(p)
  BY <1>0, <1>5 DEF Remove, EvictRemove, EvictTryLockFails, RemoveKeyOf
<1>6. CASE ClearLock(p) \/ ClearStore(p)
  BY <1>0, <1>6 DEF ClearLock, ClearStore
<1>7. CASE AggregateMem(p) \/ AggregateLen(p) \/ Return(p)
  BY <1>0, <1>7 DEF AggregateMem, AggregateLen, Return, Owes
<1>8. CASE BeginSoftEvict(p) \/ EvictPick(p) \/ EvictNoVictim(p) \/ EndEvict(p)
  BY <1>0, <1>8 DEF BeginSoftEvict, EvictPick, EvictNoVictim, EndEvict, Evicting
<1> QED BY <1>1, <1>2, <1>3, <1>4, <1>5, <1>6, <1>7, <1>8 DEF Call, Step

\* Nothing is put down in these steps.
LEMMA LeavesHolds ==
  ASSUME Base, HandsOK, NEW p \in Procs, Leaves(p)
  PROVE  new' = new /\ pc'[p] # "compute" /\ \A q \in Procs : ref[q] # 0 => ref'[q] = ref[q]
<1>0. ProcTypes
  BY DEF Base
<1> USE DEF ProcTypes, HandsOK, Goto, Finish
<1>1. CASE \E k \in Keys : GetFind(p, k) \/ DelFind(p, k)
  BY <1>0, <1>1 DEF GetFind, DelFind
<1>2. CASE SetFind(p) \/ SetDiffers(p) \/ UpdateWeigh(p) \/ UpdateAddMem(p) \/ UpdateAddShardMem(p)
  BY <1>0, <1>2 DEF SetFind, SetDiffers, UpdateWeigh, UpdateAddMem, UpdateAddShardMem
<1>3. CASE AdmitPass(p) \/ CheckLimit(p) \/ ClearLock(p) \/ BeginSoftEvict(p)
  BY <1>0, <1>3 DEF AdmitPass, CheckLimit, ClearLock, BeginSoftEvict
<1>4. CASE AggregateMem(p) \/ AggregateLen(p) \/ Return(p)
  BY <1>0, <1>4 DEF AggregateMem, AggregateLen, Return, Owes
<1>5. CASE EvictPick(p) \/ EvictNoVictim(p) \/ EndEvict(p)
  BY <1>0, <1>5 DEF EvictPick, EvictNoVictim, EndEvict, Evicting
<1> QED BY <1>1, <1>2, <1>3, <1>4, <1>5 DEF Leaves

\* A goroutine waits for its callback after a miss only.
LEMMA ComputeAfterMiss ==
  ASSUME Base, HandsOK, NEW p \in Procs, Call(p) \/ Step(p), pc'[p] = "compute"
  PROVE  \E k \in Keys : GetMiss(p, k)
<1>1. CASE Collects(p)
  <2>1. pc \in [Procs -> PCs]
    BY DEF Base, ProcTypes
  <2> QED BY <1>1, <2>1 DEF Collects, GetHit, ComputeFails, SetSame, AdmitReject, Insert,
             Remove, EvictRemove, ClearStore, EvictTryLockFails, Finish, Goto
<1>2. CASE Leaves(p)
  BY <1>2, LeavesHolds
<1>3. CASE Compute(p) \/ UpdateSwap(p)
  BY <1>3 DEF Compute, UpdateSwap, Goto, Base, ProcTypes
<1> QED BY <1>1, <1>2, <1>3, StepsSplit

\* Nobody else finds the new entry of a goroutine.
LEMMA AloneStep ==
  ASSUME Base, Private, FreshInv, NEW p \in Procs, Shape(p)
  PROVE  \A q, r \in Procs : new'[q] # 0 => ref'[r] # new'[q]
BY DEF Shape, Private, FreshInv

\* Steps that take references away and leave the fields of what can still be
\* reached alone; what cannot is swept.
LEMMA FreshSwept ==
  ASSUME Base, Private, FreshInv, NEW p \in Procs, Moved(p), Shape(p), pc'[p] # "compute",
         NEW f, Kept(f, payload'), payload' = Swept(f),
         \A q \in Procs \ {p} : new[q] # 0 => f[new[q]] = payload[new[q]]
  PROVE  FreshInv'
<1>1. \A e \in Entries : e \notin Live(items', new', ref') => payload'[e] = Nil
  BY DEF Swept
<1>2. ASSUME NEW q \in Procs, pc'[q] = "compute" PROVE payload'[new'[q]] = Nil
  <2>1. q # p /\ pc[q] = "compute" /\ new'[q] = new[q] /\ new[q] # 0
    BY <1>2 DEF Moved, Others, Base, LocalsOK
  <2> QED BY <2>1 DEF FreshInv, Kept
<1> QED BY <1>1, <1>2, AloneStep DEF FreshInv, Live

LEMMA FreshLeaves ==
  ASSUME Base, Private, HandsOK, FreshInv, NEW p \in Procs, Call(p) \/ Step(p), Leaves(p)
  PROVE  FreshInv'
<1>1. /\ Shape(p) /\ items' = items /\ payload' = payload
      /\ new' = new /\ pc'[p] # "compute" /\ \A q \in Procs : ref[q] # 0 => ref'[q] = ref[q]
  BY LeavesShape, LeavesHolds
<1>2. Moved(p)
  BY Moves
<1>3. ASSUME NEW e \in Entries, e \notin Live(items', new', ref') PROVE payload'[e] = Nil
  <2>1. e # 0
    BY EntriesAssumption
  <2>2. e \notin Live(items, new, ref)
    BY <1>1, <1>3, <2>1 DEF Live
  <2> QED BY <1>1, <2>2 DEF FreshInv
<1>4. ASSUME NEW q \in Procs, pc'[q] = "compute" PROVE payload'[new'[q]] = Nil
  <2>1. q # p /\ pc[q] = "compute"
    BY <1>1, <1>2, <1>4 DEF Moved, Others
  <2> QED BY <1>1, <2>1 DEF FreshInv
<1> QED BY <1>1, <1>3, <1>4, AloneStep DEF FreshInv, Live

LEMMA FreshMiss ==
  ASSUME Base, HandsOK, FreshInv, NEW p \in Procs, NEW k \in Keys, GetMiss(p, k)
  PROVE  FreshInv'
<1>1. PICK e \in Entries :
        /\ new' = [new EXCEPT ![p] = e]
        /\ \A h \in Hashes : items[h] # e
        /\ \A q \in Procs : new[q] # e /\ ref[q] # e
        /\ UNCHANGED <<items, payload, ref>>
  BY MissMakes
<1>2. new \in [Procs -> Entries \cup {0}] /\ e # 0
  BY EntriesAssumption DEF Base, ProcTypes
<1>3. pc[p] = "idle" /\ pc'[p] = "compute" /\ \A q \in Procs \ {p} : pc'[q] = pc[q]
  BY DEF GetMiss, Goto, Base, ProcTypes
<1>4. payload[e] = Nil
  BY <1>1 DEF FreshInv, Live
<1>5. ASSUME NEW x \in Entries, x \notin Live(items', new', ref') PROVE payload'[x] = Nil
  <2>1. CASE x \in Live(items, new, ref)
    <3>1. x = new[p]
      BY <1>1, <1>2, <1>5, <2>1 DEF Live
    <3>2. new[p] = 0
      BY <1>3 DEF HandsOK
    <3> QED BY EntriesAssumption, <3>1, <3>2
  <2> QED BY <1>1, <2>1 DEF FreshInv
<1>6. \A q \in Procs : pc'[q] = "compute" => payload'[new'[q]] = Nil
  BY <1>1, <1>2, <1>3, <1>4 DEF FreshInv
<1>7. \A q, r \in Procs : new'[q] # 0 => ref'[r] # new'[q]
  BY <1>1, <1>2 DEF FreshInv
<1> QED BY <1>5, <1>6, <1>7 DEF FreshInv, Live

LEMMA FreshSwap ==
  ASSUME Base, Private, FreshInv, NEW p \in Procs, UpdateSwap(p)
  PROVE  FreshInv'
<1> DEFINE f == [payload EXCEPT ![ref[p]] = payload[new[p]]]
<1>1. Shape(p) /\ Kept(f, payload') /\ new[p] \in Entries /\ ref[p] \in Entries
  BY SwapEffect
<1>2. Moved(p) /\ payload' = Swept(f) /\ pc'[p] # "compute"
  BY Moves DEF Step, UpdateSwap, Goto, Base, ProcTypes
<1>3. \A q \in Procs \ {p} : new[q] # 0 => f[new[q]] = payload[new[q]]
  <2>1. new \in [Procs -> Entries \cup {0}] /\ EntryTypes
    BY DEF Base, ProcTypes
  <2> QED BY <1>1, <2>1 DEF FreshInv, EntryTypes
<1> HIDE DEF f
<1> QED BY <1>1, <1>2, <1>3, FreshSwept

LEMMA FreshPayload ==
  ASSUME Base, FreshInv, NEW e \in Entries, NEW d, e \in Live(items, new, ref),
         payload' = [payload EXCEPT ![e] = d], UNCHANGED <<items, new, ref>>,
         \A q \in Procs : pc'[q] = "compute" => pc[q] = "compute" /\ new[q] # e
  PROVE  FreshInv'
<1>1. EntryTypes /\ new \in [Procs -> Entries \cup {0}]
      /\ \A q \in Procs : pc[q] = "compute" => new[q] # 0
  BY DEF Base, ProcTypes, LocalsOK
<1>2. Live(items', new', ref') = Live(items, new, ref)
  BY DEF Live
<1>3. \A x \in Entries : x # e => payload'[x] = payload[x]
  BY <1>1 DEF EntryTypes
<1>4. \A x \in Entries : x \notin Live(items', new', ref') => payload'[x] = Nil
  BY <1>2, <1>3 DEF FreshInv
<1>5. \A q \in Procs : pc'[q] = "compute" => payload'[new'[q]] = Nil
  BY <1>1, <1>3 DEF FreshInv
<1>6. \A q, r \in Procs : new'[q] # 0 => ref'[r] # new'[q]
  BY DEF FreshInv
<1> QED BY <1>4, <1>5, <1>6 DEF FreshInv, Live

LEMMA FreshCompute ==
  ASSUME Base, Private, FreshInv, NEW p \in Procs, Compute(p)
  PROVE  FreshInv'
<1>1. PICK d \in Payloads :
        /\ payload' = [payload EXCEPT ![new[p]] = d]
        /\ new[p] \in Entries /\ UNCHANGED <<items, new, ref>>
  BY ComputeEffect
<1>2. pc'[p] = "set" /\ \A q \in Procs \ {p} : pc'[q] = pc[q]
  BY DEF Compute, Goto, Base, ProcTypes
<1>3. new[p] \in Live(items, new, ref) /\ \A q \in Procs \ {p} : new[q] # new[p]
  BY <1>1, EntriesAssumption DEF Live, Private
<1> QED BY <1>1, <1>2, <1>3, FreshPayload

LEMMA FreshAround ==
  ASSUME Base, Private, FreshInv, NEW k \in Keys, NEW n \in Sizes[k], AroundSetPayload(k, n)
  PROVE  FreshInv'
<1>1. PICK e \in Entries, d \in Payloads :
        /\ e = Found(k) /\ payload' = [payload EXCEPT ![e] = d]
        /\ UNCHANGED <<mapVars, procVars>>
  BY AroundEffect
<1>2. \E h \in Hashes : e = items[h]
  BY <1>1, KeyValueType DEF Found
<1>3. e \in Live(items, new, ref) /\ \A q \in Procs : new[q] # e
  BY <1>2, EntriesAssumption DEF Live, Private
<1> QED BY <1>1, <1>3, FreshPayload DEF mapVars, procVars

LEMMA ContractInvNext ==
  ASSUME NoCollisions
  PROVE  ContractInv /\ [Next]_vars => ContractInv'
<1> SUFFICES ASSUME ContractInv, [Next]_vars PROVE ContractInv'
  OBVIOUS
<1>0. Base /\ OwnInv /\ Private /\ HandsOK /\ FreshInv
  BY DEF ContractInv
<1>1. Base' /\ OwnInv' /\ Private'
  BY <1>0, BaseNext, OwnNext, PrivateNext
<1>2. ASSUME NEW p \in Procs, Call(p) \/ Step(p) PROVE HandsOK' /\ FreshInv'
  <2>1. HandsOK'
    BY <1>0, <1>2, HandsStep
  <2>2. CASE Collects(p)
    <3>1. Shape(p) /\ Collect /\ Moved(p)
      BY <1>0, <1>2, <2>2, CollectsShape, Moves
    <3>2. Kept(payload, payload')
      BY <1>1, <3>1, SweptKept DEF Collect, Base
    <3>3. pc'[p] # "compute"
      <4>1. \A k \in Keys : ~GetMiss(p, k)
        BY <2>2 DEF Collects, GetMiss, GetHit, ComputeFails, SetSame, AdmitReject, Insert,
           Remove, EvictRemove, ClearStore, EvictTryLockFails
      <4> QED BY <1>0, <1>2, <4>1, ComputeAfterMiss
    <3> QED BY <1>0, <2>1, <3>1, <3>2, <3>3, FreshSwept DEF Collect
  <2>3. CASE Leaves(p)
    BY <1>0, <1>2, <2>1, <2>3, FreshLeaves
  <2>4. CASE Compute(p)
    BY <1>0, <2>1, <2>4, FreshCompute
  <2>5. CASE UpdateSwap(p)
    BY <1>0, <2>1, <2>5, FreshSwap
  <2>6. CASE \E k \in Keys : GetMiss(p, k)
    BY <1>0, <2>1, <2>6, FreshMiss
  <2> QED BY <1>2, <2>2, <2>3, <2>4, <2>5, <2>6, StepsSplit
<1>3. ASSUME UNCHANGED vars PROVE HandsOK' /\ FreshInv'
  BY <1>0, <1>3 DEF HandsOK, FreshInv, Live, vars, mapVars, entryVars, procVars
<1>4. ASSUME NEW k \in Keys, NEW n \in Sizes[k], AroundSetPayload(k, n)
      PROVE  HandsOK' /\ FreshInv'
  <2>1. HandsOK'
    BY <1>0, <1>4 DEF HandsOK, AroundSetPayload, procVars
  <2> QED BY <1>0, <1>4, <2>1, FreshAround
<1> QED BY <1>1, <1>2, <1>3, <1>4 DEF Next, ContractInv

LEMMA ContractInvInit == Init => ContractInv
<1>1. Init => HandsOK /\ FreshInv
  BY DEF Init, HandsOK, FreshInv
<1> QED BY <1>1, BaseInit, OwnInit, CountInit DEF ContractInv

\* Other calls keep their answers; p keeps its own or has none any more.
LEMMA AnswersKept ==
  ASSUME Base, NEW p \in Procs, Moved(p), Shape(p), Kept(payload, payload')
  PROVE  /\ new'[p] # 0 => Answers' = Answers
         /\ new'[p] = 0 => Answers' = [Answers EXCEPT ![p] = Nil]
<1>1. \A q \in Procs : new'[q] # 0 => new'[q] = new[q] /\ payload'[new'[q]] = payload[new[q]]
  BY DEF Shape, Kept
<1>2. \A q \in Procs \ {p} : new'[q] = new[q]
  BY DEF Moved, Others
<1> QED BY <1>1, <1>2 DEF Answers

\* A key whose entry is the same holds the same.
LEMMA ContentKept ==
  ASSUME Kept(key, key'), Kept(payload, payload'), NEW k \in Keys,
         items'[KeyValue(k)] = items[KeyValue(k)]
  PROVE  Contents'[k] = Contents[k]
<1>1. KeyValue(k) \in Hashes
  BY KeyValueType
<1>2. Found(k)' = Found(k)
  BY DEF Found, KeyValue
<1>3. Found(k) # 0 => key'[Found(k)] = key[Found(k)] /\ payload'[Found(k)] = payload[Found(k)]
  BY <1>1 DEF Kept, Found
<1>4. Contents'[k] = IF Found(k)' # 0 /\ key'[Found(k)'] = k THEN payload'[Found(k)'] ELSE Nil
  BY DEF Contents
<1>5. Contents[k] = IF Found(k) # 0 /\ key[Found(k)] = k THEN payload[Found(k)] ELSE Nil
  BY DEF Contents
<1> QED BY <1>2, <1>3, <1>4, <1>5

LEMMA ContentsKept ==
  ASSUME Kept(key, key'), Kept(payload, payload'), items' = items
  PROVE  Contents' = Contents
<1>1. \A k \in Keys : Contents'[k] = Contents[k]
  BY ContentKept
<1>2. Contents = [k \in Keys |-> Contents[k]] /\ Contents' = [k \in Keys |-> Contents'[k]]
  BY DEF Contents
<1> QED BY <1>1, <1>2

\* A key without an entry holds nothing.
LEMMA ContentNone ==
  ASSUME NEW k \in Keys, items'[KeyValue(k)] = 0
  PROVE  Contents'[k] = Nil
BY DEF Contents, Found, KeyValue

\* What a call has answered it still has to store.
LEMMA AnswerOwned ==
  ASSUME ContractInv, NEW p \in Procs, new[p] # 0, pc[p] # "compute"
  PROVE  /\ new[p] \in Entries /\ Answers[p] = payload[new[p]] /\ Answers[p] # Nil
         /\ Answers[p].owner = key[new[p]] /\ key[new[p]] \in Keys
BY DEF ContractInv, OwnInv, Owned, Base, ProcTypes, KeysOK, Answers

ContractStep == [Contract!ContractNext]_<<Contents, Answers>>

LEMMA StepKeeps ==
  ASSUME ContractInv, NEW p \in Procs, Call(p) \/ Step(p), Collects(p) \/ Leaves(p)
  PROVE  Moved(p) /\ Shape(p) /\ Kept(key, key') /\ Kept(payload, payload')
<1>1. Base /\ Moved(p) /\ Base'
  BY Moves, BaseStep DEF ContractInv
<1>2. CASE Collects(p)
  BY <1>1, <1>2, CollectsShape, SweptKept DEF Collect, Base
<1>3. CASE Leaves(p)
  BY <1>1, <1>3, LeavesShape DEF Kept
<1> QED BY <1>1, <1>2, <1>3

\* A step that leaves the map alone: nothing happens, or the call gives up.
LEMMA RefineGiveUp ==
  ASSUME ContractInv, NEW p \in Procs, Call(p) \/ Step(p), Collects(p) \/ Leaves(p),
         items' = items
  PROVE  ContractStep
<1>1. Moved(p) /\ Shape(p) /\ Kept(key, key') /\ Kept(payload, payload') /\ Base
  BY StepKeeps DEF ContractInv
<1>2. Contents' = Contents
  BY <1>1, ContentsKept
<1>3. CASE new'[p] # 0
  BY <1>1, <1>2, <1>3, AnswersKept DEF ContractStep
<1>4. CASE new'[p] = 0 /\ Answers[p] # Nil
  BY <1>1, <1>2, <1>4, AnswersKept
  DEF ContractStep, Contract!ContractNext, Contract!Discard
<1>5. CASE new'[p] = 0 /\ Answers[p] = Nil
  <2>1. Answers' = Answers
    BY <1>1, <1>5, AnswersKept DEF Answers
  <2> QED BY <1>2, <2>1 DEF ContractStep
<1> QED BY <1>3, <1>4, <1>5

LEMMA RefineInsert ==
  ASSUME NoCollisions, ContractInv, NEW p \in Procs, Insert(p)
  PROVE  ContractStep
<1>0. Base
  BY DEF ContractInv
<1>1. Moved(p) /\ Shape(p) /\ Kept(key, key') /\ Kept(payload, payload')
  BY StepKeeps DEF Step, Collects
<1>2. /\ new[p] # 0 /\ pc[p] = "insert" /\ items \in [Hashes -> Entries \cup {0}]
      /\ new \in [Procs -> Entries \cup {0}]
  BY DEF Base, LocalsOK, Insert, MapTypes, ProcTypes, ContractInv
<1>3. /\ new[p] \in Entries /\ Answers[p] = payload[new[p]] /\ Answers[p] # Nil
      /\ Answers[p].owner = key[new[p]] /\ key[new[p]] \in Keys
  BY <1>2, AnswerOwned
<1>4. PICK k \in Keys : k = key[new[p]]
  BY <1>3
<1>5. items' = [items EXCEPT ![KeyValue(k)] = new[p]] /\ new'[p] = 0
  BY <1>2, <1>4 DEF Insert
<1>6. Answers' = [Answers EXCEPT ![p] = Nil]
  BY <1>0, <1>1, <1>5, AnswersKept
<1>7. KeyValue(k) \in Hashes /\ items'[KeyValue(k)] = new[p]
  BY <1>2, <1>5, KeyValueType
<1>8. Contents'[k] = Answers[p]
  <2>1. key'[new[p]] = k /\ payload'[new[p]] = payload[new[p]]
    BY <1>1, <1>2, <1>7, <1>4 DEF Kept
  <2>2. Found(k)' = new[p]
    BY <1>7 DEF Found, KeyValue
  <2>3. Contents'[k] = IF Found(k)' # 0 /\ key'[Found(k)'] = k THEN payload'[Found(k)'] ELSE Nil
    BY DEF Contents
  <2> QED BY <1>2, <1>3, <2>1, <2>2, <2>3
<1>9. ASSUME NEW l \in Keys, l # k PROVE Contents'[l] = Contents[l]
  <2>1. KeyValue(l) # KeyValue(k) /\ KeyValue(l) \in Hashes
    BY <1>9, KeyValueType DEF NoCollisions, KeyValue
  <2>2. items'[KeyValue(l)] = items[KeyValue(l)]
    BY <1>2, <1>5, <2>1
  <2> QED BY <1>1, <2>2, ContentKept
<1>10. Contents' = [Contents EXCEPT ![k] = Answers[p]]
  BY <1>8, <1>9 DEF Contents
<1> QED BY <1>3, <1>6, <1>10, <1>4 DEF ContractStep, Contract!ContractNext, Contract!Store

LEMMA AnswersSame ==
  ASSUME Kept(payload, payload'), new' = new
  PROVE  Answers' = Answers
BY DEF Kept, Answers

LEMMA RefineRemove ==
  ASSUME NoCollisions, ContractInv, NEW p \in Procs, Remove(p) \/ EvictRemove(p)
  PROVE  ContractStep
<1>1. Shape(p) /\ Kept(key, key') /\ Kept(payload, payload')
  BY StepKeeps DEF Step, Collects
<1>2. ref[p] # 0 /\ RemoveKeyOf(p, ref[p]) /\ items \in [Hashes -> Entries \cup {0}]
      /\ key[ref[p]] \in Keys
  BY DEF ContractInv, Base, LocalsOK, MapTypes, KeysOK, Remove, EvictRemove
<1>3. Answers' = Answers
  BY <1>1, <1>2, AnswersSame DEF RemoveKeyOf
<1>4. CASE items' = items
  BY <1>1, <1>3, <1>4, ContentsKept DEF ContractStep
<1>5. CASE items' # items
  <2>1. PICK k \in Keys : items' = [items EXCEPT ![KeyValue(k)] = 0]
    BY <1>2, <1>5 DEF RemoveKeyOf
  <2>2. Contents'[k] = Nil
    BY <1>2, <2>1, KeyValueType, ContentNone
  <2>3. ASSUME NEW l \in Keys, l # k PROVE Contents'[l] = Contents[l]
    <3>1. KeyValue(l) # KeyValue(k) /\ KeyValue(l) \in Hashes
      BY <2>3, KeyValueType DEF NoCollisions, KeyValue
    <3>2. items'[KeyValue(l)] = items[KeyValue(l)]
      BY <1>2, <2>1, <3>1
    <3> QED BY <1>1, <3>2, ContentKept
  <2>4. Contents' = [Contents EXCEPT ![k] = Nil]
    BY <2>2, <2>3 DEF Contents
  <2> QED BY <1>3, <2>4 DEF ContractStep, Contract!ContractNext, Contract!Drop
<1> QED BY <1>4, <1>5

LEMMA RefineClear ==
  ASSUME ContractInv, NEW p \in Procs, ClearStore(p)
  PROVE  ContractStep
<1>1. Kept(payload, payload')
  BY StepKeeps DEF Step, Collects
<1>2. Answers' = Answers
  BY <1>1, AnswersSame DEF ClearStore
<1>3. \A k \in Keys : Contents'[k] = Nil
  BY KeyValueType, ContentNone DEF ClearStore
<1>4. Contents' = [k \in Keys |-> Nil]
  BY <1>3 DEF Contents
<1> QED BY <1>2, <1>4 DEF ContractStep, Contract!ContractNext, Contract!Wipe

LEMMA RefineMiss ==
  ASSUME ContractInv, NEW p \in Procs, NEW k \in Keys, GetMiss(p, k)
  PROVE  ContractStep
<1>1. PICK e \in Entries :
        /\ new' = [new EXCEPT ![p] = e] /\ key' = [key EXCEPT ![e] = k]
        /\ \A h \in Hashes : items[h] # e
        /\ \A q \in Procs : new[q] # e /\ ref[q] # e
        /\ UNCHANGED <<items, payload>>
  BY MissMakes DEF ContractInv
<1>2. /\ new \in [Procs -> Entries \cup {0}] /\ key \in [Entries -> Keys \cup {Nil}]
      /\ items \in [Hashes -> Entries \cup {0}]
      /\ pc[p] = "idle" /\ e # 0 /\ new[p] = 0 /\ payload[e] = Nil
  BY <1>1, EntriesAssumption
  DEF ContractInv, Base, ProcTypes, EntryTypes, MapTypes, GetMiss, HandsOK, FreshInv, Live
<1>3. Contents' = Contents
  <2>1. \A l \in Keys : Found(l) # 0 => Found(l) \in Entries /\ Found(l) # e
    BY <1>1, <1>2, KeyValueType DEF Found
  <2>2. \A l \in Keys : Found(l) # 0 => key'[Found(l)] = key[Found(l)]
    BY <1>1, <1>2, <2>1
  <2>3. \A l \in Keys : Found(l)' = Found(l)
    BY <1>1 DEF Found, KeyValue
  <2> QED BY <1>1, <2>2, <2>3 DEF Contents
<1>4. Answers' = Answers
  BY <1>1, <1>2 DEF Answers
<1> QED BY <1>3, <1>4 DEF ContractStep

LEMMA RefineCompute ==
  ASSUME ContractInv, NEW p \in Procs, Compute(p)
  PROVE  ContractStep
<1>1. PICK d \in Payloads :
        /\ payload' = [payload EXCEPT ![new[p]] = d]
        /\ new[p] \in Entries /\ UNCHANGED <<items, key, new>>
  BY ComputeEffect DEF ContractInv
<1>2. /\ new \in [Procs -> Entries \cup {0}] /\ EntryTypes
      /\ pc[p] = "compute" /\ new[p] # 0 /\ payload[new[p]] = Nil
      /\ \A h \in Hashes : items[h] # new[p]
      /\ \A q \in Procs \ {p} : new[q] # new[p]
  BY <1>1, EntriesAssumption
  DEF ContractInv, Base, ProcTypes, Compute, FreshInv, Private
<1>3. Contents' = Contents
  <2>1. \A l \in Keys : Found(l)' = Found(l) /\ Found(l) # new[p]
    BY <1>1, <1>2, KeyValueType DEF Found, KeyValue
  <2>2. \A x : x # new[p] => payload'[x] = payload[x]
    BY <1>1, <1>2 DEF EntryTypes
  <2> QED BY <1>1, <2>1, <2>2 DEF Contents
<1>4. Answers[p] = Nil
  BY <1>2 DEF Answers
<1>5. Answers' = [Answers EXCEPT ![p] = d]
  BY <1>1, <1>2 DEF Answers, EntryTypes
<1> QED BY <1>3, <1>4, <1>5 DEF ContractStep, Contract!ContractNext, Contract!Answer

\* An update stores its answer if the entry is still in the map.
LEMMA RefineSwap ==
  ASSUME NoCollisions, ContractInv, NEW p \in Procs, UpdateSwap(p)
  PROVE  ContractStep
<1> DEFINE f == [payload EXCEPT ![ref[p]] = payload[new[p]]]
<1>1. /\ Shape(p) /\ Kept(key, key') /\ Kept(f, payload') /\ items' = items
      /\ new[p] \in Entries /\ ref[p] \in Entries
  BY SwapEffect DEF ContractInv
<1>2. /\ new \in [Procs -> Entries \cup {0}] /\ items \in [Hashes -> Entries \cup {0}]
      /\ EntryTypes /\ KeysOK /\ Private /\ FreshInv /\ pc[p] = "swap" /\ new[p] # 0
      /\ ref[p] # 0
  BY <1>1, EntriesAssumption DEF ContractInv, Base, ProcTypes, MapTypes, UpdateSwap
<1>3. /\ Answers[p] = payload[new[p]] /\ Answers[p] # Nil
      /\ Answers[p].owner = key[new[p]] /\ key[new[p]] \in Keys
  BY <1>2, AnswerOwned
<1>4. PICK k \in Keys : k = key[ref[p]] /\ k = key[new[p]]
  <2>1. KeyValue(key[ref[p]]) = KeyValue(key[new[p]])
    BY <1>2 DEF ContractInv, OwnInv, Updating
  <2>2. key[ref[p]] \in Keys
    BY <1>2 DEF KeysOK
  <2> QED BY <1>3, <2>1, <2>2 DEF NoCollisions, KeyValue
<1>5. PICK e \in Entries : e = ref[p] /\ f[e] = payload[new[p]]
                           /\ \A x : x # e => f[x] = payload[x]
  BY <1>1, <1>2 DEF EntryTypes
<1> HIDE DEF f
<1>6. Answers' = [Answers EXCEPT ![p] = Nil]
  <2>1. new' = [new EXCEPT ![p] = 0]
    BY DEF UpdateSwap
  <2>2. ASSUME NEW q \in Procs \ {p}, new[q] # 0 PROVE payload'[new[q]] = payload[new[q]]
    <3>1. new'[q] = new[q] /\ new[q] # e
      BY <1>2, <1>5, <2>1, <2>2 DEF FreshInv
    <3> QED BY <1>1, <1>5, <2>2, <3>1 DEF Kept
  <2> QED BY <1>2, <2>1, <2>2 DEF Answers
<1>7. ASSUME NEW l \in Keys
      PROVE  Contents'[l] = IF Found(l) # 0 /\ key[Found(l)] = l THEN f[Found(l)] ELSE Nil
  <2>1. KeyValue(l) \in Hashes /\ Found(l)' = Found(l)
    BY <1>1, KeyValueType DEF Found, KeyValue
  <2>2. Found(l) # 0 => key'[Found(l)] = key[Found(l)] /\ payload'[Found(l)] = f[Found(l)]
    BY <1>1, <2>1 DEF Kept, Found
  <2>3. Contents'[l] = IF Found(l)' # 0 /\ key'[Found(l)'] = l THEN payload'[Found(l)'] ELSE Nil
    BY DEF Contents
  <2> QED BY <2>1, <2>2, <2>3
<1>8. \A l \in Keys : l # k => Contents'[l] = Contents[l]
  BY <1>4, <1>5, <1>7 DEF Contents
<1>9. CASE Found(k) = e
  <2>1. Contents'[k] = Answers[p]
    BY <1>2, <1>3, <1>4, <1>5, <1>7, <1>9
  <2>2. Contents' = [Contents EXCEPT ![k] = Answers[p]]
    BY <1>8, <2>1 DEF Contents
  <2> QED BY <1>3, <1>4, <1>6, <2>2 DEF ContractStep, Contract!ContractNext, Contract!Store
<1>10. CASE Found(k) # e
  <2>1. Contents'[k] = Contents[k]
    BY <1>5, <1>7, <1>10 DEF Contents
  <2>2. Contents' = Contents
    BY <1>8, <2>1 DEF Contents
  <2> QED BY <1>3, <1>6, <2>2 DEF ContractStep, Contract!ContractNext, Contract!Discard
<1> QED BY <1>9, <1>10

LEMMA RefineAround ==
  ASSUME NoCollisions, ContractInv, NEW k \in Keys, NEW n \in Sizes[k], AroundSetPayload(k, n)
  PROVE  ContractStep
<1>1. PICK e \in Entries, d \in Payloads :
        /\ e = Found(k) /\ key[e] = k /\ d = [owner |-> k, size |-> n]
        /\ payload' = [payload EXCEPT ![e] = d]
        /\ UNCHANGED <<mapVars, key, procVars>>
  BY AroundEffect DEF ContractInv
<1>2. /\ EntryTypes /\ KeyValue(k) \in Hashes /\ items[KeyValue(k)] = e /\ e # 0
      /\ items' = items /\ new' = new /\ key' = key
  BY <1>1, KeyValueType, EntriesAssumption DEF ContractInv, Base, Found, mapVars, procVars
<1>3. payload'[e] = d /\ \A x : x # e => payload'[x] = payload[x]
  BY <1>1, <1>2 DEF EntryTypes
<1>4. Answers' = Answers
  <2>1. \A q \in Procs : new[q] # 0 => new[q] # e
    BY <1>2 DEF ContractInv, Private
  <2> QED BY <1>2, <1>3, <2>1 DEF Answers
<1>5. Contents[k] # Nil
  <2>1. Owned(key, payload, e)
    BY <1>2 DEF ContractInv, OwnInv
  <2> QED BY <1>1, <1>2, <2>1 DEF Contents, Owned
<1>6. \A l \in Keys : Found(l)' = Found(l)
  BY <1>2 DEF Found, KeyValue
<1>7. Contents'[k] = d
  BY <1>1, <1>2, <1>3, <1>6 DEF Contents
<1>8. \A l \in Keys : l # k => Contents'[l] = Contents[l]
  BY <1>1, <1>2, <1>3, <1>6 DEF Contents
<1>9. Contents' = [Contents EXCEPT ![k] = d]
  <2>1. DOMAIN Contents = Keys /\ Contents = [l \in Keys |-> Contents[l]]
    BY DEF Contents
  <2>2. Contents' = [l \in Keys |-> Contents'[l]]
    BY DEF Contents
  <2>3. Contents' = [l \in Keys |-> IF l = k THEN d ELSE Contents[l]]
    BY <1>7, <1>8, <2>2
  <2> QED BY <2>1, <2>3
<1>10. Rewrites
  BY DEF AroundSetPayload
<1> QED BY <1>1, <1>4, <1>5, <1>9, <1>10
        DEF ContractStep, Contract!ContractNext, Contract!Rewrite

LEMMA RefineNext ==
  ASSUME NoCollisions
  PROVE  ContractInv /\ [Next]_vars => ContractStep
<1> SUFFICES ASSUME ContractInv, [Next]_vars PROVE ContractStep
  OBVIOUS
<1>1. ASSUME NEW p \in Procs, Call(p) \/ Step(p) PROVE ContractStep
  <2>1. CASE Leaves(p)
    <3>1. items' = items
      BY <2>1, LeavesShape DEF ContractInv
    <3> QED BY <1>1, <2>1, <3>1, RefineGiveUp
  <2>2. CASE GetHit(p) \/ ComputeFails(p) \/ SetSame(p) \/ AdmitReject(p) \/ EvictTryLockFails(p)
    <3>1. items' = items /\ Collects(p)
      BY <2>2 DEF GetHit, ComputeFails, SetSame, AdmitReject, EvictTryLockFails, mapVars, Collects
    <3> QED BY <1>1, <3>1, RefineGiveUp
  <2> QED BY <1>1, <2>1, <2>2, RefineInsert, RefineRemove, RefineClear, RefineMiss,
             RefineCompute, RefineSwap, StepsSplit DEF Collects
<1>2. CASE UNCHANGED vars
  <2>1. Contents' = Contents /\ Answers' = Answers
    BY <1>2 DEF Contents, Answers, Found, KeyValue, vars, mapVars, entryVars, procVars
  <2> QED BY <2>1 DEF ContractStep
<1> QED BY <1>1, <1>2, RefineAround DEF Next

\* To a client the cache is CacheContract, whatever its goroutines do at once, if
\* no two keys have one hash: an answer enters once, under its own key and while its
\* call runs, and what was removed does not come back by itself.
THEOREM CacheKeepsContract ==
  ASSUME NoCollisions
  PROVE  Spec => ImplementsContract
<1>1. Init => Contract!ContractInit
  <2>1. \A k \in Keys : KeyValue(k) \in Hashes
    BY KeyValueType
  <2> QED BY <2>1 DEF Init, Contract!ContractInit, Contents, Answers, Found
<1> QED BY <1>1, ContractInvInit, ContractInvNext, RefineNext, PTL
        DEF Spec, ImplementsContract, Contract!ContractSpec, ContractStep
=============================================================================
