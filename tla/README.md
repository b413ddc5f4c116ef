# Verification of go-ash-cache

TLA+ models of the concurrent parts of go-ash-cache, the TLC instances that
check them, and theorems about them checked by TLAPS. Source paths below are
relative to `src/`. Definitions keep the names of the code where TLA+ allows;
`PROJECT.json` maps each one to the lines it stands for.

- [1. The system](#1-the-system)
- [2. Modules](#2-modules)
- [3. Runs](#3-runs)
- [4. Proofs](#4-proofs)
- [5. Where code and documentation part](#5-where-code-and-documentation-part)
- [6. What is not modelled, and the plan](#6-what-is-not-modelled-and-the-plan)

## 1. The system

go-ash-cache is an in-process cache library: a sharded map of entries, filled by
client callbacks on a miss, kept under a memory limit by an evictor, filtered by
a TinyLFU admission filter, and aged by a lifetimer that removes or refreshes
expired entries. There is no persistence and no network: what is hard is the
concurrency of goroutines over shared memory, most of it lock-free.

### Components

**Sharded map** (`internal/cache/db/map.go`, `shard.go`, `lru.go`).
*State:* 1024 shards, each with a map from 64-bit hash to entry, a length and a
memory counter, a lock, a refresh queue and, in listing mode, an LRU list with an
index; for the whole map a length and a memory counter and a round-robin cursor.
*Operations:* Set, Get, Remove, Touch, Clear, walks over shards, AddMem.
*Hard:* a shard's counters change under its lock, the global ones after it is
released; three structures must agree in each shard; Clear goes shard by shard
and stops when the context is cancelled.
*Correct when:* a shard's counters are exact, list and map hold the same keys,
no global update is lost or doubled, and with nobody running the counters are
exact.

**Eviction** (`internal/cache/db/eviction.go`).
*State:* iterations left, bytes freed; it reads the global counters.
*Operations:* by list (pop the tail of the next shard's list) and by sampling
(pick the oldest of some sampled entries under read locks, then remove by key
under the write lock, if a bounded `tryLock` gets it).
*Hard:* the victim may be another entry by the time it is removed; the loop's
exit reads counters others change.
*Correct when:* it ends, takes only from the tail, accounts for what it takes,
and does not go on below the limit.

**Cache facade and entries** (`internal/cache/cache.go`,
`internal/cache/db/model`, `model/key.go`).
*State:* entries shared by pointer: key, payload behind an atomic pointer,
times, queued flag, TTL mode, callback.
*Operations:* Get (hit, or callback and set), set (same payload: touch;
different: update in place; absent: admission, hard limit, insertion), Del,
Clear, Around (client function over entries under the shard's lock).
*Hard:* an update works on an entry without any lock, while a removal, a Clear,
an eviction or another update is under way; callbacks of concurrent misses end
in any order; keys may share a hash.
*Correct when:* lengths are conserved, memory counters too unless one of a few
known races happened, a key yields its own payload only, and calls return.

**Refresh queue** (`internal/shared/queue/queue.go`).
*State:* a circular buffer with head and tail. *Operations:* TryPush, TryPop,
under a mutex. *Correct when:* it is a FIFO queue bounded by its size less one.

**Lifetimer** (`internal/lifetimer/lifetimer.go`, `db/refresh.go`,
`model/expires.go`, the touch in `cache.go`).
*State:* the queued flag of an entry, the shards' queues, a buffered channel,
the context. *Operations:* a touch of an expired entry flags it and queues its
key; the provider pops a key or samples the shards and sends the entry; a
consumer calls the entry's callback, which removes what is cached under its key,
or recomputes a payload.
*Hard:* flag, queue and channel change in separate steps; entries are updated,
removed and replaced on the way; the stochastic test of expiry is drawn again by
the provider; the queue and the channel have limits; shutdown.
*Correct when:* of an entry to be removed, a flag that is up means that the entry
is on its way, and it comes down or the entry goes; one whose key is queued when
its lifetime is over is handled; only expired entries are removed; and Close ends
it. For an entry to be refreshed the first does not hold (section 5).

**Admission filter** (`internal/cache/db/bloom`).
*State, per shard:* a word array of bits (doorkeeper), a word array of packed
4-bit counters (sketch), a count of additions, an ageing guard.
*Operations:* Record (bits at first sight, counters from the second on, halving
after a window), Allow (compares two estimates), Reset.
*Hard:* words are loaded, then compared and swapped, in bounded loops; halving
runs beside increments; a window must be aged once.
*Correct when:* the counters of a word do not disturb each other, nothing is lost
unless a swap was given up, one goroutine ages at a time and only full windows,
and counted keys pass the doorkeeper.

**Evictor worker** (`internal/evictor/evictor.go`, `counters.go`).
*State:* an unbuffered channel of calls, the context, cumulative counters; each
consumer's iterations and what it has freed.
*Operations:* a provider looks at the soft limit on each tick and hands a call to
a consumer; ForceCall hands one over too, racing a timeout and the context; a
consumer evicts until usage is within the limit or its iterations are over, and
counts what it freed.
*Hard:* GOMAXPROCS + 1 consumers evict at once, each after a look at usage that
the others make stale; the provider waits for a consumer while all are busy;
the context ends in between.
*Correct when:* each eviction is counted once, consumers together overshoot by
fewer entries than they are, usage comes back within the limit, Close ends all.

**Telemetry** (`internal/telemetry/logger.go`, `sampler.go`).
*State:* the snapshot of the cumulative counters before. *Operations:* on each
tick a new snapshot is taken and the difference logged. *Hard:* the counters move
between ticks and while they are read; the first snapshot and the last interval.
*Correct when:* nothing is logged twice, and what is counted is logged in the end.

**Cached clock** (`internal/shared/cachedtime/time.go`).
*State:* three globals of the process: the cached time, a flag that it is off, a
channel that ends the tickers; per cache instance a ticker and a goroutine that
waits for its context.
*Operations:* RunIfEnabled, ticks, Now and UnixNano, cancellation.
*Hard:* several instances in one process share the globals; flag and time are
loaded one after the other; a late tick may be stored.
*Correct when:* the channel is closed once, a reader never sees the time ahead,
nor go back, and the clock goes on whatever instance is closed.

**Facade** (`cache.go`). It makes the others from the configuration, hands calls
on, and cancels the one context all goroutines end with.

**Small parts.** Rate jitter (`internal/shared/rate`), byte comparison
(`internal/shared/bytes`), random numbers (`internal/shared/random`),
configuration (`config`).

### Interactions

Clients call the facade, which calls the map, the filter (Record on set, Allow
on insertion) and the eviction (hard limit). The evictor's consumers call the
eviction (soft limit). A touch queues expired keys in the shards' queues; the
lifetimer's provider takes them, and its consumers call back into the map or
into client code. Expiry is judged by the cached clock. The telemetry loop reads
the counters of all. All workers stop at the cancellation of one context. The
facade's memory counters are what both limits and the admission filter's switch
read, so that errors in them reach everything else: they come first below.

`PROJECT.json` lists under "hazards" the places where this can go wrong.

## 2. Modules

| Module | Models | Extends / uses |
|---|---|---|
| `Sums` | sums of a function over a set, as sums over blocks | – |
| `NumberTheorems` | lemmas about them, and about induction, recursion, division and digits | `Sums` |
| `ShardedMap` | map, shards, LRU lists, Clear, eviction by list | `Sums` |
| `ShardedMapProofs` | its theorems | `ShardedMap`, `NumberTheorems` |
| `BoundedFIFO` | what a refresh queue promises (abstract) | – |
| `RingQueue` | the circular buffer; `ImplementsFIFO` is its refinement | `BoundedFIFO` by INSTANCE |
| `RingQueueProofs` | its theorems | `RingQueue` |
| `CacheContract` | what a client may rely on (abstract) | – |
| `CacheOps` | the facade over shared entries, sampling mode; `ImplementsContract` is its refinement | `Sums`, `CacheContract` by INSTANCE |
| `CacheOpsProofs` | its theorems | `CacheOps`, `NumberTheorems` |
| `Lifetimer` | touch, queue, provider, consumers, shutdown | – |
| `LifetimerProofs` | its theorems | `Lifetimer` |
| `TinyLFU` | Record of one shard of the filter | – |
| `Admitter` | the sizes of the filter's tables, and where a hash leads (functions of the configuration) | `Sums` |
| `TinyLFUProofs` | the theorems of both | `TinyLFU`, `Admitter`, `NumberTheorems` |
| `Evictor` | provider, consumers, ForceCall and the evictions of the soft limit | `Sums` |
| `Telemetry` | the logging loop over one cumulative counter | – |
| `Workers` | evictor and telemetry loop as the facade runs and closes them | `Evictor`, `Telemetry` by INSTANCE |
| `WorkersProofs` | its theorems | `Workers`, `NumberTheorems` |
| `ClockContract` | what a reader of the clock may rely on (abstract) | – |
| `CachedTime` | the globals of the cached clock under several instances; `ImplementsContract` is its refinement | `ClockContract` by INSTANCE |
| `CachedTimeProofs` | its theorems | `CachedTime` |
| `MCShardedMap`, `MCCacheOps`, `MCLifetimer`, `MCTinyLFU`, `MCWorkers`, `MCCachedTime` | instances for TLC | the module they name |

### ShardedMap

A section under a shard's lock is one action (nobody else sees it half done);
the atomic additions to `Map.len` and `Map.mem` after the unlock are actions of
their own, in the order of the code, with what is still to be added in `dLen`
and `dMem`. `Set`, `Remove_` and `Touch` are Set, Remove and touchLRU. `Touch`
may simply not happen, which is what a failed `TryLock` amounts to. `BeginClear`,
`ClearShard` and `EndClear` walk the shards and look at the context before each.
`BeginEvict` to `EvictPop` are the loop of `evictUntilWithinLimitByList` with its
two separate loads of the counters, the round-robin cursor and the pop of the
tail under the lock. An entry is its weight; 0 means there is none.

### CacheOps

Entries are objects with an identity, a key and a payload, so that a reference
a goroutine holds can go stale. Each load or store of shared memory is a step:
`UpdateWeigh` loads the two weights, `UpdateSwap` replaces the payload, then
`UpdateAddMem` and `UpdateAddShardMem` add the difference. `ClearLock` and
`ClearStore` are the load and the store in `Shard.Clear`, which AddMem can come
between as it takes no lock. A payload is its owner (the key it was computed
for) and its size. Eviction picks any cached entry under the read lock
(`EvictPick`) and removes by key later (`EvictRemove`). Garbage entries lose
their fields and can be used again, which keeps the instances finite. The map is
one shard here.

`raced` records the races that leave a counter wrong, at the step where each
happens: an update whose entry is changed or leaves the map between its weighing
and its swap, or a payload of another size set under Around ("update"), an update that has its difference still to add when its shard is
cleared ("pending"), and one that adds it to the shard between the load and the store
of a Clear ("lost"). `MemConservedUnlessRaced` says that there are no others. The
first two leave `Map.mem` and the shard's counter off by the same amount, so that
`CountersAgree` excepts the third only.

`CacheContract` is the cache without entries, locks and counters: what each key
holds (`contents`) and what the callback of each running call returned and is still
to be stored (`answer`). It lets contents go at any moment and leaves open whether
an answer is stored, but an answer enters at most once, under its own key and
nobody else's, before its call returns; and nothing comes back without one. The
mapping is `Contents` (the payload of the entry under the key's hash, if it has that
key) and `Answers` (the payload of the entry a goroutine has made and not
published). It is `UpdateSwap` that decides: if the entry has left the map in the
meantime, or another one has taken its place, the answer is lost and not stored.

### RingQueue and BoundedFIFO

`RingQueue` has the buffer and the two cursors of the code. `Contents` reads the
queue out of the buffer, and `ImplementsFIFO` says that under this mapping each
step is one of `BoundedFIFO` or a stutter. `Lifetimer` uses the abstract queue.

### Lifetimer

Time is what a test of expiry may say of an entry: "no", "yes", or "maybe", which
is either at each test. `Expire` takes it from "no" by "maybe" to "yes" at any
moment, and an update back to "no". "maybe" is the stochastic test between its
floor and where its probability rounds to one, drawn anew by the touch, by the
provider's second look (`ScanCheck`) and by the sampling; runs without a test at
"maybe" are those of the plain test. An entry is to be removed or to be refreshed
from `Insert` on (`removes`). `Collect` forgets what nobody reads any more, which
keeps the instances small: the fields of garbage, the verdict on an entry that is
neither cached nor the provider's (`Tested`), the flag of one that is neither
cached nor a client's (`Flagged`). `Touch`, `TouchFlag` and `TouchPush` are the
test, the compare-and-swap of the flag and the push; a full queue leads to
`Unflag`. `ScanPop`, `ScanGet`, `ScanCheck` and `ScanReset` are
`peekExpiredByQueues`: the pop, the lookup under the shard's read lock, the test
and the reset of the flag are steps of their own. `SampleHit` and `SampleMiss` are
the sampling, which may miss as it neither reaches all shards nor waits for their
locks. `Send` waits for room in the channel. `CallRemove` removes by key;
`CallRefresh` changes nothing, as the consumer drops the payload the client's
callback returns. `ProviderStop` and `ConsumerStop` are the cases of the selects
that see the context done. One shard stands for all, and `Insert` and `Drop` stand
for what CacheOps models in detail.

### TinyLFU

A word of counters is a number, and its counters are read by division, so that
carries and shifted-in bits show. Loads and compare-and-swaps are separate steps;
a loop is given up after `MaxTries`. The doorkeeper is one word. `mix64` is a pair
of constant functions from keys to bits and counters, so that any pattern of
collisions can be chosen. `counted` and `exact` are auxiliary: how often each key
was counted, and whether nothing was halved or given up so far. A counter has
`LaneSize` values, 16 in the code.

### Admitter

What `newShardedAdmitter` makes of a configuration, as functions: the share of a
shard, `nextPow2`, the clamp by `MinTableLenPerShard`, the cut to an uint32, the
test of `sketch.init` that panics, the lengths in words, and the masks that lead a
hash to a shard, a counter and a bit. The code's bitwise operators work on `Ones`,
the set of a number's ones, and `Number` is the way back; `nextPow2` is its shifts,
one after the other. An int has `IntBits` bits and an uint32 as many as the
shifts cover (32 in the code, 4 for TLC), so that lengths beyond an uint32 occur.
Where `TinyLFU` assumes that a key's counters lie in the words there are,
`HashesStayInTables` says that those of the code do.

### Evictor, Telemetry and Workers

The cache is reduced to what the evictor sees of it: entries of weight 1, how many
there are (`held`) and `Map.mem` (`mem`). `ProviderTick` finds usage above the
limit, `ProviderHands` and `CallerHands` are the rendezvous on the unbuffered
channel with a consumer that waits, `CallerLeaves` is the timeout or the context
in ForceCall, `ProviderStop` and `ConsumerStop` are the cases of the selects that
see the context done. `BeginEvict`, `CheckLimit`, `Miss`, `Take`, `Settle`,
`EndEvict` and `Count` are the consumer and the loop of
`evictUntilWithinLimitBySample`: usage is looked at, then an entry is removed,
then `Map.mem` brought up to date, and the counters at the end of the call.
`Telemetry` is the loop over one counter; `LogsStart` is its first snapshot.
`Workers` puts it over the evictor's counter and adds the facade's Close, which
cancels both contexts one after the other (`CancelEvictor`, `CancelLogs`).

### CachedTime and ClockContract

`LoadNow` and `StoreNow` are the start of the clock in `RunIfEnabled`, `Tick`,
`ReceiveTick` and `StoreTick` the runtime's one-slot ticker channel and the
goroutine that copies ticks into the global, `SwapClosed` and `CloseDone` what
follows a cancellation, `LoadClosed` and `LoadCached` a reader that loads the flag
and then the time. `RunDisabled` is an instance that has the cached time off,
which turns it off for the whole process. `ClockContract` knows the time, what
the reader was shown last, and whether more than one instance drives the clock:
the promise that time does not go back is for one instance.

## 3. Runs

Every run explores its whole instance. Deadlock is checked in all of them but
`workers` and `clock`, whose systems may really stop: all goroutines have ended,
clients have done all their insertions and the time has reached its bound.

| Run | Shows | Bounds |
|---|---|---|
| `sharded_map` | `ShardCountersExact`, `LRUMatchesItems`, `CountersConserved`, `QuiescentPrecise`, `RecencyOrderStable`, `EveryCallReturns` | 2 goroutines, 2 shards, 4 keys (3 in one shard, so that a list has an order), weights 1–2, limit 1, 2 iterations |
| `ring_queue` | the buffer implements the FIFO queue | 3 keys, 4 slots: full, empty and wrapped around |
| `cache_races` | `MemConservedUnlessRaced`, `CountersAgree`, `EveryCallReturns` | 2 goroutines, 1 key, payload sizes 0–1, admission, eviction of 2 iterations and Around on |
| `cache_keys` | `LenConserved`, `OwnPayload`, `ImplementsContract` | 2 goroutines, 2 keys with different hashes, one with payload sizes 0–1 and one of size 0, admission and eviction on, Around off, so that all content comes from callbacks |
| `lifetimer` | `FlaggedIsOnItsWay`, `FlagComesDown`, `ExpiredIsHandled`, `ClosedEnds` | 1 client, 1 consumer, 2 keys (the entries of one removed, of the other refreshed), 2 entries, 1 cached at a time, a queue and a channel of 1 |
| `tiny_lfu` | `CountersKeepApart`, `NeverUnderestimates`, `CountedPassesDoor`, `AgingGuarded`, `AgesFullWindows` | 2 goroutines, 2 keys sharing a word, a counter and a bit; 2 words of two 2-bit counters; window 3; 2 tries. With it, as an assumption TLC evaluates once (`SizesAreRight`), the six properties of `Admitter` for 3,510 configurations and every hash of 4 bits |
| `workers` | `EvictionsLedger`, `LoggedOnce`, `EvictsToLimit`, `Relief`, `CloseEndsAll`, `EveryEvictionLogged` | 2 consumers, 1 caller of ForceCall, soft limit 2, 2 iterations, 3 insertions, 1 removal |
| `clock` | `DoneClosedOnce`, `ImplementsContract`, `ClockGoesOn`, `CancelEndsTickers` | 2 instances, times up to 2 |
| `evict_alone`, `cache_drift`, `cache_collision`, `lifetimer_fresh` | each finds the counterexample of section 5 | as the passing runs, smaller |

Each passing run also checks its module's type invariant once (`cache_races` does
so for CacheOps). Why the bounds are enough: every race in these components is
between two goroutines over one entry, one word, one counter or one global, and
the second key, shard, entry or instance is there for what a goroutine may mistake
for the first. In `lifetimer` one entry is cached at a time, but the key or the entry of
the one before it may still be in the queue, in the channel or in hands, under the
same key or the other: the queue can be full with the other key, and the channel
with an old entry of the same one. A third goroutine adds only more of the same pairs; the consumers
of the evictor, where numbers matter, are any number in section 4. `MaxDrift`
(CacheOps), `MaxAdds` (TinyLFU), `MaxWrites` and `MaxDrops` (Evictor), `MaxItems` and
`Modes` (Lifetimer) and `MaxTime` (CachedTime) bound what the code leaves unbounded: calls but Clear begin
only while the counters are exact (in `cache_drift` and `cache_collision` off by a
byte at most), so that races happen among the calls under way and a Clear follows
them; above the bound accesses are
recorded one at a time, which is enough for the window to close; three insertions
go above a limit of two by one, so that two consumers compete for one entry too
many. The theorems of section 4 hold without bounds.

### Fairness

- `ShardedMap`: a call that has begun is scheduled (weak fairness of `Step`);
  locks are held for short sections without any wait inside.
- `CacheOps`: strong fairness of a call's steps. They wait for a shard's lock,
  which others take again and again; Go's RWMutex hands it to a waiter, so a
  waiter is not passed over for ever. The callback is assumed to return.
- `Lifetimer`: goroutines run on and callbacks return (weak fairness); a select
  which finds its context done each time round takes that case in the end (strong
  fairness of the stops), as Go chooses at random among the ready cases. Clients
  are never obliged to call, and sampling is not assumed ever to hit.
- `Workers`: tickers tick and goroutines run (weak fairness). Strong fairness of
  the stops, as above; of the provider's hand-over, as a channel serves its
  senders in the order they came, so that callers of ForceCall do not keep it out
  for ever; and of `Take`, as NextShard goes round the shards, so that an eviction
  does not miss the entries there are for ever. Clients need not insert, remove
  or call.
- `CachedTime`: goroutines run, tickers tick and the clock is read (weak
  fairness), a closed channel is not passed over for ever (strong fairness of
  `StopTicker`). Nobody is obliged to start, to cancel, or to let time pass.

## 4. Proofs

All theorems hold for every value of the constants that satisfies the modules'
assumptions.

**ShardedMap** (`ShardedMapProofs`). `TypeCorrect`, `ShardCountersAlwaysExact`,
`LRUAlwaysMatchesItems`, `CountersAlwaysConserved` and `CountersPreciseAtRest`
prove the module's five invariants. The inductive invariant is

    IInv == TypeOK /\ LocalsOK /\ ShardsOK /\ CountersConserved

`CountersConserved` alone is not inductive: that a Clear owes what the shard's
counters say is only right if those are exact (`ShardCountersExact`), and that
an eviction removes an entry which is there needs the list to match the map
(`LRUMatchesItems`); both are in `ShardsOK`. `LocalsOK` says which local variables
are zero at which point, so that the one slot for "what is owed" is never
overwritten. `CountersPreciseAtRest` follows as idle goroutines owe nothing.
Sums over keys and goroutines are the difficulty: the library's folds are
`RECURSIVE`, which the provers do not take. `Sums` therefore defines a
sum as the cardinality of a set of blocks, {(x, n) : n < f(x)}, for which
`NumberTheorems` proves from the cardinality lemmas what changes when a function
changes in one or in many places, and in `SumIsTotal` that it is the total got by
adding one value after the other; TLC checks in `MCShardedMap`
(`BlockSumsAreSums`) that it agrees with the recursive sum. The lemmas about
`RemoveFirst` say what it does to a list without duplicates. From them follows
`RecencyNeverReshuffled`, that each step keeps the order of eviction but for a key
that moves to the head: `StepMovesLists` says what a step can do to a list, and in
a list without duplicates two keys are never ahead of each other.

**RingQueue** (`RingQueueProofs`). `RingTypeCorrect`, and `RingRefinesFIFO`: the
buffer of any size implements the bounded queue. `PushContents` and
`PopContents` give what a step does to `Contents`, element by element, with and
without wrap-around.

**TinyLFU** (`TinyLFUProofs`). `OneAger` and `FullWindows` from `AgingInv`: the two
properties need each other, as only the one goroutine under the guard can lower
`adds`, so that the full window it saw at its second look stays full until it
stores zero. `CountedAlwaysPasses` from `DoorInv`: a goroutine past the doorkeeper
holds a key whose bits are set, and bits are never taken back because a swap
succeeds only on the word that was loaded. `SketchTypes`, `EstimatesNeverUnder` and
`CountersStayApart`, for any number and size of counters in a word, any table, any
keys and goroutines, from

    SketchInv == TypeOK /\ Located /\ NoneLost

`NeverUnderestimates` is not inductive: when a goroutine counts a key it must have
been in each of the key's counters before. `NoneLost` says that, while `exact`, a
counter of a key that is not full is at least what was counted of the key plus the
goroutines that have been in this counter and have not counted yet. `Located` says
that a goroutine about to swap an incremented word in has loaded one whose counter
was not full, without which the increment would carry into the neighbour, or out
of the word and its type. That a word's counters keep apart is arithmetic:
`IncrementKeepsApart` (one more in a digit that is not the last one changes no other
digit) and `HalvedLanes` (shift and mask give a word whose digits are the halves).
Both speak of powers of the number of values of a counter, which are a recursive
function. The library's induction cannot be used, so `NumberTheorems` derives
`Induction` for sets of numbers from the least number, `PrimitiveRecursion` from it,
and with these what is needed of powers and digits to any base (`PowersDivide`,
`TopDigit`, `NoDigitAbove`, `WriteDigit`).

**Admitter** (also in `TinyLFUProofs`), for any widths of the integers and words,
and any configuration with a positive number of shards and a capacity below half
the largest int. `NextPow2IsLeast`: `SmearedBits` says which bits each of the
shifts has reached, by induction over them, so that all below the highest one
(`TopOne`) are ones after the last; those are one less than a power of two
(`NumberOfFirst`). `OnlyMinLenPanics` rests on `AndOfPredecessor`: x & (x - 1) is zero
just for powers of two. `HashesNeverLeave`, `TablesAlwaysFit` and `CountersAllReached`
follow from both, as lengths are powers of two (`LengthsArePowers`) and a masked hash
is at most the mask (`AndBounds`). `ShardsAllReached` needs that a number has only
the ones it is made of (`OnesOfNumber`), as no test keeps the number of shards a power
of two: the theorem says that it must be one for every shard to be used.

**Lifetimer** (`LifetimerProofs`). `LifetimerTypeCorrect` and
`FlaggedAlwaysOnItsWay`, for any number of clients, consumers, keys and entries.
The inductive invariant is

    IInv == TypeOK /\ LocalsOK /\ KeysOK /\ GarbageOK /\ FlaggedIsOnItsWay

The property needs the others. The provider finds an entry by the key it took
from the queue, so the key in the entry must be the one it is cached under
(`KeysOK`); a removal by key drops the entry of interest for the same reason; and
an entry that gets published must not bring a flag with it from an earlier life
(`GarbageOK`). `LocalsOK` says where a goroutine has an entry in hands. An entry to be refreshed may
keep its flag, and keeps its mode, so that it is never one the property is about. Each step
moves one goroutine: `GotoStep` proves once what all of them have in common, and
`StillOnItsWay` reduces the property to the place the goroutine takes the entry
from. That `Clients`, `Consumers` and the provider are different goroutines is an
assumption: a consumer that were also a client could forget an entry.

**CacheOps** (`CacheOpsProofs`), for any number of keys, hashes, entries, goroutines
and payload sizes. `CacheTypeCorrect`; `LenAlwaysConserved`; `CountersAlwaysAgree`
and `MemAlwaysConserved`; `KeyOwnsPayload` and `CacheKeepsContract`, under the
assumption `NoCollisions` that no two keys have one hash (run `cache_collision` shows
that it is needed).
The ground is

    Base == MapTypes /\ EntryTypes /\ ProcTypes /\ LocalsOK /\ KeysOK

where `LocalsOK` says what a goroutine holds and owes at which point, and `KeysOK`
that every entry that can be reached has a key, and those of the map the key they
are found under. On it stand three invariants. `LenInv`: a Clear owes exactly the
number of items, as nobody enters a locked shard. `CountInv`: the three facts about
bytes, each under the races that break it, with `Private`, that a new entry is its
maker's alone, without which a callback could change the weight of what the map
holds. `OwnInv`: what can be reached was made for its key, and an update works on
two entries of one hash. Entries are garbage-collected and used again in the
model, so what a step keeps is said of reachable entries only (`Shape`, `Kept`).
`CountBalance` and `LenBalance` reduce each to a sum for the one goroutine that
moves. `MemAlwaysConserved` is the point of it: the races that `raced` records are
all there are. `CacheKeepsContract` is the refinement of `CacheContract`. It needs of
the states

    ContractInv == Base /\ OwnInv /\ Private /\ HandsOK /\ FreshInv

`FreshInv` says that garbage and entries whose callback has not returned have no
payload, so that no answer comes out of nothing, and that nobody else finds a
goroutine's new entry, so that an update does not change another call's answer;
`HandsOK` that references are put down where the code does, without which an entry
could become garbage with its payload. One lemma per kind of step
(`RefineInsert`, `RefineSwap`, ...) maps it to a step of the contract.

**Workers** (`WorkersProofs`). `LedgerAlwaysHolds`, `AlwaysEvictsToLimit`,
`LoggedAlwaysOnce` and `WorkersTypeCorrect`, for any number of consumers and
callers, any limit and any number of iterations. The inductive invariant is

    IInv == TypeOK /\ LocalsOK /\ EvictionsLedger /\ Overshoot

`EvictsToLimit` is about steps; `Overshoot` is what it needs of states: usage and
removals are above the limit less the consumers, by as many as are acting on their
look at usage and may still take an entry each. `LocalsOK` bounds what a call
frees by its iterations. `WorkersRunEvictor` carries the evictor's results over to
the composition, and `LogsInv` says that what is logged is the last snapshot.

**CachedTime** (`CachedTimeProofs`). `ClockTypeCorrect`; `DoneAlwaysClosedOnce` from
`Closing`: who is about to close the channel is alone, because it took the flag;
`ClockKeepsContract`, that the clock of any number of instances implements
`ClockContract`, from

    ContractInv == TypeOK /\ Started /\ NeverAhead /\ InOrder /\ Behind

`InOrder` is needed because times are under way between the system and the global
(in the start, in the ticker's channel, in the goroutine's hands): with one
instance they are all later than the one stored, in the order they are stored in.
`Behind` says that a reader that has found the cached time on was not shown a
later one; it says nothing once the flag is down, as the system's time is ahead.

Only model-checked: the liveness properties, as fairness and ENABLED are out of the
prover's reach. They are `EveryCallReturns` (ShardedMap and CacheOps),
`FlagComesDown`, `ExpiredIsHandled` and `ClosedEnds` (Lifetimer), `Relief`, `CloseEndsAll` and
`EveryEvictionLogged` (Workers), `ClockGoesOn` and `CancelEndsTickers` (CachedTime).
Every other property of a passing run is a theorem.

## 5. Where code and documentation part

- `evict_alone`: evictor.go:123 describes the consumer as evicting "until within
  limit or backoff by spins". The test at eviction.go:30 also wants the call to
  have freed no more than 8 MiB: a call that has freed more goes on emptying a
  cache that is within its limit.
- `cache_drift`: map.go:24 promises "precise global counters". An update in place
  which races a removal, a replacement, a Clear or another update leaves
  `Map.mem` off for good.
- `cache_collision`: entry.go:11 keeps a long key "for manage collisions". Get and
  Del compare it, set does not: with equal hashes it stores one key's payload in
  the other key's entry, and Get returns it.
- `lifetimer_fresh`: tests/lifetimer_test.go:122 states that nothing is removed
  before its TTL is over. The removal callback removes by key, also a fresh entry
  that took the place of the expired one.

Met while modelling and not the subject of a run:

- refresh.go:30 says of the queued flag that it "will be cleared after success".
  The consumer discards what the callback returns (lifetimer.go:124), so that a
  refresh changes neither the entry's payload nor its times, and leaves the flag up
  with nothing under way: no touch queues the entry again, only sampling finds it.
  `FlaggedIsOnItsWay` and `FlagComesDown` are therefore about entries to be removed.
- tiny_lfu.go:15 says of the doorkeeper "reset with sketch aging"; nothing but
  tests resets it.
- README.md:219 calls the hard limit strict; set checks it before it inserts, and
  not at all when it updates.
- time_test.go:95 says that "UnixNano should be non-decreasing". With two instances
  that have the cached time enabled, the tick of one can be stored after a later
  one of the other; `ClockContract` therefore promises it for one.
- time_test.go:98 expects that the "ticker stops on context cancel". An instance
  with the cached time disabled raises the flag without closing the channel, and
  the instances cancelled after it find the flag up and do not close it either;
  `CancelEndsTickers` makes that exception.
- The telemetry loop does not log what was counted before its first snapshot, and
  drops the last interval when it is closed; `EveryEvictionLogged` says so.
- tiny_lfu.go:28 says that the "table length is a power-of-two >= perShardCap,
  clamped by MinTableLenPerShard". The clamp comes after the rounding: a minimum
  that is no power of two is taken as it is and makes `sketch.init` panic
  (`OnlyMinLenPanics`).
- config/admission.go:13 says that Shards is "how many independent admission-control
  shards to use". Unless it is a power of two the mask of tiny_lfu.go:39 leaves
  some of them without any key (`ShardsAllReached`): of 12, eight are used.
- hash_mix.go:3 says that nextPow2 "returns the smallest power-of-two >= x (for
  int)"; line 14 knows that this ends at 32 bits (`LeastPow2`).
- The interval of the telemetry is tagged `yaml:"5s"` (config/db.go:8): it is not
  read under its own name, stays zero, and a ticker of zero panics.

## 6. What is not modelled, and the plan

Not modelled, and why:

- Wording, logging and metrics (`CacheMetrics`, the counters of scans, hits and
  bytes): no behaviour depends on them, and those of evicted items show how they
  are kept.
- Configuration: parsed once; its values are the constants of the models.
- Random numbers, and what is drawn with them: which of several sampled entries
  is the oldest is a free choice, and so is each answer of the stochastic test of
  expiry while it is a draw. That a draw comes out in the end is not assumed:
  `ExpiredIsHandled` speaks of entries that every test finds expired, as a key whose
  entry is merely stale may be dropped from the queue and the entry stay.
- The moment between two loads in one condition: `Guarded` and
  `HardMemoryLimitOvercome` of CacheOps read length and memory in one step, which the
  code loads one after the other (cache.go:219-225). In Evictor, the look at the
  length with which the soft limit's test and an eviction begin (cache.go:116,
  eviction.go:52) is left out, as entries have weight 1 and the length can be zero
  there only when other evictions have just taken everything.
- The rate of the lifetimer's scans (`internal/shared/rate`): a scan may begin at
  any moment, which includes every rate.
- Byte comparison: payloads are compared as a whole. The function samples 24 bytes
  of a longer payload, which is a matter of data.
- Allow and Reset of the admission filter: Allow only reads, and its answer is a free
  choice in CacheOps; Reset is called by tests only. `mix64` is data: TinyLFU takes
  any indices for a key, Admitter any hash.
- The pool of goroutines of `WalkShardsConcurrent`, which Around and WalkShards of
  the cache use (cache.go:98-106): what it runs on each shard takes that shard's lock,
  so that the models let it happen shard by shard at any moment
  (`AroundSetPayload`). Its channel holds every shard, and no sender waits.
- Client functions that call back into the cache from Around: they block on the
  shard's lock they hold, by design of the interface.

Order of the work:

1. `ShardedMap` with its proofs: the counters everything else reads. Done.
2. `RingQueue` refining `BoundedFIFO`, with proofs. Done.
3. `CacheOps`: updates in place, admission, limits, collisions. Done.
4. `Lifetimer`: flag, queue, channel, shutdown, with its proofs. Done.
5. `TinyLFU`: Record with ageing, proofs of its guard and doorkeeper. Done.
6. Proofs for `CacheOps`: types, length, bytes, payloads. Done.
7. `Evictor`, `Telemetry` and their composition `Workers`, with proofs. Done.
8. `CachedTime` refining `ClockContract`, with proofs. Done.
9. `CacheContract`, which `CacheOps` implements, with its proof. Done.
10. The type invariant of TinyLFU and its estimates and counters, `RecencyOrderStable`,
    as theorems. Done.
11. `Admitter`: `nextPow2` and the sizes of `newShardedAdmitter`, with proofs. Done.
12. Left: `IsBytesAreEquals` and `AdjustConfig` against reference definitions.
