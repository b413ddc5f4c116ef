------------------------------ MODULE Evictor ------------------------------
(***************************************************************************)
(* The evictor's goroutines (internal/evictor/evictor.go): a provider that *)
(* looks at the soft limit on each tick, consumers that evict, and clients *)
(* that call ForceCall, all over one unbuffered channel, and the eviction  *)
(* by sampling the consumers run side by side                              *)
(* (internal/cache/db/eviction.go).                                        *)
(*                                                                         *)
(* The cache is what the evictor sees of it: how many entries it holds and *)
(* Map.mem, with entries of one weight, 1.  Clients insert and remove them *)
(* in single steps; the steps of those calls are the subject of CacheOps   *)
(* and ShardedMap.  The counters of scans and of bytes are left out.       *)
(***************************************************************************)
EXTENDS Sums

CONSTANTS
  Consumers,   \* goroutines that evict, GOMAXPROCS + 1 in the code
  Callers,     \* clients that call ForceCall
  SoftLimit,   \* SoftMemoryLimitBytes, in entries
  Spins,       \* BackoffSpinsPerCall
  MaxWrites,   \* bound: insertions
  MaxDrops     \* bound: removals by clients

ASSUME ConsumersAssumption  == IsFiniteSet(Consumers)
ASSUME SoftLimitAssumption  == SoftLimit \in Nat /\ Spins \in Nat
ASSUME ClientsAssumption    == MaxWrites \in Nat /\ MaxDrops \in Nat

VARIABLES
  held,      \* entries in the shards
  mem,       \* Map.mem
  writes,    \* history: entries inserted
  drops,     \* history: entries removed by clients
  done,      \* the evictor's context is cancelled
  provider,  \* where the provider is
  consumer,  \* where each consumer is
  backoff,   \* iterations its eviction has left
  freed,     \* entries it has evicted and not counted
  caller,    \* where each client of ForceCall is
  evicted    \* counters.evictedItems

cacheVars    == <<held, mem, writes, drops>>
consumerVars == <<consumer, backoff, freed>>
vars == <<cacheVars, done, provider, consumerVars, caller, evicted>>

TypeOK ==
  /\ held \in Nat /\ mem \in Nat /\ evicted \in Nat
  /\ writes \in 0 .. MaxWrites /\ drops \in 0 .. MaxDrops
  /\ done \in BOOLEAN
  /\ provider \in {"select", "offer", "ended"}
  /\ consumer \in [Consumers ->
       {"select", "woken", "evict", "take", "settle", "count", "ended"}]
  /\ backoff \in [Consumers -> 0 .. Spins]
  /\ freed \in [Consumers -> 0 .. Spins]
  /\ caller \in [Callers -> {"idle", "waiting"}]

Init ==
  /\ held = 0 /\ mem = 0 /\ writes = 0 /\ drops = 0 /\ evicted = 0
  /\ done = FALSE
  /\ provider = "select"
  /\ consumer = [c \in Consumers |-> "select"]
  /\ backoff = [c \in Consumers |-> 0]
  /\ freed = [c \in Consumers |-> 0]
  /\ caller = [f \in Callers |-> "idle"]

Goto(c, l) == consumer' = [consumer EXCEPT ![c] = l]

-----------------------------------------------------------------------------
(* The cache's clients *)

Grow ==
  /\ writes < MaxWrites
  /\ held' = held + 1 /\ mem' = mem + 1 /\ writes' = writes + 1
  /\ UNCHANGED <<drops, done, provider, consumerVars, caller, evicted>>

Drop ==
  /\ held > 0 /\ drops < MaxDrops
  /\ held' = held - 1 /\ mem' = mem - 1 /\ drops' = drops + 1
  /\ UNCHANGED <<writes, done, provider, consumerVars, caller, evicted>>

-----------------------------------------------------------------------------
(* provider *)

SoftMemoryLimitOvercome == mem > SoftLimit

\* A tick finds usage above the limit.  Other ticks change nothing.
ProviderTick ==
  /\ provider = "select"
  /\ SoftMemoryLimitOvercome
  /\ provider' = "offer"
  /\ UNCHANGED <<cacheVars, done, consumerVars, caller, evicted>>

\* Mutant: the provider returns once it has handed work over.
ProviderHandsOnce(c) ==
  /\ provider = "offer" /\ consumer[c] = "select"
  /\ provider' = "ended"
  /\ Goto(c, "woken")
  /\ UNCHANGED <<cacheVars, done, backoff, freed, caller, evicted>>

\* A consumer that is waiting takes the call.
ProviderHands(c) ==
  /\ provider = "offer" /\ consumer[c] = "select"
  /\ provider' = "select"
  /\ Goto(c, "woken")
  /\ UNCHANGED <<cacheVars, done, backoff, freed, caller, evicted>>

\* Mutant: the offer does not look at the context.
ProviderStopSelect ==
  /\ done
  /\ provider = "select"
  /\ provider' = "ended"
  /\ UNCHANGED <<cacheVars, done, consumerVars, caller, evicted>>

\* Both selects look at the context.
ProviderStop ==
  /\ done
  /\ provider \in {"select", "offer"}
  /\ provider' = "ended"
  /\ UNCHANGED <<cacheVars, done, consumerVars, caller, evicted>>

-----------------------------------------------------------------------------
(* ForceCall *)

ForceCall(f) ==
  /\ caller[f] = "idle"
  /\ caller' = [caller EXCEPT ![f] = "waiting"]
  /\ UNCHANGED <<cacheVars, done, provider, consumerVars, evicted>>

CallerHands(f, c) ==
  /\ caller[f] = "waiting" /\ consumer[c] = "select"
  /\ caller' = [caller EXCEPT ![f] = "idle"]
  /\ Goto(c, "woken")
  /\ UNCHANGED <<cacheVars, done, provider, backoff, freed, evicted>>

\* The timer fires, or the context is done: an error or none.
CallerLeaves(f) ==
  /\ caller[f] = "waiting"
  /\ caller' = [caller EXCEPT ![f] = "idle"]
  /\ UNCHANGED <<cacheVars, done, provider, consumerVars, evicted>>

-----------------------------------------------------------------------------
(* consumer, and the loop of evictUntilWithinLimitBySample *)

BeginEvict(c) ==
  /\ consumer[c] = "woken"
  /\ IF mem > SoftLimit
       THEN Goto(c, "evict") /\ backoff' = [backoff EXCEPT ![c] = Spins]
       ELSE Goto(c, "select") /\ UNCHANGED backoff
  /\ UNCHANGED <<cacheVars, done, provider, freed, caller, evicted>>

\* Mutant: iterations do not run out.
CheckLimitOnly(c) ==
  /\ consumer[c] = "evict"
  /\ mem > SoftLimit
  /\ Goto(c, "take")
  /\ UNCHANGED <<cacheVars, done, provider, backoff, freed, caller, evicted>>

\* Mutant: the limit is looked at when the eviction begins only.
CheckLimitOnce(c) ==
  /\ consumer[c] = "evict" /\ backoff[c] > 0
  /\ Goto(c, "take")
  /\ UNCHANGED <<cacheVars, done, provider, backoff, freed, caller, evicted>>

\* The condition of the loop holds; usage may change before an entry is taken.
CheckLimit(c) ==
  /\ consumer[c] = "evict" /\ backoff[c] > 0
  /\ mem > SoftLimit
  /\ Goto(c, "take")
  /\ UNCHANGED <<cacheVars, done, provider, backoff, freed, caller, evicted>>

\* No victim in the sample, its shard is busy, or its key is gone.
Miss(c) ==
  /\ consumer[c] = "take"
  /\ backoff' = [backoff EXCEPT ![c] = @ - 1]
  /\ Goto(c, "evict")
  /\ UNCHANGED <<cacheVars, done, provider, freed, caller, evicted>>

\* An entry is removed from its shard...
Take(c) ==
  /\ consumer[c] = "take"
  /\ held > 0
  /\ held' = held - 1
  /\ Goto(c, "settle")
  /\ UNCHANGED <<mem, writes, drops, done, provider, backoff, freed, caller, evicted>>

\* ... and Map.mem brought up to date.
Settle(c) ==
  /\ consumer[c] = "settle"
  /\ mem' = mem - 1
  /\ freed' = [freed EXCEPT ![c] = @ + 1]
  /\ backoff' = [backoff EXCEPT ![c] = @ - 1]
  /\ Goto(c, "evict")
  /\ UNCHANGED <<held, writes, drops, done, provider, caller, evicted>>

EndEvict(c) ==
  /\ consumer[c] = "evict"
  /\ mem <= SoftLimit \/ backoff[c] = 0
  /\ Goto(c, IF freed[c] > 0 THEN "count" ELSE "select")
  /\ backoff' = [backoff EXCEPT ![c] = 0]
  /\ UNCHANGED <<cacheVars, done, provider, freed, caller, evicted>>

\* Mutant: the counter is stored, not added to.
CountStores(c) ==
  /\ consumer[c] = "count"
  /\ evicted' = freed[c]
  /\ freed' = [freed EXCEPT ![c] = 0]
  /\ Goto(c, "select")
  /\ UNCHANGED <<cacheVars, done, provider, backoff, caller>>

Count(c) ==
  /\ consumer[c] = "count"
  /\ evicted' = evicted + freed[c]
  /\ freed' = [freed EXCEPT ![c] = 0]
  /\ Goto(c, "select")
  /\ UNCHANGED <<cacheVars, done, provider, backoff, caller>>

ConsumerStop(c) ==
  /\ done
  /\ consumer[c] = "select"
  /\ Goto(c, "ended")
  /\ UNCHANGED <<cacheVars, done, provider, backoff, freed, caller, evicted>>

\* Close, or the cancellation of the context the evictor was made with.
Close ==
  /\ ~done
  /\ done' = TRUE
  /\ UNCHANGED <<cacheVars, provider, consumerVars, caller, evicted>>

-----------------------------------------------------------------------------

\* A consumer that has work goes on with it.
Consume(c) ==
  BeginEvict(c) \/ CheckLimit(c) \/ Miss(c) \/ Take(c) \/ Settle(c) \/ EndEvict(c) \/ Count(c)

Next ==
  \/ Grow \/ Drop
  \/ ProviderTick \/ ProviderStop \/ Close
  \/ \E c \in Consumers : ProviderHands(c) \/ Consume(c) \/ ConsumerStop(c)
  \/ \E f \in Callers :
       \/ ForceCall(f) \/ CallerLeaves(f)
       \/ \E c \in Consumers : CallerHands(f, c)

Spec == Init /\ [][Next]_vars

-----------------------------------------------------------------------------
(* Properties *)

\* The consumers that have taken an entry and not yet told Map.mem.
Settling == { c \in Consumers : consumer[c] = "settle" }

\* However many consumers evict at once, every entry that left the cache is told
\* of once: it is in Map.mem until it is taken off, and in the evictor's counter
\* or the consumer's hands from then on (eviction.go:57-71, evictor.go:133-139).
EvictionsLedger ==
  /\ mem = held + Cardinality(Settling)
  /\ writes = mem + drops + evicted + SumOn(freed, Consumers)

\* The limit is checked before an entry is chosen, and other consumers take
\* entries in between: together they go below the limit, but by fewer entries
\* than there are consumers, besides what clients removed (eviction.go:57-71).
EvictsToLimit ==
  [][ \A c \in Consumers :
        Settle(c) => mem' + drops >= SoftLimit + 1 - Cardinality(Consumers) ]_vars
=============================================================================
