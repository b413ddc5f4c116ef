----------------------------- MODULE Lifetimer -----------------------------
(***************************************************************************)
(* How expired entries are found and handled: a client that touches an     *)
(* expired entry queues its key (internal/cache/cache.go), the lifetimer's *)
(* provider takes keys from the queue or samples the shards                *)
(* (internal/cache/db/refresh.go) and hands entries over a channel to its  *)
(* consumers, which call the entry's callback                              *)
(* (internal/lifetimer/lifetimer.go).                                      *)
(*                                                                         *)
(* One shard stands for all; its queue is the bounded FIFO that RingQueue  *)
(* implements.  Time is abstracted to what the test of expiry              *)
(* (internal/cache/db/model/expires.go) may say of an entry.  The plain    *)
(* test of the TTL says no and then yes.  The stochastic one draws anew    *)
(* each time it is asked, from when the entry is stale enough until the    *)
(* probability rounds to one.                                              *)
(***************************************************************************)
EXTENDS Integers, Sequences, FiniteSets, SequencesExt

CONSTANTS
  Keys,      \* the keys clients ask for
  Modes,     \* bound: the modes of each key's entries, TRUE to be removed, FALSE refreshed
  Entries,   \* identities of entries, positive numbers
  Clients,   \* goroutines of clients
  Consumers, \* goroutines of the lifetimer
  QueueCap,  \* keys a refresh queue holds, 4095 in the code
  ChanCap,   \* capacity of invokeCh
  MaxItems,  \* bound: entries cached at once
  Nil        \* no key

Provider == "provider"
Goroutines == Clients \cup Consumers \cup {Provider}

ASSUME LifetimerAssumption ==
  /\ Nil \notin Keys
  /\ Modes \in [Keys -> SUBSET BOOLEAN]
  /\ Entries \subseteq Nat \ {0}
  /\ {QueueCap, ChanCap, MaxItems} \subseteq Nat \ {0}

ASSUME GoroutinesAssumption ==
  /\ Clients \cap Consumers = {}
  /\ Provider \notin Clients \cup Consumers

VARIABLES
  items,     \* Shard.items: the entry of each key, 0 if there is none
  key,       \* Entry.key
  removes,   \* whether Entry.callback is removeCallback; else it is the client's
  expired,   \* IsExpired: what it says of each entry, one of Verdicts
  queued,    \* Entry.isQueuedOnRefresh
  queue,     \* Shard.rq
  popped,    \* the key the provider took from the queue, Nil if none
  ch,        \* invokeCh
  done,      \* the lifetimer's context is cancelled
  pc,        \* where each goroutine is
  ref        \* the entry it has in hands, 0 if none

entryVars == <<key, removes, expired, queued>>
vars == <<items, entryVars, queue, popped, ch, done, pc, ref>>

\* "maybe" only with the stochastic test.
Verdicts == {"no", "maybe", "yes"}

TypeOK ==
  /\ items \in [Keys -> Entries \cup {0}]
  /\ key \in [Entries -> Keys \cup {Nil}]
  /\ expired \in [Entries -> Verdicts]
  /\ {removes, queued} \subseteq [Entries -> BOOLEAN]
  /\ queue \in Seq(Keys) /\ Len(queue) <= QueueCap
  /\ popped \in Keys \cup {Nil}
  /\ ch \in Seq(Entries) /\ Len(ch) <= ChanCap
  /\ done \in BOOLEAN
  /\ pc \in [Goroutines -> {"idle", "flag", "push", "unflag", "pop", "get", "check",
                            "reset", "sample", "send", "call", "stopped"}]
  /\ ref \in [Goroutines -> Entries \cup {0}]

Init ==
  /\ items = [k \in Keys |-> 0]
  /\ key = [e \in Entries |-> Nil]
  /\ expired = [e \in Entries |-> "no"]
  /\ removes = [e \in Entries |-> FALSE]
  /\ queued = [e \in Entries |-> FALSE]
  /\ queue = <<>> /\ popped = Nil /\ ch = <<>> /\ done = FALSE
  /\ pc = [g \in Goroutines |-> "idle"]
  /\ ref = [g \in Goroutines |-> 0]

-----------------------------------------------------------------------------
(* Helpers *)

\* The entries somebody can still reach.
Live(its, c, r) == { its[k] : k \in Keys } \cup Range(c) \cup { r[g] : g \in Goroutines }
Cached == { items[k] : k \in Keys } \ {0}
Unused == Entries \ Live(items, ch, ref)

\* A field of the entries, with value z where the entry is garbage.
Swept(f, z) == [e \in Entries |-> IF e \in Live(items', ch', ref') THEN f[e] ELSE z]

\* What tests say of the entries they are still made of, those of the map and the
\* provider's.
Tested(f) ==
  [e \in Entries |->
     IF e \in { items'[k] : k \in Keys } \cup {ref'[Provider]} THEN f[e] ELSE "no"]

\* The flags that are still read, those of the map's entries and the clients'.
Flagged(f) ==
  [e \in Entries |->
     IF e \in { items'[k] : k \in Keys } \cup { ref'[c] : c \in Clients } THEN f[e]
     ELSE FALSE]

Collect(exp, que) ==
  /\ key' = Swept(key, Nil)
  /\ removes' = Swept(removes, FALSE)
  /\ expired' = Tested(exp)
  /\ queued' = Flagged(que)

\* The answers a test of e can get.
MayBeExpired(e) == expired[e] \in {"maybe", "yes"}
MayBeFresh(e)   == expired[e] \in {"maybe", "no"}

Goto(g, l, e) ==
  /\ pc' = [pc EXCEPT ![g] = l]
  /\ ref' = [ref EXCEPT ![g] = e]

-----------------------------------------------------------------------------
(* Clients *)

\* A new entry is published, to be removed or to be refreshed: the mode is the
\* configuration's unless the callback sets another.  When another goroutine
\* published one since this one missed the key, that entry is dropped first.
Insert(k) ==
  /\ items[k] = 0
  /\ Cardinality(Cached) < MaxItems
  /\ \E e \in Unused :
       /\ \A d \in Unused : e <= d
       /\ items' = [items EXCEPT ![k] = e]
       /\ UNCHANGED <<queue, popped, ch, done, pc, ref>>
       /\ key' = Swept([key EXCEPT ![e] = k], Nil)
       /\ \E mode \in Modes[k] : removes' = Swept([removes EXCEPT ![e] = mode], FALSE)
       /\ expired' = Tested(expired)
       /\ queued' = Flagged(queued)

\* Del, Clear or an eviction.
Drop(k) ==
  /\ items[k] # 0
  /\ items' = [items EXCEPT ![k] = 0]
  /\ UNCHANGED <<queue, popped, ch, done, pc, ref>>
  /\ Collect(expired, queued)

\* update: the payload and the time of update of the entry are renewed...
Update(c, k) ==
  /\ pc[c] = "idle"
  /\ items[k] # 0
  /\ expired' = [expired EXCEPT ![items[k]] = "no"]
  /\ Goto(c, "unflag", items[k])
  /\ UNCHANGED <<items, key, removes, queued, queue, popped, ch, done>>

\* ... then its flag is cleared.  touch ends the same way when the queue is full.
Unflag(c) ==
  /\ pc[c] = "unflag"
  /\ Goto(c, "idle", 0)
  /\ UNCHANGED <<items, queue, popped, ch, done>>
  /\ Collect(expired, [queued EXCEPT ![ref[c]] = FALSE])

\* touch of an entry that it finds expired.
Touch(c, k) ==
  /\ pc[c] = "idle"
  /\ items[k] # 0
  /\ MayBeExpired(items[k])
  /\ Goto(c, "flag", items[k])
  /\ UNCHANGED <<items, entryVars, queue, popped, ch, done>>

\* Entry.EnqueueExpired.
TouchFlag(c) ==
  /\ pc[c] = "flag"
  /\ Goto(c, IF queued[ref[c]] THEN "idle" ELSE "push",
             IF queued[ref[c]] THEN 0 ELSE ref[c])
  /\ UNCHANGED <<items, queue, popped, ch, done>>
  /\ Collect(expired, [queued EXCEPT ![ref[c]] = TRUE])

\* Map.EnqueueExpired.
TouchPush(c) ==
  /\ pc[c] = "push"
  /\ Len(queue) < QueueCap
  /\ queue' = Append(queue, key[ref[c]])
  /\ Goto(c, "idle", 0)
  /\ UNCHANGED <<items, popped, ch, done>>
  /\ Collect(expired, queued)

\* Mutant: the flag stays up when the queue is full.
TouchPushFullForgets(c) ==
  /\ pc[c] = "push"
  /\ Len(queue) = QueueCap
  /\ Goto(c, "idle", 0)
  /\ UNCHANGED <<items, queue, popped, ch, done>>
  /\ Collect(expired, queued)

TouchPushFull(c) ==
  /\ pc[c] = "push"
  /\ Len(queue) = QueueCap
  /\ Goto(c, "unflag", ref[c])
  /\ UNCHANGED <<items, entryVars, queue, popped, ch, done>>

-----------------------------------------------------------------------------
(* The provider *)

\* The jitter lets it scan, and the cache is not empty.
Scan ==
  /\ pc[Provider] = "idle"
  /\ Cached # {}
  /\ Goto(Provider, "pop", 0)
  /\ UNCHANGED <<items, entryVars, queue, popped, ch, done>>

\* peekExpiredByQueues takes a key...
ScanPop ==
  /\ pc[Provider] = "pop"
  /\ queue # <<>>
  /\ queue' = Tail(queue)
  /\ popped' = Head(queue)
  /\ Goto(Provider, "get", 0)
  /\ UNCHANGED <<items, entryVars, ch, done>>

\* ... and looks for its entry, if one is there.
ScanGet ==
  LET e == items[popped] IN
  /\ pc[Provider] = "get"
  /\ popped' = Nil
  /\ Goto(Provider, IF e = 0 THEN "sample" ELSE "check", e)
  /\ UNCHANGED <<items, entryVars, queue, ch, done>>

ScanPopEmpty ==
  /\ pc[Provider] = "pop"
  /\ queue = <<>>
  /\ Goto(Provider, "sample", 0)
  /\ UNCHANGED <<items, entryVars, queue, popped, ch, done>>

\* Mutant: the test of freshness is the wrong way round.
ScanCheckInverted ==
  LET e == ref[Provider] IN
  /\ pc[Provider] = "check"
  /\ \/ MayBeFresh(e)   /\ Goto(Provider, "send", e)
     \/ MayBeExpired(e) /\ Goto(Provider, "reset", e)
  /\ UNCHANGED <<items, entryVars, queue, popped, ch, done>>

\* The entry is tested again.  It was updated since it was queued, or the draw
\* comes out otherwise.
ScanCheck ==
  LET e == ref[Provider] IN
  /\ pc[Provider] = "check"
  /\ \/ MayBeExpired(e) /\ Goto(Provider, "send", e)
     \/ MayBeFresh(e)   /\ Goto(Provider, "reset", e)
  /\ UNCHANGED <<items, entryVars, queue, popped, ch, done>>

\* Mutant: the flag of an entry that is not ready stays up.
ScanResetForgets ==
  /\ pc[Provider] = "reset"
  /\ Goto(Provider, "sample", 0)
  /\ UNCHANGED <<items, queue, popped, ch, done>>
  /\ Collect(expired, queued)

\* Not ready: its flag comes down.
ScanReset ==
  /\ pc[Provider] = "reset"
  /\ Goto(Provider, "sample", 0)
  /\ UNCHANGED <<items, queue, popped, ch, done>>
  /\ Collect(expired, [queued EXCEPT ![ref[Provider]] = FALSE])

\* peekExpiredBySampling finds an expired entry...
SampleHit ==
  /\ pc[Provider] = "sample"
  /\ \E e \in Cached : MayBeExpired(e) /\ Goto(Provider, "send", e)
  /\ UNCHANGED <<items, entryVars, queue, popped, ch, done>>

\* ... or none: there is none, or not in the shards it reaches and can lock.
SampleMiss ==
  /\ pc[Provider] = "sample"
  /\ Goto(Provider, "idle", 0)
  /\ UNCHANGED <<items, entryVars, queue, popped, ch, done>>

\* Mutant: the channel has room for ever more.
SendUnbounded ==
  /\ pc[Provider] = "send"
  /\ ch' = Append(ch, ref[Provider])
  /\ Goto(Provider, "idle", 0)
  /\ UNCHANGED <<items, entryVars, queue, popped, done>>

Send ==
  /\ pc[Provider] = "send"
  /\ Len(ch) < ChanCap
  /\ ch' = Append(ch, ref[Provider])
  /\ Goto(Provider, "idle", 0)
  /\ UNCHANGED <<items, entryVars, queue, popped, done>>

\* Mutant: the provider does not look at its context while it sends.
ProviderStopIdle ==
  /\ done
  /\ pc[Provider] = "idle"
  /\ Goto(Provider, "stopped", 0)
  /\ UNCHANGED <<items, queue, popped, ch, done>>
  /\ Collect(expired, queued)

ProviderStop ==
  /\ done
  /\ pc[Provider] \in {"idle", "send"}
  /\ Goto(Provider, "stopped", 0)
  /\ UNCHANGED <<items, queue, popped, ch, done>>
  /\ Collect(expired, queued)

-----------------------------------------------------------------------------
(* The consumers *)

Receive(c) ==
  /\ pc[c] = "idle"
  /\ ch # <<>>
  /\ ch' = Tail(ch)
  /\ Goto(c, "call", Head(ch))
  /\ UNCHANGED <<items, entryVars, queue, popped, done>>

\* removeCallback removes what is cached under the entry's key, of either mode.
CallRemove(c) ==
  LET k == key[ref[c]] IN
  /\ pc[c] = "call"
  /\ removes[ref[c]]
  /\ items' = [items EXCEPT ![k] = 0]
  /\ Goto(c, "idle", 0)
  /\ UNCHANGED <<queue, popped, ch, done>>
  /\ Collect(expired, queued)

\* The client's callback computes a payload, or fails.  Nobody stores it.
CallRefresh(c) ==
  /\ pc[c] = "call"
  /\ ~removes[ref[c]]
  /\ Goto(c, "idle", 0)
  /\ UNCHANGED <<items, queue, popped, ch, done>>
  /\ Collect(expired, queued)

ConsumerStop(c) ==
  /\ done
  /\ pc[c] = "idle"
  /\ Goto(c, "stopped", 0)
  /\ UNCHANGED <<items, entryVars, queue, popped, ch, done>>

-----------------------------------------------------------------------------

\* Time passes: a cached entry gets stale enough for the draws, then its lifetime is
\* over for any test.  For the plain test both happen at once.
Expire(e) ==
  /\ e \in Cached
  /\ MayBeFresh(e)
  /\ expired' = [expired EXCEPT ![e] = IF @ = "no" THEN "maybe" ELSE "yes"]
  /\ UNCHANGED <<items, key, removes, queued, queue, popped, ch, done, pc, ref>>

\* Close.
Cancel ==
  /\ ~done
  /\ done' = TRUE
  /\ UNCHANGED <<items, entryVars, queue, popped, ch, pc, ref>>

ClientCall(c) == \E k \in Keys : Update(c, k) \/ Touch(c, k)
ClientStep(c) == Unflag(c) \/ TouchFlag(c) \/ TouchPush(c) \/ TouchPushFull(c)
ProviderStep  == \/ Scan \/ ScanPop \/ ScanGet \/ ScanPopEmpty \/ ScanCheck \/ ScanReset
                 \/ SampleHit \/ SampleMiss \/ Send
ConsumerStep(c) == Receive(c) \/ CallRemove(c) \/ CallRefresh(c)

Next ==
  \/ \E k \in Keys : Insert(k) \/ Drop(k)
  \/ \E c \in Clients : ClientCall(c) \/ ClientStep(c)
  \/ ProviderStep \/ ProviderStop
  \/ \E c \in Consumers : ConsumerStep(c) \/ ConsumerStop(c)
  \/ \E e \in Entries : Expire(e)
  \/ Cancel

Spec == Init /\ [][Next]_vars

\* Goroutines run on and callbacks return.  A select that finds its context done
\* each time it comes round chooses that case in the end.
Fairness ==
  /\ \A c \in Clients : WF_vars(ClientStep(c))
  /\ WF_vars(ProviderStep) /\ SF_vars(ProviderStop)
  /\ \A c \in Consumers : WF_vars(ConsumerStep(c)) /\ SF_vars(ConsumerStop(c))

FairSpec == Spec /\ Fairness

-----------------------------------------------------------------------------
(* Properties *)

\* An entry to be removed is cached under key k.
ToRemove(k) == items[k] # 0 /\ removes[items[k]]

\* The keys that can have one.
Removable == { k \in Keys : TRUE \in Modes[k] }

\* Whether the handling of entry e is under way.
OnItsWay(e) ==
  \/ key[e] \in Range(queue) \cup {popped}
  \/ e \in Range(ch)
  \/ \E g \in Consumers \cup {Provider} : ref[g] = e
  \/ \E c \in Clients : ref[c] = e /\ pc[c] \in {"push", "unflag"}

\* An entry to be removed that is flagged as queued is on its way: its key is
\* queued, the lifetimer has it, or the client that flagged it is about to queue or
\* to unflag it.  Were its flag left up with nothing under way, no touch would ever
\* queue the entry again (cache.go:175-179, 187, refresh.go:25-37).  Entries to be
\* refreshed are left out: their flags stay up when they have been handled.
FlaggedIsOnItsWay ==
  \A k \in Keys :
    ToRemove(k) /\ queued[items[k]] /\ ~done => OnItsWay(items[k])

\* The flag of an entry to be removed does not stay up: whatever the draws of the
\* stochastic test, the entry leaves the cache, or its flag comes down so that a
\* touch can queue it again, or the lifetimer is closed (refresh.go:25-37,
\* cache.go:175-179, lifetimer.go:93-132).
FlagComesDown ==
  \A k \in Removable :
    (ToRemove(k) /\ queued[items[k]]) ~> (items[k] = 0 \/ ~queued[items[k]] \/ done)

\* An entry to be removed whose key is queued when its lifetime is over, so that
\* every test finds it expired, does not stay: it leaves the cache or is updated, or
\* the lifetimer is closed (cache.go:170-181, lifetimer.go:93-132).  With the plain
\* test of the TTL that is every expired entry.  One that is merely stale enough for
\* the stochastic test may be dropped from the queue and stay (refresh.go:29-35).
ExpiredIsHandled ==
  \A k \in Removable :
    (ToRemove(k) /\ expired[items[k]] = "yes" /\ k \in Range(queue))
      ~> (items[k] = 0 \/ expired[items[k]] # "yes" \/ done)

\* A closed lifetimer ends, provider and consumers, though consumers that have
\* ended no longer empty the channel (lifetimer.go:93-132).
ClosedEnds ==
  done ~> \A g \in Consumers \cup {Provider} : pc[g] = "stopped"

\* "TestLifetimerDontRemoveBeforeTTLExpired" (tests/lifetimer_test.go:122): the
\* lifetimer removes expired entries only.
RemovesOnlyExpired ==
  [][\A c \in Consumers : \A k \in Keys :
       CallRemove(c) /\ items[k] # 0 /\ items'[k] = 0 => MayBeExpired(items[k])]_vars
=============================================================================
