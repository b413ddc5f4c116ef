------------------------------ MODULE Admitter ------------------------------
(***************************************************************************)
(* The sizes newShardedAdmitter computes from its configuration, and the   *)
(* shard, counter and bit a hash leads to (internal/cache/db/bloom).  The  *)
(* bitwise operators of the code work on the set of a number's ones.       *)
(***************************************************************************)
EXTENDS Sums

CONSTANTS
  Configs,       \* configurations: capacity, shards, minLen, doorBits
  Smears,        \* steps of nextPow2 after x--, 5 in the code
  IntBits,       \* bits of an int without its sign, 63 in the code
  WordCounters,  \* counters in a word of the sketch, 16 in the code
  WordBits       \* bits in a word of the doorkeeper, 64 in the code

Pow2[n \in Nat] == IF n = 0 THEN 1 ELSE 2 * Pow2[n - 1]

\* The bits nextPow2 smears a one over are as many as an uint32 has.
Span == Pow2[Smears]
UInt32Size == Pow2[Span]

\* Capacities above half of the largest int are left out.
ASSUME AdmitterAssumption ==
  /\ {Smears, IntBits, WordCounters, WordBits} \subseteq Nat \ {0}
  /\ Span < IntBits
  /\ \A c \in Configs : /\ c.capacity \in Int /\ c.capacity <= Pow2[IntBits - 1]
                        /\ c.shards \in Nat \ {0}
                        /\ {c.minLen, c.doorBits} \subseteq Int

-----------------------------------------------------------------------------
(* Bits *)

Ones(v) == { b \in 0 .. IntBits - 1 : (v \div Pow2[b]) % 2 = 1 }
Number(B) == SumOn(Pow2, B)
And(v, w) == Number(Ones(v) \cap Ones(w))
ShiftRight(B, n) == { b \in 0 .. IntBits - 1 : b + n \in B }

\* The ones of x - 1 are smeared over the bits below them.
NextPow2(x) ==
  LET smeared[n \in Nat] ==
        IF n = 0 THEN Ones(x - 1)
        ELSE smeared[n - 1] \cup ShiftRight(smeared[n - 1], Pow2[n - 1])
  IN IF x <= 1 THEN 1 ELSE Number(smeared[Smears]) + 1

-----------------------------------------------------------------------------
(* The tables of a shard *)

PerShardCap(c) ==
  IF c.capacity \div c.shards < 1 THEN 1 ELSE c.capacity \div c.shards

TableLen(c) ==
  LET len == NextPow2(PerShardCap(c)) IN IF len < c.minLen THEN c.minLen ELSE len

\* Lengths are handed over to init as uint32.
TableCounters(c) == TableLen(c) % UInt32Size

Panics(c) == TableCounters(c) = 0 \/ And(TableCounters(c), TableCounters(c) - 1) # 0

TableWords(c) == (TableCounters(c) + WordCounters - 1) \div WordCounters

DoorAsked(c) ==
  LET bits == (TableLen(c) * c.doorBits) % UInt32Size IN IF bits = 0 THEN 1 ELSE bits

DoorLen(c) == NextPow2(DoorAsked(c))
DoorWords(c) == (DoorLen(c) + WordBits - 1) \div WordBits

\* Where a hash, cut to 32 bits, leads to.
ShardOf(h, c) == And(h, (c.shards - 1) % UInt32Size)
CounterOf(h, c) == And(h, TableCounters(c) - 1)
DoorBitOf(h, c) == And(h, DoorLen(c) - 1)

-----------------------------------------------------------------------------
(* Properties *)

IsPow2(v) == \E n \in 0 .. IntBits : v = Pow2[n]

\* nextPow2 is "the smallest power-of-two >= x" (hash_mix.go:3) as long as x
\* has no more than 32 bits; above, it smears too little.
LeastPow2 ==
  \A x \in 1 .. UInt32Size :
    IsPow2(NextPow2(x)) /\ x <= NextPow2(x) /\ NextPow2(x) < 2 * x

\* The table of a shard that is made is long enough for its share of the
\* capacity and for MinTableLenPerShard, and no longer than they ask for; lengths
\* that no uint32 holds aside (tiny_lfu.go:28-32).
TablesFit ==
  \A c \in Configs :
    ~Panics(c) /\ TableLen(c) < UInt32Size =>
      /\ TableCounters(c) >= PerShardCap(c) /\ TableCounters(c) >= c.minLen
      /\ TableCounters(c) = c.minLen \/ TableCounters(c) < 2 * PerShardCap(c)
      /\ DoorLen(c) >= DoorAsked(c)

\* No hash leads out of the shards, of the words of counters or of the words of
\* bits: the accesses of Record and Allow to the three slices cannot panic
\* (tiny_lfu.go:49-50, count_min_sketch.go:68-75, door_keeper.go:56-61).
HashesStayInTables ==
  \A c \in Configs : ~Panics(c) =>
    \A h \in 0 .. UInt32Size - 1 :
      /\ ShardOf(h, c) < c.shards
      /\ CounterOf(h, c) \div WordCounters < TableWords(c)
      /\ DoorBitOf(h, c) \div WordBits < DoorWords(c)

\* Every counter and every bit of a shard that is made is some hash's: init
\* refuses the lengths whose mask would skip some (count_min_sketch.go:46-48).
EveryCounterReached ==
  \A c \in Configs : ~Panics(c) =>
    /\ \A n \in 0 .. TableCounters(c) - 1 : CounterOf(n, c) = n
    /\ \A n \in 0 .. DoorLen(c) - 1 : DoorBitOf(n, c) = n

\* Every shard is some hash's just if they are a power of two: Record and Allow
\* leave the others of "how many independent admission-control shards to use"
\* empty (config/admission.go:13, tiny_lfu.go:38-39).
ShardsReached ==
  \A c \in Configs : c.shards <= UInt32Size =>
    ((\A n \in 0 .. c.shards - 1 : \E h \in 0 .. UInt32Size - 1 : ShardOf(h, c) = n)
       <=> IsPow2(c.shards))

\* It is MinTableLenPerShard alone that makes init panic, or a table too long
\* for an uint32 (tiny_lfu.go:30-32, count_min_sketch.go:46-48).
PanicsForMinLen ==
  \A c \in Configs :
    Panics(c) => TableLen(c) >= UInt32Size \/ ~IsPow2(c.minLen)
=============================================================================
