------------------------------ MODULE TinyLFU ------------------------------
(***************************************************************************)
(* One shard of the admission filter: Record lets a key pass the           *)
(* doorkeeper the second time it is seen and then counts it in the sketch, *)
(* which halves all its counters after a window of counted accesses        *)
(* (internal/cache/db/bloom).  Nothing is locked: words are loaded, then   *)
(* compared and swapped, and a swap that fails too often is given up.      *)
(*                                                                         *)
(* The word of bits of the doorkeeper is the set of its bits; a word of    *)
(* counters is a number, its counters (lanes) the digits to base LaneSize. *)
(* mix64 is the constant functions DoorIndex and Index.                    *)
(***************************************************************************)
EXTENDS Integers, Sequences, FiniteSetsExt

CONSTANTS
  Keys,          \* hashes of keys
  Procs,         \* goroutines
  LaneSize,      \* values of a counter, 16 in the code: it has 4 bits
  LanesPerWord,  \* counters in a word, 16 in the code
  NumWords,      \* words of the sketch
  DoorBits,      \* bits of the doorkeeper
  DoorIndex,     \* the bits of each key, three in the code
  Index,         \* the counters of each key, four in the code
  ResetAt,       \* the window
  MaxTries,      \* maxCASTries, 64 in the code
  MaxAdds,       \* bound: once adds has reached it one access at a time is recorded
  Nil            \* no key

LaneMax == LaneSize - 1
Lanes   == 0..LanesPerWord - 1
WordIds == 0..NumWords - 1

\* One in lane l, 1 << 4*l; the unit past the last lane is the size of a word.
Unit[l \in Nat] == IF l = 0 THEN 1 ELSE LaneSize * Unit[l - 1]
Words == 0..Unit[LanesPerWord] - 1

ASSUME TinyLFUAssumption ==
  /\ {LanesPerWord, NumWords, ResetAt, MaxTries, MaxAdds} \subseteq Nat \ {0}
  /\ LaneSize \in Nat \ {0} /\ LaneSize % 2 = 0
  /\ IsFiniteSet(Procs)
  /\ DoorIndex \in [Keys -> Seq(DoorBits)]
  /\ Index \in [Keys -> Seq(0..NumWords * LanesPerWord - 1)]
  /\ \A k \in Keys : Index[k] # <<>> /\ DoorIndex[k] # <<>>
  /\ Nil \notin Keys

VARIABLES
  bits,         \* doorkeeper.bits
  words,        \* sketch.words
  adds,         \* sketch.adds
  agingActive,  \* sketch.agingActive
  pc,           \* where each goroutine is
  h,            \* the key it records
  i,            \* the probe, or the word of reset, it is at
  tries,        \* tries of its running CAS loop
  oldBits,      \* the doorkeeper's word it loaded
  old,          \* the sketch's word it loaded
  counted,      \* auxiliary: how often each key was counted, up to LaneMax
  exact         \* auxiliary: no window has ended and no CAS loop was given up

vars == <<bits, words, adds, agingActive, pc, h, i, tries, oldBits, old, counted, exact>>

\* Steps of a goroutine that holds agingActive, and of one that does not.
InAging == {"recheck", "halve", "halveCAS", "zero", "release"}
Outside == {"idle", "door", "set", "setCAS", "window", "guard", "inc", "incCAS", "count"}

TypeOK ==
  /\ bits \subseteq DoorBits
  /\ words \in [WordIds -> Words]
  /\ adds \in Nat
  /\ agingActive \in BOOLEAN
  /\ pc \in [Procs -> InAging \cup Outside]
  /\ h \in [Procs -> Keys \cup {Nil}]
  /\ i \in [Procs -> Nat]
  /\ tries \in [Procs -> 0..MaxTries]
  /\ oldBits \in [Procs -> SUBSET DoorBits]
  /\ old \in [Procs -> Words]
  /\ counted \in [Keys -> 0..LaneMax]
  /\ exact \in BOOLEAN

Init ==
  /\ bits = {} /\ words = [w \in WordIds |-> 0]
  /\ adds = 0 /\ agingActive = FALSE
  /\ pc = [g \in Procs |-> "idle"] /\ h = [g \in Procs |-> Nil]
  /\ i = [g \in Procs |-> 0] /\ tries = [g \in Procs |-> 0]
  /\ oldBits = [g \in Procs |-> {}] /\ old = [g \in Procs |-> 0]
  /\ counted = [k \in Keys |-> 0] /\ exact = TRUE

-----------------------------------------------------------------------------
(* Lanes of a word *)

Lane(w, l) == (w \div Unit[l]) % LaneSize

\* Mutant: the shift alone.
HalvedUnmasked(w) == w \div 2

\* maskNibbles64 takes the bit off the top of each lane that the shift let in.
Halved(w) ==
  LET kept(l) == ((w \div 2) \div Unit[l]) % (LaneSize \div 2)
      low[l \in Nat] == IF l = 0 THEN 0 ELSE low[l - 1] + kept(l - 1) * Unit[l - 1]
  IN low[LanesPerWord]

WordOf(c) == c \div LanesPerWord
LaneOf(c) == c % LanesPerWord

Counter(c) == Lane(words[WordOf(c)], LaneOf(c))
Estimate(k) == Min({ Counter(Index[k][p]) : p \in DOMAIN Index[k] })
ProbablySeen(k) == \A p \in DOMAIN DoorIndex[k] : DoorIndex[k][p] \in bits

-----------------------------------------------------------------------------
(* Steps of a goroutine *)

At(g, l) == pc[g] = l
Goto(g, l) == pc' = [pc EXCEPT ![g] = l]

\* A CAS loop of g starts, or goes on to probe or word n at step l.
Loop(g, l, n) ==
  /\ Goto(g, l)
  /\ i' = [i EXCEPT ![g] = n]
  /\ tries' = [tries EXCEPT ![g] = 0]

Record(g, k) ==
  /\ At(g, "idle")
  /\ adds < MaxAdds \/ \A p \in Procs : At(p, "idle")
  /\ Goto(g, "door")
  /\ h' = [h EXCEPT ![g] = k]
  /\ UNCHANGED <<bits, words, adds, agingActive, i, tries, oldBits, old, counted, exact>>

\* seenOrAdd looks at the bits of the key.  Bits are only ever set, so that
\* reading them one by one tells no more than reading them at once.
DoorSeen(g) ==
  /\ At(g, "door")
  /\ ProbablySeen(h[g])
  /\ Goto(g, "window")
  /\ UNCHANGED <<bits, words, adds, agingActive, h, i, tries, oldBits, old, counted, exact>>

DoorNew(g) ==
  /\ At(g, "door")
  /\ ~ProbablySeen(h[g])
  /\ Loop(g, "set", 1)
  /\ UNCHANGED <<bits, words, adds, agingActive, h, oldBits, old, counted, exact>>

Bit(g) == DoorIndex[h[g]][i[g]]

\* After the last bit the first sight of a key is all.
SetNext(g) ==
  /\ IF i[g] < Len(DoorIndex[h[g]])
       THEN Loop(g, "set", i[g] + 1) /\ UNCHANGED h
       ELSE Loop(g, "idle", 0) /\ h' = [h EXCEPT ![g] = Nil]

SetLoad(g) ==
  /\ At(g, "set")
  /\ Bit(g) \notin bits
  /\ oldBits' = [oldBits EXCEPT ![g] = bits]
  /\ Goto(g, "setCAS")
  /\ UNCHANGED <<bits, words, adds, agingActive, h, i, tries, old, counted, exact>>

SetAlready(g) ==
  /\ At(g, "set")
  /\ Bit(g) \in bits
  /\ SetNext(g)
  /\ UNCHANGED <<bits, words, adds, agingActive, oldBits, old, counted, exact>>

\* Mutant: the word is stored whatever came between.
SetStore(g) ==
  /\ At(g, "setCAS")
  /\ bits' = oldBits[g] \cup {Bit(g)}
  /\ oldBits' = [oldBits EXCEPT ![g] = {}]
  /\ SetNext(g)
  /\ UNCHANGED <<words, adds, agingActive, old, counted, exact>>

SetCAS(g) ==
  /\ At(g, "setCAS")
  /\ bits = oldBits[g]
  /\ bits' = oldBits[g] \cup {Bit(g)}
  /\ oldBits' = [oldBits EXCEPT ![g] = {}]
  /\ SetNext(g)
  /\ UNCHANGED <<words, adds, agingActive, old, counted, exact>>

\* The swap failed: another try, or the bit is given up.
SetFails(g) ==
  /\ At(g, "setCAS")
  /\ bits # oldBits[g]
  /\ oldBits' = [oldBits EXCEPT ![g] = {}]
  /\ IF tries[g] + 1 < MaxTries
       THEN /\ Goto(g, "set")
            /\ tries' = [tries EXCEPT ![g] = @ + 1]
            /\ UNCHANGED <<h, i>>
       ELSE SetNext(g)
  /\ UNCHANGED <<bits, words, adds, agingActive, old, counted, exact>>

-----------------------------------------------------------------------------
(* maybeReset *)

WindowOpen(g) ==
  /\ At(g, "window")
  /\ adds < ResetAt
  /\ Loop(g, "inc", 1)
  /\ UNCHANGED <<bits, words, adds, agingActive, h, oldBits, old, counted, exact>>

WindowFull(g) ==
  /\ At(g, "window")
  /\ adds >= ResetAt
  /\ Goto(g, "guard")
  /\ UNCHANGED <<bits, words, adds, agingActive, h, i, tries, oldBits, old, counted, exact>>

GuardWin(g) ==
  /\ At(g, "guard")
  /\ ~agingActive
  /\ agingActive' = TRUE
  /\ Goto(g, "recheck")
  /\ UNCHANGED <<bits, words, adds, h, i, tries, oldBits, old, counted, exact>>

GuardLose(g) ==
  /\ At(g, "guard")
  /\ agingActive
  /\ Loop(g, "inc", 1)
  /\ UNCHANGED <<bits, words, adds, agingActive, h, oldBits, old, counted, exact>>

\* Mutant: no second look at the window.
RecheckFullBlind(g) ==
  /\ At(g, "recheck")
  /\ Loop(g, "halve", 0)
  /\ UNCHANGED <<bits, words, adds, agingActive, h, oldBits, old, counted, exact>>

RecheckFull(g) ==
  /\ At(g, "recheck")
  /\ adds >= ResetAt
  /\ Loop(g, "halve", 0)
  /\ UNCHANGED <<bits, words, adds, agingActive, h, oldBits, old, counted, exact>>

\* Mutant: the guard stays taken when there was nothing to do.
RecheckOpenKeepsGuard(g) ==
  /\ At(g, "recheck")
  /\ adds < ResetAt
  /\ Loop(g, "inc", 1)
  /\ UNCHANGED <<bits, words, adds, agingActive, h, oldBits, old, counted, exact>>

RecheckOpen(g) ==
  /\ At(g, "recheck")
  /\ adds < ResetAt
  /\ Goto(g, "release")
  /\ UNCHANGED <<bits, words, adds, agingActive, h, i, tries, oldBits, old, counted, exact>>

HalveNext(g) == Loop(g, IF i[g] + 1 < NumWords THEN "halve" ELSE "zero", i[g] + 1)

HalveLoad(g) ==
  /\ At(g, "halve")
  /\ old' = [old EXCEPT ![g] = words[i[g]]]
  /\ Goto(g, "halveCAS")
  /\ UNCHANGED <<bits, words, adds, agingActive, h, i, tries, oldBits, counted, exact>>

HalveCAS(g) ==
  /\ At(g, "halveCAS")
  /\ words[i[g]] = old[g]
  /\ words' = [words EXCEPT ![i[g]] = Halved(old[g])]
  /\ old' = [old EXCEPT ![g] = 0]
  /\ exact' = FALSE
  /\ HalveNext(g)
  /\ UNCHANGED <<bits, adds, agingActive, h, oldBits, counted>>

\* Another try, or the word is left as it is.
HalveFails(g) ==
  /\ At(g, "halveCAS")
  /\ words[i[g]] # old[g]
  /\ old' = [old EXCEPT ![g] = 0]
  /\ exact' = FALSE
  /\ IF tries[g] + 1 < MaxTries
       THEN /\ Goto(g, "halve")
            /\ tries' = [tries EXCEPT ![g] = @ + 1]
            /\ UNCHANGED i
       ELSE HalveNext(g)
  /\ UNCHANGED <<bits, words, adds, agingActive, h, oldBits, counted>>

Zero(g) ==
  /\ At(g, "zero")
  /\ adds' = 0
  /\ Goto(g, "release")
  /\ UNCHANGED <<bits, words, agingActive, h, i, tries, oldBits, old, counted, exact>>

Release(g) ==
  /\ At(g, "release")
  /\ agingActive' = FALSE
  /\ Loop(g, "inc", 1)
  /\ UNCHANGED <<bits, words, adds, h, oldBits, old, counted, exact>>

-----------------------------------------------------------------------------
(* incAt, for each counter of the key *)

Slot(g) == Index[h[g]][i[g]]

IncNext(g) ==
  IF i[g] < Len(Index[h[g]]) THEN Loop(g, "inc", i[g] + 1) ELSE Loop(g, "count", 0)

\* Mutant: a counter at its maximum is incremented too.
IncLoadSaturated(g) ==
  /\ At(g, "inc")
  /\ old' = [old EXCEPT ![g] = words[WordOf(Slot(g))]]
  /\ Goto(g, "incCAS")
  /\ UNCHANGED <<bits, words, adds, agingActive, h, i, tries, oldBits, counted, exact>>

IncLoad(g) ==
  /\ At(g, "inc")
  /\ Counter(Slot(g)) < LaneMax
  /\ old' = [old EXCEPT ![g] = words[WordOf(Slot(g))]]
  /\ Goto(g, "incCAS")
  /\ UNCHANGED <<bits, words, adds, agingActive, h, i, tries, oldBits, counted, exact>>

IncSaturated(g) ==
  /\ At(g, "inc")
  /\ Counter(Slot(g)) = LaneMax
  /\ IncNext(g)
  /\ UNCHANGED <<bits, words, adds, agingActive, h, oldBits, old, counted, exact>>

\* Mutant: the word is stored whatever came between.
IncStore(g) ==
  /\ At(g, "incCAS")
  /\ words' = [words EXCEPT ![WordOf(Slot(g))] = old[g] + Unit[LaneOf(Slot(g))]]
  /\ old' = [old EXCEPT ![g] = 0]
  /\ IncNext(g)
  /\ UNCHANGED <<bits, adds, agingActive, h, oldBits, counted, exact>>

IncCAS(g) ==
  /\ At(g, "incCAS")
  /\ words[WordOf(Slot(g))] = old[g]
  /\ words' = [words EXCEPT ![WordOf(Slot(g))] = old[g] + Unit[LaneOf(Slot(g))]]
  /\ old' = [old EXCEPT ![g] = 0]
  /\ IncNext(g)
  /\ UNCHANGED <<bits, adds, agingActive, h, oldBits, counted, exact>>

\* Another try, or the increment is lost.
IncFails(g) ==
  /\ At(g, "incCAS")
  /\ words[WordOf(Slot(g))] # old[g]
  /\ old' = [old EXCEPT ![g] = 0]
  /\ IF tries[g] + 1 < MaxTries
       THEN /\ Goto(g, "inc")
            /\ tries' = [tries EXCEPT ![g] = @ + 1]
            /\ UNCHANGED <<i, exact>>
       ELSE IncNext(g) /\ exact' = FALSE
  /\ UNCHANGED <<bits, words, adds, agingActive, h, oldBits, counted>>

Count(g) ==
  /\ At(g, "count")
  /\ adds' = adds + 1
  /\ counted' = [counted EXCEPT ![h[g]] = Min({@ + 1, LaneMax})]
  /\ h' = [h EXCEPT ![g] = Nil]
  /\ Loop(g, "idle", 0)
  /\ UNCHANGED <<bits, words, agingActive, oldBits, old, exact>>

-----------------------------------------------------------------------------

DoorStep(g) == DoorSeen(g) \/ DoorNew(g) \/ SetLoad(g) \/ SetAlready(g) \/ SetCAS(g) \/ SetFails(g)
AgingStep(g) == \/ WindowOpen(g) \/ WindowFull(g) \/ GuardWin(g) \/ GuardLose(g)
                \/ RecheckFull(g) \/ RecheckOpen(g)
                \/ HalveLoad(g) \/ HalveCAS(g) \/ HalveFails(g) \/ Zero(g) \/ Release(g)
IncStep(g) == IncLoad(g) \/ IncSaturated(g) \/ IncCAS(g) \/ IncFails(g) \/ Count(g)

Step(g) == DoorStep(g) \/ AgingStep(g) \/ IncStep(g)

Next == \E g \in Procs : Step(g) \/ \E k \in Keys : Record(g, k)

Spec == Init /\ [][Next]_vars

-----------------------------------------------------------------------------
(* Properties *)

\* A word changes by one more in one counter, or by all its counters being
\* halved: no carry and no shift takes one counter's bits into another's
\* (count_min_sketch.go:112-137, 171-192).
CountersKeepApart ==
  [][\A w \in WordIds :
       LET Was(l) == Lane(words[w], l)  Is(l) == Lane(words'[w], l) IN
       words'[w] # words[w] =>
         \/ \E l \in Lanes : /\ Is(l) = Was(l) + 1
                             /\ \A m \in Lanes \ {l} : Is(m) = Was(m)
         \/ \A l \in Lanes : Is(l) = Was(l) \div 2]_vars

\* Within the first window and unless a CAS loop was given up, the estimate of a
\* key is not below the number of times it was counted, whoever else counted
\* keys in the same words (count_min_sketch.go:64-108).
NeverUnderestimates ==
  exact => \A k \in Keys : Estimate(k) >= counted[k]

\* A key that was ever counted passes the doorkeeper from then on: no other
\* goroutine's bits replace its own (door_keeper.go:91-112).
CountedPassesDoor ==
  \A k \in Keys : counted[k] > 0 => ProbablySeen(k)

\* agingActive is up exactly while one goroutine is between taking and releasing
\* it; left up, the sketch would never age again (count_min_sketch.go:158-165).
AgingGuarded ==
  /\ \A a, b \in Procs : pc[a] \in InAging /\ pc[b] \in InAging => a = b
  /\ agingActive <=> \E g \in Procs : pc[g] \in InAging

\* The sketch is halved for full windows only, once each
\* (count_min_sketch.go:159-163).
AgesFullWindows ==
  \A g \in Procs : pc[g] \in {"halve", "halveCAS", "zero"} => adds >= ResetAt
=============================================================================
