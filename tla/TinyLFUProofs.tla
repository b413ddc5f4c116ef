--------------------------- MODULE TinyLFUProofs ---------------------------
(***************************************************************************)
(* For any keys, goroutines and sizes: one goroutine at a time ages the    *)
(* sketch, for a full window each time; a counted key has passed the       *)
(* doorkeeper for good; the counters of a word keep apart, and estimates   *)
(* are not below what was counted.  For any configuration: the tables of   *)
(* the shards have the sizes asked for, and hashes stay in them.           *)
(***************************************************************************)
EXTENDS TinyLFU, Admitter, NumberTheorems

(***************************************************************************)
(* Ageing.                                                                 *)
(***************************************************************************)

AgingTypes ==
  /\ pc \in [Procs -> InAging \cup Outside]
  /\ adds \in Nat
  /\ agingActive \in BOOLEAN

AgingInv == AgingTypes /\ AgingGuarded /\ AgesFullWindows

\* A step outside the guard leaves agingActive alone and lowers no count.
LEMMA OutsideStep ==
  ASSUME AgingInv, NEW g \in Procs, NEW l \in Outside,
         pc[g] \in Outside, pc' = [pc EXCEPT ![g] = l],
         agingActive' = agingActive, adds' \in {adds, adds + 1}
  PROVE  AgingInv'
<1>1. AgingTypes'
  BY DEF AgingInv, AgingTypes
<1>2. \A p \in Procs : pc'[p] \in InAging <=> pc[p] \in InAging
  BY DEF AgingInv, AgingTypes, InAging, Outside
<1>3. \A p \in Procs : pc'[p] \in InAging => pc'[p] = pc[p]
  BY DEF AgingInv, AgingTypes, InAging, Outside
<1>4. AgingGuarded'
  BY <1>2 DEF AgingInv, AgingGuarded
<1>5. AgesFullWindows'
  BY <1>3, TinyLFUAssumption DEF AgingInv, AgingTypes, AgesFullWindows, InAging
<1> QED BY <1>1, <1>4, <1>5 DEF AgingInv

\* A step under the guard leaves agingActive alone; the goroutine stays under it.
LEMMA InsideStep ==
  ASSUME AgingInv, NEW g \in Procs, NEW l \in InAging,
         pc[g] \in InAging, pc' = [pc EXCEPT ![g] = l],
         agingActive' = agingActive, adds' \in Nat,
         l \in {"halve", "halveCAS", "zero"} => adds' >= ResetAt
  PROVE  AgingInv'
<1>1. AgingTypes'
  BY DEF AgingInv, AgingTypes
<1>2. \A p \in Procs : pc'[p] \in InAging <=> pc[p] \in InAging
  BY DEF AgingInv, AgingTypes
<1>3. \A p \in Procs : pc'[p] \in InAging => p = g
  BY <1>2 DEF AgingInv, AgingGuarded
<1>4. AgingGuarded'
  BY <1>2 DEF AgingInv, AgingGuarded
<1>5. AgesFullWindows'
  BY <1>3 DEF AgingInv, AgingTypes, AgesFullWindows, InAging
<1> QED BY <1>1, <1>4, <1>5 DEF AgingInv

LEMMA AgingInit == Init => AgingInv
<1> SUFFICES ASSUME Init PROVE AgingInv
  OBVIOUS
<1>1. \A p \in Procs : pc[p] = "idle"
  BY DEF Init
<1>2. AgingTypes
  BY DEF Init, AgingTypes, Outside
<1>3. AgingGuarded
  BY <1>1 DEF Init, AgingGuarded, InAging
<1>4. AgesFullWindows
  BY <1>1 DEF AgesFullWindows
<1> QED BY <1>2, <1>3, <1>4 DEF AgingInv

LEMMA AgingNext == AgingInv /\ [Next]_vars => AgingInv'
<1> SUFFICES ASSUME AgingInv, [Next]_vars PROVE AgingInv'
  OBVIOUS
<1> USE DEF At, Goto, Loop
<1>1. CASE UNCHANGED vars
  BY <1>1 DEF vars, AgingInv, AgingTypes, AgingGuarded, AgesFullWindows
<1>2. ASSUME NEW g \in Procs, NEW k \in Keys, Record(g, k) PROVE AgingInv'
  BY <1>2, OutsideStep DEF Record, Outside
<1>3. ASSUME NEW g \in Procs, DoorStep(g) PROVE AgingInv'
  <2>1. CASE DoorSeen(g)
    BY <2>1, OutsideStep DEF DoorSeen, Outside
  <2>2. CASE DoorNew(g)
    BY <2>2, OutsideStep DEF DoorNew, Outside
  <2>3. CASE SetLoad(g)
    BY <2>3, OutsideStep DEF SetLoad, Outside
  <2>4. CASE SetAlready(g)
    BY <2>4, OutsideStep DEF SetAlready, SetNext, Outside
  <2>5. CASE SetCAS(g)
    BY <2>5, OutsideStep DEF SetCAS, SetNext, Outside
  <2>6. CASE SetFails(g)
    BY <2>6, OutsideStep DEF SetFails, SetNext, Outside
  <2> QED BY <1>3, <2>1, <2>2, <2>3, <2>4, <2>5, <2>6 DEF DoorStep
<1>4. ASSUME NEW g \in Procs, AgingStep(g) PROVE AgingInv'
  <2>1. CASE WindowOpen(g)
    BY <2>1, OutsideStep DEF WindowOpen, Outside
  <2>2. CASE WindowFull(g)
    BY <2>2, OutsideStep DEF WindowFull, Outside
  <2>3. CASE GuardWin(g)
    \* Nobody was under the guard; now g is.
    <3>1. \A p \in Procs : pc[p] \notin InAging
      BY <2>3 DEF GuardWin, AgingInv, AgingGuarded
    <3>2. \A p \in Procs : pc'[p] \in InAging <=> p = g
      BY <2>3, <3>1 DEF GuardWin, AgingInv, AgingTypes, InAging
    <3>3. AgingTypes'
      BY <2>3 DEF GuardWin, AgingInv, AgingTypes, InAging
    <3>4. AgingGuarded'
      BY <2>3, <3>2 DEF GuardWin, AgingGuarded
    <3>5. AgesFullWindows'
      BY <2>3, <3>2 DEF GuardWin, AgingInv, AgingTypes, AgesFullWindows, InAging
    <3> QED BY <3>3, <3>4, <3>5 DEF AgingInv
  <2>4. CASE GuardLose(g)
    BY <2>4, OutsideStep DEF GuardLose, Outside
  <2>5. CASE RecheckFull(g)
    BY <2>5, InsideStep DEF RecheckFull, InAging, AgingInv, AgingTypes
  <2>6. CASE RecheckOpen(g)
    BY <2>6, InsideStep DEF RecheckOpen, InAging, AgingInv, AgingTypes
  <2>7. CASE HalveLoad(g)
    BY <2>7, InsideStep DEF HalveLoad, InAging, AgingInv, AgingTypes, AgesFullWindows
  <2>8. CASE HalveCAS(g)
    BY <2>8, InsideStep DEF HalveCAS, HalveNext, InAging, AgingInv, AgingTypes, AgesFullWindows
  <2>9. CASE HalveFails(g)
    BY <2>9, InsideStep DEF HalveFails, HalveNext, InAging, AgingInv, AgingTypes, AgesFullWindows
  <2>10. CASE Zero(g)
    BY <2>10, InsideStep DEF Zero, InAging
  <2>11. CASE Release(g)
    \* g was under the guard; now nobody is.
    <3>1. \A p \in Procs : pc[p] \in InAging => p = g
      BY <2>11 DEF Release, AgingInv, AgingGuarded, InAging
    <3>2. \A p \in Procs : pc'[p] \notin InAging
      BY <2>11, <3>1 DEF Release, AgingInv, AgingTypes, InAging
    <3>3. AgingTypes'
      BY <2>11 DEF Release, AgingInv, AgingTypes, Outside
    <3>4. AgingGuarded'
      BY <2>11, <3>2 DEF Release, AgingGuarded
    <3>5. AgesFullWindows'
      BY <3>2 DEF AgesFullWindows, InAging
    <3> QED BY <3>3, <3>4, <3>5 DEF AgingInv
  <2> QED BY <1>4, <2>1, <2>2, <2>3, <2>4, <2>5, <2>6, <2>7, <2>8, <2>9, <2>10, <2>11
          DEF AgingStep
<1>5. ASSUME NEW g \in Procs, IncStep(g) PROVE AgingInv'
  <2>1. CASE IncLoad(g)
    BY <2>1, OutsideStep DEF IncLoad, Outside
  <2>2. CASE IncSaturated(g)
    BY <2>2, OutsideStep DEF IncSaturated, IncNext, Outside
  <2>3. CASE IncCAS(g)
    BY <2>3, OutsideStep DEF IncCAS, IncNext, Outside
  <2>4. CASE IncFails(g)
    BY <2>4, OutsideStep DEF IncFails, IncNext, Outside
  <2>5. CASE Count(g)
    BY <2>5, OutsideStep DEF Count, Outside
  <2> QED BY <1>5, <2>1, <2>2, <2>3, <2>4, <2>5 DEF IncStep
<1> QED BY <1>1, <1>2, <1>3, <1>4, <1>5 DEF Next, Step

LEMMA AgingAlways == Spec => []AgingInv
BY AgingInit, AgingNext, PTL DEF Spec

\* agingActive is up exactly while one goroutine is under it
\* (count_min_sketch.go:158-165).
THEOREM OneAger == Spec => []AgingGuarded
BY AgingAlways, PTL DEF AgingInv

\* The sketch is only halved for a full window (count_min_sketch.go:159-163).
THEOREM FullWindows == Spec => []AgesFullWindows
BY AgingAlways, PTL DEF AgingInv

(***************************************************************************)
(* The doorkeeper.                                                         *)
(***************************************************************************)

\* The steps of a goroutine whose key has passed the doorkeeper.
Past == InAging \cup {"window", "guard", "inc", "incCAS", "count"}

DoorTypes ==
  /\ pc \in [Procs -> InAging \cup Outside]
  /\ h \in [Procs -> Keys \cup {Nil}]
  /\ counted = [k \in Keys |-> counted[k]]

PastHasPassed ==
  \A g \in Procs : /\ pc[g] # "idle" => h[g] \in Keys
                   /\ pc[g] \in Past => ProbablySeen(h[g])

DoorInv == DoorTypes /\ PastHasPassed /\ CountedPassesDoor

\* Bits are never taken back, so that a key once seen stays seen.
LEMMA SeenStaysSeen ==
  ASSUME bits \subseteq bits', NEW k, ProbablySeen(k)
  PROVE  ProbablySeen(k)'
BY DEF ProbablySeen

\* A step of g that keeps its key and counts nothing.
LEMMA KeyKept ==
  ASSUME DoorInv, NEW g \in Procs, NEW l \in InAging \cup Outside,
         bits \subseteq bits', h' = h, counted' = counted,
         pc' = [pc EXCEPT ![g] = l], pc[g] # "idle",
         l \in Past => ProbablySeen(h[g])
  PROVE  DoorInv'
<1>1. DoorTypes'
  BY DEF DoorInv, DoorTypes
<1>2. PastHasPassed'
  <2> SUFFICES ASSUME NEW p \in Procs
               PROVE  /\ pc'[p] # "idle" => h'[p] \in Keys
                      /\ pc'[p] \in Past => ProbablySeen(h[p])'
    BY DEF PastHasPassed
  <2>1. pc'[p] \in Past => ProbablySeen(h[p])
    BY DEF DoorInv, DoorTypes, PastHasPassed
  <2> QED BY <2>1, SeenStaysSeen DEF DoorInv, DoorTypes, PastHasPassed, ProbablySeen
<1>3. CountedPassesDoor'
  BY SeenStaysSeen DEF DoorInv, CountedPassesDoor
<1> QED BY <1>1, <1>2, <1>3 DEF DoorInv

LEMMA DoorInit == Init => DoorInv
BY DEF Init, DoorInv, DoorTypes, PastHasPassed, CountedPassesDoor, Outside, InAging, Past

\* A step that ends a call of g, which counted at most a key that was seen.
LEMMA KeyDropped ==
  ASSUME DoorInv, NEW g \in Procs, bits \subseteq bits',
         pc' = [pc EXCEPT ![g] = "idle"], h' = [h EXCEPT ![g] = Nil],
         counted' = [k \in Keys |-> counted'[k]],
         \A k \in Keys : counted'[k] > 0 => counted[k] > 0 \/ ProbablySeen(k)
  PROVE  DoorInv'
<1>1. DoorTypes'
  BY DEF DoorInv, DoorTypes, Outside
<1>2. PastHasPassed'
  BY DEF DoorInv, DoorTypes, PastHasPassed, Past, InAging, ProbablySeen
<1>3. CountedPassesDoor'
  BY SeenStaysSeen DEF DoorInv, CountedPassesDoor
<1> QED BY <1>1, <1>2, <1>3 DEF DoorInv

LEMMA DoorNext == DoorInv /\ [Next]_vars => DoorInv'
<1> SUFFICES ASSUME DoorInv, [Next]_vars PROVE DoorInv'
  OBVIOUS
<1> USE DEF At, Goto, Loop
<1>1. CASE UNCHANGED vars
  BY <1>1 DEF vars, DoorInv, DoorTypes, PastHasPassed, CountedPassesDoor, ProbablySeen
<1>2. ASSUME NEW g \in Procs, NEW k \in Keys, Record(g, k) PROVE DoorInv'
  <2>1. DoorTypes'
    BY <1>2 DEF Record, DoorInv, DoorTypes, Outside
  <2>2. PastHasPassed'
    BY <1>2 DEF Record, DoorInv, DoorTypes, PastHasPassed, ProbablySeen, Past, InAging
  <2>3. CountedPassesDoor'
    BY <1>2 DEF Record, DoorInv, CountedPassesDoor, ProbablySeen
  <2> QED BY <2>1, <2>2, <2>3 DEF DoorInv
<1>3. ASSUME NEW g \in Procs, DoorStep(g) PROVE DoorInv'
  <2>1. CASE DoorSeen(g)
    BY <2>1, KeyKept DEF DoorSeen, Past, InAging, Outside
  <2>2. CASE DoorNew(g)
    BY <2>2, KeyKept DEF DoorNew, Past, InAging, Outside
  <2>3. CASE SetLoad(g)
    BY <2>3, KeyKept DEF SetLoad, Past, InAging, Outside
  <2>4. CASE SetAlready(g)
    <3>1. bits \subseteq bits' /\ counted' = counted /\ pc[g] # "idle"
      BY <2>4 DEF SetAlready
    <3>2. CASE h' = h /\ pc' = [pc EXCEPT ![g] = "set"]
      BY <3>1, <3>2, KeyKept DEF Past, InAging, Outside
    <3>3. CASE h' = [h EXCEPT ![g] = Nil] /\ pc' = [pc EXCEPT ![g] = "idle"]
      BY <3>1, <3>3, KeyDropped DEF DoorInv, DoorTypes
    <3> QED BY <2>4, <3>2, <3>3 DEF SetAlready, SetNext
  <2>5. CASE SetCAS(g)
    <3>1. bits \subseteq bits' /\ counted' = counted /\ pc[g] # "idle"
      BY <2>5 DEF SetCAS
    <3>2. CASE h' = h /\ pc' = [pc EXCEPT ![g] = "set"]
      BY <3>1, <3>2, KeyKept DEF Past, InAging, Outside
    <3>3. CASE h' = [h EXCEPT ![g] = Nil] /\ pc' = [pc EXCEPT ![g] = "idle"]
      BY <3>1, <3>3, KeyDropped DEF DoorInv, DoorTypes
    <3> QED BY <2>5, <3>2, <3>3 DEF SetCAS, SetNext
  <2>6. CASE SetFails(g)
    <3>1. bits \subseteq bits' /\ counted' = counted /\ pc[g] # "idle"
      BY <2>6 DEF SetFails
    <3>2. CASE h' = h /\ pc' = [pc EXCEPT ![g] = "set"]
      BY <3>1, <3>2, KeyKept DEF Past, InAging, Outside
    <3>3. CASE h' = [h EXCEPT ![g] = Nil] /\ pc' = [pc EXCEPT ![g] = "idle"]
      BY <3>1, <3>3, KeyDropped DEF DoorInv, DoorTypes
    <3> QED BY <2>6, <3>2, <3>3 DEF SetFails, SetNext
  <2> QED BY <1>3, <2>1, <2>2, <2>3, <2>4, <2>5, <2>6 DEF DoorStep
<1>4. ASSUME NEW g \in Procs, AgingStep(g) PROVE DoorInv'
  <2>1. CASE WindowOpen(g)
    BY <2>1, KeyKept DEF WindowOpen, DoorInv, PastHasPassed, Past, InAging, Outside
  <2>2. CASE WindowFull(g)
    BY <2>2, KeyKept DEF WindowFull, DoorInv, PastHasPassed, Past, InAging, Outside
  <2>3. CASE GuardWin(g)
    BY <2>3, KeyKept DEF GuardWin, DoorInv, PastHasPassed, Past, InAging, Outside
  <2>4. CASE GuardLose(g)
    BY <2>4, KeyKept DEF GuardLose, DoorInv, PastHasPassed, Past, InAging, Outside
  <2>5. CASE RecheckFull(g)
    BY <2>5, KeyKept DEF RecheckFull, DoorInv, PastHasPassed, Past, InAging, Outside
  <2>6. CASE RecheckOpen(g)
    BY <2>6, KeyKept DEF RecheckOpen, DoorInv, PastHasPassed, Past, InAging, Outside
  <2>7. CASE HalveLoad(g)
    BY <2>7, KeyKept DEF HalveLoad, DoorInv, PastHasPassed, Past, InAging, Outside
  <2>8. CASE HalveCAS(g)
    BY <2>8, KeyKept DEF HalveCAS, HalveNext, DoorInv, PastHasPassed, Past, InAging, Outside
  <2>9. CASE HalveFails(g)
    BY <2>9, KeyKept DEF HalveFails, HalveNext, DoorInv, PastHasPassed, Past, InAging, Outside
  <2>10. CASE Zero(g)
    BY <2>10, KeyKept DEF Zero, DoorInv, PastHasPassed, Past, InAging, Outside
  <2>11. CASE Release(g)
    BY <2>11, KeyKept DEF Release, DoorInv, PastHasPassed, Past, InAging, Outside
  <2> QED BY <1>4, <2>1, <2>2, <2>3, <2>4, <2>5, <2>6, <2>7, <2>8, <2>9, <2>10, <2>11
          DEF AgingStep
<1>5. ASSUME NEW g \in Procs, IncStep(g) PROVE DoorInv'
  <2>1. CASE IncLoad(g)
    BY <2>1, KeyKept DEF IncLoad, DoorInv, PastHasPassed, Past, InAging, Outside
  <2>2. CASE IncSaturated(g)
    BY <2>2, KeyKept DEF IncSaturated, IncNext, DoorInv, PastHasPassed, Past, InAging, Outside
  <2>3. CASE IncCAS(g)
    BY <2>3, KeyKept DEF IncCAS, IncNext, DoorInv, PastHasPassed, Past, InAging, Outside
  <2>4. CASE IncFails(g)
    BY <2>4, KeyKept DEF IncFails, IncNext, DoorInv, PastHasPassed, Past, InAging, Outside
  <2>5. CASE Count(g)
    \* The key that is counted is one that has passed the doorkeeper.
    <3>1. h[g] \in Keys /\ ProbablySeen(h[g])
      BY <2>5 DEF Count, DoorInv, PastHasPassed, Past
    <3>2. counted' = [k \in Keys |-> counted'[k]]
      BY <2>5 DEF Count, DoorInv, DoorTypes
    <3>3. \A k \in Keys : k # h[g] => counted'[k] = counted[k]
      BY <2>5 DEF Count, DoorInv, DoorTypes
    <3> QED BY <2>5, <3>1, <3>2, <3>3, KeyDropped DEF Count
  <2> QED BY <1>5, <2>1, <2>2, <2>3, <2>4, <2>5 DEF IncStep
<1> QED BY <1>1, <1>2, <1>3, <1>4, <1>5 DEF Next, Step

\* A key that was ever counted passes the doorkeeper from then on
\* (door_keeper.go:55-72, 91-112).
THEOREM CountedAlwaysPasses == Spec => []CountedPassesDoor
BY DoorInit, DoorNext, PTL DEF Spec, DoorInv

(***************************************************************************)
(* Words and their lanes.                                                  *)
(***************************************************************************)

LEMMA Sizes ==
  /\ LaneSize \in Nat /\ LaneSize > 1 /\ LaneMax \in Nat /\ LaneMax > 0
  /\ LaneSize \div 2 \in Nat \ {0} /\ LaneSize = 2 * (LaneSize \div 2)
  /\ LaneMax = LaneSize - 1
<1>1. LaneSize \in Nat \ {0} /\ LaneSize % 2 = 0
  BY TinyLFUAssumption
<1> QED BY <1>1 DEF LaneMax

\* The recursive definition of Unit has its meaning.
LEMMA UnitDef ==
  /\ Unit \in [Nat -> Nat \ {0}]
  /\ Unit[0] = 1
  /\ \A l \in Nat : Unit[l + 1] = LaneSize * Unit[l]
<1> DEFINE S == Nat \ {0}
           F == [p \in Nat \X S |-> LaneSize * p[2]]
<1>1. LaneSize \in S
  BY Sizes
<1>2. F \in [Nat \X S -> S]
  <2>1. \A x \in S : LaneSize * x \in S
    BY <1>1
  <2> QED BY <2>1
<1>3. \A n \in Nat : \A x \in S : F[<<n, x>>] = LaneSize * x
  OBVIOUS
<1>4. 1 \in S
  OBVIOUS
<1> HIDE DEF F, S
<1>5. PICK f : Recursion(f, S, 1, F)
  BY <1>2, <1>4, PrimitiveRecursion
<1>6. /\ f \in [Nat -> S] /\ f[0] = 1
      /\ \A n \in Nat : f[n + 1] = LaneSize * f[n]
  BY <1>3, <1>5 DEF Recursion
<1> DEFINE G(g) == [l \in Nat |-> IF l = 0 THEN 1 ELSE LaneSize * g[l - 1]]
<1>7. f = G(f)
  <2>1. \A l \in Nat : f[l] = IF l = 0 THEN 1 ELSE LaneSize * f[l - 1]
    <3>1. ASSUME NEW l \in Nat, l # 0 PROVE f[l] = LaneSize * f[l - 1]
      <4>1. l - 1 \in Nat /\ (l - 1) + 1 = l
        BY <3>1
      <4> QED BY <1>6, <4>1
    <3> QED BY <1>6, <3>1
  <2> QED BY <1>6, <2>1
<1>8. Unit = CHOOSE g : g = G(g)
  BY DEF Unit
<1>9. Unit = G(Unit)
  <2> HIDE DEF G
  <2> QED BY <1>7, <1>8
<1>10. ASSUME NEW l \in Nat PROVE Unit[l + 1] = LaneSize * Unit[l]
  <2>1. l + 1 \in Nat /\ l + 1 # 0 /\ (l + 1) - 1 = l
    OBVIOUS
  <2> QED BY <1>9, <2>1
<1>11. Unit[0] = 1
  BY <1>9
<1>12. Unit \in [Nat -> S]
  <2> DEFINE T == { n \in Nat : Unit[n] \in S }
  <2>1. 0 \in T
    BY <1>4, <1>11
  <2>2. ASSUME NEW n \in Nat, n \in T PROVE n + 1 \in T
    BY <1>1, <1>10, <2>2 DEF S
  <2> HIDE DEF T
  <2>3. Nat \subseteq T
    BY <2>1, <2>2, Induction
  <2>4. \A n \in Nat : Unit[n] \in S
    BY <2>3 DEF T
  <2>5. Unit = [n \in Nat |-> Unit[n]]
    BY <1>9
  <2> QED BY <2>4, <2>5
<1> QED BY <1>10, <1>11, <1>12 DEF S

LEMMA UnitPowers == PowersOf(LaneSize, Unit)
BY Sizes, UnitDef DEF PowersOf

LEMMA LaneDigit ==
  ASSUME NEW w, NEW l
  PROVE  Lane(w, l) = Digit(LaneSize, Unit, w, l)
BY DEF Lane, Digit

LEMMA LaneType ==
  ASSUME NEW w \in Nat, NEW l \in Nat
  PROVE  Lane(w, l) \in 0 .. LaneMax
<1>1. Unit[l] \in Nat \ {0}
  BY UnitDef
<1>2. w \div Unit[l] \in Nat
  BY <1>1, DivMod
<1> DEFINE q == w \div Unit[l]
<1>3. q % LaneSize \in 0 .. LaneSize - 1
  <2> HIDE DEF q
  <2>1. q \in Nat /\ LaneSize \in Nat \ {0}
    BY <1>2, Sizes DEF q
  <2> QED BY <2>1, DivMod
<1> QED BY <1>3, Sizes DEF Lane

LEMMA LanesOfZero ==
  ASSUME NEW l \in Nat
  PROVE  Lane(0, l) = 0
<1>1. Unit[l] \in Nat \ {0}
  BY UnitDef
<1>2. 0 = Unit[l] * 0 + 0 /\ 0 \in 0 .. Unit[l] - 1
  BY <1>1
<1>3. 0 \div Unit[l] = 0
  BY <1>1, <1>2, DivUnique
<1> QED BY <1>3, Sizes DEF Lane

\* One more in a lane that is not full stays in the lane.
LEMMA IncrementKeepsApart ==
  ASSUME NEW w \in Nat, NEW l \in Nat, Lane(w, l) < LaneMax
  PROVE  LET v == w + Unit[l] IN
           /\ v \in Nat
           /\ Lane(v, l) = Lane(w, l) + 1
           /\ \A m \in Nat : m # l => Lane(v, m) = Lane(w, m)
           /\ \A m \in Nat : m > l /\ w < Unit[m] => v < Unit[m]
<1> DEFINE U == Unit[l]
           v == w + U
           q == w \div U
           r == w % U
           x == q \div LaneSize
           y == q % LaneSize
<1>1. U \in Nat \ {0} /\ LaneSize \in Nat \ {0} /\ v \in Nat
  BY UnitDef, Sizes
<1>2. q \in Nat /\ r \in 0 .. U - 1 /\ w = U * q + r
  BY <1>1, DivMod
<1>3. x \in Nat /\ y \in 0 .. LaneSize - 1 /\ q = LaneSize * x + y
  BY <1>1, <1>2, DivMod
<1>4. Lane(w, l) = y
  BY DEF Lane
<1>5. y + 1 \in 0 .. LaneSize - 1
  BY <1>3, <1>4, Sizes
<1>6. v \div U = q + 1
  <2> HIDE DEF U, q, r
  <2>1. v = U * (q + 1) + r /\ q + 1 \in Nat
    BY <1>1, <1>2
  <2> QED BY <1>1, <1>2, <2>1, DivUnique
<1>7. (v \div U) \div LaneSize = x /\ (v \div U) % LaneSize = y + 1
  <2> HIDE DEF U, q, r, x, y, v
  <2>1. q + 1 = LaneSize * x + (y + 1)
    BY <1>1, <1>3
  <2>2. /\ (LaneSize * x + (y + 1)) \div LaneSize = x
        /\ (LaneSize * x + (y + 1)) % LaneSize = y + 1
    BY <1>1, <1>3, <1>5, DivUnique
  <2> QED BY <1>6, <2>1, <2>2
<1>8. Lane(v, l) = Lane(w, l) + 1
  BY <1>4, <1>7 DEF Lane
<1>9. ASSUME NEW m \in Nat, m < l PROVE Lane(v, m) = Lane(w, m)
  <2>1. PICK c \in Nat \ {0} : U = (Unit[m] * LaneSize) * c
    BY <1>9, UnitPowers, PowersDivide
  <2>2. Unit[m] \in Nat \ {0} /\ LaneSize * c \in Nat
    BY <1>1, UnitDef
  <2> DEFINE d == w \div Unit[m]
  <2>3. d \in Nat
    BY <2>2, DivMod
  <2>4. v = w + Unit[m] * (LaneSize * c)
    <3> HIDE DEF U
    <3> QED BY <1>1, <2>1, <2>2
  <2> HIDE DEF v
  <2>5. v \div Unit[m] = d + LaneSize * c
    BY <2>2, <2>4, DivAddMultiple
  <2> HIDE DEF d
  <2>6. (d + LaneSize * c) % LaneSize = d % LaneSize
    BY <1>1, <2>3, DivAddMultiple
  <2> QED BY <2>5, <2>6 DEF Lane, d
<1>10. ASSUME NEW m \in Nat, m > l PROVE v \div Unit[m] = w \div Unit[m]
  <2>1. PICK c \in Nat \ {0} : Unit[m] = (U * LaneSize) * c
    BY <1>10, UnitPowers, PowersDivide
  <2> HIDE DEF U, v
  <2>2. U * LaneSize \in Nat \ {0}
    BY <1>1, PositiveProduct
  <2>3. ASSUME NEW a \in Nat
        PROVE  a \div Unit[m] = ((a \div U) \div LaneSize) \div c
    <3>1. (a \div U) \div LaneSize = a \div (U * LaneSize)
      BY <1>1, DivDiv
    <3>2. (a \div (U * LaneSize)) \div c = a \div ((U * LaneSize) * c)
      BY <2>2, DivDiv
    <3> QED BY <2>1, <3>1, <3>2
  <2>4. (v \div U) \div LaneSize = (w \div U) \div LaneSize
    BY <1>7
  <2> QED BY <1>1, <2>3, <2>4
<1>11. ASSUME NEW m \in Nat, m > l, w < Unit[m] PROVE v < Unit[m]
  <2>1. Unit[m] \in Nat \ {0}
    BY UnitDef
  <2>2. v \div Unit[m] = w \div Unit[m]
    BY <1>10, <1>11
  <2> HIDE DEF v
  <2> QED BY <1>1, <1>11, <2>1, <2>2, DivZero
<1>12. ASSUME NEW m \in Nat, m # l PROVE Lane(v, m) = Lane(w, m)
  <2> HIDE DEF v
  <2>1. CASE m < l
    BY <1>9, <2>1
  <2>2. CASE m > l
    BY <1>10, <2>2 DEF Lane
  <2> QED BY <1>12, <2>1, <2>2
<1> HIDE DEF v
<1>13. /\ v \in Nat
       /\ Lane(v, l) = Lane(w, l) + 1
       /\ \A m \in Nat : m # l => Lane(v, m) = Lane(w, m)
       /\ \A m \in Nat : m > l /\ w < Unit[m] => v < Unit[m]
  BY <1>1, <1>8, <1>11, <1>12
<1> QED BY <1>13 DEF v

-----------------------------------------------------------------------------
\* What maskNibbles64 leaves in lane l of the word shifted by one.
Kept(w, l) == ((w \div 2) \div Unit[l]) % (LaneSize \div 2)

LEMMA KeptIsHalf ==
  ASSUME NEW w \in Nat, NEW l \in Nat
  PROVE  Kept(w, l) = Lane(w, l) \div 2 /\ Kept(w, l) \in 0 .. LaneMax
<1> DEFINE U == Unit[l]
           b == LaneSize \div 2
           x == w \div U
           y == x \div LaneSize
           z == x % LaneSize
           u == z \div 2
           t == z % 2
<1>1. U \in Nat \ {0} /\ b \in Nat \ {0} /\ LaneSize \in Nat \ {0} /\ LaneSize = 2 * b
  BY UnitDef, Sizes
<1>2. x \in Nat
  BY <1>1, DivMod
<1>3. y \in Nat /\ z \in 0 .. LaneSize - 1 /\ x = LaneSize * y + z
  BY <1>1, <1>2, DivMod
<1>4. u \in Nat /\ t \in 0 .. 1 /\ z = 2 * u + t
  <2> HIDE DEF z
  <2>1. z \in Nat
    BY <1>1, <1>3
  <2> QED BY <2>1
<1>5. (w \div 2) \div U = x \div 2
  <2> HIDE DEF U
  <2>1. 2 \in Nat \ {0}
    OBVIOUS
  <2>2. (w \div 2) \div U = w \div (2 * U)
    BY <1>1, <2>1, DivDiv
  <2>3. (w \div U) \div 2 = w \div (U * 2)
    BY <1>1, <2>1, DivDiv
  <2>4. 2 * U = U * 2
    BY <1>1
  <2> QED BY <2>2, <2>3, <2>4 DEF x
<1> HIDE DEF U, b, x, y, z, u, t
<1>6. x = 2 * (b * y + u) + t /\ b * y + u \in Nat
  <2>1. x = (2 * b) * y + (2 * u + t)
    BY <1>1, <1>3, <1>4
  <2>2. b * y \in Nat
    BY <1>1, <1>3
  <2>3. (2 * b) * y = 2 * (b * y)
    BY <1>1, <1>3
  <2> QED BY <1>4, <2>1, <2>2, <2>3
<1>7. x \div 2 = b * y + u
  BY <1>4, <1>6, DivUnique
<1>8. u \in 0 .. b - 1
  BY <1>1, <1>3, <1>4
<1>9. (b * y + u) % b = u
  BY <1>1, <1>3, <1>8, DivUnique
<1>10. Kept(w, l) = u
  BY <1>5, <1>7, <1>9 DEF Kept, U, b
<1>11. Lane(w, l) = z
  BY DEF Lane, z, x, U
<1>12. u \in 0 .. LaneMax
  BY <1>1, <1>8, Sizes
<1> QED BY <1>10, <1>11, <1>12 DEF u

\* The shift and the mask halve each counter and none else.
LEMMA HalvedLanes ==
  ASSUME NEW w \in Nat
  PROVE  /\ Halved(w) \in Words
         /\ \A l \in Lanes : Lane(Halved(w), l) = Lane(w, l) \div 2
<1> DEFINE F == [p \in Nat \X Nat |-> p[2] + Kept(w, p[1]) * Unit[p[1]]]
           G(g) == [l \in Nat |-> IF l = 0 THEN 0 ELSE g[l - 1] + Kept(w, l - 1) * Unit[l - 1]]
           low == CHOOSE g : g = G(g)
<1>1. ASSUME NEW l \in Nat
      PROVE  Kept(w, l) \in 0 .. LaneMax /\ Kept(w, l) * Unit[l] \in Nat
  <2>1. Kept(w, l) \in 0 .. LaneMax /\ Unit[l] \in Nat
    BY KeptIsHalf, UnitDef
  <2> QED BY <2>1
<1>2. Halved(w) = low[LanesPerWord]
  BY DEF Halved, Kept
<1>3. F \in [Nat \X Nat -> Nat]
  <2>1. \A p \in Nat \X Nat : p[2] + Kept(w, p[1]) * Unit[p[1]] \in Nat
    BY <1>1
  <2> QED BY <2>1
<1>4. \A n, x \in Nat : F[<<n, x>>] = x + Kept(w, n) * Unit[n]
  OBVIOUS
<1> HIDE DEF F
<1>5. PICK f : Recursion(f, Nat, 0, F)
  BY <1>3, PrimitiveRecursion
<1>6. /\ f \in [Nat -> Nat] /\ f[0] = 0
      /\ \A n \in Nat : f[n + 1] = f[n] + Kept(w, n) * Unit[n]
  BY <1>4, <1>5 DEF Recursion
<1>7. f = G(f)
  <2>1. ASSUME NEW l \in Nat, l # 0
        PROVE  f[l] = f[l - 1] + Kept(w, l - 1) * Unit[l - 1]
    <3>1. l - 1 \in Nat /\ (l - 1) + 1 = l
      BY <2>1
    <3> QED BY <1>6, <3>1
  <2>2. \A l \in Nat : f[l] = IF l = 0 THEN 0 ELSE f[l - 1] + Kept(w, l - 1) * Unit[l - 1]
    BY <1>6, <2>1
  <2> QED BY <1>6, <2>2
<1>8. low = G(low)
  <2> HIDE DEF G
  <2> QED BY <1>7
<1> HIDE DEF low
<1>9. low[0] = 0
  BY <1>8
<1>10. ASSUME NEW n \in Nat PROVE low[n + 1] = low[n] + Kept(w, n) * Unit[n]
  <2>1. n + 1 \in Nat /\ n + 1 # 0 /\ (n + 1) - 1 = n
    OBVIOUS
  <2> QED BY <1>8, <2>1
<1> HIDE DEF G
<1> DEFINE T == { n \in Nat : /\ low[n] \in Nat /\ low[n] < Unit[n]
                              /\ \A m \in Nat : m < n => Lane(low[n], m) = Kept(w, m) }
<1>11. 0 \in T
  BY <1>9, UnitDef
<1>12. ASSUME NEW n \in Nat, n \in T PROVE n + 1 \in T
  <2> DEFINE v == low[n] + Kept(w, n) * Unit[n]
  <2>1. low[n] \in Nat /\ low[n] < Unit[n] /\ Kept(w, n) \in 0 .. LaneMax
    BY <1>1, <1>12
  <2>2. /\ v \in Nat /\ v < Unit[n + 1]
        /\ Lane(v, n) = Kept(w, n)
        /\ \A m \in Nat : m < n => Lane(v, m) = Lane(low[n], m)
    BY <1>1, <2>1, Sizes, UnitPowers, WriteDigit, LaneDigit
  <2> HIDE DEF v
  <2>3. ASSUME NEW m \in Nat, m < n + 1 PROVE Lane(v, m) = Kept(w, m)
    <3>1. m < n \/ m = n
      BY <2>3
    <3> QED BY <1>12, <2>2, <3>1
  <2>4. low[n + 1] = v
    BY <1>10 DEF v
  <2> QED BY <2>2, <2>3, <2>4
<1>13. Nat \subseteq T
  <2> HIDE DEF T
  <2> QED BY <1>11, <1>12, Induction
<1>14. LanesPerWord \in Nat /\ Unit[LanesPerWord] \in Nat
  BY TinyLFUAssumption, UnitDef
<1>15. Halved(w) \in Words
  BY <1>2, <1>13, <1>14 DEF Words
<1>16. ASSUME NEW l \in Lanes PROVE Lane(Halved(w), l) = Lane(w, l) \div 2
  <2>1. l \in Nat /\ l < LanesPerWord
    BY <1>14 DEF Lanes
  <2>2. Lane(Halved(w), l) = Kept(w, l)
    BY <1>2, <1>13, <1>14, <2>1
  <2> QED BY <2>1, <2>2, KeptIsHalf
<1> QED BY <1>15, <1>16

(***************************************************************************)
(* The sketch.                                                             *)
(***************************************************************************)

\* Where a goroutine can be in its loops, and what it may have loaded.
LocalOK(l, k, n, o) ==
  /\ l # "idle" => k \in Keys
  /\ l \in {"set", "setCAS"} => n \in DOMAIN DoorIndex[k]
  /\ l \in {"inc", "incCAS"} => n \in DOMAIN Index[k]
  /\ l \in {"halve", "halveCAS"} => n \in WordIds
  /\ l = "incCAS" => Lane(o, LaneOf(Index[k][n])) < LaneMax

Located == \A g \in Procs : LocalOK(pc[g], h[g], i[g], old[g])

\* At l, probe or word n of key x, probe p of k has been incremented for an
\* access that is not yet counted.
Adding(l, x, n, k, p) ==
  /\ x = k
  /\ \/ l = "count"
     \/ l \in {"inc", "incCAS"} /\ n > p
Added(k, p) == { g \in Procs : Adding(pc[g], h[g], i[g], k, p) }

\* A counter that is not full is as high as what was counted and is being added.
NoneLost ==
  exact => \A k \in Keys : \A p \in DOMAIN Index[k] :
    LET c == Counter(Index[k][p]) IN
    c = LaneMax \/ c >= counted[k] + Cardinality(Added(k, p))

SketchInv == TypeOK /\ Located /\ NoneLost

LEMMA Slots ==
  ASSUME NEW k \in Keys, NEW p \in DOMAIN Index[k]
  PROVE  /\ p \in Nat \ {0} /\ p <= Len(Index[k]) /\ Len(Index[k]) \in Nat
         /\ WordOf(Index[k][p]) \in WordIds
         /\ LaneOf(Index[k][p]) \in Lanes /\ LaneOf(Index[k][p]) \in Nat
<1> DEFINE s == Index[k]
           c == s[p]
           R == 0 .. NumWords * LanesPerWord - 1
<1>1. s \in Seq(R)
  BY TinyLFUAssumption
<1>2. NumWords \in Nat \ {0} /\ LanesPerWord \in Nat \ {0}
  BY TinyLFUAssumption
<1>3. p \in 1 .. Len(s) /\ Len(s) \in Nat /\ c \in R
  <2> HIDE DEF R, s
  <2>1. p \in DOMAIN s
    BY DEF s
  <2> QED BY <1>1, <2>1
<1> HIDE DEF s, c
<1>4. NumWords * LanesPerWord \in Nat
  BY <1>2
<1>5. c \in Nat /\ c < NumWords * LanesPerWord
  BY <1>3, <1>4
<1>6. /\ c \div LanesPerWord \in Nat /\ c % LanesPerWord \in 0 .. LanesPerWord - 1
      /\ c = LanesPerWord * (c \div LanesPerWord) + (c % LanesPerWord)
  BY <1>2, <1>5, DivMod
<1> DEFINE q == c \div LanesPerWord
<1>7. q < NumWords
  <2> HIDE DEF q
  <2> SUFFICES ASSUME q >= NumWords PROVE FALSE
    BY <1>2, <1>6 DEF q
  <2>1. q \in Nat /\ LanesPerWord * q <= c
    BY <1>2, <1>5, <1>6 DEF q
  <2>2. LanesPerWord * q >= LanesPerWord * NumWords
    BY <1>2, <2>1
  <2>3. LanesPerWord * NumWords = NumWords * LanesPerWord
    BY <1>2
  <2> HIDE DEF c
  <2>4. LanesPerWord * q \in Nat
    BY <1>2, <2>1
  <2> QED BY <1>4, <1>5, <2>1, <2>2, <2>3, <2>4
<1>8. q \in WordIds /\ c % LanesPerWord \in Lanes
  BY <1>2, <1>6, <1>7 DEF WordIds, Lanes
<1>9. WordOf(c) = q /\ LaneOf(c) = c % LanesPerWord
  BY DEF WordOf, LaneOf
<1>10. c % LanesPerWord \in Nat
  BY <1>2, <1>6
<1> HIDE DEF q, R
<1>11. /\ WordOf(c) \in WordIds
       /\ LaneOf(c) \in Lanes /\ LaneOf(c) \in Nat
  BY <1>8, <1>9, <1>10
<1>12. p \in Nat \ {0} /\ p <= Len(s) /\ Len(s) \in Nat
  BY <1>3
<1> QED BY <1>11, <1>12 DEF s, c

LEMMA Bits ==
  ASSUME NEW k \in Keys
  PROVE  /\ Len(DoorIndex[k]) \in Nat \ {0} /\ DOMAIN DoorIndex[k] = 1 .. Len(DoorIndex[k])
         /\ \A p \in DOMAIN DoorIndex[k] : DoorIndex[k][p] \in DoorBits
         /\ Len(Index[k]) \in Nat \ {0} /\ DOMAIN Index[k] = 1 .. Len(Index[k])
<1>1. DoorIndex[k] \in Seq(DoorBits) /\ DoorIndex[k] # <<>>
  BY TinyLFUAssumption
<1>2. Index[k] \in Seq(0 .. NumWords * LanesPerWord - 1) /\ Index[k] # <<>>
  BY TinyLFUAssumption
<1> QED BY <1>1, <1>2

LEMMA WordValues ==
  /\ 0 \in Words
  /\ \A w : w \in Words <=> w \in Nat /\ w < Unit[LanesPerWord]
<1>1. Unit[LanesPerWord] \in Nat \ {0}
  BY UnitDef, TinyLFUAssumption
<1> QED BY <1>1 DEF Words

\* The minimum of a nonempty set of naturals is one of them.
LEMMA MinOfNaturals ==
  ASSUME NEW T \in SUBSET Nat, T # {}
  PROVE  Min(T) \in T /\ \A y \in T : Min(T) <= y
BY Least DEF Min

PCs == InAging \cup Outside

LEMMA Stay ==
  ASSUME NEW S, NEW T, NEW f \in [S -> T], NEW x \in S
  PROVE  f = [f EXCEPT ![x] = f[x]]
OBVIOUS

\* g goes to l, its key, probe, tries and loaded word become x, n, t and o.
Moved(g, l, x, n, t, o) ==
  /\ pc' = [pc EXCEPT ![g] = l] /\ h' = [h EXCEPT ![g] = x]
  /\ i' = [i EXCEPT ![g] = n] /\ tries' = [tries EXCEPT ![g] = t]
  /\ old' = [old EXCEPT ![g] = o]

LocalType(l, x, n, t, o) ==
  l \in PCs /\ x \in Keys \cup {Nil} /\ n \in Nat /\ t \in 0 .. MaxTries /\ o \in Words

GlobalType ==
  /\ bits \subseteq DoorBits /\ words \in [WordIds -> Words]
  /\ adds \in Nat /\ agingActive \in BOOLEAN
  /\ oldBits \in [Procs -> SUBSET DoorBits]
  /\ counted \in [Keys -> 0 .. LaneMax] /\ exact \in BOOLEAN

LEMMA Stays ==
  ASSUME TypeOK, NEW g \in Procs
  PROVE  /\ pc = [pc EXCEPT ![g] = pc[g]] /\ h = [h EXCEPT ![g] = h[g]]
         /\ i = [i EXCEPT ![g] = i[g]] /\ tries = [tries EXCEPT ![g] = tries[g]]
         /\ old = [old EXCEPT ![g] = old[g]]
         /\ LocalType(pc[g], h[g], i[g], tries[g], old[g])
         /\ GlobalType
BY DEF TypeOK, LocalType, GlobalType, PCs

LEMMA MovedKeeps ==
  ASSUME TypeOK, Located, NEW g \in Procs, NEW l, NEW x, NEW n, NEW t, NEW o,
         Moved(g, l, x, n, t, o), LocalType(l, x, n, t, o), LocalOK(l, x, n, o),
         GlobalType'
  PROVE  /\ TypeOK' /\ Located'
         /\ pc'[g] = l /\ h'[g] = x /\ i'[g] = n
         /\ \A q \in Procs \ {g} : pc'[q] = pc[q] /\ h'[q] = h[q] /\ i'[q] = i[q]
<1>1. /\ pc \in [Procs -> PCs] /\ h \in [Procs -> Keys \cup {Nil}] /\ i \in [Procs -> Nat]
      /\ tries \in [Procs -> 0 .. MaxTries] /\ old \in [Procs -> Words]
  BY DEF TypeOK, PCs
<1>2. /\ pc' \in [Procs -> PCs] /\ h' \in [Procs -> Keys \cup {Nil}] /\ i' \in [Procs -> Nat]
      /\ tries' \in [Procs -> 0 .. MaxTries] /\ old' \in [Procs -> Words]
  BY <1>1 DEF Moved, LocalType
<1>3. TypeOK'
  BY <1>2 DEF TypeOK, GlobalType, PCs
<1>4. pc'[g] = l /\ h'[g] = x /\ i'[g] = n /\ old'[g] = o
  BY <1>1 DEF Moved
<1>5. \A q \in Procs \ {g} : pc'[q] = pc[q] /\ h'[q] = h[q] /\ i'[q] = i[q] /\ old'[q] = old[q]
  BY <1>1 DEF Moved
<1>6. Located'
  BY <1>4, <1>5 DEF Located
<1> QED BY <1>3, <1>4, <1>5, <1>6

LEMMA AddedFinite ==
  ASSUME NEW k, NEW p
  PROVE  IsFiniteSet(Added(k, p)) /\ Cardinality(Added(k, p)) \in Nat
<1>1. Added(k, p) \in SUBSET Procs /\ IsFiniteSet(Procs)
  BY TinyLFUAssumption DEF Added
<1> QED BY <1>1, FS_Subset, FS_CardinalityType

\* What a step of g adds to or takes from the accesses being added.
LEMMA AddedBy ==
  ASSUME NEW g \in Procs, NEW k, NEW p,
         \A q \in Procs \ {g} : pc'[q] = pc[q] /\ h'[q] = h[q] /\ i'[q] = i[q]
  PROVE  /\ g \in Added(k, p) <=> Adding(pc[g], h[g], i[g], k, p)
         /\ g \in Added(k, p)' <=> Adding(pc'[g], h'[g], i'[g], k, p)
         /\ Added(k, p)' \ {g} = Added(k, p) \ {g}
         /\ (Adding(pc'[g], h'[g], i'[g], k, p) <=> Adding(pc[g], h[g], i[g], k, p))
              => Added(k, p)' = Added(k, p)
<1> HIDE DEF Adding
<1>1. /\ g \in Added(k, p) <=> Adding(pc[g], h[g], i[g], k, p)
      /\ g \in Added(k, p)' <=> Adding(pc'[g], h'[g], i'[g], k, p)
  BY DEF Added
<1>2. ASSUME NEW q PROVE q \in Added(k, p)' \ {g} <=> q \in Added(k, p) \ {g}
  BY DEF Added
<1>3. ASSUME Adding(pc'[g], h'[g], i'[g], k, p) <=> Adding(pc[g], h[g], i[g], k, p)
      PROVE  Added(k, p)' = Added(k, p)
  BY <1>3 DEF Added
<1> QED BY <1>1, <1>2, <1>3

\* A step that touches no counter and finishes no probe.
LEMMA QuietStep ==
  ASSUME SketchInv, NEW g \in Procs, NEW l, NEW x, NEW n, NEW t, NEW o,
         Moved(g, l, x, n, t, o), LocalType(l, x, n, t, o), LocalOK(l, x, n, o),
         GlobalType', words' = words, counted' = counted, exact' => exact,
         \A k \in Keys : \A p \in DOMAIN Index[k] :
           Adding(l, x, n, k, p) <=> Adding(pc[g], h[g], i[g], k, p)
  PROVE  SketchInv'
<1>1. /\ TypeOK' /\ Located'
      /\ pc'[g] = l /\ h'[g] = x /\ i'[g] = n
      /\ \A q \in Procs \ {g} : pc'[q] = pc[q] /\ h'[q] = h[q] /\ i'[q] = i[q]
  BY MovedKeeps DEF SketchInv
<1>2. NoneLost'
  <2> SUFFICES ASSUME exact', NEW k \in Keys, NEW p \in DOMAIN Index[k]
               PROVE  LET c == Counter(Index[k][p])' IN
                      c = LaneMax \/ c >= counted'[k] + Cardinality(Added(k, p)')
    BY DEF NoneLost
  <2>1. Added(k, p)' = Added(k, p)
    BY <1>1, AddedBy
  <2>2. Counter(Index[k][p])' = Counter(Index[k][p])
    BY DEF Counter
  <2> QED BY <2>1, <2>2 DEF SketchInv, NoneLost
<1> QED BY <1>1, <1>2 DEF SketchInv

\* A step after which nothing is claimed of the counters.
LEMMA LossyStep ==
  ASSUME SketchInv, NEW g \in Procs, NEW l, NEW x, NEW n, NEW t, NEW o,
         Moved(g, l, x, n, t, o), LocalType(l, x, n, t, o), LocalOK(l, x, n, o),
         GlobalType', ~exact'
  PROVE  SketchInv'
<1>1. TypeOK' /\ Located'
  BY MovedKeeps DEF SketchInv
<1> QED BY <1>1 DEF SketchInv, NoneLost

LEMMA RecordStep ==
  ASSUME SketchInv, NEW g \in Procs, NEW k \in Keys, Record(g, k)
  PROVE  SketchInv'
<1>1. pc[g] = "idle" /\ TypeOK
  BY DEF Record, At, SketchInv
<1>2. LocalType(pc[g], h[g], i[g], tries[g], old[g]) /\ GlobalType
  BY <1>1, Stays
<1>3. Moved(g, "door", k, i[g], tries[g], old[g])
  BY <1>1, Stays DEF Record, Goto, Moved
<1>4. LocalType("door", k, i[g], tries[g], old[g]) /\ LocalOK("door", k, i[g], old[g])
  BY <1>2 DEF LocalType, LocalOK, PCs, Outside
<1>5. GlobalType' /\ words' = words /\ counted' = counted /\ exact' = exact
  BY <1>2 DEF Record, GlobalType
<1>6. \A x \in Keys : \A p \in DOMAIN Index[x] :
        Adding("door", k, i[g], x, p) <=> Adding(pc[g], h[g], i[g], x, p)
  BY <1>1 DEF Adding
<1> QED BY <1>3, <1>4, <1>5, <1>6, QuietStep

\* The doorkeeper's steps.
LEMMA DoorKeeps ==
  ASSUME SketchInv, NEW g \in Procs, DoorStep(g)
  PROVE  SketchInv'
<1>1. TypeOK /\ h[g] \in Keys /\ pc[g] \in {"door", "set", "setCAS"}
  BY DEF SketchInv, Located, LocalOK, DoorStep, DoorSeen, DoorNew, SetLoad, SetAlready, SetCAS, SetFails, At
<1>2. LocalType(pc[g], h[g], i[g], tries[g], old[g]) /\ GlobalType
  BY <1>1, Stays
<1>3. /\ Len(DoorIndex[h[g]]) \in Nat \ {0}
      /\ DOMAIN DoorIndex[h[g]] = 1 .. Len(DoorIndex[h[g]])
      /\ pc[g] # "door" => i[g] \in DOMAIN DoorIndex[h[g]] /\ Bit(g) \in DoorBits
  BY <1>1, Bits DEF SketchInv, Located, LocalOK, Bit
<1>4. /\ words' = words /\ adds' = adds /\ agingActive' = agingActive
      /\ counted' = counted /\ exact' = exact /\ old' = old
  BY DEF DoorStep, DoorSeen, DoorNew, SetLoad, SetAlready, SetCAS, SetFails
<1>5. GlobalType'
  <2>1. bits' \subseteq DoorBits
    BY <1>1, <1>2, <1>3 DEF DoorStep, DoorSeen, DoorNew, SetLoad, SetAlready, SetCAS, SetFails, At, GlobalType, TypeOK
  <2>2. oldBits' \in [Procs -> SUBSET DoorBits]
    BY <1>1, <1>2 DEF DoorStep, DoorSeen, DoorNew, SetLoad, SetAlready, SetCAS, SetFails, GlobalType
  <2> QED BY <1>2, <1>4, <2>1, <2>2 DEF GlobalType
<1> DEFINE Next0 == /\ i[g] + 1 \in DOMAIN DoorIndex[h[g]]
                    /\ Moved(g, "set", h[g], i[g] + 1, 0, old[g])
           Done == Moved(g, "idle", Nil, 0, 0, old[g])
<1>6. ASSUME SetNext(g), pc[g] # "door" PROVE Next0 \/ Done
  <2>1. CASE i[g] < Len(DoorIndex[h[g]])
    <3>1. i[g] + 1 \in DOMAIN DoorIndex[h[g]]
      BY <1>3, <1>6, <2>1
    <3> QED BY <1>1, <1>4, <2>1, <1>6, <3>1, Stays DEF SetNext, Loop, Goto, Moved
  <2>2. CASE ~(i[g] < Len(DoorIndex[h[g]]))
    BY <1>1, <1>4, <2>2, <1>6, Stays DEF SetNext, Loop, Goto, Moved
  <2> QED BY <2>1, <2>2
<1> HIDE DEF Next0, Done
<1>7. \/ Moved(g, "window", h[g], i[g], tries[g], old[g])
      \/ Moved(g, "set", h[g], 1, 0, old[g])
      \/ pc[g] # "door" /\ Moved(g, "setCAS", h[g], i[g], tries[g], old[g])
      \/ /\ pc[g] # "door" /\ tries[g] + 1 < MaxTries
         /\ Moved(g, "set", h[g], i[g], tries[g] + 1, old[g])
      \/ Next0
      \/ Done
  <2>1. CASE DoorSeen(g)
    BY <1>1, <1>4, <2>1, Stays DEF DoorSeen, Goto, Moved
  <2>2. CASE DoorNew(g)
    BY <1>1, <1>4, <2>2, Stays DEF DoorNew, Loop, Goto, Moved
  <2>3. CASE SetLoad(g)
    BY <1>1, <1>4, <2>3, Stays DEF SetLoad, At, Goto, Moved
  <2>4. CASE SetAlready(g)
    BY <1>6, <2>4 DEF SetAlready, At
  <2>5. CASE SetCAS(g)
    BY <1>6, <2>5 DEF SetCAS, At
  <2>6. CASE SetFails(g)
    <3>1. pc[g] = "setCAS"
      BY <2>6 DEF SetFails, At
    <3>2. CASE tries[g] + 1 < MaxTries
      BY <1>1, <1>4, <2>6, <3>1, <3>2, Stays DEF SetFails, Goto, Moved
    <3>3. CASE ~(tries[g] + 1 < MaxTries)
      BY <1>6, <2>6, <3>1, <3>3 DEF SetFails
    <3> QED BY <3>2, <3>3
  <2> QED BY <2>1, <2>2, <2>3, <2>4, <2>5, <2>6 DEF DoorStep
<1>8. PICK l \in {"window", "set", "setCAS", "idle"}, x \in {h[g], Nil}, n \in Nat, t \in 0 .. MaxTries :
        /\ Moved(g, l, x, n, t, old[g])
        /\ l # "idle" => x = h[g]
        /\ l \in {"set", "setCAS"} => n \in DOMAIN DoorIndex[h[g]]
  <2>1. MaxTries \in Nat \ {0} /\ i[g] \in Nat /\ tries[g] \in 0 .. MaxTries
    BY <1>2, TinyLFUAssumption DEF LocalType
  <2>2. tries[g] + 1 < MaxTries => tries[g] + 1 \in 0 .. MaxTries
    BY <2>1
  <2>3. 1 \in DOMAIN DoorIndex[h[g]] /\ 0 \in 0 .. MaxTries
    BY <1>3, <2>1
  <2> HIDE DEF Moved
  <2> QED BY <1>3, <1>7, <2>1, <2>2, <2>3 DEF Next0, Done
<1>9. LocalType(l, x, n, t, old[g]) /\ LocalOK(l, x, n, old[g])
  BY <1>1, <1>2, <1>8 DEF LocalType, LocalOK, PCs, Outside
<1>10. \A k \in Keys : \A p \in DOMAIN Index[k] :
         Adding(l, x, n, k, p) <=> Adding(pc[g], h[g], i[g], k, p)
  BY <1>1 DEF Adding
<1> QED BY <1>4, <1>5, <1>8, <1>9, <1>10, QuietStep

\* The steps around and within reset.
LEMMA AgingKeeps ==
  ASSUME SketchInv, NEW g \in Procs, AgingStep(g)
  PROVE  SketchInv'
<1> USE DEF At
<1>1. TypeOK /\ pc[g] # "idle" /\ pc[g] \notin {"inc", "incCAS", "count"}
  BY DEF SketchInv, AgingStep, WindowOpen, WindowFull, GuardWin, GuardLose,
         RecheckFull, RecheckOpen, HalveLoad, HalveCAS, HalveFails, Zero, Release
<1>2. LocalType(pc[g], h[g], i[g], tries[g], old[g]) /\ GlobalType /\ h[g] \in Keys
  BY <1>1, Stays DEF SketchInv, Located, LocalOK
<1>3. pc[g] \in {"halve", "halveCAS"} => i[g] \in WordIds
  BY <1>1 DEF SketchInv, Located, LocalOK
<1>4. h' = h /\ bits' = bits /\ oldBits' = oldBits /\ counted' = counted
  BY DEF AgingStep, WindowOpen, WindowFull, GuardWin, GuardLose,
         RecheckFull, RecheckOpen, HalveLoad, HalveCAS, HalveFails, Zero, Release
<1>5. /\ MaxTries \in Nat \ {0} /\ NumWords \in Nat \ {0} /\ 0 \in Words
      /\ i[g] \in Nat /\ tries[g] \in 0 .. MaxTries /\ old[g] \in Words
      /\ 1 \in DOMAIN Index[h[g]]
  BY <1>2, Bits, WordValues, TinyLFUAssumption DEF LocalType
<1>6. GlobalType'
  <2>1. adds' \in Nat
    BY <1>2 DEF GlobalType, AgingStep, WindowOpen, WindowFull, GuardWin, GuardLose,
           RecheckFull, RecheckOpen, HalveLoad, HalveCAS, HalveFails, Zero, Release
  <2>2. agingActive' = TRUE \/ agingActive' = FALSE \/ agingActive' = agingActive
    BY DEF AgingStep, WindowOpen, WindowFull, GuardWin, GuardLose,
           RecheckFull, RecheckOpen, HalveLoad, HalveCAS, HalveFails, Zero, Release
  <2>3. exact' = FALSE \/ exact' = exact
    BY DEF AgingStep, WindowOpen, WindowFull, GuardWin, GuardLose,
           RecheckFull, RecheckOpen, HalveLoad, HalveCAS, HalveFails, Zero, Release
  <2>4. agingActive' \in BOOLEAN /\ exact' \in BOOLEAN
    BY <1>2, <2>2, <2>3, Zenon DEF GlobalType
  <2>5. words' \in [WordIds -> Words]
    <3>1. CASE HalveCAS(g)
      <4>1. Halved(old[g]) \in Words
        BY <1>5, HalvedLanes, WordValues
      <4> HIDE DEF Words
      <4> QED BY <1>2, <3>1, <4>1 DEF HalveCAS, GlobalType
    <3>2. CASE ~HalveCAS(g)
      BY <1>2, <3>2 DEF GlobalType, AgingStep, WindowOpen, WindowFull, GuardWin, GuardLose,
           RecheckFull, RecheckOpen, HalveLoad, HalveFails, Zero, Release
    <3> QED BY <3>1, <3>2
  <2> QED BY <1>2, <1>4, <2>1, <2>4, <2>5 DEF GlobalType
<1> DEFINE Kind(l, n, t, o) ==
             /\ Moved(g, l, h[g], n, t, o)
             /\ n \in Nat /\ t \in 0 .. MaxTries /\ o \in Words
             /\ l \in PCs \ {"idle", "set", "setCAS", "incCAS", "count"}
             /\ l = "inc" => n = 1
             /\ l \in {"halve", "halveCAS"} => n \in WordIds
<1>7. ASSUME NEW l, NEW n, NEW t, NEW o, Kind(l, n, t, o)
      PROVE  /\ LocalType(l, h[g], n, t, o) /\ LocalOK(l, h[g], n, o)
             /\ \A k \in Keys : \A p \in DOMAIN Index[k] :
                  Adding(l, h[g], n, k, p) <=> Adding(pc[g], h[g], i[g], k, p)
  <2>1. LocalType(l, h[g], n, t, o) /\ LocalOK(l, h[g], n, o)
    BY <1>2, <1>5, <1>7 DEF LocalType, LocalOK
  <2>2. ASSUME NEW k \in Keys, NEW p \in DOMAIN Index[k]
        PROVE  ~Adding(l, h[g], n, k, p) /\ ~Adding(pc[g], h[g], i[g], k, p)
    <3>1. p \in Nat /\ p >= 1
      BY Slots
    <3> QED BY <1>1, <1>7, <3>1 DEF Adding
  <2> QED BY <2>1, <2>2
<1>8. ASSUME HalveNext(g), h' = h, NEW o \in Words, old' = [old EXCEPT ![g] = o],
             pc[g] = "halveCAS"
      PROVE  \E l, n : Kind(l, n, 0, o)
  <2> DEFINE l == IF i[g] + 1 < NumWords THEN "halve" ELSE "zero"
  <2>1. Moved(g, l, h[g], i[g] + 1, 0, o)
    BY <1>1, <1>8, Stays DEF HalveNext, Loop, Goto, Moved
  <2>2. l = "halve" => i[g] + 1 \in WordIds
    BY <1>5 DEF WordIds
  <2>3. l \in {"halve", "zero"} /\ i[g] + 1 \in Nat /\ 0 \in 0 .. MaxTries
    BY <1>5
  <2> HIDE DEF l
  <2>4. Kind(l, i[g] + 1, 0, o)
    BY <1>8, <2>1, <2>2, <2>3 DEF PCs, InAging
  <2> HIDE DEF Kind
  <2> QED BY <2>4
<1>9. CASE HalveCAS(g) \/ HalveFails(g)
  <2>1. old' = [old EXCEPT ![g] = 0] /\ ~exact' /\ pc[g] = "halveCAS"
    BY <1>9 DEF HalveCAS, HalveFails
  <2>2. \E l, n, t, o : Kind(l, n, t, o)
    <3>1. CASE HalveNext(g)
      <4> HIDE DEF Kind
      <4> QED BY <1>4, <1>5, <1>8, <2>1, <3>1
    <3>2. CASE ~HalveNext(g)
      <4>1. tries[g] + 1 < MaxTries /\ Moved(g, "halve", h[g], i[g], tries[g] + 1, 0)
        BY <1>1, <1>4, <1>9, <2>1, <3>2, Stays DEF HalveCAS, HalveFails, Goto, Moved
      <4>2. Kind("halve", i[g], tries[g] + 1, 0)
        BY <1>3, <1>5, <2>1, <4>1 DEF PCs, InAging
      <4> HIDE DEF Kind
      <4> QED BY <4>2
    <3> QED BY <3>1, <3>2
  <2>3. PICK l, n, t, o : Kind(l, n, t, o)
    <3> HIDE DEF Kind
    <3> QED BY <2>2
  <2>4. Moved(g, l, h[g], n, t, o)
    BY <2>3
  <2> QED BY <1>6, <1>7, <2>1, <2>3, <2>4, LossyStep
<1>10. CASE ~(HalveCAS(g) \/ HalveFails(g))
  <2>1. words' = words /\ exact' = exact
    BY <1>10 DEF AgingStep, WindowOpen, WindowFull, GuardWin, GuardLose,
           RecheckFull, RecheckOpen, HalveLoad, Zero, Release
  <2>2. \E l, n, t, o : Kind(l, n, t, o)
    <3>1. CASE Loop(g, "inc", 1) /\ old' = old
      <4>1. Moved(g, "inc", h[g], 1, 0, old[g])
        BY <1>1, <1>4, <3>1, Stays DEF Loop, Goto, Moved
      <4>2. Kind("inc", 1, 0, old[g])
        BY <1>5, <4>1 DEF PCs, Outside
      <4> HIDE DEF Kind
      <4> QED BY <4>2
    <3>2. CASE Loop(g, "halve", 0) /\ old' = old
      <4>1. Moved(g, "halve", h[g], 0, 0, old[g])
        BY <1>1, <1>4, <3>2, Stays DEF Loop, Goto, Moved
      <4>2. Kind("halve", 0, 0, old[g])
        BY <1>5, <4>1 DEF PCs, InAging, WordIds
      <4> HIDE DEF Kind
      <4> QED BY <4>2
    <3>3. ASSUME NEW l \in {"guard", "recheck", "release"}, Goto(g, l),
                 i' = i, tries' = tries, old' = old
          PROVE  Kind(l, i[g], tries[g], old[g])
      <4>1. Moved(g, l, h[g], i[g], tries[g], old[g])
        BY <1>1, <1>4, <3>3, Stays DEF Goto, Moved
      <4> QED BY <1>5, <4>1 DEF PCs, InAging, Outside
    <3>4. CASE HalveLoad(g)
      <4>1. Moved(g, "halveCAS", h[g], i[g], tries[g], words[i[g]])
        BY <1>1, <1>4, <3>4, Stays DEF HalveLoad, Goto, Moved
      <4>2. i[g] \in WordIds /\ words[i[g]] \in Words
        BY <1>2, <1>3, <3>4 DEF HalveLoad, GlobalType
      <4>3. Kind("halveCAS", i[g], tries[g], words[i[g]])
        BY <1>5, <4>1, <4>2 DEF PCs, InAging
      <4> HIDE DEF Kind
      <4> QED BY <4>3
    <3> HIDE DEF Kind
    <3>5. \/ Loop(g, "inc", 1) /\ old' = old
          \/ Loop(g, "halve", 0) /\ old' = old
          \/ HalveLoad(g)
          \/ \E l \in {"guard", "recheck", "release"} : Goto(g, l) /\ i' = i /\ tries' = tries /\ old' = old
      <4> HIDE DEF Loop, Goto
      <4> QED BY <1>10 DEF AgingStep, WindowOpen, WindowFull, GuardWin, GuardLose,
                 RecheckFull, RecheckOpen, Zero, Release
    <3> QED BY <3>1, <3>2, <3>3, <3>4, <3>5
  <2>3. PICK l, n, t, o : Kind(l, n, t, o)
    <3> HIDE DEF Kind
    <3> QED BY <2>2
  <2>4. Moved(g, l, h[g], n, t, o)
    BY <2>3
  <2> QED BY <1>4, <1>6, <1>7, <2>1, <2>3, <2>4, QuietStep
<1> QED BY <1>9, <1>10

LEMMA Counters ==
  ASSUME words \in [WordIds -> Words], NEW k \in Keys, NEW p \in DOMAIN Index[k]
  PROVE  Counter(Index[k][p]) \in 0 .. LaneMax
<1> DEFINE c == Index[k][p]
<1>1. WordOf(c) \in WordIds /\ LaneOf(c) \in Nat
  BY Slots
<1> HIDE DEF c
<1>2. words[WordOf(c)] \in Nat
  BY <1>1, WordValues
<1>3. Lane(words[WordOf(c)], LaneOf(c)) \in 0 .. LaneMax
  BY <1>1, <1>2, LaneType
<1> QED BY <1>3 DEF Counter, c

LEMMA Located1 ==
  ASSUME SketchInv, NEW g \in Procs, pc[g] \in {"inc", "incCAS", "count"}
  PROVE  /\ h[g] \in Keys
         /\ pc[g] # "count" => i[g] \in DOMAIN Index[h[g]]
         /\ pc[g] = "incCAS" => Lane(old[g], LaneOf(Slot(g))) < LaneMax
BY DEF SketchInv, Located, LocalOK, Slot

\* After a probe g is at the next one or counts the access.
LEMMA NextProbe ==
  ASSUME SketchInv, NEW g \in Procs, pc[g] \in {"inc", "incCAS"}, IncNext(g),
         h' = h, NEW o \in Words, old' = [old EXCEPT ![g] = o]
  PROVE  \E l, n :
           /\ Moved(g, l, h[g], n, 0, o)
           /\ LocalType(l, h[g], n, 0, o) /\ LocalOK(l, h[g], n, o)
           /\ \A k \in Keys : \A p \in DOMAIN Index[k] :
                Adding(l, h[g], n, k, p) <=> k = h[g] /\ p <= i[g]
<1> DEFINE l == IF i[g] < Len(Index[h[g]]) THEN "inc" ELSE "count"
           n == IF i[g] < Len(Index[h[g]]) THEN i[g] + 1 ELSE 0
<1>1. /\ TypeOK /\ h[g] \in Keys /\ i[g] \in 1 .. Len(Index[h[g]])
      /\ Len(Index[h[g]]) \in Nat /\ DOMAIN Index[h[g]] = 1 .. Len(Index[h[g]])
  BY Located1, Bits DEF SketchInv
<1>2. LocalType(pc[g], h[g], i[g], tries[g], old[g]) /\ MaxTries \in Nat
  BY <1>1, Stays, TinyLFUAssumption
<1>3. Moved(g, l, h[g], n, 0, o)
  BY <1>1, Stays DEF IncNext, Loop, Goto, Moved
<1>4. LocalType(l, h[g], n, 0, o) /\ LocalOK(l, h[g], n, o)
  BY <1>1, <1>2 DEF LocalType, LocalOK, PCs, Outside
<1>5. ASSUME NEW k \in Keys, NEW p \in DOMAIN Index[k]
      PROVE  Adding(l, h[g], n, k, p) <=> k = h[g] /\ p <= i[g]
  <2>1. p \in Nat /\ p <= Len(Index[k])
    BY Slots
  <2> QED BY <1>1, <2>1 DEF Adding
<1> HIDE DEF l, n
<1> QED BY <1>3, <1>4, <1>5

\* A probe is loaded, or loaded again.
LEMMA IncLoadKeeps ==
  ASSUME SketchInv, NEW g \in Procs, IncLoad(g)
  PROVE  SketchInv'
<1>1. pc[g] = "inc" /\ TypeOK
  BY DEF IncLoad, At, SketchInv
<1>2. h[g] \in Keys /\ i[g] \in DOMAIN Index[h[g]]
  BY <1>1, Located1
<1> DEFINE o == words[WordOf(Slot(g))]
<1>3. LocalType(pc[g], h[g], i[g], tries[g], old[g]) /\ GlobalType
  BY <1>1, Stays
<1>4. o \in Words
  <2>1. WordOf(Slot(g)) \in WordIds
    BY <1>2, Slots DEF Slot
  <2> QED BY <1>3, <2>1 DEF GlobalType
<1>5. Moved(g, "incCAS", h[g], i[g], tries[g], o)
  BY <1>1, Stays DEF IncLoad, Goto, Moved
<1>6. Lane(o, LaneOf(Slot(g))) < LaneMax
  BY DEF IncLoad, Counter
<1> HIDE DEF o
<1>7. /\ LocalType("incCAS", h[g], i[g], tries[g], o)
      /\ LocalOK("incCAS", h[g], i[g], o)
  BY <1>2, <1>3, <1>4, <1>6 DEF LocalType, LocalOK, PCs, Outside, Slot
<1>8. GlobalType' /\ words' = words /\ counted' = counted /\ exact' = exact
  BY <1>3 DEF IncLoad, GlobalType
<1>9. \A k \in Keys : \A p \in DOMAIN Index[k] :
        Adding("incCAS", h[g], i[g], k, p) <=> Adding(pc[g], h[g], i[g], k, p)
  BY <1>1 DEF Adding
<1> QED BY <1>5, <1>7, <1>8, <1>9, QuietStep

LEMMA IncFailsKeeps ==
  ASSUME SketchInv, NEW g \in Procs, IncFails(g)
  PROVE  SketchInv'
<1>1. pc[g] = "incCAS" /\ TypeOK /\ h' = h /\ old' = [old EXCEPT ![g] = 0] /\ 0 \in Words
  BY WordValues DEF IncFails, At, SketchInv
<1>2. h[g] \in Keys /\ i[g] \in DOMAIN Index[h[g]]
  BY <1>1, Located1
<1>3. LocalType(pc[g], h[g], i[g], tries[g], old[g]) /\ GlobalType
  BY <1>1, Stays
<1>4. GlobalType' /\ words' = words /\ counted' = counted
  <2>1. exact' = FALSE \/ exact' = exact
    BY DEF IncFails
  <2>2. exact' \in BOOLEAN
    BY <1>3, <2>1, Zenon DEF GlobalType
  <2> QED BY <1>3, <2>2 DEF IncFails, GlobalType
<1>5. CASE tries[g] + 1 < MaxTries
  <2>1. Moved(g, "inc", h[g], i[g], tries[g] + 1, 0) /\ exact' = exact
    BY <1>1, <1>5, Stays DEF IncFails, Goto, Moved
  <2>2. LocalType("inc", h[g], i[g], tries[g] + 1, 0) /\ LocalOK("inc", h[g], i[g], 0)
    <3>1. tries[g] + 1 \in 0 .. MaxTries
      BY <1>3, <1>5, TinyLFUAssumption DEF LocalType
    <3> QED BY <1>1, <1>2, <1>3, <3>1 DEF LocalType, LocalOK, PCs, Outside
  <2>3. \A k \in Keys : \A p \in DOMAIN Index[k] :
          Adding("inc", h[g], i[g], k, p) <=> Adding(pc[g], h[g], i[g], k, p)
    BY <1>1 DEF Adding
  <2> QED BY <1>4, <2>1, <2>2, <2>3, QuietStep
<1>6. CASE ~(tries[g] + 1 < MaxTries)
  <2>1. IncNext(g) /\ ~exact'
    BY <1>6 DEF IncFails
  <2>2. PICK l, n : /\ Moved(g, l, h[g], n, 0, 0)
                    /\ LocalType(l, h[g], n, 0, 0) /\ LocalOK(l, h[g], n, 0)
    BY <1>1, <2>1, NextProbe
  <2> QED BY <1>4, <2>1, <2>2, LossyStep
<1> QED BY <1>5, <1>6

\* What is left to show of a step of an increment, given where g goes.
LEMMA ProbeDone ==
  ASSUME SketchInv, NEW g \in Procs, pc[g] \in {"inc", "incCAS"}, IncNext(g),
         h' = h, NEW o \in Words, old' = [old EXCEPT ![g] = o],
         GlobalType', counted' = counted, exact' => exact,
         \A k \in Keys : \A p \in DOMAIN Index[k] :
           LET c == Counter(Index[k][p]) IN
           /\ c' >= c
           /\ c = LaneMax => c' = LaneMax
           /\ k = h[g] /\ p = i[g] => c = LaneMax \/ c' = c + 1
  PROVE  SketchInv'
<1>1. PICK l, n :
        /\ Moved(g, l, h[g], n, 0, o)
        /\ LocalType(l, h[g], n, 0, o) /\ LocalOK(l, h[g], n, o)
        /\ \A k \in Keys : \A p \in DOMAIN Index[k] :
             Adding(l, h[g], n, k, p) <=> k = h[g] /\ p <= i[g]
  BY NextProbe
<1>2. /\ TypeOK' /\ Located'
      /\ pc'[g] = l /\ h'[g] = h[g] /\ i'[g] = n
      /\ \A q \in Procs \ {g} : pc'[q] = pc[q] /\ h'[q] = h[q] /\ i'[q] = i[q]
  BY <1>1, MovedKeeps DEF SketchInv
<1>3. NoneLost'
  <2> SUFFICES ASSUME exact', NEW k \in Keys, NEW p \in DOMAIN Index[k]
               PROVE  LET c == Counter(Index[k][p])' IN
                      c = LaneMax \/ c >= counted'[k] + Cardinality(Added(k, p)')
    BY DEF NoneLost
  <2> DEFINE c == Counter(Index[k][p])
             A == Added(k, p)
  <2>1. /\ c' >= c
        /\ c = LaneMax => c' = LaneMax
        /\ k = h[g] /\ p = i[g] => c = LaneMax \/ c' = c + 1
    OBVIOUS
  <2>2. c = LaneMax \/ c >= counted[k] + Cardinality(A)
    BY DEF SketchInv, NoneLost
  <2>3. /\ c \in 0 .. LaneMax /\ c' \in 0 .. LaneMax /\ LaneMax \in Nat
        /\ counted[k] \in Nat
    <3>1. words \in [WordIds -> Words] /\ words' \in [WordIds -> Words]
      BY DEF SketchInv, TypeOK, GlobalType
    <3>2. c \in 0 .. LaneMax
      BY <3>1, Counters
    <3>3. c' \in 0 .. LaneMax
      <4>1. WordOf(Index[k][p]) \in WordIds /\ LaneOf(Index[k][p]) \in Nat
        BY Slots
      <4>2. words'[WordOf(Index[k][p])] \in Nat
        BY <3>1, <4>1, WordValues
      <4> QED BY <4>1, <4>2, LaneType DEF Counter
    <3> QED BY <3>2, <3>3, Sizes DEF SketchInv, TypeOK
  <2>4. IsFiniteSet(A) /\ Cardinality(A) \in Nat
    BY AddedFinite
  <2> HIDE DEF c
  <2>5. Adding(pc[g], h[g], i[g], k, p) <=> k = h[g] /\ p < i[g]
    <3>1. p \in Nat /\ i[g] \in Nat
      BY Slots DEF SketchInv, TypeOK
    <3> QED BY <3>1 DEF Adding
  <2>6. CASE k = h[g] /\ p = i[g]
    <3>1. g \notin A /\ g \in A' /\ A' \ {g} = A \ {g}
      <4>1. ~(p < i[g]) /\ p <= i[g]
        BY <2>6, Slots
      <4> QED BY <1>1, <1>2, <2>5, <2>6, <4>1, AddedBy
    <3>2. A' = A \cup {g}
      BY <3>1
    <3> HIDE DEF A
    <3>3. Cardinality(A') = Cardinality(A) + 1
      BY <2>4, <3>1, <3>2, FS_AddElement
    <3>4. c' = LaneMax \/ c' >= counted[k] + Cardinality(A')
      BY <2>1, <2>2, <2>3, <2>4, <2>6, <3>3
    <3> QED BY <3>4 DEF A, c
  <2>7. CASE ~(k = h[g] /\ p = i[g])
    <3>1. A' = A
      <4>1. p \in Nat /\ i[g] \in Nat
        BY Slots DEF SketchInv, TypeOK
      <4>2. Adding(l, h[g], n, k, p) <=> Adding(pc[g], h[g], i[g], k, p)
        BY <1>1, <2>5, <2>7, <4>1
      <4> QED BY <1>2, <4>2, AddedBy
    <3> HIDE DEF A
    <3>2. c' = LaneMax \/ c' >= counted[k] + Cardinality(A')
      BY <2>1, <2>2, <2>3, <2>4, <3>1
    <3> QED BY <3>2 DEF A, c
  <2> QED BY <2>6, <2>7
<1> QED BY <1>2, <1>3 DEF SketchInv

LEMMA IncSaturatedKeeps ==
  ASSUME SketchInv, NEW g \in Procs, IncSaturated(g)
  PROVE  SketchInv'
<1>1. pc[g] = "inc" /\ TypeOK /\ IncNext(g) /\ h' = h
  BY DEF IncSaturated, At, SketchInv
<1>2. old[g] \in Words /\ old' = [old EXCEPT ![g] = old[g]] /\ GlobalType
  BY <1>1, Stays DEF IncSaturated, LocalType
<1>3. GlobalType' /\ words' = words /\ counted' = counted /\ exact' = exact
  BY <1>2 DEF IncSaturated, GlobalType
<1>4. ASSUME NEW k \in Keys, NEW p \in DOMAIN Index[k]
      PROVE  LET c == Counter(Index[k][p]) IN
             c \in Nat /\ c' = c /\ (k = h[g] /\ p = i[g] => c = LaneMax)
  <2>1. Counter(Index[k][p]) \in 0 .. LaneMax
    BY <1>2, Counters DEF GlobalType
  <2> QED BY <1>3, <2>1, Sizes DEF Counter, IncSaturated, Slot
<1>5. \A k \in Keys : \A p \in DOMAIN Index[k] :
           LET c == Counter(Index[k][p]) IN
           /\ c' >= c
           /\ c = LaneMax => c' = LaneMax
           /\ k = h[g] /\ p = i[g] => c = LaneMax \/ c' = c + 1
  BY <1>4
<1> QED BY <1>1, <1>2, <1>3, <1>5, ProbeDone

LEMMA IncCASKeeps ==
  ASSUME SketchInv, NEW g \in Procs, IncCAS(g)
  PROVE  /\ SketchInv'
         /\ \E w \in WordIds, l \in Lanes :
              /\ \A x \in WordIds \ {w} : words'[x] = words[x]
              /\ Lane(words'[w], l) = Lane(words[w], l) + 1
              /\ \A m \in Lanes \ {l} : Lane(words'[w], m) = Lane(words[w], m)
<1> DEFINE s == Slot(g)
           w == WordOf(s)
           l == LaneOf(s)
           v == words[w] + Unit[l]
<1>1. /\ pc[g] = "incCAS" /\ TypeOK /\ IncNext(g) /\ h' = h
      /\ old' = [old EXCEPT ![g] = 0] /\ 0 \in Words
      /\ words[w] = old[g] /\ words' = [words EXCEPT ![w] = v]
  BY WordValues DEF IncCAS, At, SketchInv
<1>2. h[g] \in Keys /\ i[g] \in DOMAIN Index[h[g]] /\ Lane(words[w], l) < LaneMax
  BY <1>1, Located1
<1>3. w \in WordIds /\ l \in Lanes /\ l \in Nat /\ l < LanesPerWord /\ LanesPerWord \in Nat
  <2>1. w \in WordIds /\ l \in Lanes /\ l \in Nat
    BY <1>2, Slots DEF Slot
  <2> HIDE DEF l
  <2> QED BY <2>1, TinyLFUAssumption DEF Lanes
<1>4. words[w] \in Words /\ words[w] \in Nat /\ words[w] < Unit[LanesPerWord]
  <2>1. words[w] \in Words
    BY <1>1, <1>3 DEF TypeOK
  <2> QED BY <2>1, WordValues
<1> HIDE DEF w, l, v
<1>5. /\ v \in Nat /\ v < Unit[LanesPerWord]
      /\ Lane(v, l) = Lane(words[w], l) + 1
      /\ \A m \in Nat : m # l => Lane(v, m) = Lane(words[w], m)
  BY <1>2, <1>3, <1>4, IncrementKeepsApart DEF v
<1>6. v \in Words
  BY <1>5, WordValues
<1>7. GlobalType' /\ counted' = counted /\ exact' = exact
  <2>1. GlobalType
    BY <1>1, Stays
  <2>2. words' \in [WordIds -> Words]
    BY <1>1, <1>3, <1>6, <2>1 DEF GlobalType
  <2> QED BY <2>1, <2>2 DEF IncCAS, GlobalType
<1>8. words'[w] = v /\ \A x \in WordIds \ {w} : words'[x] = words[x]
  BY <1>1, <1>3 DEF TypeOK
<1>9. ASSUME NEW k \in Keys, NEW p \in DOMAIN Index[k]
      PROVE  LET c == Counter(Index[k][p]) IN
             /\ c' >= c
             /\ c = LaneMax => c' = LaneMax
             /\ k = h[g] /\ p = i[g] => c = LaneMax \/ c' = c + 1
  <2> DEFINE a == WordOf(Index[k][p])
             b == LaneOf(Index[k][p])
  <2>1. a \in WordIds /\ b \in Nat
    BY Slots
  <2>2. k = h[g] /\ p = i[g] => a = w /\ b = l
    BY DEF w, l, Slot
  <2> HIDE DEF a, b
  <2>3. Lane(words[a], b) \in 0 .. LaneMax /\ LaneMax \in Nat
    <3>1. words[a] \in Nat
      BY <1>1, <2>1, WordValues DEF TypeOK
    <3> QED BY <2>1, <3>1, LaneType, Sizes
  <2>4. CASE a = w /\ b = l
    <3>1. Lane(words'[a], b) = Lane(words[a], b) + 1 /\ Lane(words[a], b) < LaneMax
      BY <1>2, <1>5, <1>8, <2>4
    <3> QED BY <2>3, <3>1 DEF Counter, a, b
  <2>5. CASE ~(a = w /\ b = l)
    <3>1. Lane(words'[a], b) = Lane(words[a], b)
      BY <1>5, <1>8, <2>1, <2>5
    <3> QED BY <2>2, <2>3, <2>5, <3>1 DEF Counter, a, b
  <2> QED BY <2>4, <2>5
<1>10. \A k \in Keys : \A p \in DOMAIN Index[k] :
           LET c == Counter(Index[k][p]) IN
           /\ c' >= c
           /\ c = LaneMax => c' = LaneMax
           /\ k = h[g] /\ p = i[g] => c = LaneMax \/ c' = c + 1
  BY <1>9
<1>11. SketchInv'
  BY <1>1, <1>7, <1>10, ProbeDone
<1>12. \A m \in Lanes \ {l} : Lane(words'[w], m) = Lane(words[w], m)
  BY <1>3, <1>5, <1>8 DEF Lanes
<1>13. Lane(words'[w], l) = Lane(words[w], l) + 1
  BY <1>5, <1>8
<1>14. \E y \in Lanes : /\ Lane(words'[w], y) = Lane(words[w], y) + 1
                        /\ \A m \in Lanes \ {y} : Lane(words'[w], m) = Lane(words[w], m)
  BY <1>3, <1>12, <1>13
<1> QED BY <1>3, <1>8, <1>11, <1>14

LEMMA CountKeeps ==
  ASSUME SketchInv, NEW g \in Procs, Count(g)
  PROVE  SketchInv'
<1>1. pc[g] = "count" /\ TypeOK
  BY DEF Count, At, SketchInv
<1>2. h[g] \in Keys
  BY <1>1, Located1
<1>3. LocalType(pc[g], h[g], i[g], tries[g], old[g]) /\ GlobalType
  BY <1>1, Stays
<1>4. Moved(g, "idle", Nil, 0, 0, old[g])
  BY <1>1, Stays DEF Count, Loop, Goto, Moved
<1>5. LocalType("idle", Nil, 0, 0, old[g]) /\ LocalOK("idle", Nil, 0, old[g])
  BY <1>3, TinyLFUAssumption DEF LocalType, LocalOK, PCs, Outside
<1> DEFINE a == counted[h[g]]
           m == Min({a + 1, LaneMax})
<1>6. a \in Nat /\ a <= LaneMax /\ LaneMax \in Nat
  BY <1>2, <1>3, Sizes DEF GlobalType
<1> HIDE DEF a
<1>7. m \in Nat /\ m <= LaneMax /\ m <= a + 1
  <2>1. {a + 1, LaneMax} \in SUBSET Nat /\ {a + 1, LaneMax} # {}
    BY <1>6
  <2>2. m \in {a + 1, LaneMax} /\ \A y \in {a + 1, LaneMax} : m <= y
    BY <2>1, MinOfNaturals
  <2> HIDE DEF m
  <2> QED BY <1>6, <2>2
<1>8. counted' = [counted EXCEPT ![h[g]] = m] /\ words' = words /\ exact' = exact
  BY DEF Count, a
<1> HIDE DEF m
<1>9. GlobalType'
  <2>1. counted' \in [Keys -> 0 .. LaneMax]
    BY <1>2, <1>3, <1>6, <1>7, <1>8 DEF GlobalType
  <2>2. adds' \in Nat
    BY <1>3 DEF Count, GlobalType
  <2> QED BY <1>3, <2>1, <2>2 DEF Count, GlobalType
<1>10. /\ TypeOK' /\ Located'
       /\ pc'[g] = "idle" /\ h'[g] = Nil /\ i'[g] = 0
       /\ \A q \in Procs \ {g} : pc'[q] = pc[q] /\ h'[q] = h[q] /\ i'[q] = i[q]
  BY <1>4, <1>5, <1>9, MovedKeeps DEF SketchInv
<1>11. NoneLost'
  <2> SUFFICES ASSUME exact', NEW k \in Keys, NEW p \in DOMAIN Index[k]
               PROVE  LET c == Counter(Index[k][p])' IN
                      c = LaneMax \/ c >= counted'[k] + Cardinality(Added(k, p)')
    BY DEF NoneLost
  <2> DEFINE c == Counter(Index[k][p])
             A == Added(k, p)
  <2>1. c' = c /\ c \in Nat
    <3>1. c \in 0 .. LaneMax
      BY <1>3, Counters DEF GlobalType
    <3> QED BY <1>6, <1>8, <3>1 DEF Counter
  <2>2. c = LaneMax \/ c >= counted[k] + Cardinality(A)
    BY <1>8 DEF SketchInv, NoneLost
  <2>3. IsFiniteSet(A) /\ Cardinality(A) \in Nat
    BY AddedFinite
  <2>4. /\ g \in A <=> k = h[g]
        /\ g \notin A' /\ A' \ {g} = A \ {g}
    <3>1. Adding(pc[g], h[g], i[g], k, p) <=> k = h[g]
      BY <1>1 DEF Adding
    <3>2. ~Adding(pc'[g], h'[g], i'[g], k, p)
      BY <1>10 DEF Adding
    <3> QED BY <1>10, <3>1, <3>2, AddedBy
  <2>5. A' = A \ {g}
    <3> HIDE DEF A
    <3> QED BY <2>4
  <2> HIDE DEF A, c
  <2>6. counted[k] \in Nat
    BY <1>3, <1>6 DEF GlobalType
  <2>7. CASE k = h[g]
    <3>1. Cardinality(A') = Cardinality(A) - 1
      BY <2>3, <2>4, <2>5, <2>7, FS_RemoveElement
    <3>2. counted'[k] <= counted[k] + 1 /\ counted'[k] \in Nat
      BY <1>2, <1>3, <1>7, <1>8, <2>7 DEF GlobalType, a
    <3>3. c' = LaneMax \/ c' >= counted'[k] + Cardinality(A')
      BY <1>6, <2>1, <2>2, <2>3, <2>6, <3>1, <3>2
    <3> QED BY <3>3 DEF A, c
  <2>8. CASE k # h[g]
    <3>1. A' = A /\ counted'[k] = counted[k]
      BY <1>2, <1>3, <1>8, <2>4, <2>5, <2>8 DEF GlobalType
    <3>2. c' = LaneMax \/ c' >= counted'[k] + Cardinality(A')
      BY <2>1, <2>2, <3>1
    <3> QED BY <3>2 DEF A, c
  <2> QED BY <2>7, <2>8
<1> QED BY <1>10, <1>11 DEF SketchInv

LEMMA SketchInit ==
  ASSUME Init
  PROVE  SketchInv
<1>1. 0 \in Words /\ LaneMax \in Nat /\ MaxTries \in Nat
  BY WordValues, Sizes, TinyLFUAssumption
<1>2. TypeOK
  <2>1. exact \in BOOLEAN /\ agingActive \in BOOLEAN
    BY DEF Init
  <2>2. words \in [WordIds -> Words] /\ old \in [Procs -> Words]
    BY <1>1 DEF Init
  <2> QED BY <1>1, <2>1, <2>2 DEF Init, TypeOK, Outside
<1>3. Located
  BY DEF Init, Located, LocalOK
<1>4. ASSUME NEW k \in Keys, NEW p \in DOMAIN Index[k]
      PROVE  Counter(Index[k][p]) >= counted[k] + Cardinality(Added(k, p))
  <2>1. Added(k, p) = {}
    BY DEF Init, Added, Adding
  <2>2. Cardinality(Added(k, p)) = 0
    BY <2>1, FS_EmptySet
  <2>3. counted[k] = 0
    BY DEF Init
  <2>4. Counter(Index[k][p]) \in 0 .. LaneMax
    BY <1>2, Counters DEF TypeOK
  <2> QED BY <1>1, <2>2, <2>3, <2>4
<1>5. NoneLost
  BY <1>4 DEF NoneLost
<1> QED BY <1>2, <1>3, <1>5 DEF SketchInv

LEMMA SketchStutter ==
  ASSUME SketchInv, UNCHANGED vars
  PROVE  SketchInv'
<1>1. TypeOK'
  BY DEF SketchInv, TypeOK, vars
<1>2. Located'
  BY DEF SketchInv, Located, vars
<1>3. NoneLost'
  <2>1. \A k, p : Added(k, p)' = Added(k, p)
    BY DEF Added, vars
  <2>2. \A c : Counter(c)' = Counter(c)
    BY DEF Counter, vars
  <2> QED BY <2>1, <2>2 DEF SketchInv, NoneLost, vars
<1> QED BY <1>1, <1>2, <1>3 DEF SketchInv

LEMMA SketchStep ==
  ASSUME SketchInv, [Next]_vars
  PROVE  SketchInv'
<1>1. ASSUME NEW g \in Procs, Step(g)
      PROVE  SketchInv'
  <2>1. DoorStep(g) \/ AgingStep(g) \/ IncStep(g)
    BY <1>1 DEF Step
  <2>2. CASE IncStep(g)
    BY <2>2, IncLoadKeeps, IncSaturatedKeeps, IncCASKeeps, IncFailsKeeps, CountKeeps DEF IncStep
  <2> QED BY <2>1, <2>2, DoorKeeps, AgingKeeps
<1>2. ASSUME NEW g \in Procs, NEW k \in Keys, Record(g, k)
      PROVE  SketchInv'
  BY <1>2, RecordStep
<1> QED BY <1>1, <1>2, SketchStutter DEF Next

\* The words, counters and steps of the sketch have their types
\* (count_min_sketch.go:19-32).
THEOREM SketchTypes == Spec => []TypeOK
<1>1. Init => SketchInv
  BY SketchInit
<1>2. SketchInv /\ [Next]_vars => SketchInv'
  BY SketchStep
<1>3. SketchInv => TypeOK
  BY DEF SketchInv
<1> QED BY <1>1, <1>2, <1>3, PTL DEF Spec

LEMMA NoneLostEstimates ==
  ASSUME SketchInv
  PROVE  NeverUnderestimates
<1> SUFFICES ASSUME exact, NEW k \in Keys
             PROVE  Estimate(k) >= counted[k]
  BY DEF NeverUnderestimates
<1> DEFINE E == { Counter(Index[k][p]) : p \in DOMAIN Index[k] }
<1>1. words \in [WordIds -> Words] /\ counted[k] \in 0 .. LaneMax /\ LaneMax \in Nat
  BY Sizes DEF SketchInv, TypeOK
<1>2. ASSUME NEW p \in DOMAIN Index[k]
      PROVE  Counter(Index[k][p]) \in Nat /\ Counter(Index[k][p]) >= counted[k]
  <2>1. Counter(Index[k][p]) \in 0 .. LaneMax
    BY <1>1, Counters
  <2>2. \/ Counter(Index[k][p]) = LaneMax
        \/ Counter(Index[k][p]) >= counted[k] + Cardinality(Added(k, p))
    BY DEF SketchInv, NoneLost
  <2>3. Cardinality(Added(k, p)) \in Nat
    BY AddedFinite
  <2> QED BY <1>1, <2>1, <2>2, <2>3
<1>3. E \in SUBSET Nat /\ E # {}
  <2>1. 1 \in DOMAIN Index[k]
    BY Bits
  <2> QED BY <1>2, <2>1
<1>4. \A y \in E : y >= counted[k]
  BY <1>2
<1>5. Min(E) \in E
  BY <1>3, MinOfNaturals
<1> HIDE DEF E
<1>6. Min(E) >= counted[k]
  BY <1>4, <1>5
<1> QED BY <1>6 DEF Estimate, E

\* Until a window ends or a CAS loop is given up the estimate of a key is not
\* below the number of times it was counted (count_min_sketch.go:64-108).
THEOREM EstimatesNeverUnder == Spec => []NeverUnderestimates
<1>1. Init => SketchInv
  BY SketchInit
<1>2. SketchInv /\ [Next]_vars => SketchInv'
  BY SketchStep
<1>3. SketchInv => NeverUnderestimates
  BY NoneLostEstimates
<1> QED BY <1>1, <1>2, <1>3, PTL DEF Spec

\* A counter's change is its own: the two ways a word changes.
ApartStep ==
  \A w \in WordIds :
    LET Was(l) == Lane(words[w], l)  Is(l) == Lane(words'[w], l) IN
    words'[w] # words[w] =>
      \/ \E l \in Lanes : /\ Is(l) = Was(l) + 1
                          /\ \A m \in Lanes \ {l} : Is(m) = Was(m)
      \/ \A l \in Lanes : Is(l) = Was(l) \div 2

LEMMA ApartStepHolds ==
  ASSUME SketchInv, [Next]_vars
  PROVE  ApartStep
<1>1. CASE words' = words
  BY <1>1 DEF ApartStep
<1>2. ASSUME NEW g \in Procs, IncCAS(g)
      PROVE  ApartStep
  <2>1. PICK w \in WordIds, l \in Lanes :
              /\ \A x \in WordIds \ {w} : words'[x] = words[x]
              /\ Lane(words'[w], l) = Lane(words[w], l) + 1
              /\ \A m \in Lanes \ {l} : Lane(words'[w], m) = Lane(words[w], m)
    BY <1>2, IncCASKeeps
  <2>2. ASSUME NEW x \in WordIds, words'[x] # words[x]
        PROVE  \E y \in Lanes : /\ Lane(words'[x], y) = Lane(words[x], y) + 1
                                /\ \A m \in Lanes \ {y} : Lane(words'[x], m) = Lane(words[x], m)
    <3>1. x = w
      BY <2>1, <2>2
    <3> QED BY <2>1, <3>1
  <2> QED BY <2>2 DEF ApartStep
<1>3. ASSUME NEW g \in Procs, HalveCAS(g)
      PROVE  ApartStep
  <2>1. /\ words \in [WordIds -> Words] /\ i[g] \in WordIds
        /\ words' = [words EXCEPT ![i[g]] = Halved(words[i[g]])]
    BY <1>3 DEF HalveCAS, At, SketchInv, TypeOK, Located, LocalOK
  <2>2. words[i[g]] \in Nat
    BY <2>1, WordValues
  <2>3. ASSUME NEW x \in WordIds, words'[x] # words[x], NEW l \in Lanes
        PROVE  Lane(words'[x], l) = Lane(words[x], l) \div 2
    <3>1. x = i[g] /\ words'[x] = Halved(words[x])
      BY <2>1, <2>3
    <3> QED BY <2>2, <3>1, HalvedLanes
  <2> QED BY <2>3 DEF ApartStep
<1>4. words' = words \/ \E g \in Procs : IncCAS(g) \/ HalveCAS(g)
  BY DEF Next, Record, Step, DoorStep, DoorSeen, DoorNew, SetLoad, SetAlready, SetCAS, SetFails,
         AgingStep, WindowOpen, WindowFull, GuardWin, GuardLose, RecheckFull, RecheckOpen,
         HalveLoad, HalveFails, Zero, Release, IncStep, IncLoad, IncSaturated, IncFails, Count, vars
<1> QED BY <1>1, <1>2, <1>3, <1>4

\* A step of the sketch changes one counter of a word by one or halves them all:
\* no carry and no shift reaches the neighbour (count_min_sketch.go:112-137, 171-192).
THEOREM CountersStayApart == Spec => CountersKeepApart
<1>1. Init => SketchInv
  BY SketchInit
<1>2. SketchInv /\ [Next]_vars => SketchInv'
  BY SketchStep
<1>3. SketchInv /\ [Next]_vars => [ApartStep]_vars
  BY ApartStepHolds
<1>4. Spec => [][ApartStep]_vars
  BY <1>1, <1>2, <1>3, PTL DEF Spec
<1> QED BY <1>4 DEF CountersKeepApart, ApartStep

(***************************************************************************)
(* The sizes of the admitter.                                              *)
(***************************************************************************)

\* The recursive definition of Pow2 has its meaning.
LEMMA Pow2Def == PowersOf(2, Pow2)
<1> DEFINE F == [p \in Nat \X Nat |-> 2 * p[2]]
<1>1. F \in [Nat \X Nat -> Nat] /\ \A n, x \in Nat : F[<<n, x>>] = 2 * x
  OBVIOUS
<1>2. 1 \in Nat
  OBVIOUS
<1> HIDE DEF F
<1>3. PICK f : Recursion(f, Nat, 1, F)
  BY <1>1, <1>2, PrimitiveRecursion
<1>4. f \in [Nat -> Nat] /\ f[0] = 1 /\ \A n \in Nat : f[n + 1] = 2 * f[n]
  BY <1>1, <1>3 DEF Recursion
<1> DEFINE G(g) == [n \in Nat |-> IF n = 0 THEN 1 ELSE 2 * g[n - 1]]
<1>5. f = G(f)
  <2>1. ASSUME NEW n \in Nat, n # 0 PROVE f[n] = 2 * f[n - 1]
    <3>1. n - 1 \in Nat /\ (n - 1) + 1 = n
      BY <2>1
    <3> QED BY <1>4, <3>1
  <2>2. \A n \in Nat : f[n] = IF n = 0 THEN 1 ELSE 2 * f[n - 1]
    BY <1>4, <2>1
  <2> QED BY <1>4, <2>2
<1>6. Pow2 = CHOOSE g : g = G(g)
  BY DEF Pow2
<1>7. Pow2 = G(Pow2)
  <2> HIDE DEF G
  <2> QED BY <1>5, <1>6
<1>8. ASSUME NEW n \in Nat PROVE Pow2[n + 1] = 2 * Pow2[n]
  <2>1. n + 1 \in Nat /\ n + 1 # 0 /\ (n + 1) - 1 = n
    OBVIOUS
  <2> QED BY <1>7, <2>1
<1>9. Pow2[0] = 1
  BY <1>7
<1> QED BY <1>8, <1>9 DEF PowersOf

LEMMA Pow2Facts ==
  ASSUME NEW n \in Nat
  PROVE  /\ Pow2[n] \in Nat \ {0}
         /\ Pow2[n + 1] = 2 * Pow2[n]
         /\ \A m \in Nat : m < n => Pow2[m] < Pow2[n]
         /\ n < Pow2[n]
<1>1. Pow2[n + 1] = 2 * Pow2[n]
  BY Pow2Def DEF PowersOf
<1>2. Pow2[n] \in Nat \ {0} /\ n < Pow2[n]
  BY Pow2Def, PowersPositive, PowersExceed
<1>3. \A m \in Nat : m < n => Pow2[m] < Pow2[n]
  BY Pow2Def, PowersGrow
<1> QED BY <1>1, <1>2, <1>3

LEMMA Pow2Monotone ==
  ASSUME NEW m \in Nat, NEW n \in Nat, m <= n
  PROVE  Pow2[m] <= Pow2[n]
<1>1. m < n \/ m = n
  OBVIOUS
<1>2. Pow2[m] \in Nat /\ Pow2[n] \in Nat
  BY Pow2Facts
<1> QED BY <1>1, <1>2, Pow2Facts

LEMMA SizesOfWords ==
  /\ Smears \in Nat \ {0} /\ IntBits \in Nat /\ Span \in Nat \ {0} /\ Span < IntBits
  /\ UInt32Size \in Nat \ {0} /\ UInt32Size < Pow2[IntBits] /\ UInt32Size = Pow2[Span]
  /\ Pow2[IntBits] \in Nat
<1>1. Smears \in Nat \ {0} /\ IntBits \in Nat \ {0} /\ Span < IntBits
  BY AdmitterAssumption
<1>2. Span \in Nat \ {0}
  BY <1>1, Pow2Facts DEF Span
<1> QED BY <1>1, <1>2, Pow2Facts DEF UInt32Size

\* Bit n of v, as digit.
LEMMA OnesAreDigits ==
  ASSUME NEW v
  PROVE  Ones(v) = { n \in 0 .. IntBits - 1 : Digit(2, Pow2, v, n) = 1 }
BY DEF Ones, Digit

LEMMA BitsFinite ==
  ASSUME NEW n \in Nat
  PROVE  /\ IsFiniteSet(0 .. n - 1)
         /\ \A B \in SUBSET (0 .. n - 1) :
              IsFiniteSet(B) /\ Number(B) \in Nat /\ \A b \in B : Pow2[b] <= Number(B)
<1>1. IsFiniteSet(0 .. n - 1)
  <2>1. 0 \in Int /\ n - 1 \in Int
    OBVIOUS
  <2> QED BY <2>1, FS_Interval
<1>2. ASSUME NEW B \in SUBSET (0 .. n - 1)
      PROVE  IsFiniteSet(B) /\ Number(B) \in Nat /\ \A b \in B : Pow2[b] <= Number(B)
  <2>1. IsFiniteSet(B)
    BY <1>1, FS_Subset
  <2>2. \A b \in B : b \in Nat /\ Pow2[b] \in Nat
    BY Pow2Facts
  <2>3. Number(B) \in Nat
    BY <2>1, <2>2, SumType DEF Number
  <2>4. ASSUME NEW b \in B PROVE Pow2[b] <= Number(B)
    <3>1. SumOn(Pow2, B) = SumOn(Pow2, B \ {b}) + Pow2[b] /\ SumOn(Pow2, B \ {b}) \in Nat
      BY <2>1, <2>2, SumTakeOut
    <3> QED BY <2>2, <3>1 DEF Number
  <2> QED BY <2>1, <2>3, <2>4
<1> QED BY <1>1, <1>2

\* A number is the sum of the powers at its ones.
LEMMA NumberOfDigits ==
  ASSUME NEW n \in Nat, NEW v \in Nat, v < Pow2[n]
  PROVE  Number({ m \in 0 .. n - 1 : Digit(2, Pow2, v, m) = 1 }) = v
<1> DEFINE B(k, x) == { m \in 0 .. k - 1 : Digit(2, Pow2, x, m) = 1 }
           T == { k \in Nat : \A x \in Nat : x < Pow2[k] => Number(B(k, x)) = x }
<1>1. 0 \in T
  <2>1. ASSUME NEW x \in Nat, x < Pow2[0] PROVE Number(B(0, x)) = x
    <3>1. x = 0
      BY <2>1, Pow2Def DEF PowersOf
    <3>2. B(0, x) = {}
      OBVIOUS
    <3>3. Number({}) = 0
      BY SumZero DEF Number
    <3> QED BY <3>1, <3>2, <3>3
  <2> QED BY <2>1
<1>2. ASSUME NEW k \in Nat, k \in T PROVE k + 1 \in T
  <2> SUFFICES ASSUME NEW x \in Nat, x < Pow2[k + 1] PROVE Number(B(k + 1, x)) = x
    OBVIOUS
  <2> DEFINE U == Pow2[k]
             d == x \div U
             w == x % U
  <2>1. U \in Nat \ {0} /\ Pow2[k + 1] = 2 * U
    BY Pow2Facts
  <2>2. d \in Nat /\ w \in 0 .. U - 1 /\ x = U * d + w
    BY <2>1, DivMod
  <2>3. d \in 0 .. 2 - 1 /\ w \in Nat /\ w < Pow2[k] /\ x = w + d * Pow2[k]
    <3>1. w \in Nat /\ w < U
      <4> HIDE DEF U, w, d
      <4> QED BY <2>1, <2>2
    <3>2. d < 2
      <4> HIDE DEF U, w, d
      <4>1. ASSUME d >= 2 PROVE FALSE
        <5>1. U * d >= U * 2
          BY <2>1, <2>2, <4>1
        <5>2. U * d \in Nat
          BY <2>1, <2>2
        <5> QED BY <2>1, <2>2, <3>1, <5>1, <5>2
      <4> QED BY <2>2, <4>1
    <3>3. x = w + d * U
      <4> HIDE DEF U, w, d
      <4> QED BY <2>1, <2>2
    <3> HIDE DEF d, w
    <3>4. d \in 0 .. 2 - 1
      BY <2>2, <3>2
    <3> QED BY <3>1, <3>3, <3>4
  <2> HIDE DEF d, w
  <2>4. /\ Digit(2, Pow2, x, k) = d
        /\ \A m \in Nat : m < k => Digit(2, Pow2, x, m) = Digit(2, Pow2, w, m)
    BY <2>3, Pow2Def, WriteDigit
  <2> DEFINE C == B(k, w)
             D == IF d = 1 THEN {k} ELSE {}
  <2>5. B(k + 1, x) = C \cup D /\ C \cap D = {}
    <3>1. ASSUME NEW m \in 0 .. (k + 1) - 1, m # k
          PROVE  m \in 0 .. k - 1 /\ Digit(2, Pow2, x, m) = Digit(2, Pow2, w, m)
      <4>1. m \in Nat /\ m < k
        BY <3>1
      <4> QED BY <2>4, <4>1
    <3>2. \A m \in 0 .. k - 1 : m \in 0 .. (k + 1) - 1 /\ m # k
      OBVIOUS
    <3>3. k \in 0 .. (k + 1) - 1 /\ k \notin 0 .. k - 1
      OBVIOUS
    <3> QED BY <2>4, <3>1, <3>2, <3>3
  <2>6. Number(C) = w
    BY <1>2, <2>3
  <2>7. IsFiniteSet(C) /\ IsFiniteSet(D) /\ \A m \in C \cup D : Pow2[m] \in Nat
    <3>1. IsFiniteSet(C)
      BY BitsFinite
    <3>2. IsFiniteSet(D)
      BY FS_Singleton, FS_EmptySet
    <3>3. \A m \in C \cup D : m \in Nat
      OBVIOUS
    <3> HIDE DEF C, D
    <3> QED BY <3>1, <3>2, <3>3, Pow2Facts
  <2>8. Number(D) = d * Pow2[k]
    <3>1. CASE d = 1
      <4>1. SumOn(Pow2, {k}) = Pow2[k]
        BY Pow2Facts, SumSingleton
      <4>2. 1 * Pow2[k] = Pow2[k]
        BY <2>1
      <4> QED BY <3>1, <4>1, <4>2 DEF Number
    <3>2. CASE d # 1
      <4>1. d = 0 /\ D = {}
        BY <2>3, <3>2
      <4>2. SumOn(Pow2, {}) = 0
        BY SumZero
      <4>3. 0 * Pow2[k] = 0
        BY <2>1
      <4> QED BY <4>1, <4>2, <4>3 DEF Number
    <3> QED BY <3>1, <3>2
  <2>9. Number(C \cup D) = Number(C) + Number(D)
    <3> DEFINE E == C \cup D
    <3>1. E = C \cup D /\ \A m \in E : Pow2[m] \in Nat
      BY <2>7
    <3> HIDE DEF C, D, E
    <3>2. C \cap D = {}
      BY <2>5 DEF C, D
    <3> QED BY <2>7, <3>1, <3>2, SumSplit DEF Number
  <2> QED BY <2>3, <2>5, <2>6, <2>8, <2>9
<1>3. Nat \subseteq T
  <2> HIDE DEF T
  <2> QED BY <1>1, <1>2, Induction
<1> QED BY <1>3

LEMMA NumberOfOnes ==
  ASSUME NEW v \in Nat, v < Pow2[IntBits]
  PROVE  Number(Ones(v)) = v
BY SizesOfWords, NumberOfDigits, OnesAreDigits

\* The highest one of a number.
LEMMA TopOne ==
  ASSUME NEW v \in Nat \ {0}, v < Pow2[IntBits]
  PROVE  \E k \in 0 .. IntBits - 1 :
           /\ Pow2[k] <= v /\ v < Pow2[k + 1]
           /\ k \in Ones(v)
           /\ \A n \in Ones(v) : n <= k
<1>1. PICK k \in Nat : Pow2[k] <= v /\ v < Pow2[k + 1]
  BY Pow2Def, TopDigit
<1>2. k < IntBits
  <2>1. ASSUME IntBits <= k PROVE FALSE
    <3>1. Pow2[IntBits] <= Pow2[k] /\ Pow2[k] \in Nat /\ Pow2[IntBits] \in Nat
      BY <2>1, SizesOfWords, Pow2Facts, Pow2Monotone
    <3> QED BY <1>1, <3>1
  <2> QED BY <2>1, SizesOfWords
<1>3. \A n \in Ones(v) : n \in Nat /\ n <= k
  <2> SUFFICES ASSUME NEW n \in Ones(v), ~(n <= k) PROVE FALSE
    BY OnesAreDigits
  <2>1. n \in Nat /\ Digit(2, Pow2, v, n) = 1
    BY OnesAreDigits
  <2>2. Pow2[k + 1] <= Pow2[n] /\ Pow2[k + 1] \in Nat /\ Pow2[n] \in Nat
    <3>1. k + 1 <= n
      BY <2>1
    <3> QED BY <2>1, <3>1, Pow2Facts
  <2>3. Digit(2, Pow2, v, n) = 0
    BY <1>1, <2>1, <2>2, Pow2Def, NoDigitAbove
  <2> QED BY <2>1, <2>3
<1>4. k \in Ones(v)
  <2> DEFINE q == v \div Pow2[k]
  <2>1. Pow2[k] \in Nat \ {0} /\ Pow2[k + 1] = 2 * Pow2[k]
    BY Pow2Facts
  <2>2. v = Pow2[k] * 1 + (v - Pow2[k]) /\ v - Pow2[k] \in 0 .. Pow2[k] - 1
    BY <1>1, <2>1
  <2>3. q = 1
    BY <2>1, <2>2, DivUnique
  <2> HIDE DEF q
  <2>4. q % 2 = 1
    BY <2>3
  <2> QED BY <1>2, <2>4, SizesOfWords DEF Ones, q
<1> QED BY <1>1, <1>2, <1>3, <1>4, SizesOfWords

\* The ones of a power of two, and of the number before it.
LEMMA OnesOfPower ==
  ASSUME NEW k \in Nat
  PROVE  /\ \A n \in Nat : Digit(2, Pow2, Pow2[k], n) = 1 => n = k
         /\ \A n \in Nat : Digit(2, Pow2, Pow2[k] - 1, n) = 1 <=> n < k
<1> DEFINE T == { j \in Nat : \A n \in Nat : n < j => Digit(2, Pow2, Pow2[j] - 1, n) = 1 }
<1>1. 0 \in T
  OBVIOUS
<1>2. ASSUME NEW j \in Nat, j \in T PROVE j + 1 \in T
  <2> DEFINE w == Pow2[j] - 1
             v == w + 1 * Pow2[j]
  <2>1. w \in Nat /\ w < Pow2[j] /\ Pow2[j + 1] - 1 = v /\ 1 \in 0 .. 2 - 1
    BY Pow2Facts
  <2>2. /\ Digit(2, Pow2, v, j) = 1
        /\ \A n \in Nat : n < j => Digit(2, Pow2, v, n) = Digit(2, Pow2, w, n)
    <3> HIDE DEF w
    <3> QED BY <2>1, Pow2Def, WriteDigit
  <2>3. ASSUME NEW n \in Nat, n < j + 1 PROVE Digit(2, Pow2, v, n) = 1
    <3>1. n < j \/ n = j
      BY <2>3
    <3> HIDE DEF v
    <3> QED BY <1>2, <2>2, <3>1
  <2> QED BY <2>1, <2>3
<1>3. k \in T
  <2> HIDE DEF T
  <2>1. Nat \subseteq T
    BY <1>1, <1>2, Induction
  <2> QED BY <2>1
<1>4. ASSUME NEW n \in Nat, ~(n < k) PROVE Digit(2, Pow2, Pow2[k] - 1, n) = 0
  <2>1. Pow2[k] - 1 \in Nat /\ Pow2[k] - 1 < Pow2[n]
    BY <1>4, Pow2Facts
  <2> QED BY <2>1, Pow2Def, NoDigitAbove
<1>5. ASSUME NEW n \in Nat, n # k PROVE Digit(2, Pow2, Pow2[k], n) = 0
  <2>1. CASE n < k
    <3>1. Digit(2, Pow2, 0 + 1 * Pow2[k], n) = Digit(2, Pow2, 0, n)
      <4>1. 0 < Pow2[k] /\ 1 \in 0 .. 2 - 1
        BY Pow2Facts
      <4> QED BY <2>1, <4>1, Pow2Def, WriteDigit
    <3>2. 0 + 1 * Pow2[k] = Pow2[k]
      BY Pow2Facts
    <3>3. Digit(2, Pow2, 0, n) = 0
      <4>1. 0 < Pow2[n]
        BY Pow2Facts
      <4> QED BY <4>1, Pow2Def, NoDigitAbove
    <3> QED BY <3>1, <3>2, <3>3
  <2>2. CASE n > k
    <3>1. Pow2[k] \in Nat /\ Pow2[k] < Pow2[n]
      BY <2>2, Pow2Facts
    <3> QED BY <3>1, Pow2Def, NoDigitAbove
  <2> QED BY <1>5, <2>1, <2>2
<1>6. \A n \in Nat : Digit(2, Pow2, Pow2[k], n) = 1 => n = k
  BY <1>5
<1>7. \A n \in Nat : Digit(2, Pow2, Pow2[k] - 1, n) = 1 <=> n < k
  BY <1>3, <1>4
<1> QED BY <1>6, <1>7

LEMMA NumberOfFirst ==
  ASSUME NEW k \in Nat
  PROVE  Number(0 .. k - 1) = Pow2[k] - 1
<1>1. Pow2[k] - 1 \in Nat /\ Pow2[k] - 1 < Pow2[k]
  BY Pow2Facts
<1>2. { n \in 0 .. k - 1 : Digit(2, Pow2, Pow2[k] - 1, n) = 1 } = 0 .. k - 1
  BY OnesOfPower
<1> QED BY <1>1, <1>2, NumberOfDigits

\* A bitwise and is at most each of its operands, and at least what they share.
LEMMA AndBounds ==
  ASSUME NEW v \in Nat, NEW w \in Nat, w < Pow2[IntBits]
  PROVE  /\ And(v, w) \in Nat /\ And(v, w) <= w
         /\ \A n \in Ones(v) \cap Ones(w) : Pow2[n] <= And(v, w)
<1> DEFINE A == Ones(v) \cap Ones(w)
           B == Ones(w)
<1>1. IntBits \in Nat /\ A \in SUBSET (0 .. IntBits - 1) /\ B \in SUBSET (0 .. IntBits - 1)
  BY SizesOfWords DEF Ones
<1>2. A \in SUBSET B /\ IsFiniteSet(B) /\ \A n \in B : Pow2[n] \in Nat
  <2>1. A \in SUBSET B /\ IsFiniteSet(B)
    BY <1>1, BitsFinite
  <2>2. \A n \in B : n \in Nat
    BY <1>1
  <2> QED BY <2>1, <2>2, Pow2Facts
<1>3. Number(A) \in Nat /\ \A n \in A : Pow2[n] <= Number(A)
  BY <1>1, BitsFinite
<1>4. Number(B) = w
  BY NumberOfOnes
<1> HIDE DEF A, B
<1>5. Number(A) <= Number(B)
  BY <1>2, SumMonotone DEF Number
<1> QED BY <1>3, <1>4, <1>5 DEF A, And

\* init lets powers of two pass.
LEMMA AndOfPredecessor ==
  ASSUME NEW v \in Nat \ {0}, v < Pow2[IntBits]
  PROVE  And(v, v - 1) = 0 <=> \E k \in 0 .. IntBits - 1 : v = Pow2[k]
<1>1. v - 1 \in Nat /\ v - 1 < Pow2[IntBits]
  BY SizesOfWords
<1>2. ASSUME NEW k \in 0 .. IntBits - 1, v = Pow2[k] PROVE And(v, v - 1) = 0
  <2>1. k \in Nat
    BY SizesOfWords
  <2>2. Ones(v) \cap Ones(v - 1) = {}
    <3> SUFFICES ASSUME NEW n \in Ones(v), n \in Ones(v - 1) PROVE FALSE
      OBVIOUS
    <3>1. n \in Nat /\ Digit(2, Pow2, v, n) = 1 /\ Digit(2, Pow2, v - 1, n) = 1
      BY SizesOfWords, OnesAreDigits
    <3>2. n = k /\ n < k
      BY <1>2, <2>1, <3>1, OnesOfPower
    <3> QED BY <2>1, <3>2
  <2>3. SumOn(Pow2, {}) = 0
    BY SumZero
  <2> QED BY <2>2, <2>3 DEF And, Number
<1>3. ASSUME And(v, v - 1) = 0 PROVE \E k \in 0 .. IntBits - 1 : v = Pow2[k]
  <2>1. PICK k \in 0 .. IntBits - 1 : Pow2[k] <= v /\ v < Pow2[k + 1] /\ k \in Ones(v)
    BY TopOne
  <2>2. k \in Nat /\ Pow2[k] \in Nat \ {0} /\ Pow2[k + 1] = 2 * Pow2[k]
    BY SizesOfWords, Pow2Facts
  <2>3. ASSUME v # Pow2[k] PROVE FALSE
    <3>1. v - 1 \in Nat \ {0} /\ Pow2[k] <= v - 1 /\ v - 1 < Pow2[k + 1]
      BY <2>1, <2>2, <2>3
    <3>2. PICK j \in 0 .. IntBits - 1 :
            Pow2[j] <= v - 1 /\ v - 1 < Pow2[j + 1] /\ j \in Ones(v - 1)
      BY <1>1, <3>1, TopOne
    <3>3. j = k
      <4>1. j \in Nat /\ Pow2[j] \in Nat /\ Pow2[j + 1] \in Nat
        BY SizesOfWords, Pow2Facts
      <4>2. ASSUME j < k PROVE FALSE
        <5>1. Pow2[j + 1] <= Pow2[k]
          <6>1. j + 1 <= k
            BY <2>2, <4>1, <4>2
          <6>2. j + 1 < k \/ j + 1 = k
            BY <2>2, <4>1, <6>1
          <6> QED BY <2>2, <4>1, <6>2, Pow2Facts
        <5> QED BY <1>1, <2>2, <3>1, <3>2, <4>1, <5>1
      <4>3. ASSUME k < j PROVE FALSE
        <5>1. Pow2[k + 1] <= Pow2[j]
          <6>1. k + 1 < j \/ k + 1 = j
            BY <2>2, <4>1, <4>3
          <6> QED BY <2>2, <4>1, <6>1, Pow2Facts
        <5> QED BY <1>1, <2>2, <3>1, <3>2, <4>1, <5>1
      <4> QED BY <2>2, <4>1, <4>2, <4>3
    <3>4. Pow2[k] <= And(v, v - 1)
      BY <1>1, <2>1, <3>2, <3>3, AndBounds
    <3> QED BY <1>3, <2>2, <3>4
  <2> QED BY <2>3
<1> QED BY <1>2, <1>3

\* What the steps of nextPow2 smear the ones in B over.
Smearing(B) ==
  CHOOSE g : g = [n \in Nat |->
    IF n = 0 THEN B ELSE g[n - 1] \cup ShiftRight(g[n - 1], Pow2[n - 1])]

LEMMA SmearedBits ==
  ASSUME NEW B \in SUBSET (0 .. IntBits - 1), NEW n \in Nat
  PROVE  Smearing(B)[n] =
           { c \in 0 .. IntBits - 1 : \E b \in B : c <= b /\ b < c + Pow2[n] }
<1> DEFINE G(g) == [m \in Nat |->
                      IF m = 0 THEN B ELSE g[m - 1] \cup ShiftRight(g[m - 1], Pow2[m - 1])]
           f == [m \in Nat |->
                   { c \in 0 .. IntBits - 1 : \E b \in B : c <= b /\ b < c + Pow2[m] }]
           s == Smearing(B)
<1>1. IntBits \in Nat /\ B \subseteq 0 .. IntBits - 1
  BY SizesOfWords
<1>2. f[0] = B
  <2>1. Pow2[0] = 1
    BY Pow2Def DEF PowersOf
  <2>2. f[0] = { c \in 0 .. IntBits - 1 : \E b \in B : c <= b /\ b < c + 1 }
    BY <2>1
  <2>3. \A c \in 0 .. IntBits - 1 : \A b \in 0 .. IntBits - 1 :
          c <= b /\ b < c + 1 <=> b = c
    OBVIOUS
  <2> HIDE DEF f
  <2>4. \A c \in f[0] : c \in B
    BY <1>1, <2>2, <2>3
  <2>5. \A c \in B : c \in f[0]
    BY <1>1, <2>2, <2>3
  <2> QED BY <2>4, <2>5
<1>3. ASSUME NEW m \in Nat PROVE f[m + 1] = f[m] \cup ShiftRight(f[m], Pow2[m])
  <2> DEFINE p == Pow2[m]
  <2>1. p \in Nat \ {0} /\ Pow2[m + 1] = 2 * p
    BY Pow2Facts
  <2>2. /\ f[m + 1] = { c \in 0 .. IntBits - 1 : \E b \in B : c <= b /\ b < c + 2 * p }
        /\ f[m] = { c \in 0 .. IntBits - 1 : \E b \in B : c <= b /\ b < c + p }
    BY <2>1
  <2>3. ShiftRight(f[m], p) = { c \in 0 .. IntBits - 1 : c + p \in f[m] }
    BY DEF ShiftRight
  <2> HIDE DEF f, p
  <2>4. ASSUME NEW c \in f[m + 1] PROVE c \in f[m] \cup ShiftRight(f[m], p)
    <3>1. PICK b \in B : c <= b /\ b < c + 2 * p
      BY <2>2
    <3>2. c \in 0 .. IntBits - 1 /\ b \in 0 .. IntBits - 1
      BY <1>1, <2>2
    <3>3. CASE b < c + p
      BY <2>2, <3>1, <3>2, <3>3
    <3>4. CASE ~(b < c + p)
      <4>1. c + p \in 0 .. IntBits - 1 /\ c + p <= b /\ b < (c + p) + p
        BY <1>1, <2>1, <3>1, <3>2, <3>4
      <4>2. c + p \in f[m]
        BY <2>2, <4>1
      <4> QED BY <2>3, <3>2, <4>2
    <3> QED BY <3>3, <3>4
  <2>5. ASSUME NEW c \in f[m] PROVE c \in f[m + 1]
    <3>1. PICK b \in B : c <= b /\ b < c + p
      BY <2>2
    <3>2. c \in 0 .. IntBits - 1 /\ b \in 0 .. IntBits - 1
      BY <1>1, <2>2
    <3>3. b < c + 2 * p
      BY <1>1, <2>1, <3>1, <3>2
    <3> QED BY <2>2, <3>1, <3>2, <3>3
  <2>6. ASSUME NEW c \in ShiftRight(f[m], p) PROVE c \in f[m + 1]
    <3>1. c \in 0 .. IntBits - 1 /\ c + p \in f[m]
      BY <2>3
    <3>2. PICK b \in B : c + p <= b /\ b < (c + p) + p
      BY <2>2, <3>1
    <3>3. b \in 0 .. IntBits - 1
      BY <1>1
    <3>4. c <= b /\ b < c + 2 * p
      BY <1>1, <2>1, <3>1, <3>2, <3>3
    <3> QED BY <2>2, <3>1, <3>2, <3>4
  <2>7. f[m + 1] = f[m] \cup ShiftRight(f[m], p)
    BY <2>4, <2>5, <2>6
  <2> QED BY <2>7 DEF p
<1>4. ASSUME NEW m \in Nat
      PROVE  f[m] = IF m = 0 THEN B ELSE f[m - 1] \cup ShiftRight(f[m - 1], Pow2[m - 1])
  <2> HIDE DEF f
  <2>1. CASE m = 0
    BY <1>2, <2>1
  <2>2. CASE m # 0
    <3>1. m - 1 \in Nat /\ (m - 1) + 1 = m
      BY <2>2
    <3> QED BY <1>3, <2>2, <3>1
  <2> QED BY <2>1, <2>2
<1>5. f = G(f)
  BY <1>4
<1>6. s = G(s)
  <2> HIDE DEF G, f
  <2>1. s = CHOOSE g : g = G(g)
    BY DEF G, Smearing
  <2> HIDE DEF s
  <2> QED BY <1>5, <2>1
<1> HIDE DEF f, s
<1>7. s[0] = B
  BY <1>6
<1>8. ASSUME NEW m \in Nat PROVE s[m + 1] = s[m] \cup ShiftRight(s[m], Pow2[m])
  <2>1. m + 1 \in Nat /\ m + 1 # 0 /\ (m + 1) - 1 = m
    OBVIOUS
  <2> QED BY <1>6, <2>1
<1> HIDE DEF G
<1> DEFINE T == { m \in Nat : s[m] = f[m] }
<1>9. 0 \in T
  BY <1>2, <1>7
<1>10. ASSUME NEW m \in Nat, m \in T PROVE m + 1 \in T
  <2>1. s[m] = f[m]
    BY <1>10
  <2>2. s[m + 1] = f[m] \cup ShiftRight(f[m], Pow2[m])
    BY <1>8, <2>1
  <2>3. f[m + 1] = f[m] \cup ShiftRight(f[m], Pow2[m])
    BY <1>3
  <2>4. s[m + 1] = f[m + 1] /\ m + 1 \in Nat
    BY <2>2, <2>3
  <2> QED BY <2>4
<1>11. Nat \subseteq T
  <2> HIDE DEF T
  <2> QED BY <1>9, <1>10, Induction
<1>12. s[n] = f[n]
  BY <1>11
<1> QED BY <1>12 DEF f, s

\* nextPow2 up to 32 bits and above.
LEMMA NextPow2Value ==
  ASSUME NEW x \in Nat \ {0}, x <= Pow2[IntBits]
  PROVE  /\ NextPow2(x) \in Nat \ {0}
         /\ x <= UInt32Size =>
              \E k \in 0 .. Span :
                NextPow2(x) = Pow2[k] /\ x <= Pow2[k] /\ Pow2[k] < 2 * x
         /\ x > UInt32Size => NextPow2(x) >= UInt32Size
<1>1. CASE x = 1
  <2>1. NextPow2(x) = 1
    BY <1>1 DEF NextPow2
  <2>2. Pow2[0] = 1 /\ 0 \in 0 .. Span
    BY SizesOfWords, Pow2Def DEF PowersOf
  <2>3. ~(x > UInt32Size)
    BY <1>1, SizesOfWords
  <2>4. x <= Pow2[0] /\ Pow2[0] < 2 * x
    BY <1>1, <2>2
  <2> QED BY <2>1, <2>2, <2>3, <2>4
<1>2. CASE x # 1
  <2> DEFINE B == Ones(x - 1)
             S == Smearing(B)[Smears]
  <2>1. x - 1 \in Nat \ {0} /\ x - 1 < Pow2[IntBits] /\ ~(x <= 1)
    BY <1>2, SizesOfWords
  <2>2. NextPow2(x) = Number(S) + 1
    BY <2>1 DEF NextPow2, Smearing
  <2>3. S = { c \in 0 .. IntBits - 1 : \E b \in B : c <= b /\ b < c + Span }
    <3>1. B \in SUBSET (0 .. IntBits - 1)
      BY DEF Ones
    <3>2. Smears \in Nat
      BY SizesOfWords
    <3> HIDE DEF B
    <3>3. S = { c \in 0 .. IntBits - 1 : \E b \in B : c <= b /\ b < c + Pow2[Smears] }
      BY <3>1, <3>2, SmearedBits
    <3> QED BY <3>3 DEF Span
  <2> HIDE DEF S
  <2>4. Number(S) \in Nat /\ \A n \in S : Pow2[n] <= Number(S)
    <3>1. S \in SUBSET (0 .. IntBits - 1)
      BY <2>3
    <3> QED BY <3>1, SizesOfWords, BitsFinite
  <2>5. PICK k \in 0 .. IntBits - 1 : /\ Pow2[k] <= x - 1 /\ x - 1 < Pow2[k + 1]
                                      /\ k \in B
                                      /\ \A n \in B : n <= k
    BY <2>1, TopOne
  <2>6. k \in Nat /\ Pow2[k] \in Nat /\ Pow2[k + 1] = 2 * Pow2[k] /\ Pow2[k + 1] \in Nat
    BY SizesOfWords, Pow2Facts
  <2>7. ASSUME x <= UInt32Size
        PROVE  \E n \in 0 .. Span : NextPow2(x) = Pow2[n] /\ x <= Pow2[n] /\ Pow2[n] < 2 * x
    <3>1. k < Span
      <4>1. ASSUME Span <= k PROVE FALSE
        <5>1. UInt32Size <= Pow2[k]
          BY <2>6, <4>1, SizesOfWords, Pow2Monotone
        <5> QED BY <2>5, <2>6, <2>7, <5>1, SizesOfWords
      <4> QED BY <2>6, <4>1, SizesOfWords
    <3>2. S = 0 .. (k + 1) - 1
      <4>1. ASSUME NEW c \in S PROVE c \in 0 .. (k + 1) - 1
        <5>1. PICK b \in B : c <= b
          BY <2>3
        <5>2. c \in 0 .. IntBits - 1 /\ b \in 0 .. IntBits - 1
          BY <2>3 DEF Ones
        <5>3. b <= k
          BY <2>5
        <5> QED BY <2>6, <5>1, <5>2, <5>3, SizesOfWords
      <4>2. ASSUME NEW c \in 0 .. (k + 1) - 1 PROVE c \in S
        <5>1. c \in 0 .. IntBits - 1 /\ c <= k /\ k < c + Span
          BY <2>6, <3>1, SizesOfWords
        <5> QED BY <2>3, <2>5, <5>1
      <4> QED BY <4>1, <4>2
    <3>3. Number(S) = Pow2[k + 1] - 1
      BY <2>6, <3>2, NumberOfFirst
    <3>4. NextPow2(x) = Pow2[k + 1]
      BY <2>2, <2>6, <3>3
    <3>5. k + 1 \in 0 .. Span /\ x <= Pow2[k + 1] /\ Pow2[k + 1] < 2 * x
      BY <2>5, <2>6, <3>1, SizesOfWords
    <3> QED BY <3>4, <3>5
  <2>8. ASSUME x > UInt32Size PROVE NextPow2(x) >= UInt32Size
    <3>1. k >= Span
      <4>1. ASSUME k < Span PROVE FALSE
        <5>1. k + 1 <= Span
          BY <2>6, <4>1, SizesOfWords
        <5>2. Pow2[k + 1] <= UInt32Size
          BY <2>6, <5>1, SizesOfWords, Pow2Monotone
        <5> QED BY <2>5, <2>6, <2>8, <5>2, SizesOfWords
      <4> QED BY <2>6, <4>1, SizesOfWords
    <3>2. UInt32Size <= Pow2[k]
      BY <2>6, <3>1, SizesOfWords, Pow2Monotone
    <3>3. k \in S
      <4>1. k <= k /\ k < k + Span
        BY <2>6, SizesOfWords
      <4> QED BY <2>3, <2>5, <4>1
    <3>4. Pow2[k] <= Number(S)
      BY <2>4, <3>3
    <3> QED BY <2>2, <2>4, <2>6, <3>2, <3>4, SizesOfWords
  <2> QED BY <2>2, <2>4, <2>7, <2>8
<1> QED BY <1>1, <1>2

\* nextPow2 (hash_mix.go) is the least power of two that is not below its
\* argument, for all arguments up to the size of an uint32.
THEOREM NextPow2IsLeast == LeastPow2
<1> SUFFICES ASSUME NEW x \in 1 .. UInt32Size
             PROVE  IsPow2(NextPow2(x)) /\ x <= NextPow2(x) /\ NextPow2(x) < 2 * x
  BY DEF LeastPow2
<1>1. x \in Nat \ {0} /\ x <= UInt32Size /\ x <= Pow2[IntBits]
  BY SizesOfWords
<1>2. PICK k \in 0 .. Span : NextPow2(x) = Pow2[k] /\ x <= Pow2[k] /\ Pow2[k] < 2 * x
  BY <1>1, NextPow2Value
<1>3. k \in 0 .. IntBits
  BY SizesOfWords
<1> QED BY <1>2, <1>3 DEF IsPow2

\* A configuration's share of the capacity, and the lengths that follow.
LEMMA Lengths ==
  ASSUME NEW c \in Configs
  PROVE  /\ c.shards \in Nat \ {0} /\ c.minLen \in Int
         /\ PerShardCap(c) \in Nat \ {0} /\ PerShardCap(c) <= Pow2[IntBits]
         /\ TableLen(c) \in Nat \ {0}
         /\ TableLen(c) >= NextPow2(PerShardCap(c)) /\ TableLen(c) >= c.minLen
         /\ TableLen(c) = c.minLen \/ TableLen(c) = NextPow2(PerShardCap(c))
         /\ TableCounters(c) \in 0 .. UInt32Size - 1
         /\ TableLen(c) < UInt32Size => TableCounters(c) = TableLen(c)
         /\ DoorAsked(c) \in 1 .. UInt32Size - 1
<1> DEFINE a == c.capacity
           n == c.shards
           q == a \div n
           r == a % n
           p == PerShardCap(c)
           t == TableLen(c)
<1>1. /\ a \in Int /\ a <= Pow2[IntBits - 1] /\ n \in Nat \ {0} /\ c.minLen \in Int
      /\ c.doorBits \in Int
  BY AdmitterAssumption
<1>2. Pow2[IntBits - 1] <= Pow2[IntBits] /\ Pow2[IntBits - 1] \in Nat
  <2>1. IntBits - 1 \in Nat /\ IntBits - 1 <= IntBits
    BY SizesOfWords
  <2> QED BY <2>1, SizesOfWords, Pow2Facts, Pow2Monotone
<1>3. p \in Nat \ {0} /\ p <= Pow2[IntBits]
  <2>1. q \in Int /\ r \in 0 .. n - 1 /\ a = n * q + r
    <3> HIDE DEF a, n
    <3> QED BY <1>1 DEF q, r
  <2>2. p = IF q < 1 THEN 1 ELSE q
    BY DEF PerShardCap
  <2> HIDE DEF a, n, q, r, p
  <2>3. CASE q < 1
    BY <2>2, <2>3, SizesOfWords
  <2>4. CASE ~(q < 1)
    <3>1. n * q >= q
      BY <1>1, <2>1, <2>4
    <3>2. n * q \in Int
      BY <1>1, <2>1
    <3>3. q <= a
      BY <1>1, <2>1, <3>1, <3>2
    <3> QED BY <1>1, <1>2, <2>1, <2>2, <2>4, <3>3, SizesOfWords
  <2> QED BY <2>3, <2>4
<1> HIDE DEF p
<1>4. NextPow2(p) \in Nat \ {0}
  BY <1>3, NextPow2Value
<1>5. /\ t \in Nat \ {0} /\ t >= NextPow2(p) /\ t >= c.minLen
      /\ t = c.minLen \/ t = NextPow2(p)
  <2>1. t = IF NextPow2(p) < c.minLen THEN c.minLen ELSE NextPow2(p)
    BY DEF TableLen, p
  <2> HIDE DEF t
  <2> QED BY <1>1, <1>4, <2>1
<1> HIDE DEF t
<1>6. TableCounters(c) \in 0 .. UInt32Size - 1
  <2>1. t % UInt32Size \in 0 .. UInt32Size - 1
    BY <1>5, SizesOfWords, DivMod
  <2> QED BY <2>1 DEF TableCounters, t
<1>7. ASSUME t < UInt32Size PROVE TableCounters(c) = t
  <2>1. t = UInt32Size * 0 + t /\ t \in 0 .. UInt32Size - 1
    BY <1>5, <1>7, SizesOfWords
  <2>2. t % UInt32Size = t
    BY <2>1, SizesOfWords, DivUnique
  <2> QED BY <2>2 DEF TableCounters, t
<1>8. DoorAsked(c) \in 1 .. UInt32Size - 1
  <2> DEFINE d == (t * c.doorBits) % UInt32Size
  <2>1. t * c.doorBits \in Int
    BY <1>1, <1>5
  <2>2. d \in 0 .. UInt32Size - 1
    BY <2>1, SizesOfWords
  <2>3. DoorAsked(c) = IF d = 0 THEN 1 ELSE d
    BY DEF DoorAsked, t
  <2>4. 1 <= UInt32Size - 1
    <3>1. Pow2[0] = 1 /\ Pow2[0] < Pow2[Span]
      BY SizesOfWords, Pow2Facts, Pow2Def DEF PowersOf
    <3> QED BY <3>1, SizesOfWords
  <2> HIDE DEF d
  <2> QED BY <2>2, <2>3, <2>4, SizesOfWords
<1> QED BY <1>1, <1>3, <1>5, <1>6, <1>7, <1>8 DEF p, t, n

\* The lengths that pass init, and those of the doorkeeper, are powers of two.
LEMMA LengthsArePowers ==
  ASSUME NEW c \in Configs
  PROVE  /\ ~Panics(c) => \E k \in 0 .. Span : TableCounters(c) = Pow2[k]
         /\ \E k \in 0 .. Span : DoorLen(c) = Pow2[k] /\ DoorAsked(c) <= DoorLen(c)
<1>1. ASSUME ~Panics(c) PROVE \E k \in 0 .. Span : TableCounters(c) = Pow2[k]
  <2> DEFINE v == TableCounters(c)
  <2>1. v \in Nat \ {0} /\ v < Pow2[Span] /\ v < Pow2[IntBits] /\ And(v, v - 1) = 0
    BY <1>1, Lengths, SizesOfWords DEF Panics
  <2> HIDE DEF v
  <2>2. PICK k \in 0 .. IntBits - 1 : v = Pow2[k]
    BY <2>1, AndOfPredecessor
  <2>3. k \in Nat /\ k <= Span
    <3>1. k \in Nat
      BY SizesOfWords
    <3>2. ASSUME Span <= k PROVE FALSE
      <4>1. Pow2[Span] <= Pow2[k] /\ Pow2[Span] \in Nat
        BY <3>1, <3>2, SizesOfWords, Pow2Monotone
      <4> QED BY <2>1, <2>2, <4>1
    <3> QED BY <3>1, <3>2, SizesOfWords
  <2> QED BY <2>2, <2>3, SizesOfWords DEF v
<1>2. \E k \in 0 .. Span : DoorLen(c) = Pow2[k] /\ DoorAsked(c) <= DoorLen(c)
  <2>1. DoorAsked(c) \in Nat \ {0} /\ DoorAsked(c) <= UInt32Size /\ DoorAsked(c) <= Pow2[IntBits]
    BY Lengths, SizesOfWords
  <2> QED BY <2>1, NextPow2Value DEF DoorLen
<1> QED BY <1>1, <1>2

\* The tables newShardedAdmitter makes hold their share of the capacity and
\* MinTableLenPerShard, and no more than twice what they are asked for.
THEOREM TablesAlwaysFit == TablesFit
<1> SUFFICES ASSUME NEW c \in Configs, TableLen(c) < UInt32Size
             PROVE  /\ TableCounters(c) >= PerShardCap(c) /\ TableCounters(c) >= c.minLen
                    /\ TableCounters(c) = c.minLen \/ TableCounters(c) < 2 * PerShardCap(c)
                    /\ DoorLen(c) >= DoorAsked(c)
  BY DEF TablesFit
<1> DEFINE p == PerShardCap(c)
<1>1. /\ p \in Nat \ {0} /\ p <= Pow2[IntBits] /\ NextPow2(p) \in Nat \ {0}
  BY Lengths, NextPow2Value
<1>2. /\ TableCounters(c) = TableLen(c) /\ TableLen(c) \in Nat /\ c.minLen \in Int
      /\ TableLen(c) >= NextPow2(p) /\ TableLen(c) >= c.minLen
      /\ TableLen(c) = c.minLen \/ TableLen(c) = NextPow2(p)
  BY Lengths
<1> HIDE DEF p
<1>3. p <= UInt32Size
  <2>1. ASSUME p > UInt32Size PROVE FALSE
    <3>1. NextPow2(p) >= UInt32Size
      BY <1>1, <2>1, NextPow2Value
    <3> QED BY <1>1, <1>2, <3>1, SizesOfWords
  <2> QED BY <1>1, <2>1, SizesOfWords
<1>4. p <= NextPow2(p) /\ NextPow2(p) < 2 * p
  BY <1>1, <1>3, NextPow2Value
<1>5. DoorLen(c) >= DoorAsked(c)
  <2>1. PICK k \in 0 .. Span : DoorLen(c) = Pow2[k] /\ DoorAsked(c) <= DoorLen(c)
    BY LengthsArePowers
  <2>2. DoorLen(c) \in Nat /\ DoorAsked(c) \in Nat
    <3>1. k \in Nat
      BY SizesOfWords
    <3> QED BY <2>1, <3>1, Pow2Facts, Lengths, SizesOfWords
  <2> QED BY <2>1, <2>2
<1> QED BY <1>1, <1>2, <1>4, <1>5 DEF p

LEMMA InWords ==
  ASSUME NEW x \in Nat, NEW n \in Nat, x < n, NEW w \in Nat \ {0}
  PROVE  x \div w < (n + w - 1) \div w
<1>1. x + w * 1 \in Nat /\ n + w - 1 \in Nat /\ x + w * 1 <= n + w - 1
  OBVIOUS
<1>2. (x + w * 1) \div w = (x \div w) + 1
  BY DivAddMultiple
<1>3. (x + w * 1) \div w <= (n + w - 1) \div w
  BY <1>1, DivMonotone
<1>4. x \div w \in Nat /\ (n + w - 1) \div w \in Nat
  BY <1>1, DivMod
<1> QED BY <1>2, <1>3, <1>4

\* A mask of a power of two leads into its table.
LEMMA MaskedBelow ==
  ASSUME NEW x \in Nat, NEW k \in 0 .. Span
  PROVE  And(x, Pow2[k] - 1) \in Nat /\ And(x, Pow2[k] - 1) < Pow2[k]
<1>1. k \in Nat /\ k <= IntBits
  BY SizesOfWords
<1>2. Pow2[k] - 1 \in Nat /\ Pow2[k] - 1 < Pow2[IntBits] /\ Pow2[k] \in Nat
  BY <1>1, SizesOfWords, Pow2Facts, Pow2Monotone
<1>3. And(x, Pow2[k] - 1) \in Nat /\ And(x, Pow2[k] - 1) <= Pow2[k] - 1
  BY <1>2, AndBounds
<1> QED BY <1>2, <1>3

\* No hash leads Record or Allow out of the shards, of a shard's words of
\* counters or of its words of bits.
THEOREM HashesNeverLeave == HashesStayInTables
<1> SUFFICES ASSUME NEW c \in Configs, ~Panics(c), NEW x \in 0 .. UInt32Size - 1
             PROVE  /\ ShardOf(x, c) < c.shards
                    /\ CounterOf(x, c) \div WordCounters < TableWords(c)
                    /\ DoorBitOf(x, c) \div WordBits < DoorWords(c)
  BY DEF HashesStayInTables
<1>1. x \in Nat /\ WordCounters \in Nat \ {0} /\ WordBits \in Nat \ {0}
  BY AdmitterAssumption, SizesOfWords
<1>2. ShardOf(x, c) < c.shards
  <2> DEFINE n == c.shards - 1
             w == n % UInt32Size
  <2>1. n \in Nat /\ c.shards = n + 1
    BY Lengths
  <2>2. n \div UInt32Size \in Nat /\ w \in 0 .. UInt32Size - 1
        /\ n = UInt32Size * (n \div UInt32Size) + w
    <3> HIDE DEF n
    <3> QED BY <2>1, SizesOfWords, DivMod
  <2>3. w \in Nat /\ w <= n /\ w < Pow2[IntBits]
    <3> DEFINE q == n \div UInt32Size
    <3> HIDE DEF q, w, n
    <3>1. UInt32Size * q \in Nat
      BY <2>2, SizesOfWords DEF q
    <3> QED BY <2>1, <2>2, <3>1, SizesOfWords DEF q
  <2>4. ShardOf(x, c) = And(x, w)
    BY DEF ShardOf
  <2> HIDE DEF w, n
  <2>5. And(x, w) \in Nat /\ And(x, w) <= w
    BY <1>1, <2>3, AndBounds
  <2> QED BY <2>1, <2>3, <2>4, <2>5
<1>3. CounterOf(x, c) \div WordCounters < TableWords(c)
  <2>1. PICK k \in 0 .. Span : TableCounters(c) = Pow2[k]
    BY LengthsArePowers
  <2>2. CounterOf(x, c) \in Nat /\ CounterOf(x, c) < TableCounters(c)
    BY <1>1, <2>1, MaskedBelow DEF CounterOf
  <2>3. TableCounters(c) \in Nat
    BY Lengths, SizesOfWords
  <2> QED BY <1>1, <2>2, <2>3, InWords DEF TableWords
<1>4. DoorBitOf(x, c) \div WordBits < DoorWords(c)
  <2>1. PICK k \in 0 .. Span : DoorLen(c) = Pow2[k]
    BY LengthsArePowers
  <2>2. DoorBitOf(x, c) \in Nat /\ DoorBitOf(x, c) < DoorLen(c)
    BY <1>1, <2>1, MaskedBelow DEF DoorBitOf
  <2>3. DoorLen(c) \in Nat
    <3>1. k \in Nat
      BY SizesOfWords
    <3> QED BY <2>1, <3>1, Pow2Facts
  <2> QED BY <1>1, <2>2, <2>3, InWords DEF DoorWords
<1> QED BY <1>2, <1>3, <1>4

\* A mask of a power of two skips nothing below it.
LEMMA MaskKeeps ==
  ASSUME NEW k \in 0 .. Span, NEW n \in 0 .. Pow2[k] - 1
  PROVE  And(n, Pow2[k] - 1) = n
<1>1. k \in Nat /\ Pow2[k] \in Nat /\ Pow2[k] <= Pow2[IntBits] /\ Pow2[IntBits] \in Nat
  BY SizesOfWords, Pow2Facts, Pow2Monotone
<1>2. n \in Nat /\ n < Pow2[k] /\ n < Pow2[IntBits]
  BY <1>1
<1>3. Ones(n) \cap Ones(Pow2[k] - 1) = Ones(n)
  <2> SUFFICES ASSUME NEW b \in Ones(n) PROVE b \in Ones(Pow2[k] - 1)
    OBVIOUS
  <2>1. b \in 0 .. IntBits - 1 /\ b \in Nat /\ Digit(2, Pow2, n, b) = 1
    BY SizesOfWords, OnesAreDigits
  <2>2. b < k
    <3>1. ASSUME k <= b PROVE FALSE
      <4>1. n < Pow2[b]
        BY <1>1, <1>2, <2>1, <3>1, Pow2Facts, Pow2Monotone
      <4>2. Digit(2, Pow2, n, b) = 0
        BY <1>2, <2>1, <4>1, Pow2Def, NoDigitAbove
      <4> QED BY <2>1, <4>2
    <3> QED BY <1>1, <2>1, <3>1
  <2>3. Digit(2, Pow2, Pow2[k] - 1, b) = 1
    BY <1>1, <2>1, <2>2, OnesOfPower
  <2> QED BY <2>1, <2>3, OnesAreDigits
<1>4. Number(Ones(n)) = n
  BY <1>2, NumberOfOnes
<1> QED BY <1>3, <1>4 DEF And

\* The masks of a sketch that passes init, and of its doorkeeper, skip no
\* counter and no bit.
THEOREM CountersAllReached == EveryCounterReached
<1> SUFFICES ASSUME NEW c \in Configs, ~Panics(c)
             PROVE  /\ \A n \in 0 .. TableCounters(c) - 1 : CounterOf(n, c) = n
                    /\ \A n \in 0 .. DoorLen(c) - 1 : DoorBitOf(n, c) = n
  BY DEF EveryCounterReached
<1>1. PICK k \in 0 .. Span : TableCounters(c) = Pow2[k]
  BY LengthsArePowers
<1>2. PICK j \in 0 .. Span : DoorLen(c) = Pow2[j]
  BY LengthsArePowers
<1> QED BY <1>1, <1>2, MaskKeeps DEF CounterOf, DoorBitOf

\* Nothing but MinTableLenPerShard makes init of the sketch panic, tables of
\* 2^32 counters and more aside.
THEOREM OnlyMinLenPanics == PanicsForMinLen
<1> SUFFICES ASSUME NEW c \in Configs, ~(TableLen(c) >= UInt32Size), IsPow2(c.minLen)
             PROVE  ~Panics(c)
  BY DEF PanicsForMinLen
<1>0. TableLen(c) < UInt32Size
  BY Lengths, SizesOfWords
<1> DEFINE p == PerShardCap(c)
           v == TableCounters(c)
<1>1. /\ p \in Nat \ {0} /\ p <= Pow2[IntBits] /\ NextPow2(p) \in Nat \ {0}
      /\ v = TableLen(c) /\ v \in Nat \ {0} /\ v >= NextPow2(p) /\ v < UInt32Size
      /\ v = c.minLen \/ v = NextPow2(p)
  BY <1>0, Lengths, NextPow2Value
<1> HIDE DEF p, v
<1>2. IsPow2(NextPow2(p))
  <2>1. p <= UInt32Size
    <3>1. ASSUME p > UInt32Size PROVE FALSE
      <4>1. NextPow2(p) >= UInt32Size
        BY <1>1, <3>1, NextPow2Value
      <4> QED BY <1>1, <4>1, SizesOfWords
    <3> QED BY <1>1, <3>1, SizesOfWords
  <2>2. p \in 1 .. UInt32Size
    BY <1>1, <2>1, SizesOfWords
  <2> QED BY <2>2, NextPow2IsLeast DEF LeastPow2
<1>3. PICK k \in 0 .. IntBits : v = Pow2[k]
  BY <1>1, <1>2 DEF IsPow2
<1>4. v < Pow2[IntBits] /\ k # IntBits
  BY <1>1, <1>3, SizesOfWords
<1>5. k \in 0 .. IntBits - 1
  BY <1>4, SizesOfWords
<1>6. And(v, v - 1) = 0
  BY <1>1, <1>3, <1>4, <1>5, AndOfPredecessor
<1> QED BY <1>1, <1>6 DEF Panics, v

\* The ones of a sum of powers are those it was made from.
LEMMA OnesOfNumber ==
  ASSUME NEW A \in SUBSET (0 .. IntBits - 1)
  PROVE  Ones(Number(A)) = A
<1> DEFINE T == { n \in Nat : \A B \in SUBSET (0 .. n - 1) :
                    /\ Number(B) < Pow2[n]
                    /\ \A m \in Nat : Digit(2, Pow2, Number(B), m) = 1 <=> m \in B }
<1>1. 0 \in T
  <2> SUFFICES ASSUME NEW B \in SUBSET (0 .. 0 - 1)
               PROVE  /\ Number(B) < Pow2[0]
                      /\ \A m \in Nat : Digit(2, Pow2, Number(B), m) = 1 <=> m \in B
    OBVIOUS
  <2>1. B = {}
    OBVIOUS
  <2>2. Number(B) = 0
    BY <2>1, SumZero DEF Number
  <2>3. 0 < Pow2[0]
    BY Pow2Facts
  <2>4. ASSUME NEW m \in Nat PROVE Digit(2, Pow2, 0, m) = 0
    <3>1. 0 < Pow2[m]
      BY Pow2Facts
    <3> QED BY <3>1, Pow2Def, NoDigitAbove
  <2> QED BY <2>1, <2>2, <2>3, <2>4
<1>2. ASSUME NEW n \in Nat, n \in T PROVE n + 1 \in T
  <2> SUFFICES ASSUME NEW B \in SUBSET (0 .. (n + 1) - 1)
               PROVE  /\ Number(B) < Pow2[n + 1]
                      /\ \A m \in Nat : Digit(2, Pow2, Number(B), m) = 1 <=> m \in B
    OBVIOUS
  <2> DEFINE C == B \ {n}
             w == Number(C)
             d == IF n \in B THEN 1 ELSE 0
             v == w + d * Pow2[n]
  <2>1. C \in SUBSET (0 .. n - 1)
    <3> SUFFICES ASSUME NEW m \in C PROVE m \in 0 .. n - 1
      OBVIOUS
    <3>1. m \in 0 .. (n + 1) - 1 /\ m # n
      OBVIOUS
    <3> QED BY <3>1
  <2> HIDE DEF C
  <2>2. /\ w \in Nat /\ w < Pow2[n]
        /\ \A m \in Nat : Digit(2, Pow2, w, m) = 1 <=> m \in C
    BY <1>2, <2>1, BitsFinite
  <2>3. Number(B) = v
    <3>1. IsFiniteSet(B) /\ \A m \in B : Pow2[m] \in Nat
      <4>1. \A m \in B : m \in Nat
        OBVIOUS
      <4>2. IsFiniteSet(B)
        <5>1. n + 1 \in Nat
          OBVIOUS
        <5> QED BY <5>1, BitsFinite
      <4> QED BY <4>1, <4>2, Pow2Facts
    <3>2. CASE n \in B
      <4>1. SumOn(Pow2, B) = SumOn(Pow2, C) + Pow2[n]
        BY <3>1, <3>2, SumTakeOut DEF C
      <4>2. d * Pow2[n] = Pow2[n]
        BY <3>2, Pow2Facts
      <4> QED BY <4>1, <4>2 DEF Number
    <3>3. CASE n \notin B
      <4>1. C = B
        BY <3>3 DEF C
      <4>2. d * Pow2[n] = 0
        BY <3>3, Pow2Facts
      <4> QED BY <2>2, <4>1, <4>2
    <3> QED BY <3>2, <3>3
  <2>4. d \in 0 .. 2 - 1
    OBVIOUS
  <2> HIDE DEF w, d
  <2>5. /\ v \in Nat /\ v < Pow2[n + 1]
        /\ Digit(2, Pow2, v, n) = d
        /\ \A m \in Nat : m < n => Digit(2, Pow2, v, m) = Digit(2, Pow2, w, m)
    BY <2>2, <2>4, Pow2Def, WriteDigit
  <2> HIDE DEF v
  <2>6. ASSUME NEW m \in Nat PROVE Digit(2, Pow2, v, m) = 1 <=> m \in B
    <3>1. CASE m < n
      <4>1. m \in B <=> m \in C
        BY <3>1 DEF C
      <4> QED BY <2>2, <2>5, <3>1, <4>1
    <3>2. CASE m = n
      BY <2>5, <3>2 DEF d
    <3>3. CASE m > n
      <4>1. m \notin B
        BY <3>3
      <4>2. v < Pow2[m]
        <5>1. n + 1 <= m
          BY <3>3
        <5>2. Pow2[n + 1] <= Pow2[m] /\ Pow2[n + 1] \in Nat /\ Pow2[m] \in Nat
          BY <5>1, Pow2Facts, Pow2Monotone
        <5> QED BY <2>5, <5>2
      <4>3. Digit(2, Pow2, v, m) = 0
        BY <2>5, <4>2, Pow2Def, NoDigitAbove
      <4> QED BY <4>1, <4>3
    <3> QED BY <3>1, <3>2, <3>3
  <2> QED BY <2>3, <2>5, <2>6
<1>3. Nat \subseteq T
  <2> HIDE DEF T
  <2> QED BY <1>1, <1>2, Induction
<1>4. \A m \in Nat : Digit(2, Pow2, Number(A), m) = 1 <=> m \in A
  BY <1>3, SizesOfWords
<1>5. Ones(Number(A)) = { m \in 0 .. IntBits - 1 : Digit(2, Pow2, Number(A), m) = 1 }
  BY OnesAreDigits
<1>6. \A m \in 0 .. IntBits - 1 : m \in Nat
  BY SizesOfWords
<1>7. \A m \in Ones(Number(A)) : m \in A
  BY <1>4, <1>5, <1>6
<1>8. \A m \in A : m \in Ones(Number(A))
  BY <1>4, <1>5, <1>6
<1> QED BY <1>7, <1>8

\* The mask of newShardedAdmitter leads to all of the shards just if they are a
\* power of two.
THEOREM ShardsAllReached == ShardsReached
<1> SUFFICES ASSUME NEW c \in Configs, c.shards <= UInt32Size
             PROVE  (\A n \in 0 .. c.shards - 1 :
                       \E x \in 0 .. UInt32Size - 1 : ShardOf(x, c) = n) <=> IsPow2(c.shards)
  BY DEF ShardsReached
<1> DEFINE v == c.shards
           w == v - 1
<1>1. v \in Nat \ {0} /\ w \in Nat /\ w < UInt32Size /\ w < Pow2[IntBits]
  BY Lengths, SizesOfWords
<1>2. \A x : ShardOf(x, c) = And(x, w)
  <2>1. w = UInt32Size * 0 + w /\ w \in 0 .. UInt32Size - 1
    BY <1>1, SizesOfWords
  <2> HIDE DEF w
  <2>2. w % UInt32Size = w
    BY <1>1, <2>1, SizesOfWords, DivUnique
  <2> QED BY <2>2 DEF ShardOf, w
<1>3. ASSUME IsPow2(v), NEW n \in 0 .. v - 1
      PROVE  \E x \in 0 .. UInt32Size - 1 : ShardOf(x, c) = n
  <2>1. PICK k \in 0 .. IntBits : v = Pow2[k]
    BY <1>3 DEF IsPow2
  <2>2. k \in 0 .. Span
    <3>1. ASSUME k > Span PROVE FALSE
      <4>1. k \in Nat /\ Pow2[Span] < Pow2[k] /\ Pow2[k] \in Nat
        BY <3>1, SizesOfWords, Pow2Facts
      <4> QED BY <2>1, <4>1, SizesOfWords
    <3> QED BY <3>1, SizesOfWords
  <2>3. And(n, w) = n
    BY <2>1, <2>2, MaskKeeps
  <2>4. n \in 0 .. UInt32Size - 1
    BY <1>1, SizesOfWords
  <2> QED BY <1>2, <2>3, <2>4
<1>4. ASSUME \A n \in 0 .. v - 1 : \E x \in 0 .. UInt32Size - 1 : ShardOf(x, c) = n
      PROVE  IsPow2(v)
  <2>1. CASE w = 0
    <3>1. v = Pow2[0] /\ 0 \in 0 .. IntBits
      BY <1>1, <2>1, SizesOfWords, Pow2Def DEF PowersOf
    <3> QED BY <3>1 DEF IsPow2
  <2>2. CASE w # 0
    <3> HIDE DEF w
    <3>1. PICK k \in 0 .. IntBits - 1 :
            Pow2[k] <= w /\ w < Pow2[k + 1] /\ \A n \in Ones(w) : n <= k
      BY <1>1, <2>2, TopOne
    <3>2. k \in Nat /\ Pow2[k] \in Nat
      BY SizesOfWords, Pow2Facts
    <3>3. ASSUME NEW j \in 0 .. (k + 1) - 1 PROVE j \in Ones(w)
      <4>1. j \in 0 .. IntBits - 1 /\ j \in Nat /\ j <= k
        BY <3>2, SizesOfWords
      <4>2. Pow2[j] <= Pow2[k] /\ Pow2[j] \in Nat
        BY <3>2, <4>1, Pow2Facts, Pow2Monotone
      <4>3. Pow2[j] \in 0 .. v - 1
        BY <1>1, <3>1, <3>2, <4>2 DEF w
      <4>4. PICK x \in 0 .. UInt32Size - 1 : And(x, w) = Pow2[j]
        BY <1>2, <1>4, <4>3
      <4>5. Number(Ones(x) \cap Ones(w)) = Pow2[j]
        BY <4>4 DEF And
      <4>6. Number({j}) = Pow2[j]
        BY <4>2, SumSingleton DEF Number
      <4>7. Ones(x) \cap Ones(w) = {j}
        <5>1. Ones(x) \cap Ones(w) \in SUBSET (0 .. IntBits - 1) /\ {j} \in SUBSET (0 .. IntBits - 1)
          BY <4>1 DEF Ones
        <5>2. Ones(Number(Ones(x) \cap Ones(w))) = Ones(x) \cap Ones(w)
          BY <5>1, OnesOfNumber
        <5>3. Ones(Number({j})) = {j}
          BY <5>1, OnesOfNumber
        <5> QED BY <4>5, <4>6, <5>2, <5>3
      <4> QED BY <4>7
    <3>4. Ones(w) = 0 .. (k + 1) - 1
      <4>1. ASSUME NEW n \in Ones(w) PROVE n \in 0 .. (k + 1) - 1
        <5>1. n \in 0 .. IntBits - 1 /\ n <= k
          BY <3>1 DEF Ones
        <5> QED BY <3>2, <5>1
      <4> QED BY <3>3, <4>1
    <3>5. w = Pow2[k + 1] - 1
      <4>1. Number(Ones(w)) = w
        BY <1>1, NumberOfOnes
      <4> QED BY <3>2, <3>4, <4>1, NumberOfFirst
    <3>6. v = Pow2[k + 1] /\ k + 1 \in 0 .. IntBits
      <4>1. Pow2[k + 1] \in Nat
        BY <3>2, Pow2Facts
      <4> QED BY <1>1, <3>2, <3>5, <4>1, SizesOfWords DEF w
    <3> QED BY <3>6 DEF IsPow2
  <2> QED BY <2>1, <2>2
<1> QED BY <1>3, <1>4
=============================================================================
