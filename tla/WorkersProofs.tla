--------------------------- MODULE WorkersProofs ---------------------------
(***************************************************************************)
(* For any number of consumers and any limit: evictions are counted once,  *)
(* and consumers that evict side by side go below the limit by fewer       *)
(* entries than there are consumers.  The telemetry loop beside them logs  *)
(* nothing twice.                                                          *)
(***************************************************************************)
EXTENDS Workers, NumberTheorems, FiniteSetTheorems, TLAPS

\* A consumer's locals at each place: nothing is freed outside an eviction, and
\* each entry freed has used up an iteration.
LocalsOK ==
  \A c \in Consumers :
    /\ consumer[c] \in {"select", "woken", "ended"} => freed[c] = 0
    /\ consumer[c] \in {"evict", "take", "settle"} => freed[c] + backoff[c] <= Spins
    /\ consumer[c] \in {"take", "settle"} => backoff[c] > 0

\* The consumers that have found usage above the limit and are acting on it.
Acting == { c \in Consumers : consumer[c] \in {"take", "settle"} }

\* Each of them may still take one entry.
Overshoot ==
  Acting # {} =>
    mem + drops >= SoftLimit + 1 - Cardinality(Consumers) + Cardinality(Acting)

IInv == TypeOK /\ LocalsOK /\ EvictionsLedger /\ Overshoot

-----------------------------------------------------------------------------
(* Sets of consumers *)

LEMMA SetsFinite ==
  /\ IsFiniteSet(Settling) /\ Cardinality(Settling) \in Nat
  /\ IsFiniteSet(Acting) /\ Cardinality(Acting) \in Nat
  /\ Cardinality(Acting) <= Cardinality(Consumers)
  /\ Cardinality(Consumers) \in Nat
<1>1. Settling \subseteq Consumers /\ Acting \subseteq Consumers
  BY DEF Settling, Acting
<1> QED BY <1>1, ConsumersAssumption, FS_Subset, FS_CardinalityType

LEMMA SetsFiniteNext ==
  /\ IsFiniteSet(Settling') /\ Cardinality(Settling') \in Nat
  /\ IsFiniteSet(Acting') /\ Cardinality(Acting') \in Nat
  /\ Cardinality(Acting') <= Cardinality(Consumers)
<1>1. Settling' \subseteq Consumers /\ Acting' \subseteq Consumers
  BY DEF Settling, Acting
<1> QED BY <1>1, ConsumersAssumption, FS_Subset, FS_CardinalityType

LEMMA Adding ==
  ASSUME NEW S, IsFiniteSet(S), NEW x, x \notin S, NEW T, T = S \cup {x}
  PROVE  Cardinality(T) = Cardinality(S) + 1
BY FS_AddElement

LEMMA Removing ==
  ASSUME NEW S, IsFiniteSet(S), NEW x \in S, NEW T, T = S \ {x}
  PROVE  Cardinality(T) = Cardinality(S) - 1
BY FS_RemoveElement

\* What the sets are once consumer c has gone to l.
LEMMA GotoSets ==
  ASSUME TypeOK, NEW c \in Consumers, NEW l, Goto(c, l)
  PROVE  /\ Settling' = IF l = "settle" THEN Settling \cup {c} ELSE Settling \ {c}
         /\ Acting' = IF l \in {"take", "settle"} THEN Acting \cup {c} ELSE Acting \ {c}
BY DEF TypeOK, Goto, Settling, Acting

LEMMA SameSets ==
  ASSUME UNCHANGED consumer
  PROVE  Settling' = Settling /\ Acting' = Acting
BY DEF Settling, Acting

LEMMA FreedType ==
  TypeOK => SumOn(freed, Consumers) \in Nat
BY ConsumersAssumption, SumType DEF TypeOK

-----------------------------------------------------------------------------

LEMMA InitIInv == Init => IInv
<1> SUFFICES ASSUME Init PROVE IInv
  OBVIOUS
<1>1. TypeOK
  <2>1. writes \in 0 .. MaxWrites /\ drops \in 0 .. MaxDrops
    BY ClientsAssumption DEF Init
  <2>2. /\ backoff \in [Consumers -> 0 .. Spins]
        /\ freed \in [Consumers -> 0 .. Spins]
    BY SoftLimitAssumption DEF Init
  <2> QED BY <2>1, <2>2 DEF Init, TypeOK
<1>2. LocalsOK
  BY DEF Init, LocalsOK
<1>3. Settling = {} /\ Acting = {}
  BY DEF Init, Settling, Acting
<1>4. SumOn(freed, Consumers) = 0
  BY SumZero DEF Init
<1> QED BY <1>1, <1>2, <1>3, <1>4, FS_EmptySet DEF Init, IInv, EvictionsLedger, Overshoot

LEMMA StepType == IInv /\ [Next]_vars => TypeOK'
<1> SUFFICES ASSUME IInv, [Next]_vars PROVE TypeOK'
  OBVIOUS
<1> USE SoftLimitAssumption, ClientsAssumption
      DEF IInv, TypeOK, LocalsOK, cacheVars, consumerVars, Goto
<1>0. mem >= held
  BY SetsFinite DEF EvictionsLedger
<1>1. CASE Grow
  BY <1>1 DEF Grow
<1>2. CASE Drop
  BY <1>0, <1>2 DEF Drop
<1>3. CASE ProviderTick \/ ProviderStop \/ Close
  BY <1>3 DEF ProviderTick, ProviderStop, Close
<1>4. ASSUME NEW c \in Consumers, ProviderHands(c) \/ ConsumerStop(c) PROVE TypeOK'
  BY <1>4 DEF ProviderHands, ConsumerStop
<1>5. ASSUME NEW c \in Consumers, BeginEvict(c) \/ CheckLimit(c) PROVE TypeOK'
  BY <1>5 DEF BeginEvict, CheckLimit
<1>6. ASSUME NEW c \in Consumers, Miss(c) PROVE TypeOK'
  BY <1>6 DEF Miss
<1>7. ASSUME NEW c \in Consumers, Take(c) PROVE TypeOK'
  BY <1>7 DEF Take
<1>8. ASSUME NEW c \in Consumers, Settle(c) PROVE TypeOK'
  <2>1. mem > 0
    <3>1. c \in Settling /\ Cardinality(Settling) # 0
      BY <1>8, SetsFinite, FS_EmptySet DEF Settle, Settling
    <3> QED BY <3>1, SetsFinite DEF EvictionsLedger
  <2>2. freed[c] + 1 \in 0 .. Spins /\ backoff[c] - 1 \in 0 .. Spins
    BY <1>8 DEF Settle
  <2> QED BY <1>8, <2>1, <2>2 DEF Settle
<1>9. ASSUME NEW c \in Consumers, EndEvict(c) \/ Count(c) PROVE TypeOK'
  BY <1>9 DEF EndEvict, Count
<1>10. ASSUME NEW f \in Callers, ForceCall(f) \/ CallerLeaves(f) PROVE TypeOK'
  BY <1>10 DEF ForceCall, CallerLeaves
<1>11. ASSUME NEW f \in Callers, NEW c \in Consumers, CallerHands(f, c) PROVE TypeOK'
  BY <1>11 DEF CallerHands
<1>12. CASE UNCHANGED vars
  BY <1>12 DEF vars
<1> QED BY <1>1, <1>2, <1>3, <1>4, <1>5, <1>6, <1>7, <1>8, <1>9, <1>10, <1>11, <1>12
      DEF Next, Consume

LEMMA StepLocals == IInv /\ [Next]_vars => LocalsOK'
<1> SUFFICES ASSUME IInv, [Next]_vars PROVE LocalsOK'
  OBVIOUS
<1> USE SoftLimitAssumption DEF IInv, TypeOK, LocalsOK, cacheVars, consumerVars, Goto
<1>1. ASSUME UNCHANGED consumerVars PROVE LocalsOK'
  BY <1>1
<1>2. ASSUME Grow \/ Drop \/ ProviderTick \/ ProviderStop \/ Close \/ UNCHANGED vars
      PROVE  UNCHANGED consumerVars
  BY <1>2 DEF Grow, Drop, ProviderTick, ProviderStop, Close, vars
<1>3. ASSUME NEW f \in Callers, ForceCall(f) \/ CallerLeaves(f)
      PROVE  UNCHANGED consumerVars
  BY <1>3 DEF ForceCall, CallerLeaves
<1>4. ASSUME NEW c \in Consumers, NEW f \in Callers, CallerHands(f, c) PROVE LocalsOK'
  BY <1>4 DEF CallerHands
<1>5. ASSUME NEW c \in Consumers, ProviderHands(c) \/ ConsumerStop(c) PROVE LocalsOK'
  BY <1>5 DEF ProviderHands, ConsumerStop
<1>6. ASSUME NEW c \in Consumers, BeginEvict(c) \/ CheckLimit(c) PROVE LocalsOK'
  BY <1>6 DEF BeginEvict, CheckLimit
<1>7. ASSUME NEW c \in Consumers, Miss(c) \/ Take(c) PROVE LocalsOK'
  BY <1>7 DEF Miss, Take
<1>8. ASSUME NEW c \in Consumers, Settle(c) PROVE LocalsOK'
  BY <1>8 DEF Settle
<1>9. ASSUME NEW c \in Consumers, EndEvict(c) \/ Count(c) PROVE LocalsOK'
  BY <1>9 DEF EndEvict, Count
<1> QED BY <1>1, <1>2, <1>3, <1>4, <1>5, <1>6, <1>7, <1>8, <1>9 DEF Next, Consume

LEMMA StepLedger == IInv /\ [Next]_vars => EvictionsLedger'
<1> SUFFICES ASSUME IInv, [Next]_vars PROVE EvictionsLedger'
  OBVIOUS
<1> DEFINE Owed == SumOn(freed, Consumers)
<1> USE DEF IInv
<1>0. /\ mem = held + Cardinality(Settling) /\ writes = mem + drops + evicted + Owed
      /\ Owed \in Nat /\ Cardinality(Settling) \in Nat
      /\ {held, mem, writes, drops, evicted} \subseteq Int
  BY SetsFinite, FreedType DEF EvictionsLedger, TypeOK
<1>1. ASSUME UNCHANGED <<consumer, freed>>
      PROVE  Settling' = Settling /\ Owed' = Owed
  BY <1>1, SameSets
<1>2. CASE Grow
  <2>1. Settling' = Settling /\ Owed' = Owed
    BY <1>1, <1>2 DEF Grow, consumerVars
  <2> QED BY <1>0, <1>2, <2>1 DEF Grow, EvictionsLedger
<1>3. CASE Drop
  <2>1. Settling' = Settling /\ Owed' = Owed
    BY <1>1, <1>3 DEF Drop, consumerVars
  <2> QED BY <1>0, <1>3, <2>1 DEF Drop, EvictionsLedger
<1>4. ASSUME UNCHANGED <<cacheVars, evicted>>, Settling' = Settling, Owed' = Owed
      PROVE  EvictionsLedger'
  BY <1>0, <1>4 DEF EvictionsLedger, cacheVars
<1>5. ASSUME ProviderTick \/ ProviderStop \/ Close \/ UNCHANGED vars
      PROVE  UNCHANGED <<cacheVars, evicted, consumer, freed>>
  BY <1>5 DEF ProviderTick, ProviderStop, Close, vars, consumerVars
<1>6. ASSUME NEW f \in Callers, ForceCall(f) \/ CallerLeaves(f)
      PROVE  UNCHANGED <<cacheVars, evicted, consumer, freed>>
  BY <1>6 DEF ForceCall, CallerLeaves, consumerVars
\* The steps of a consumer that neither take an entry nor count one.
<1>7. ASSUME NEW c \in Consumers, NEW l, Goto(c, l), l # "settle", consumer[c] # "settle",
             UNCHANGED <<cacheVars, evicted, freed>>
      PROVE  EvictionsLedger'
  <2>1. Settling' = Settling
    BY <1>7, GotoSets DEF Settling
  <2> QED BY <1>4, <1>7, <2>1
<1>8. ASSUME NEW c \in Consumers, NEW f \in Callers, CallerHands(f, c)
      PROVE  EvictionsLedger'
  BY <1>7, <1>8 DEF CallerHands
<1>9. ASSUME NEW c \in Consumers, ProviderHands(c) \/ ConsumerStop(c)
      PROVE  EvictionsLedger'
  BY <1>7, <1>9 DEF ProviderHands, ConsumerStop
<1>10. ASSUME NEW c \in Consumers, BeginEvict(c) \/ CheckLimit(c) \/ Miss(c) \/ EndEvict(c)
       PROVE  EvictionsLedger'
  <2>1. CASE BeginEvict(c) /\ mem > SoftLimit
    BY <1>7, <2>1 DEF BeginEvict
  <2>2. CASE BeginEvict(c) /\ ~(mem > SoftLimit)
    BY <1>7, <2>2 DEF BeginEvict
  <2>3. CASE CheckLimit(c) \/ Miss(c)
    BY <1>7, <2>3 DEF CheckLimit, Miss
  <2>4. CASE EndEvict(c)
    <3>1. PICK l \in {"count", "select"} : Goto(c, l)
      BY <2>4 DEF EndEvict
    <3> QED BY <1>7, <2>4, <3>1 DEF EndEvict
  <2> QED BY <1>10, <2>1, <2>2, <2>3, <2>4
<1>11. ASSUME NEW c \in Consumers, Take(c) PROVE EvictionsLedger'
  <2>1. Cardinality(Settling') = Cardinality(Settling) + 1
    <3>1. Settling' = Settling \cup {c} /\ c \notin Settling
      BY <1>11, GotoSets DEF Take, Settling
    <3> QED BY <3>1, SetsFinite, Adding
  <2> QED BY <1>0, <1>11, <2>1 DEF Take, EvictionsLedger
<1>12. ASSUME NEW c \in Consumers, Settle(c) PROVE EvictionsLedger'
  <2>1. Cardinality(Settling') = Cardinality(Settling) - 1
    <3>1. Settling' = Settling \ {c} /\ c \in Settling
      BY <1>12, GotoSets DEF Settle, Settling
    <3> QED BY <3>1, SetsFinite, Removing
  <2>2. Owed' = Owed + 1
    <3>1. /\ \A d \in Consumers : freed[d] \in Nat /\ freed'[d] \in Nat
          /\ \A d \in Consumers \ {c} : freed'[d] = freed[d]
          /\ freed'[c] = freed[c] + 1
      BY <1>12, SoftLimitAssumption DEF Settle, TypeOK
    <3>2. Owed' = Owed + (freed'[c] - freed[c])
      BY <3>1, SumUpdate, ConsumersAssumption
    <3> QED BY <1>0, <3>1, <3>2
  <2> QED BY <1>0, <1>12, <2>1, <2>2 DEF Settle, EvictionsLedger
<1>13. ASSUME NEW c \in Consumers, Count(c) PROVE EvictionsLedger'
  <2>1. Settling' = Settling
    BY <1>13, GotoSets DEF Count, Settling
  <2>2. freed[c] \in Int /\ Owed' = Owed - freed[c]
    <3>1. /\ \A d \in Consumers : freed[d] \in Nat /\ freed'[d] \in Nat
          /\ \A d \in Consumers \ {c} : freed'[d] = freed[d]
          /\ freed'[c] = 0
      BY <1>13, SoftLimitAssumption DEF Count, TypeOK
    <3>2. Owed' = Owed + (freed'[c] - freed[c])
      BY <3>1, SumUpdate, ConsumersAssumption
    <3> QED BY <1>0, <3>1, <3>2
  <2> QED BY <1>0, <1>13, <2>1, <2>2 DEF Count, EvictionsLedger, cacheVars
<1> QED BY <1>1, <1>2, <1>3, <1>4, <1>5, <1>6, <1>8, <1>9, <1>10, <1>11, <1>12, <1>13
      DEF Next, Consume

LEMMA StepOvershoot == IInv /\ [Next]_vars => Overshoot'
<1> SUFFICES ASSUME IInv, [Next]_vars PROVE Overshoot'
  OBVIOUS
<1> USE DEF IInv
<1>0. /\ Cardinality(Acting) \in Nat /\ Cardinality(Consumers) \in Nat
      /\ {mem, drops, SoftLimit} \subseteq Int
      /\ Cardinality(Acting') \in Nat /\ Cardinality(Acting') <= Cardinality(Consumers)
  BY SetsFinite, SetsFiniteNext, SoftLimitAssumption DEF TypeOK
<1>1. ASSUME Acting' = Acting, mem' + drops' >= mem + drops, mem' \in Int, drops' \in Int
      PROVE  Overshoot'
  BY <1>0, <1>1 DEF Overshoot
<1>2. CASE Grow \/ Drop
  BY <1>0, <1>1, <1>2, SameSets DEF Grow, Drop, consumerVars
<1>3. ASSUME UNCHANGED <<consumer, mem, drops>> PROVE Overshoot'
  BY <1>0, <1>1, <1>3, SameSets
<1>4. ASSUME ProviderTick \/ ProviderStop \/ Close \/ UNCHANGED vars
      PROVE  UNCHANGED <<consumer, mem, drops>>
  BY <1>4 DEF ProviderTick, ProviderStop, Close, vars, cacheVars, consumerVars
<1>5. ASSUME NEW f \in Callers, ForceCall(f) \/ CallerLeaves(f)
      PROVE  UNCHANGED <<consumer, mem, drops>>
  BY <1>5 DEF ForceCall, CallerLeaves, cacheVars, consumerVars
\* The steps of a consumer that is not acting and will not.
<1>6. ASSUME NEW c \in Consumers, NEW l, Goto(c, l), l \notin {"take", "settle"},
             consumer[c] \notin {"take", "settle"}, UNCHANGED <<mem, drops>>
      PROVE  Overshoot'
  <2>1. Acting' = Acting
    BY <1>6, GotoSets DEF Acting
  <2> QED BY <1>0, <1>1, <1>6, <2>1
<1>7. ASSUME NEW c \in Consumers, NEW f \in Callers, CallerHands(f, c) PROVE Overshoot'
  BY <1>6, <1>7 DEF CallerHands, cacheVars
<1>8. ASSUME NEW c \in Consumers,
             ProviderHands(c) \/ ConsumerStop(c) \/ BeginEvict(c) \/ EndEvict(c) \/ Count(c)
      PROVE  Overshoot'
  <2>1. PICK l \in {"woken", "ended", "evict", "select", "count"} :
          Goto(c, l) /\ consumer[c] \notin {"take", "settle"} /\ UNCHANGED <<mem, drops>>
    BY <1>8 DEF ProviderHands, ConsumerStop, BeginEvict, EndEvict, Count, cacheVars
  <2> QED BY <1>6, <2>1
<1>9. ASSUME NEW c \in Consumers, CheckLimit(c) PROVE Overshoot'
  <2>1. mem' >= SoftLimit + 1 /\ mem' \in Int /\ drops' >= 0 /\ drops' \in Int
    BY <1>0, <1>9 DEF CheckLimit, cacheVars, TypeOK
  <2> QED BY <1>0, <2>1 DEF Overshoot
<1>10. ASSUME NEW c \in Consumers, Miss(c) \/ Settle(c) PROVE Overshoot'
  <2>1. Acting' = Acting \ {c} /\ c \in Acting
    BY <1>10, GotoSets DEF Miss, Settle, Acting
  <2>2. Cardinality(Acting') = Cardinality(Acting) - 1
    BY <2>1, SetsFinite, Removing
  <2>3. UNCHANGED drops /\ mem' >= mem - 1 /\ mem' \in Int
    BY <1>0, <1>10 DEF Miss, Settle, cacheVars
  <2> QED BY <1>0, <2>1, <2>2, <2>3 DEF Overshoot
<1>11. ASSUME NEW c \in Consumers, Take(c) PROVE Overshoot'
  <2>1. Acting' = Acting /\ UNCHANGED <<mem, drops>>
    BY <1>11, GotoSets DEF Take, Acting
  <2> QED BY <1>0, <1>1, <2>1
<1> QED BY <1>2, <1>3, <1>4, <1>5, <1>7, <1>8, <1>9, <1>10, <1>11 DEF Next, Consume

LEMMA EvictorInvariant == Spec => []IInv
<1>1. IInv /\ [Next]_vars => IInv'
  BY StepType, StepLocals, StepLedger, StepOvershoot DEF IInv
<1> QED BY <1>1, InitIInv, PTL DEF Spec

\* For any number of consumers that evict side by side, and whatever clients insert
\* and remove, each entry that left the cache is accounted for once.
THEOREM LedgerAlwaysHolds == Spec => []EvictionsLedger
BY EvictorInvariant, PTL DEF IInv

\* N consumers bring usage below the limit by N - 1 entries at most, besides what
\* clients removed, for any N and any limit.
THEOREM AlwaysEvictsToLimit == Spec => EvictsToLimit
<1>1. ASSUME IInv, NEW c \in Consumers, Settle(c)
      PROVE  mem' + drops >= SoftLimit + 1 - Cardinality(Consumers)
  <2>1. c \in Acting
    BY <1>1 DEF Settle, Acting
  <2>2. Cardinality(Acting) \in Nat /\ Cardinality(Acting) # 0
    BY <2>1, SetsFinite, FS_EmptySet
  <2>3. mem + drops >= SoftLimit + 1 - Cardinality(Consumers) + Cardinality(Acting)
    BY <1>1, <2>1 DEF IInv, Overshoot
  <2>4. mem' = mem - 1 /\ mem \in Int /\ drops \in Int /\ SoftLimit \in Int
    BY <1>1, SoftLimitAssumption DEF Settle, IInv, TypeOK
  <2> QED BY <2>2, <2>3, <2>4, SetsFinite
<1>2. IInv => [\A c \in Consumers :
                Settle(c) => mem' + drops >= SoftLimit + 1 - Cardinality(Consumers)]_vars
  BY <1>1
<1> QED BY <1>2, EvictorInvariant, PTL DEF EvictsToLimit, Spec

-----------------------------------------------------------------------------
(* The telemetry loop beside the evictor *)

\* The evictor runs inside the composition as it does alone.
THEOREM WorkersRunEvictor == WorkersSpec => Spec
<1>1. WorkersInit => Init
  BY DEF WorkersInit
<1>2. [WorkersNext]_workersVars => [Next]_vars
  BY DEF WorkersNext, EvictorStep, LogsStep, CloseAll, workersVars
<1> QED BY <1>1, <1>2, PTL DEF WorkersSpec, Spec

\* What was logged is what the last snapshot showed.
LogsInv == prev = logged /\ logged \in Nat /\ LoggedOnce

LEMMA EvictedGrows == IInv /\ [Next]_vars => evicted' >= evicted
<1> SUFFICES ASSUME IInv, [Next]_vars PROVE evicted' >= evicted
  OBVIOUS
<1> USE DEF IInv, TypeOK
<1>1. ASSUME UNCHANGED evicted PROVE evicted' >= evicted
  BY <1>1
<1>2. ASSUME NEW c \in Consumers, Count(c) PROVE evicted' >= evicted
  BY <1>2, SoftLimitAssumption DEF Count
<1>3. ASSUME Grow \/ Drop \/ ProviderTick \/ ProviderStop \/ Close \/ UNCHANGED vars
      PROVE  UNCHANGED evicted
  BY <1>3 DEF Grow, Drop, ProviderTick, ProviderStop, Close, vars
<1>4. ASSUME NEW f \in Callers,
             ForceCall(f) \/ CallerLeaves(f) \/ \E c \in Consumers : CallerHands(f, c)
      PROVE  UNCHANGED evicted
  BY <1>4 DEF ForceCall, CallerLeaves, CallerHands
<1>5. ASSUME NEW c \in Consumers,
             \/ ProviderHands(c) \/ ConsumerStop(c) \/ BeginEvict(c) \/ CheckLimit(c)
             \/ Miss(c) \/ Take(c) \/ Settle(c) \/ EndEvict(c)
      PROVE  UNCHANGED evicted
  BY <1>5 DEF ProviderHands, ConsumerStop, BeginEvict, CheckLimit, Miss, Take, Settle, EndEvict
<1> QED BY <1>1, <1>2, <1>3, <1>4, <1>5 DEF Next, Consume

LEMMA LogsInvariant == WorkersSpec => []LogsInv
<1>1. WorkersInit => LogsInv
  BY DEF WorkersInit, Init, LogsInv, LoggedOnce, Logs!LogsInit
<1>2. IInv /\ LogsInv /\ [WorkersNext]_workersVars => LogsInv'
  <2> SUFFICES ASSUME IInv, LogsInv, [WorkersNext]_workersVars PROVE LogsInv'
    OBVIOUS
  <2>0. evicted \in Nat /\ logged <= evicted /\ logged \in Nat /\ prev = logged
    BY DEF IInv, TypeOK, LogsInv, LoggedOnce
  <2>1. CASE EvictorStep
    <3>1. evicted' >= evicted /\ evicted' \in Nat
      BY <2>1, EvictedGrows, StepType DEF EvictorStep, TypeOK
    <3> QED BY <2>0, <2>1, <3>1 DEF EvictorStep, logsVars, LogsInv, LoggedOnce
  <2>2. CASE LogsStep
    <3>1. evicted' = evicted
      BY <2>2 DEF LogsStep, vars
    <3>2. CASE Logs!LogsStart
      BY <2>0, <3>1, <3>2 DEF Logs!LogsStart, LogsInv, LoggedOnce
    <3>3. CASE Logs!Log
      BY <2>0, <3>1, <3>3 DEF Logs!Log, Logs!Delta, LogsInv, LoggedOnce
    <3>4. CASE Logs!LogsStop \/ Logs!LogsClose
      BY <2>0, <3>1, <3>4 DEF Logs!LogsStop, Logs!LogsClose, LogsInv, LoggedOnce
    <3> QED BY <2>2, <3>2, <3>3, <3>4 DEF LogsStep, Logs!LogsNext
  <2>3. CASE CloseAll \/ UNCHANGED workersVars
    BY <2>0, <2>3 DEF CloseAll, workersVars, vars, logsVars, LogsInv, LoggedOnce
  <2> QED BY <2>1, <2>2, <2>3 DEF WorkersNext
<1> QED BY <1>1, <1>2, WorkersRunEvictor, EvictorInvariant, PTL DEF WorkersSpec

\* However the loop's ticks fall between evictions, it logs no eviction twice, and
\* none that was not counted.
THEOREM LoggedAlwaysOnce == WorkersSpec => []LoggedOnce
BY LogsInvariant, PTL DEF LogsInv

LoopOK == Logs!LogsTypeOK /\ closed \in BOOLEAN

\* Map.mem and the counters never go negative, and iterations run out, for any
\* consumers, callers, limit and iterations.
THEOREM WorkersTypeCorrect == WorkersSpec => []WorkersTypeOK
<1>1. WorkersInit => LoopOK
  <2> SUFFICES ASSUME WorkersInit PROVE LoopOK
    OBVIOUS
  <2> USE DEF LoopOK, Logs!LogsTypeOK
  <2>1. /\ logsDone = FALSE /\ closed = FALSE /\ loop = "new"
        /\ prev = 0 /\ logged = 0
    BY Zenon DEF WorkersInit, Logs!LogsInit
  <2>2. logsDone \in BOOLEAN /\ closed \in BOOLEAN
    BY <2>1, Zenon
  <2>3. loop \in {"new", "select", "ended"}
    BY <2>1, Zenon
  <2>4. prev \in Nat /\ logged \in Nat
    BY <2>1
  <2> QED BY <2>2, <2>3, <2>4, Zenon
<1>2. /\ TypeOK /\ LogsInv' /\ [WorkersNext]_workersVars
      /\ LoopOK
      => LoopOK'
  <2> SUFFICES ASSUME TypeOK, LogsInv', [WorkersNext]_workersVars,
                      LoopOK
               PROVE  LoopOK'
    OBVIOUS
  <2> USE DEF LoopOK, Logs!LogsTypeOK
  <2>0. prev' \in Nat /\ logged' \in Nat
    BY DEF LogsInv
  <2>1. CASE EvictorStep \/ UNCHANGED workersVars
    BY <2>1, Zenon DEF EvictorStep, workersVars, logsVars
  <2>2. CASE CloseAll
    BY <2>2, Zenon DEF CloseAll, logsVars
  <2>3. CASE LogsStep
    <3>1. closed' \in BOOLEAN
      BY <2>3, Zenon DEF LogsStep
    <3>2. logsDone' \in BOOLEAN
      BY <2>3, Zenon DEF LogsStep, Logs!LogsNext, Logs!LogsStart, Logs!Log, Logs!LogsStop, Logs!LogsClose
    <3>3. loop' \in {"new", "select", "ended"}
      BY <2>3 DEF LogsStep, Logs!LogsNext, Logs!LogsStart, Logs!Log, Logs!LogsStop, Logs!LogsClose
    <3> QED BY <2>0, <3>1, <3>2, <3>3, Zenon
  <2> QED BY <2>1, <2>2, <2>3, Zenon DEF WorkersNext
<1>3. IInv /\ LoopOK => WorkersTypeOK
  BY DEF IInv, LoopOK, WorkersTypeOK
<1>4. IInv => TypeOK
  BY DEF IInv
<1> QED BY <1>1, <1>2, <1>3, <1>4, LogsInvariant, WorkersRunEvictor, EvictorInvariant, PTL
      DEF WorkersSpec
=============================================================================
