-------------------------- MODULE CachedTimeProofs --------------------------
(***************************************************************************)
(* For any instances and any times: doneCh is closed once, and the clock   *)
(* keeps its contract with a goroutine that reads it.                      *)
(***************************************************************************)
EXTENDS CachedTime, TLAPS

Crowd == \E i, j \in Enabled : i # j

LEMMA InitType == Init => TypeOK
<1> SUFFICES ASSUME Init PROVE TypeOK
  OBVIOUS
<1>1. real \in 0 .. MaxTime /\ nowUnix \in 0 .. MaxTime /\ seen \in 0 .. MaxTime
  BY MaxTimeAssumption DEF Init
<1>2. /\ boot \in [Instances -> {"new", "load", "store", "on", "off"}]
      /\ waiter \in [Instances -> {"none", "wait", "close", "ended"}]
      /\ ticker \in [Instances -> {"none", "select", "store", "ended"}]
  BY DEF Init
<1>3. /\ now \in [Instances -> 0 .. MaxTime]
      /\ ch \in [Instances -> 0 .. MaxTime]
      /\ tt \in [Instances -> 0 .. MaxTime]
  BY MaxTimeAssumption DEF Init
<1> QED BY <1>1, <1>2, <1>3 DEF Init, TypeOK

LEMMA StepType == TypeOK /\ [Next]_vars => TypeOK'
<1> SUFFICES ASSUME TypeOK, [Next]_vars PROVE TypeOK'
  OBVIOUS
<1> USE MaxTimeAssumption DEF TypeOK, bootVars, tickerVars, readVars
<1>1. ASSUME NEW i \in Instances, RunDisabled(i) \/ RunEnabled(i) \/ Cancel(i)
      PROVE  TypeOK'
  BY <1>1 DEF RunDisabled, RunEnabled, Cancel
<1>2. ASSUME NEW i \in Instances, LoadNow(i) \/ StoreNow(i) PROVE TypeOK'
  BY <1>2 DEF LoadNow, StoreNow
<1>3. ASSUME NEW i \in Instances, Tick(i) \/ ReceiveTick(i) PROVE TypeOK'
  BY <1>3 DEF Tick, ReceiveTick
<1>4. ASSUME NEW i \in Instances, StoreTick(i) \/ StopTicker(i) PROVE TypeOK'
  BY <1>4 DEF StoreTick, StopTicker
<1>5. ASSUME NEW i \in Instances, SwapClosed(i) PROVE TypeOK'
  BY <1>5 DEF SwapClosed
<1>6. ASSUME NEW i \in Instances, CloseDone(i) PROVE TypeOK'
  BY <1>6 DEF CloseDone
<1>7. CASE LoadClosed \/ LoadCached
  BY <1>7 DEF LoadClosed, LoadCached
<1>8. CASE Advance
  BY <1>8 DEF Advance
<1>9. CASE UNCHANGED vars
  BY <1>9 DEF vars
<1> QED BY <1>1, <1>2, <1>3, <1>4, <1>5, <1>6, <1>7, <1>8, <1>9 DEF Next, Step

\* All times stay within what the system's clock has shown, flags and places keep
\* their types, however instances start, tick and end.
THEOREM ClockTypeCorrect == Spec => []TypeOK
BY InitType, StepType, PTL DEF Spec

-----------------------------------------------------------------------------
(* doneCh *)

\* Who is about to close the channel is alone, has the flag, and comes first.
Closing ==
  /\ ~closed => closes = 0 /\ \A i \in Instances : waiter[i] # "close"
  /\ \A i \in Instances :
       waiter[i] = "close" =>
         closes = 0 /\ \A j \in Instances : waiter[j] = "close" => j = i
  /\ DoneClosedOnce

LEMMA ClosingStep == TypeOK /\ Closing /\ [Next]_vars => Closing'
<1> SUFFICES ASSUME TypeOK, Closing, [Next]_vars PROVE Closing'
  OBVIOUS
<1> USE DEF TypeOK, Closing, DoneClosedOnce, bootVars, tickerVars, readVars
<1>1. ASSUME NEW i \in Instances, RunDisabled(i) \/ RunEnabled(i) PROVE Closing'
  BY <1>1 DEF RunDisabled, RunEnabled
<1>2. ASSUME NEW i \in Instances, SwapClosed(i) PROVE Closing'
  BY <1>2 DEF SwapClosed
<1>3. ASSUME NEW i \in Instances, CloseDone(i) PROVE Closing'
  BY <1>3 DEF CloseDone
<1>4. CASE UNCHANGED <<closed, closes, waiter>>
  BY <1>4
<1>5. ASSUME NEW i \in Instances,
             \/ Cancel(i) \/ LoadNow(i) \/ StoreNow(i) \/ Tick(i)
             \/ ReceiveTick(i) \/ StoreTick(i) \/ StopTicker(i)
      PROVE  UNCHANGED <<closed, closes, waiter>>
  BY <1>5 DEF Cancel, LoadNow, StoreNow, Tick, ReceiveTick, StoreTick, StopTicker
<1>6. ASSUME LoadClosed \/ LoadCached \/ Advance \/ UNCHANGED vars
      PROVE  UNCHANGED <<closed, closes, waiter>>
  BY <1>6 DEF LoadClosed, LoadCached, Advance, vars
<1> QED BY <1>1, <1>2, <1>3, <1>4, <1>5, <1>6 DEF Next, Step

\* However many instances are cancelled at once, doneCh is closed once.
THEOREM DoneAlwaysClosedOnce == Spec => []DoneClosedOnce
<1>1. Init => Closing
  BY DEF Init, Closing, DoneClosedOnce
<1>2. Closing => DoneClosedOnce
  BY DEF Closing
<1> QED BY <1>1, <1>2, ClosingStep, ClockTypeCorrect, PTL DEF Spec

-----------------------------------------------------------------------------
(* The contract *)

\* An instance's switch, ticker and channel agree on how far it has come.
Started ==
  \A i \in Instances :
    /\ boot[i] \in {"load", "store", "on"} => waiter[i] # "none"
    /\ boot[i] = "new" => waiter[i] = "none"
    /\ ticker[i] # "none" => boot[i] = "on"
    /\ ch[i] # 0 => ticker[i] # "none"

\* No time in anybody's hands is yet to come.
NeverAhead ==
  /\ nowUnix <= real /\ seen <= real
  /\ \A i \in Instances : now[i] <= real /\ ch[i] <= real /\ tt[i] <= real

\* The instance that drives the clock alone has later times under way than the
\* one it stored.
InOrder ==
  \A i \in Enabled :
    ~Crowd =>
      /\ boot[i] = "store" => nowUnix <= now[i]
      /\ ticker[i] = "store" => nowUnix <= tt[i]
      /\ ch[i] # 0 => /\ nowUnix <= ch[i]
                      /\ ticker[i] = "store" => tt[i] <= ch[i]

\* Who has found the cached time on was shown nothing later than it.
Behind == ~Crowd /\ (~closed \/ reading) => seen <= nowUnix

ContractInv == TypeOK /\ Started /\ NeverAhead /\ InOrder /\ Behind

LEMMA StartedStep == TypeOK /\ Started /\ [Next]_vars => Started'
<1> SUFFICES ASSUME TypeOK, Started, [Next]_vars PROVE Started'
  OBVIOUS
<1> USE DEF TypeOK, Started, bootVars, tickerVars, readVars
<1>1. ASSUME NEW i \in Instances, RunDisabled(i) \/ RunEnabled(i) \/ Cancel(i)
      PROVE  Started'
  BY <1>1 DEF RunDisabled, RunEnabled, Cancel
<1>2. ASSUME NEW i \in Instances, LoadNow(i) \/ StoreNow(i) PROVE Started'
  BY <1>2 DEF LoadNow, StoreNow
<1>3. ASSUME NEW i \in Instances, Tick(i) \/ ReceiveTick(i) PROVE Started'
  BY <1>3 DEF Tick, ReceiveTick
<1>4. ASSUME NEW i \in Instances, StoreTick(i) \/ StopTicker(i) PROVE Started'
  BY <1>4 DEF StoreTick, StopTicker
<1>5. ASSUME NEW i \in Instances, SwapClosed(i) \/ CloseDone(i) PROVE Started'
  BY <1>5 DEF SwapClosed, CloseDone
<1>6. CASE LoadClosed \/ LoadCached \/ Advance
  BY <1>6 DEF LoadClosed, LoadCached, Advance
<1>7. CASE UNCHANGED vars
  BY <1>7 DEF vars
<1> QED BY <1>1, <1>2, <1>3, <1>4, <1>5, <1>6, <1>7 DEF Next, Step

\* Instances start and never leave; the crowd stays a crowd.
LEMMA CrowdGrows == TypeOK /\ [Next]_vars => (Crowd => Crowd')
<1> SUFFICES ASSUME TypeOK, [Next]_vars, Crowd PROVE Crowd'
  OBVIOUS
<1>1. \A i \in Instances : waiter[i] # "none" => waiter'[i] # "none"
  <2>1. CASE UNCHANGED waiter
    BY <2>1
  <2>2. ASSUME NEW i \in Instances, RunEnabled(i) \/ SwapClosed(i) \/ CloseDone(i)
        PROVE  \A j \in Instances : waiter[j] # "none" => waiter'[j] # "none"
    BY <2>2 DEF RunEnabled, SwapClosed, CloseDone, TypeOK
  <2>3. ASSUME NEW i \in Instances,
               \/ RunDisabled(i) \/ Cancel(i) \/ LoadNow(i) \/ StoreNow(i)
               \/ Tick(i) \/ ReceiveTick(i) \/ StoreTick(i) \/ StopTicker(i)
        PROVE  UNCHANGED waiter
    BY <2>3 DEF RunDisabled, Cancel, LoadNow, StoreNow, Tick, ReceiveTick,
                StoreTick, StopTicker, tickerVars
  <2>4. ASSUME LoadClosed \/ LoadCached \/ Advance \/ UNCHANGED vars
        PROVE  UNCHANGED waiter
    BY <2>4 DEF LoadClosed, LoadCached, Advance, vars
  <2> QED BY <2>1, <2>2, <2>3, <2>4 DEF Next, Step
<1> QED BY <1>1 DEF Crowd, Enabled

LEMMA NeverAheadStep == TypeOK /\ NeverAhead /\ [Next]_vars => NeverAhead' /\ real' >= real
<1> SUFFICES ASSUME TypeOK, NeverAhead, [Next]_vars
             PROVE  NeverAhead' /\ real' >= real
  OBVIOUS
<1> USE DEF TypeOK, NeverAhead, bootVars, tickerVars, readVars
<1>1. ASSUME NEW i \in Instances,
             RunDisabled(i) \/ RunEnabled(i) \/ Cancel(i) \/ SwapClosed(i) \/ CloseDone(i)
      PROVE  NeverAhead' /\ real' >= real
  BY <1>1 DEF RunDisabled, RunEnabled, Cancel, SwapClosed, CloseDone
<1>2. ASSUME NEW i \in Instances, LoadNow(i) \/ StoreNow(i)
      PROVE  NeverAhead' /\ real' >= real
  BY <1>2 DEF LoadNow, StoreNow
<1>3. ASSUME NEW i \in Instances, Tick(i) \/ ReceiveTick(i)
      PROVE  NeverAhead' /\ real' >= real
  BY <1>3 DEF Tick, ReceiveTick
<1>4. ASSUME NEW i \in Instances, StoreTick(i) \/ StopTicker(i)
      PROVE  NeverAhead' /\ real' >= real
  BY <1>4 DEF StoreTick, StopTicker
<1>5. CASE LoadClosed \/ LoadCached
  BY <1>5 DEF LoadClosed, LoadCached
<1>6. CASE Advance
  BY <1>6 DEF Advance
<1>7. CASE UNCHANGED vars
  BY <1>7 DEF vars
<1> QED BY <1>1, <1>2, <1>3, <1>4, <1>5, <1>6, <1>7 DEF Next, Step

\* Without a crowd, only the enabled instance has a ticker or a first time.
LEMMA Alone ==
  ASSUME ~Crowd, NEW i \in Enabled, NEW j \in Enabled
  PROVE  i = j
BY DEF Crowd

LEMMA InOrderStep ==
  TypeOK /\ Started /\ NeverAhead /\ InOrder /\ [Next]_vars => InOrder'
<1> SUFFICES ASSUME TypeOK, Started, NeverAhead, InOrder, [Next]_vars, ~Crowd',
                    NEW e \in Enabled'
             PROVE  /\ boot'[e] = "store" => nowUnix' <= now'[e]
                    /\ ticker'[e] = "store" => nowUnix' <= tt'[e]
                    /\ ch'[e] # 0 => /\ nowUnix' <= ch'[e]
                                     /\ ticker'[e] = "store" => tt'[e] <= ch'[e]
  BY DEF InOrder
<1> DEFINE Goal == /\ boot'[e] = "store" => nowUnix' <= now'[e]
                   /\ ticker'[e] = "store" => nowUnix' <= tt'[e]
                   /\ ch'[e] # 0 => /\ nowUnix' <= ch'[e]
                                    /\ ticker'[e] = "store" => tt'[e] <= ch'[e]
<1>0. ~Crowd
  BY CrowdGrows
<1>1. ASSUME NEW i \in Instances, RunEnabled(i) PROVE Goal
  <2>1. CASE e = i
    BY <1>1, <2>1 DEF RunEnabled, TypeOK, Started, tickerVars
  <2>2. CASE e # i
    BY <1>0, <1>1, <2>2 DEF RunEnabled, TypeOK, InOrder, Enabled, tickerVars
  <2> QED BY <2>1, <2>2
<1>2. ASSUME UNCHANGED <<nowUnix, now, tickerVars>>, e \in Enabled,
             boot'[e] = "store" => boot[e] = "store"
      PROVE  Goal
  BY <1>0, <1>2 DEF InOrder, tickerVars
<1>3. ASSUME NEW i \in Instances, RunDisabled(i) \/ Cancel(i) \/ SwapClosed(i) \/ CloseDone(i)
      PROVE  Goal
  <2>1. e \in Enabled
    BY <1>3 DEF RunDisabled, Cancel, SwapClosed, CloseDone, Enabled, TypeOK
  <2>2. UNCHANGED <<nowUnix, now, tickerVars>>
    BY <1>3 DEF RunDisabled, Cancel, SwapClosed, CloseDone, bootVars
  <2>3. boot'[e] = "store" => boot[e] = "store"
    BY <1>3, <2>1 DEF RunDisabled, Cancel, SwapClosed, CloseDone, Enabled, TypeOK, bootVars
  <2> QED BY <1>2, <2>1, <2>2, <2>3
<1>4. ASSUME NEW i \in Instances, UNCHANGED waiter, i \in Enabled
      PROVE  e \in Enabled /\ e = i
  BY <1>0, <1>4, Alone DEF Enabled
<1>5. ASSUME NEW i \in Instances, LoadNow(i) PROVE Goal
  <2>1. e = i /\ e \in Enabled
    BY <1>4, <1>5 DEF LoadNow, Started, Enabled
  <2>2. now'[e] = real /\ UNCHANGED <<nowUnix, ticker, ch, tt>>
    BY <1>5, <2>1 DEF LoadNow, TypeOK, tickerVars
  <2>3. nowUnix' <= now'[e] /\ ticker'[e] = "none" /\ ch'[e] = 0
    BY <1>5, <2>1, <2>2 DEF LoadNow, TypeOK, Started, NeverAhead
  <2> QED BY <2>3
<1>6. ASSUME NEW i \in Instances, StoreNow(i) PROVE Goal
  <2>1. e = i /\ e \in Enabled
    BY <1>4, <1>6 DEF StoreNow, Started, Enabled
  <2> QED BY <1>0, <1>6, <2>1 DEF StoreNow, TypeOK, Started, InOrder, NeverAhead
<1>7. ASSUME NEW i \in Instances, Tick(i) \/ ReceiveTick(i) \/ StoreTick(i) \/ StopTicker(i)
      PROVE  Goal
  <2>1. e = i /\ e \in Enabled
    BY <1>4, <1>7 DEF Tick, ReceiveTick, StoreTick, StopTicker, Started, Enabled, TypeOK
  <2>2. CASE Tick(i)
    BY <1>0, <2>1, <2>2 DEF Tick, TypeOK, Started, InOrder, NeverAhead, bootVars
  <2>3. CASE ReceiveTick(i)
    BY <1>0, <2>1, <2>3 DEF ReceiveTick, TypeOK, Started, InOrder, NeverAhead, bootVars
  <2>4. CASE StoreTick(i)
    BY <1>0, <2>1, <2>4 DEF StoreTick, TypeOK, Started, InOrder, NeverAhead, bootVars
  <2>5. CASE StopTicker(i)
    BY <1>0, <2>1, <2>5 DEF StopTicker, TypeOK, Started, InOrder, NeverAhead, bootVars
  <2> QED BY <1>7, <2>2, <2>3, <2>4, <2>5
<1>8. ASSUME LoadClosed \/ LoadCached \/ Advance \/ UNCHANGED vars PROVE Goal
  <2>1. UNCHANGED <<nowUnix, boot, now, tickerVars, waiter>>
    BY <1>8 DEF LoadClosed, LoadCached, Advance, vars, bootVars
  <2> QED BY <1>2, <2>1 DEF Enabled
<1> QED BY <1>1, <1>3, <1>5, <1>6, <1>7, <1>8 DEF Next, Step

\* What a step does to the cached time: with one instance it only goes forward.
LEMMA StoresForward ==
  ASSUME TypeOK, Started, InOrder, NeverAhead, ~Crowd, [Next]_vars
  PROVE  nowUnix' >= nowUnix
<1>1. ASSUME NEW i \in Instances, StoreNow(i) PROVE nowUnix' >= nowUnix
  BY <1>1 DEF StoreNow, Started, InOrder, Enabled, TypeOK
<1>2. ASSUME NEW i \in Instances, StoreTick(i) PROVE nowUnix' >= nowUnix
  BY <1>2 DEF StoreTick, Started, InOrder, Enabled, TypeOK
<1>3. ASSUME UNCHANGED nowUnix PROVE nowUnix' >= nowUnix
  BY <1>3 DEF TypeOK
<1>4. ASSUME NEW i \in Instances,
             \/ RunDisabled(i) \/ RunEnabled(i) \/ Cancel(i) \/ LoadNow(i) \/ Tick(i)
             \/ ReceiveTick(i) \/ StopTicker(i) \/ SwapClosed(i) \/ CloseDone(i)
      PROVE  UNCHANGED nowUnix
  BY <1>4 DEF RunDisabled, RunEnabled, Cancel, LoadNow, Tick, ReceiveTick,
              StopTicker, SwapClosed, CloseDone
<1>5. ASSUME LoadClosed \/ LoadCached \/ Advance \/ UNCHANGED vars
      PROVE  UNCHANGED nowUnix
  BY <1>5 DEF LoadClosed, LoadCached, Advance, vars
<1> QED BY <1>1, <1>2, <1>3, <1>4, <1>5 DEF Next, Step

LEMMA BehindStep == ContractInv /\ [Next]_vars => Behind'
<1> SUFFICES ASSUME ContractInv, [Next]_vars, ~Crowd', ~closed' \/ reading'
             PROVE  seen' <= nowUnix'
  BY DEF Behind
<1>1. ~Crowd /\ nowUnix' >= nowUnix
  BY CrowdGrows, StoresForward DEF ContractInv
<1>2. ASSUME UNCHANGED seen, ~closed \/ reading PROVE seen' <= nowUnix'
  <2>1. seen <= nowUnix
    BY <1>1, <1>2 DEF ContractInv, Behind
  <2>2. nowUnix' \in Int
    BY StepType DEF ContractInv, TypeOK
  <2> QED BY <1>1, <1>2, <2>1, <2>2 DEF ContractInv, TypeOK
<1>3. ASSUME NEW i \in Instances, RunDisabled(i) \/ RunEnabled(i) \/ Cancel(i) \/ Step(i) \/ StopTicker(i)
      PROVE  UNCHANGED seen /\ (~closed \/ reading)
  BY <1>3 DEF Step, RunDisabled, RunEnabled, Cancel, LoadNow, StoreNow, Tick, ReceiveTick,
              StoreTick, StopTicker, SwapClosed, CloseDone, readVars
<1>4. CASE LoadClosed
  BY <1>2, <1>4 DEF LoadClosed
<1>5. CASE LoadCached
  BY <1>5 DEF LoadCached, ContractInv, TypeOK
<1>6. CASE Advance \/ UNCHANGED vars
  BY <1>2, <1>6 DEF Advance, vars, readVars
<1> QED BY <1>2, <1>3, <1>4, <1>5, <1>6 DEF Next

\* What a step shows a reader: nothing, the system's time, or the cached time.
LEMMA SeenForward == ContractInv /\ [Next]_vars /\ ~Crowd => seen' >= seen
<1> SUFFICES ASSUME ContractInv, [Next]_vars, ~Crowd PROVE seen' >= seen
  OBVIOUS
<1>1. CASE LoadClosed
  BY <1>1 DEF LoadClosed, ContractInv, NeverAhead, TypeOK
<1>2. CASE LoadCached
  BY <1>2 DEF LoadCached, ContractInv, Behind, TypeOK
<1>3. ASSUME NEW i \in Instances, RunDisabled(i) \/ RunEnabled(i) \/ Cancel(i) \/ Step(i) \/ StopTicker(i)
      PROVE  UNCHANGED seen
  BY <1>3 DEF Step, RunDisabled, RunEnabled, Cancel, LoadNow, StoreNow, Tick, ReceiveTick,
              StoreTick, StopTicker, SwapClosed, CloseDone, readVars
<1>4. ASSUME Advance \/ UNCHANGED vars PROVE UNCHANGED seen
  BY <1>4 DEF Advance, vars, readVars
<1> QED BY <1>1, <1>2, <1>3, <1>4 DEF Next, ContractInv, TypeOK

LEMMA ContractInvariant == Spec => []ContractInv
<1>1. Init => Started /\ NeverAhead /\ InOrder /\ Behind
  BY DEF Init, Started, NeverAhead, InOrder, Behind, Enabled
<1>2. Init => ContractInv
  BY <1>1, InitType DEF ContractInv
<1>3. ContractInv /\ [Next]_vars => ContractInv'
  BY StepType, StartedStep, NeverAheadStep, InOrderStep, BehindStep DEF ContractInv
<1> QED BY <1>2, <1>3, PTL DEF Spec

\* For any number of instances, a goroutine that reads the cached clock is never
\* shown a time that has not come, and while one instance drives the clock never
\* an earlier time than before.
THEOREM ClockKeepsContract == Spec => ImplementsContract
<1> USE DEF Contract!ClockInit, Contract!ClockNext
<1>1. Init => Contract!ClockInit
  BY DEF Init, Enabled
<1>2. ContractInv /\ ContractInv' /\ [Next]_vars
        => [Contract!ClockNext]_<<real, seen, Crowd>>
  <2> SUFFICES ASSUME ContractInv, ContractInv', [Next]_vars PROVE Contract!ClockNext
    BY DEF Crowd
  <2>1. real' \in Nat /\ real' >= real
    BY NeverAheadStep DEF ContractInv, TypeOK
  <2>2. Crowd => Crowd'
    BY CrowdGrows DEF ContractInv
  <2>3. seen' \in 0 .. real'
    BY DEF ContractInv, TypeOK, NeverAhead
  <2>4. ~Crowd' => seen' >= seen
    BY <2>2, SeenForward
  <2> QED BY <2>1, <2>2, <2>3, <2>4 DEF Crowd
<1> QED BY <1>1, <1>2, ContractInvariant, PTL
      DEF Spec, ImplementsContract, Contract!ClockSpec, Crowd
=============================================================================
