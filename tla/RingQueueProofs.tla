-------------------------- MODULE RingQueueProofs --------------------------
(***************************************************************************)
(* The circular buffer implements a bounded FIFO queue for every size.     *)
(***************************************************************************)
EXTENDS RingQueue, SequenceTheorems, TLAPS

LEMMA SlotsType == Slots \in Nat /\ Slots >= 2
BY RingSizeAssumption DEF Slots

LEMMA NextIndexValue ==
  ASSUME NEW i \in Index
  PROVE  /\ NextIndex(i) = IF i + 1 = Slots THEN 0 ELSE i + 1
         /\ NextIndex(i) \in Index
<1>1. Slots \in Nat /\ Slots >= 2 /\ i \in Nat /\ i < Slots
  BY SlotsType DEF Index
<1>2. CASE i + 1 = Slots
  <2>1. (i + 1) % Slots = 0
    BY <1>1, <1>2
  <2> QED BY <1>1, <1>2, <2>1 DEF NextIndex, Index
<1>3. CASE i + 1 < Slots
  <2>1. (i + 1) % Slots = i + 1
    BY <1>1, <1>3
  <2> QED BY <1>1, <1>3, <2>1 DEF NextIndex, Index
<1> QED BY <1>1, <1>2, <1>3

LEMMA SlotType ==
  ASSUME RingTypeOK, NEW i \in 0 .. Slots - 1
  PROVE  Slot(i) \in Index
BY SlotsType DEF RingTypeOK, Slot, Index

ContentsOK ==
  /\ Used \in 0 .. Slots - 1
  /\ Contents \in Seq(Nat)
  /\ Len(Contents) = Used

LEMMA ContentsType == RingTypeOK => ContentsOK
<1> SUFFICES ASSUME RingTypeOK PROVE ContentsOK
  OBVIOUS
<1>1. Used \in 0 .. Slots - 1
  BY SlotsType DEF RingTypeOK, Used, Index
<1>2. \A i \in 1 .. Used : buf[Slot(i - 1)] \in Nat
  <2> TAKE i \in 1 .. Used
  <2>1. i - 1 \in 0 .. Slots - 1
    BY <1>1, SlotsType
  <2> QED BY <2>1, SlotType DEF RingTypeOK
<1>3. Contents \in [1 .. Used -> Nat]
  BY <1>2 DEF Contents
<1> QED BY <1>1, <1>3, SlotsType DEF ContentsOK

LEMMA ContentsTypeNext == RingTypeOK' => ContentsOK'
BY ContentsType, PTL

LEMMA RingInitType == RingInit => RingTypeOK
BY SlotsType DEF RingInit, RingTypeOK, Index, Answers, Refused

LEMMA RingStepType == RingTypeOK /\ [RingNext]_ringVars => RingTypeOK'
<1> SUFFICES ASSUME RingTypeOK, [RingNext]_ringVars PROVE RingTypeOK'
  OBVIOUS
<1>1. ASSUME NEW k \in Keys, TryPush(k) PROVE RingTypeOK'
  BY <1>1, NextIndexValue, RingKeysAssumption DEF TryPush, RingTypeOK, Answers
<1>2. CASE TryPushFull
  BY <1>2 DEF TryPushFull, RingTypeOK, Answers, Refused
<1>3. CASE TryPop
  BY <1>3, NextIndexValue DEF TryPop, RingTypeOK, Answers
<1>4. CASE TryPopEmpty
  BY <1>4 DEF TryPopEmpty, RingTypeOK, Answers, Refused
<1>5. CASE UNCHANGED ringVars
  BY <1>5 DEF ringVars, RingTypeOK
<1> QED BY <1>1, <1>2, <1>3, <1>4, <1>5 DEF RingNext

\* The cursors stay inside the buffer.
THEOREM RingTypeCorrect == RingSpec => []RingTypeOK
BY RingInitType, RingStepType, PTL DEF RingSpec

-----------------------------------------------------------------------------

LEMMA EmptyContents ==
  ASSUME RingTypeOK
  PROVE  head = tail <=> Contents = <<>>
<1>1. Used = 0 <=> head = tail
  BY SlotsType DEF RingTypeOK, Used, Index
<1>2. Contents = <<>> <=> Len(Contents) = 0
  BY ContentsType DEF ContentsOK
<1> QED BY <1>1, <1>2, ContentsType DEF ContentsOK

LEMMA FullContents ==
  ASSUME RingTypeOK
  PROVE  /\ NextIndex(head) = tail => Len(Contents) = Slots - 1
         /\ NextIndex(head) # tail => Used < Slots - 1
<1>1. NextIndex(head) = IF head + 1 = Slots THEN 0 ELSE head + 1
  BY NextIndexValue DEF RingTypeOK
<1>2. /\ NextIndex(head) = tail => Used = Slots - 1
      /\ NextIndex(head) # tail => Used < Slots - 1
  BY <1>1, SlotsType DEF RingTypeOK, Used, Index
<1> QED BY <1>2, ContentsType DEF ContentsOK

LEMMA PushContents ==
  ASSUME RingTypeOK, RingTypeOK', NEW k \in Keys, TryPush(k)
  PROVE  FIFO!PushOK(k)
<1>1. /\ NextIndex(head) # tail
      /\ buf' = [buf EXCEPT ![head] = k]
      /\ head' = NextIndex(head)
      /\ answer' = [key |-> k, ok |-> TRUE]
      /\ tail' = tail
  BY DEF TryPush
<1>2. /\ head \in Index /\ tail \in Index /\ buf \in [Index -> Nat]
      /\ Slots \in Nat /\ Slots >= 2
  BY SlotsType DEF RingTypeOK
<1>3. Used < Slots - 1 /\ Used \in 0 .. Slots - 1
  BY <1>1, FullContents, ContentsType DEF ContentsOK
<1>4. Used' = Used + 1
  <2>1. head' = IF head + 1 = Slots THEN 0 ELSE head + 1
    BY <1>1, <1>2, NextIndexValue
  <2> QED BY <1>1, <1>2, <2>1 DEF Used, Index
<1>5. Slot(Used) = head
  BY <1>2, SlotsType DEF Slot, Used, Index
<1>6. \A i \in 0 .. Used - 1 : Slot(i) # head /\ Slot(i) \in Index
  BY <1>2, <1>3 DEF Slot, Used, Index
<1>7. \A i : Slot(i)' = Slot(i)
  BY <1>1 DEF Slot
<1>8. \A i \in 1 .. Used : Contents'[i] = Contents[i]
  <2> TAKE i \in 1 .. Used
  <2>1. i \in 1 .. Used + 1 /\ i - 1 \in 0 .. Used - 1
    BY <1>3
  <2>2. Contents'[i] = buf'[Slot(i - 1)]
    BY <1>4, <1>7, <2>1 DEF Contents
  <2>3. Contents[i] = buf[Slot(i - 1)]
    BY DEF Contents
  <2>4. Slot(i - 1) # head /\ Slot(i - 1) \in Index
    BY <1>6, <2>1
  <2> QED BY <1>1, <1>2, <2>2, <2>3, <2>4
<1>9. Contents'[Used + 1] = k
  <2>1. Used + 1 \in 1 .. Used + 1 /\ (Used + 1) - 1 = Used
    BY <1>3
  <2>2. Contents'[Used + 1] = buf'[Slot(Used)]
    BY <1>4, <1>7, <2>1 DEF Contents
  <2> QED BY <1>1, <1>2, <1>5, <2>2
<1>10. /\ Contents \in Seq(Nat) /\ Len(Contents) = Used
       /\ Contents' \in Seq(Nat) /\ Len(Contents') = Used + 1
  <2>1. Contents' \in Seq(Nat) /\ Len(Contents') = Used'
    BY ContentsTypeNext DEF ContentsOK
  <2> QED BY <1>4, <2>1, ContentsType DEF ContentsOK
<1>11. k \in Nat
  BY RingKeysAssumption
<1>12. Contents' = Append(Contents, k)
  <2>1. /\ Append(Contents, k) \in Seq(Nat)
        /\ Len(Append(Contents, k)) = Used + 1
        /\ \A i \in 1 .. Used : Append(Contents, k)[i] = Contents[i]
        /\ Append(Contents, k)[Used + 1] = k
    BY <1>3, <1>10, <1>11, AppendProperties
  <2>2. \A i \in 1 .. Used + 1 : Contents'[i] = Append(Contents, k)[i]
    BY <1>3, <1>8, <1>9, <2>1
  <2> QED BY <1>10, <2>1, <2>2, SeqEqual
<1> QED BY <1>1, <1>3, <1>10, <1>12 DEF FIFO!PushOK

LEMMA PopContents ==
  ASSUME RingTypeOK, RingTypeOK', TryPop
  PROVE  FIFO!PopOK
<1>1. /\ head # tail /\ buf' = buf /\ head' = head
      /\ tail' = NextIndex(tail)
      /\ answer' = [key |-> buf[tail], ok |-> TRUE]
  BY DEF TryPop
<1>2. /\ head \in Index /\ tail \in Index /\ buf \in [Index -> Nat]
      /\ Slots \in Nat /\ Slots >= 2
  BY SlotsType DEF RingTypeOK
<1>3. tail' = IF tail + 1 = Slots THEN 0 ELSE tail + 1
  BY <1>1, <1>2, NextIndexValue
<1>4. Used \in 1 .. Slots - 1 /\ Used' = Used - 1
  BY <1>1, <1>2, <1>3 DEF Used, Index
<1>5. \A i \in 0 .. Used - 2 : Slot(i)' = Slot(i + 1)
  BY <1>1, <1>2, <1>3, <1>4 DEF Slot, Index
<1>6. /\ Contents \in Seq(Nat) /\ Len(Contents) = Used
      /\ Contents' \in Seq(Nat) /\ Len(Contents') = Used - 1
  <2>1. Contents' \in Seq(Nat) /\ Len(Contents') = Used'
    BY ContentsTypeNext DEF ContentsOK
  <2> QED BY <1>4, <2>1, ContentsType DEF ContentsOK
<1>7. Contents # <<>>
  BY <1>4, <1>6
<1>8. Head(Contents) = buf[tail]
  <2>1. Slot(0) = tail
    BY <1>2 DEF Slot, Index
  <2>2. 1 \in 1 .. Used /\ 1 - 1 = 0
    BY <1>4
  <2>3. Contents[1] = buf[Slot(0)]
    BY <2>2 DEF Contents
  <2> QED BY <1>6, <1>7, <2>1, <2>3
<1>9. \A i \in 1 .. Used - 1 : Contents'[i] = Contents[i + 1]
  <2> TAKE i \in 1 .. Used - 1
  <2>1. /\ i \in 1 .. Used' /\ i - 1 \in 0 .. Used - 2 /\ i + 1 \in 1 .. Used
        /\ (i - 1) + 1 = i /\ (i + 1) - 1 = i
    BY <1>4
  <2>2. Contents'[i] = buf'[Slot(i - 1)']
    BY <2>1 DEF Contents
  <2>3. Contents[i + 1] = buf[Slot(i)]
    BY <2>1 DEF Contents
  <2>4. Slot(i - 1)' = Slot(i)
    BY <1>5, <2>1
  <2> QED BY <1>1, <2>2, <2>3, <2>4
<1>10. Contents' = Tail(Contents)
  <2>1. /\ Tail(Contents) \in Seq(Nat)
        /\ Len(Tail(Contents)) = Used - 1
        /\ \A i \in 1 .. Used - 1 : Tail(Contents)[i] = Contents[i + 1]
    BY <1>6, <1>7, HeadTailProperties
  <2>2. \A i \in 1 .. Used - 1 : Contents'[i] = Tail(Contents)[i]
    BY <1>9, <2>1
  <2> QED BY <1>6, <2>1, <2>2, SeqEqual
<1> QED BY <1>1, <1>7, <1>8, <1>10 DEF FIFO!PopOK

LEMMA ContentsFrame ==
  ASSUME UNCHANGED <<buf, head, tail>>
  PROVE  Contents' = Contents
BY DEF Contents, Used, Slot

\* Every size of the buffer implements a first-in first-out queue.
THEOREM RingRefinesFIFO == RingSpec => ImplementsFIFO
<1>1. RingInit => FIFO!FIFOInit
  <2> SUFFICES ASSUME RingInit PROVE FIFO!FIFOInit
    OBVIOUS
  <2>1. RingTypeOK /\ head = tail
    BY RingInitType DEF RingInit
  <2>2. Contents = <<>>
    BY <2>1, EmptyContents
  <2> QED BY <2>2 DEF RingInit, FIFO!FIFOInit, Refused, FIFO!Refused
<1>2. RingTypeOK /\ RingTypeOK' /\ [RingNext]_ringVars
        => [FIFO!FIFONext]_<<Contents, answer>>
  <2> SUFFICES ASSUME RingTypeOK, RingTypeOK', [RingNext]_ringVars
               PROVE  [FIFO!FIFONext]_<<Contents, answer>>
    OBVIOUS
  <2>1. ASSUME NEW k \in Keys, TryPush(k) PROVE FIFO!FIFONext
    BY <2>1, PushContents DEF FIFO!FIFONext
  <2>2. CASE TryPushFull
    <3>1. Contents' = Contents /\ Len(Contents) = Slots - 1 /\ answer' = Refused
      BY <2>2, ContentsFrame, FullContents DEF TryPushFull
    <3> QED BY <3>1 DEF FIFO!FIFONext, FIFO!PushFull, Refused, FIFO!Refused
  <2>3. CASE TryPop
    BY <2>3, PopContents DEF FIFO!FIFONext
  <2>4. CASE TryPopEmpty
    <3>1. Contents' = Contents /\ Contents = <<>> /\ answer' = Refused
      BY <2>4, ContentsFrame, EmptyContents DEF TryPopEmpty
    <3> QED BY <3>1 DEF FIFO!FIFONext, FIFO!PopEmpty, Refused, FIFO!Refused
  <2>5. CASE UNCHANGED ringVars
    BY <2>5, ContentsFrame DEF ringVars
  <2> QED BY <2>1, <2>2, <2>3, <2>4, <2>5 DEF RingNext
<1> QED BY <1>1, <1>2, RingTypeCorrect, PTL DEF RingSpec, ImplementsFIFO, FIFO!FIFOSpec
=============================================================================
