----------------------------- MODULE RingQueue -----------------------------
(***************************************************************************)
(* The circular buffer behind each shard's refresh queue                   *)
(* (internal/shared/queue/queue.go).  Each call holds the mutex from its   *)
(* first line to its last, so a call is one action.  One slot stays free,  *)
(* to tell a full buffer from an empty one.                                *)
(***************************************************************************)
EXTENDS Integers, Sequences

CONSTANTS
  Keys,   \* the keys pushed, numbers (uint64)
  Size    \* the size asked of Init, 4096 in the code

ASSUME RingKeysAssumption == Keys \subseteq Nat
ASSUME RingSizeAssumption == Size \in Int

Slots == IF Size < 2 THEN 2 ELSE Size
Index == 0 .. Slots - 1

VARIABLES buf, head, tail, answer

ringVars == <<buf, head, tail, answer>>

Answers == [key : Nat, ok : BOOLEAN]
Refused == [key |-> 0, ok |-> FALSE]

RingTypeOK ==
  /\ buf \in [Index -> Nat]
  /\ head \in Index
  /\ tail \in Index
  /\ answer \in Answers

RingInit ==
  /\ buf = [i \in Index |-> 0]
  /\ head = 0
  /\ tail = 0
  /\ answer = Refused

\* Mutant: the cursor is not brought back to the first slot.
NextIndexRunsOff(i) == i + 1

NextIndex(i) == (i + 1) % Slots

\* Mutant: the last free slot is used.
TryPushOverfills(k) ==
  /\ buf' = [buf EXCEPT ![head] = k]
  /\ head' = NextIndex(head)
  /\ answer' = [key |-> k, ok |-> TRUE]
  /\ UNCHANGED tail

TryPush(k) ==
  /\ NextIndex(head) # tail
  /\ buf' = [buf EXCEPT ![head] = k]
  /\ head' = NextIndex(head)
  /\ answer' = [key |-> k, ok |-> TRUE]
  /\ UNCHANGED tail

TryPushFull ==
  /\ NextIndex(head) = tail
  /\ answer' = Refused
  /\ UNCHANGED <<buf, head, tail>>

TryPop ==
  /\ head # tail
  /\ answer' = [key |-> buf[tail], ok |-> TRUE]
  /\ tail' = NextIndex(tail)
  /\ UNCHANGED <<buf, head>>

TryPopEmpty ==
  /\ head = tail
  /\ answer' = Refused
  /\ UNCHANGED <<buf, head, tail>>

RingNext == TryPushFull \/ TryPop \/ TryPopEmpty \/ \E k \in Keys : TryPush(k)

RingSpec == RingInit /\ [][RingNext]_ringVars

-----------------------------------------------------------------------------
(* The queue the buffer stands for: the slots from tail up to head.        *)

Used == IF tail <= head THEN head - tail ELSE head - tail + Slots

Slot(i) == IF tail + i < Slots THEN tail + i ELSE tail + i - Slots

Contents == [i \in 1 .. Used |-> buf[Slot(i - 1)]]

FIFO == INSTANCE BoundedFIFO WITH queue <- Contents, Capacity <- Slots - 1

\* The ring of slots is a FIFO queue that holds one key fewer than it has slots
\* (queue.go:19-40): nothing is lost, overwritten, reordered or returned twice,
\* wherever the two cursors have got to.
ImplementsFIFO == FIFO!FIFOSpec
=============================================================================
