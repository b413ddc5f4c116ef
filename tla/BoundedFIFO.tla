---------------------------- MODULE BoundedFIFO ----------------------------
(***************************************************************************)
(* What a refresh queue promises: a first-in first-out queue of at most    *)
(* Capacity keys.  A push on a full queue is refused, a pop on an empty    *)
(* queue finds nothing, and neither changes the queue.                     *)
(***************************************************************************)
EXTENDS Integers, Sequences

CONSTANTS Keys, Capacity

VARIABLES
  queue,    \* the keys queued, oldest first
  answer    \* what the last call returned: the key and whether it succeeded

Refused == [key |-> 0, ok |-> FALSE]

FIFOInit == queue = <<>> /\ answer = Refused

PushOK(k) ==
  /\ Len(queue) < Capacity
  /\ queue' = Append(queue, k)
  /\ answer' = [key |-> k, ok |-> TRUE]

PushFull ==
  /\ Len(queue) = Capacity
  /\ answer' = Refused
  /\ UNCHANGED queue

PopOK ==
  /\ queue # <<>>
  /\ answer' = [key |-> Head(queue), ok |-> TRUE]
  /\ queue' = Tail(queue)

PopEmpty ==
  /\ queue = <<>>
  /\ answer' = Refused
  /\ UNCHANGED queue

FIFONext == PushFull \/ PopOK \/ PopEmpty \/ \E k \in Keys : PushOK(k)

FIFOSpec == FIFOInit /\ [][FIFONext]_<<queue, answer>>
=============================================================================
