--------------------------- MODULE CacheContract ---------------------------
(***************************************************************************)
(* What a client may rely on whatever the cache does inside.  A key holds  *)
(* the answer of a callback made for it, or nothing; what it holds may go  *)
(* at any moment; an answer is stored once at most, under its own key      *)
(* only, by the call that asked for it and before that call returns.       *)
(* What has gone comes back by a new answer only.                          *)
(***************************************************************************)

CONSTANTS
  Keys, Procs,
  Payloads,  \* records with an owner, the key they were made for
  Nil,
  Rewrites   \* clients of Around set payloads

VARIABLES
  contents,  \* what each key holds
  answer     \* what the callback of each goroutine's call returned

ContractInit ==
  /\ contents = [k \in Keys |-> Nil]
  /\ answer = [p \in Procs |-> Nil]

Answer(p) ==
  /\ answer[p] = Nil
  /\ \E d \in Payloads : answer' = [answer EXCEPT ![p] = d]
  /\ UNCHANGED contents

Store(p) ==
  /\ answer[p] # Nil
  /\ contents' = [contents EXCEPT ![answer[p].owner] = answer[p]]
  /\ answer' = [answer EXCEPT ![p] = Nil]

\* Admission refuses it, the key holds the same, or the entry it was to update
\* has gone.
Discard(p) ==
  /\ answer[p] # Nil
  /\ answer' = [answer EXCEPT ![p] = Nil]
  /\ UNCHANGED contents

\* Del, or an eviction.
Drop(k) == contents' = [contents EXCEPT ![k] = Nil] /\ UNCHANGED answer

Wipe == contents' = [k \in Keys |-> Nil] /\ UNCHANGED answer

\* A client of Around sets the payload of what is there.
Rewrite(k) ==
  /\ Rewrites
  /\ contents[k] # Nil
  /\ \E d \in Payloads : d.owner = k /\ contents' = [contents EXCEPT ![k] = d]
  /\ UNCHANGED answer

ContractNext ==
  \/ \E p \in Procs : Answer(p) \/ Store(p) \/ Discard(p)
  \/ \E k \in Keys : Drop(k) \/ Rewrite(k)
  \/ Wipe

ContractSpec == ContractInit /\ [][ContractNext]_<<contents, answer>>
=============================================================================
