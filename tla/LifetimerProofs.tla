-------------------------- MODULE LifetimerProofs --------------------------
(***************************************************************************)
(* For any keys, entries, goroutines and capacities: the variables keep    *)
(* their types, and a flagged entry to be removed is on its way.           *)
(***************************************************************************)
EXTENDS Lifetimer, SequenceTheorems, TLAPS

USE DEF Verdicts

Reach == Live(items, ch, ref)

\* A goroutine has an entry in hands exactly where its steps need one, and the
\* provider a key.
LocalsOK ==
  /\ \A g \in Goroutines :
       /\ pc[g] \in {"flag", "push", "unflag", "check", "reset", "send", "call"} => ref[g] # 0
       /\ pc[g] \in {"idle", "pop", "get", "sample"} => ref[g] = 0
  /\ popped # Nil <=> pc[Provider] = "get"

\* An entry is cached under its own key.
KeysOK ==
  /\ \A k \in Keys : items[k] # 0 => key[items[k]] = k
  /\ \A e \in Entries : e \in Reach => key[e] \in Keys

\* An entry nobody can reach is not flagged.
GarbageOK == \A e \in Entries : queued[e] => e \in Reach

IInv == TypeOK /\ LocalsOK /\ KeysOK /\ GarbageOK /\ FlaggedIsOnItsWay

(***************************************************************************)
(* Ranges of sequences.                                                    *)
(***************************************************************************)

LEMMA RangeAppend ==
  ASSUME NEW S, NEW s \in Seq(S), NEW x \in S
  PROVE  /\ Append(s, x) \in Seq(S)
         /\ Len(Append(s, x)) = Len(s) + 1
         /\ Range(Append(s, x)) = Range(s) \cup {x}
<1>1. Append(s, x) \in Seq(S) /\ Len(Append(s, x)) = Len(s) + 1
  BY AppendProperties
<1>2. \A i \in 1 .. Len(s) : Append(s, x)[i] = s[i]
  BY AppendProperties
<1>3. Append(s, x)[Len(s) + 1] = x
  BY AppendProperties
<1>4. DOMAIN s = 1 .. Len(s) /\ DOMAIN Append(s, x) = 1 .. Len(s) + 1
  BY <1>1
<1>5. 1 .. Len(s) + 1 = (1 .. Len(s)) \cup {Len(s) + 1}
  BY LenProperties
<1> QED BY <1>1, <1>2, <1>3, <1>4, <1>5 DEF Range

LEMMA RangeTail ==
  ASSUME NEW S, NEW s \in Seq(S), s # <<>>
  PROVE  /\ Head(s) \in S
         /\ Tail(s) \in Seq(S)
         /\ Len(Tail(s)) = Len(s) - 1
         /\ Range(s) = Range(Tail(s)) \cup {Head(s)}
<1>1. Head(s) \in S /\ Tail(s) \in Seq(S) /\ Len(Tail(s)) = Len(s) - 1
  BY HeadTailProperties
<1>2. \A i \in 1 .. Len(Tail(s)) : Tail(s)[i] = s[i + 1]
  BY HeadTailProperties
<1>3. Len(s) \in Nat /\ Len(s) > 0
  BY LenProperties, EmptySeq
<1>4. Head(s) = s[1]
  OBVIOUS
<1>5. DOMAIN s = 1 .. Len(s) /\ DOMAIN Tail(s) = 1 .. Len(s) - 1
  BY <1>1
<1>6. Range(s) \subseteq Range(Tail(s)) \cup {Head(s)}
  <2> SUFFICES ASSUME NEW i \in 1 .. Len(s)
               PROVE  s[i] \in Range(Tail(s)) \cup {Head(s)}
    BY <1>5 DEF Range
  <2>1. CASE i = 1
    BY <2>1, <1>4
  <2>2. CASE i # 1
    <3>1. i - 1 \in 1 .. Len(s) - 1 /\ Tail(s)[i - 1] = s[i]
      BY <2>2, <1>1, <1>2, <1>3
    <3> QED BY <3>1, <1>5 DEF Range
  <2> QED BY <2>1, <2>2
<1>7. Range(Tail(s)) \cup {Head(s)} \subseteq Range(s)
  BY <1>1, <1>2, <1>3, <1>4, <1>5 DEF Range
<1> QED BY <1>1, <1>6, <1>7

(***************************************************************************)
(* What every step of a goroutine has in common.                           *)
(***************************************************************************)

Labels == {"idle", "flag", "push", "unflag", "pop", "get", "check", "reset",
           "sample", "send", "call", "stopped"}

\* A step moves g to l with e in hands, and publishes nothing.
LEMMA GotoStep ==
  ASSUME IInv, NEW g \in Goroutines, NEW l \in Labels, NEW e \in Entries \cup {0},
         Goto(g, l, e),
         e # 0 => e \in Reach,
         l \in {"flag", "push", "unflag", "check", "reset", "send", "call"} => e # 0,
         l \in {"idle", "pop", "get", "sample"} => e = 0,
         popped' \in Keys \cup {Nil}, popped' # Nil <=> pc'[Provider] = "get",
         items' \in [Keys -> Entries \cup {0}],
         \A k \in Keys : items'[k] \in {items[k], 0},
         queue' \in Seq(Keys), Len(queue') <= QueueCap,
         ch' \in Seq(Entries), Len(ch') <= ChanCap, Range(ch') \subseteq Reach,
         done' \in BOOLEAN,
         key' \in [Entries -> Keys \cup {Nil}],
         expired' \in [Entries -> Verdicts],
         {removes', queued'} \subseteq [Entries -> BOOLEAN],
         \A d \in Entries : d \in Reach' => key'[d] = key[d] /\ removes'[d] = removes[d],
         \A d \in Entries : queued'[d] => d \in Reach',
         \A k \in Keys, d \in Entries :
           items[k] = d /\ items'[k] = d /\ removes'[d] /\ queued'[d] /\ ~done'
             => OnItsWay(d)'
  PROVE  IInv'
<1>1. TypeOK'
  BY DEF IInv, TypeOK, Goto, Labels
<1>2. LocalsOK'
  BY DEF IInv, TypeOK, LocalsOK, Goto
<1>3. \A d \in Entries : d \in Reach' => d \in Reach
  <2> SUFFICES ASSUME NEW d \in Entries, d \in Reach' PROVE d \in Reach
    OBVIOUS
  <2>1. CASE \E k \in Keys : items'[k] = d
    BY <2>1, LifetimerAssumption DEF Reach, Live
  <2>2. CASE d \in Range(ch')
    BY <2>2
  <2>3. CASE \E p \in Goroutines : ref'[p] = d
    BY <2>3, LifetimerAssumption DEF Reach, Live, Goto, IInv, TypeOK
  <2> QED BY <2>1, <2>2, <2>3 DEF Reach, Live
<1>4. KeysOK'
  <2>1. ASSUME NEW k \in Keys, items'[k] # 0 PROVE key'[items'[k]] = k
    <3>1. items'[k] = items[k] /\ items[k] \in Entries /\ items'[k] \in Reach'
      BY <2>1 DEF IInv, TypeOK, Reach, Live
    <3>2. key'[items[k]] = key[items[k]]
      BY <3>1
    <3> QED BY <2>1, <3>1, <3>2 DEF IInv, KeysOK
  <2>2. \A d \in Entries : d \in Reach' => key'[d] \in Keys
    BY <1>3 DEF IInv, KeysOK
  <2> QED BY <2>1, <2>2 DEF KeysOK
<1>5. GarbageOK'
  BY DEF GarbageOK
<1>6. FlaggedIsOnItsWay'
  BY LifetimerAssumption DEF FlaggedIsOnItsWay, ToRemove
<1> QED BY <1>1, <1>2, <1>4, <1>5, <1>6 DEF IInv

\* What is left of the entries once the garbage is collected.
LEMMA CollectStep ==
  ASSUME TypeOK, NEW exp \in [Entries -> Verdicts], NEW que \in [Entries -> BOOLEAN],
         Collect(exp, que)
  PROVE  /\ key' \in [Entries -> Keys \cup {Nil}]
         /\ expired' \in [Entries -> Verdicts]
         /\ {removes', queued'} \subseteq [Entries -> BOOLEAN]
         /\ \A d \in Entries : d \in Reach' => key'[d] = key[d] /\ removes'[d] = removes[d]
         /\ \A d \in Entries : queued'[d] => d \in Reach' /\ que[d]
BY DEF TypeOK, Collect, Swept, Tested, Flagged, Reach, Live, Goroutines

\* Nothing becomes garbage.
LEMMA KeepStep ==
  ASSUME IInv, UNCHANGED entryVars, \A d \in Entries : d \in Reach => d \in Reach'
  PROVE  /\ key' \in [Entries -> Keys \cup {Nil}]
         /\ expired' \in [Entries -> Verdicts]
         /\ {removes', queued'} \subseteq [Entries -> BOOLEAN]
         /\ \A d \in Entries : d \in Reach' => key'[d] = key[d] /\ removes'[d] = removes[d]
         /\ \A d \in Entries : queued'[d] => d \in Reach' /\ queued[d]
BY DEF IInv, TypeOK, GarbageOK, entryVars

\* A step of g leaves an entry on its way if it does where it takes it from.
LEMMA StillOnItsWay ==
  ASSUME IInv, NEW g \in Goroutines, NEW l, NEW e, Goto(g, l, e),
         NEW k \in Keys, NEW d \in Entries,
         items[k] = d, items'[k] = d, removes[d], queued[d], ~done,
         \A x \in Entries : x \in Reach' => key'[x] = key[x],
         key[d] \in Range(queue) \cup {popped}
           => key[d] \in Range(queue') \cup {popped'} \/ OnItsWay(d)',
         d \in Range(ch) => d \in Range(ch') \/ OnItsWay(d)',
         g \in Consumers \cup {Provider} /\ ref[g] = d => OnItsWay(d)',
         g \in Clients /\ ref[g] = d /\ pc[g] \in {"push", "unflag"} => OnItsWay(d)'
  PROVE  OnItsWay(d)'
<1>1. OnItsWay(d)
  BY LifetimerAssumption DEF IInv, FlaggedIsOnItsWay, ToRemove
<1>2. key'[d] = key[d]
  BY LifetimerAssumption DEF Reach, Live
<1>3. \A p \in Goroutines \ {g} : pc'[p] = pc[p] /\ ref'[p] = ref[p]
  BY DEF IInv, TypeOK, Goto
<1>4. CASE key[d] \in Range(queue) \cup {popped}
  BY <1>2, <1>4 DEF OnItsWay
<1>5. CASE d \in Range(ch)
  BY <1>5 DEF OnItsWay
<1>6. CASE \E p \in Consumers \cup {Provider} : ref[p] = d
  BY <1>3, <1>6 DEF OnItsWay, Goroutines
<1>7. CASE \E c \in Clients : ref[c] = d /\ pc[c] \in {"push", "unflag"}
  BY <1>3, <1>7 DEF OnItsWay, Goroutines
<1> QED BY <1>1, <1>4, <1>5, <1>6, <1>7 DEF OnItsWay

-----------------------------------------------------------------------------
(* The steps of clients. *)

LEMMA ClientLocals ==
  ASSUME IInv, NEW c \in Clients
  PROVE  /\ c \in Goroutines /\ c \notin Consumers \cup {Provider} /\ Provider \in Goroutines
         /\ ref[c] \in Reach
         /\ pc[c] \in {"flag", "push", "unflag"} => ref[c] \in Entries
BY GoroutinesAssumption DEF IInv, TypeOK, LocalsOK, Goroutines, Reach, Live

LEMMA InsertInv ==
  ASSUME IInv, NEW k \in Keys, Insert(k)
  PROVE  IInv'
<1>1. PICK e \in Unused :
        /\ items' = [items EXCEPT ![k] = e]
        /\ key' = Swept([key EXCEPT ![e] = k], Nil)
        /\ \E mode \in Modes[k] : removes' = Swept([removes EXCEPT ![e] = mode], FALSE)
        /\ expired' = Tested(expired)
        /\ queued' = Flagged(queued)
  BY DEF Insert
<1>2. items[k] = 0 /\ UNCHANGED <<queue, popped, ch, done, pc, ref>>
  BY <1>1 DEF Insert
<1>3. e \in Entries /\ e \notin Reach /\ e # 0 /\ ~queued[e]
  BY LifetimerAssumption DEF Unused, Reach, IInv, GarbageOK
<1>4. TypeOK'
  <2>1. key' \in [Entries -> Keys \cup {Nil}]
    BY <1>1, <1>3 DEF IInv, TypeOK, Swept
  <2>2. queued' \in [Entries -> BOOLEAN]
    BY <1>1 DEF IInv, TypeOK, Flagged
  <2>3. expired' \in [Entries -> Verdicts]
    BY <1>1 DEF IInv, TypeOK, Tested
  <2>4. removes' \in [Entries -> BOOLEAN]
    <3>1. PICK mode \in Modes[k] : removes' = Swept([removes EXCEPT ![e] = mode], FALSE)
      BY <1>1
    <3>2. mode \in BOOLEAN
      BY LifetimerAssumption
    <3> QED BY <3>1, <3>2 DEF IInv, TypeOK, Swept
  <2>5. items' \in [Keys -> Entries \cup {0}]
    BY <1>1, <1>3 DEF IInv, TypeOK
  <2> QED BY <1>2, <2>1, <2>2, <2>3, <2>4, <2>5 DEF IInv, TypeOK
<1>5. LocalsOK'
  BY <1>2 DEF IInv, LocalsOK
<1>6. \A d \in Entries : d \in Reach' <=> d \in Reach \/ d = e
  BY <1>1, <1>2, <1>3, LifetimerAssumption DEF Reach, Live, IInv, TypeOK
<1>7. \A d \in Entries : d \in Reach' => key'[d] = IF d = e THEN k ELSE key[d]
  BY <1>1, <1>3 DEF Swept, Reach, IInv, TypeOK
<1>8. \A d \in Entries : queued'[d] => d \in Reach' /\ queued[d]
  BY <1>1 DEF Flagged, Reach, Live, Goroutines
<1>9. \A d \in Entries \ {e} : removes'[d] => removes[d]
  BY <1>1 DEF Swept, IInv, TypeOK
<1>10. KeysOK'
  <2>1. ASSUME NEW j \in Keys, items'[j] # 0 PROVE key'[items'[j]] = j
    <3>1. CASE j = k
      BY <1>1, <1>3, <1>6, <1>7, <3>1 DEF IInv, TypeOK
    <3>2. CASE j # k
      <4>1. items'[j] = items[j] /\ items[j] \in Entries /\ items[j] \in Reach
        BY <1>1, <2>1, <3>2 DEF IInv, TypeOK, Reach, Live
      <4>2. key'[items[j]] = key[items[j]]
        BY <1>3, <1>6, <1>7, <4>1
      <4>3. key[items[j]] = j
        BY <2>1, <4>1 DEF IInv, KeysOK
      <4> QED BY <4>1, <4>2, <4>3
    <3> QED BY <3>1, <3>2
  <2>2. \A d \in Entries : d \in Reach' => key'[d] \in Keys
    BY <1>6, <1>7 DEF IInv, KeysOK
  <2> QED BY <2>1, <2>2 DEF KeysOK
<1>11. GarbageOK'
  BY <1>8 DEF GarbageOK
<1>12. ASSUME NEW j \in Keys, NEW d \in Entries, items'[j] = d, removes'[d], queued'[d], ~done'
       PROVE  OnItsWay(d)'
  <2>1. queued[d] /\ d # e
    BY <1>3, <1>8, <1>12
  <2>2. d = items[j] /\ d \in Reach
    BY <1>1, <1>12, <2>1, LifetimerAssumption DEF IInv, TypeOK, Reach, Live
  <2>3. OnItsWay(d)
    BY <1>2, <1>9, <1>12, <2>1, <2>2, LifetimerAssumption DEF IInv, FlaggedIsOnItsWay, ToRemove
  <2>4. key'[d] = key[d]
    BY <1>6, <1>7, <2>1, <2>2
  <2> QED BY <1>2, <2>3, <2>4 DEF OnItsWay
<1>13. FlaggedIsOnItsWay'
  BY <1>4, <1>12, LifetimerAssumption DEF FlaggedIsOnItsWay, ToRemove, TypeOK
<1> QED BY <1>4, <1>5, <1>10, <1>11, <1>13 DEF IInv

LEMMA DropInv ==
  ASSUME IInv, NEW k \in Keys, Drop(k)
  PROVE  IInv'
<1>1. /\ items' = [items EXCEPT ![k] = 0]
      /\ UNCHANGED <<queue, popped, ch, done, pc, ref>>
      /\ Collect(expired, queued)
  BY DEF Drop
<1>2. /\ key' \in [Entries -> Keys \cup {Nil}]
      /\ expired' \in [Entries -> Verdicts]
      /\ {removes', queued'} \subseteq [Entries -> BOOLEAN]
      /\ \A d \in Entries : d \in Reach' => key'[d] = key[d] /\ removes'[d] = removes[d]
      /\ \A d \in Entries : queued'[d] => d \in Reach' /\ queued[d]
  BY <1>1, CollectStep DEF IInv, TypeOK
<1>3. TypeOK'
  BY <1>1, <1>2 DEF IInv, TypeOK
<1>4. \A d \in Entries : d \in Reach' => d \in Reach
  BY <1>1, LifetimerAssumption DEF IInv, TypeOK, Reach, Live
<1>5. ASSUME NEW j \in Keys, NEW d \in Entries, items'[j] = d
      PROVE  items[j] = d /\ key'[d] = key[d]
  <2>1. items[j] = d
    BY <1>1, <1>5, LifetimerAssumption DEF IInv, TypeOK
  <2>2. d \in Reach'
    BY <1>5 DEF Reach, Live
  <2> QED BY <1>2, <2>1, <2>2
<1>6. KeysOK'
  BY <1>2, <1>3, <1>4, <1>5 DEF IInv, KeysOK, TypeOK
<1>7. ASSUME NEW j \in Keys, NEW d \in Entries, items'[j] = d, removes'[d], queued'[d], ~done'
      PROVE  OnItsWay(d)'
  <2>1. OnItsWay(d)
    BY <1>1, <1>2, <1>5, <1>7, LifetimerAssumption DEF IInv, FlaggedIsOnItsWay, ToRemove
  <2> QED BY <1>1, <1>5, <1>7, <2>1, LifetimerAssumption DEF OnItsWay
<1>8. FlaggedIsOnItsWay'
  BY <1>3, <1>7, LifetimerAssumption DEF FlaggedIsOnItsWay, ToRemove, TypeOK
<1> QED BY <1>1, <1>2, <1>3, <1>6, <1>8 DEF IInv, LocalsOK, GarbageOK

\* A client renews a cached entry.
LEMMA UpdateInv ==
  ASSUME IInv, NEW c \in Clients, NEW k \in Keys, Update(c, k)
  PROVE  IInv'
<1>1. /\ pc[c] = "idle" /\ items[k] \in Entries
      /\ Goto(c, "unflag", items[k])
      /\ UNCHANGED <<items, key, removes, queued, queue, popped, ch, done>>
      /\ expired' = [expired EXCEPT ![items[k]] = "no"]
  BY DEF Update, IInv, TypeOK
<1>2. ref[c] = 0
  BY <1>1, ClientLocals DEF IInv, LocalsOK
<1>3. \A d \in Entries : d \in Reach => d \in Reach'
  BY <1>1, <1>2, LifetimerAssumption, ClientLocals DEF IInv, TypeOK, Reach, Live, Goto
<1>4. \A j \in Keys, d \in Entries :
        items[j] = d /\ items'[j] = d /\ removes'[d] /\ queued'[d] /\ ~done'
          => OnItsWay(d)'
  BY <1>1, <1>2, ClientLocals, StillOnItsWay, LifetimerAssumption
<1>5. \A d \in Entries : queued'[d] => d \in Reach'
  BY <1>1, <1>3 DEF IInv, GarbageOK
<1>6. items[k] \in Reach
  BY DEF Reach, Live
<1>7. popped' \in Keys \cup {Nil} /\ (popped' # Nil <=> pc'[Provider] = "get")
  BY <1>1, ClientLocals DEF IInv, TypeOK, LocalsOK, Goto
<1>8. Range(ch') \subseteq Reach
  BY <1>1 DEF Reach, Live
<1>9. TypeOK' /\ items[k] # 0
  BY <1>1, ClientLocals, LifetimerAssumption DEF IInv, TypeOK, Goto
<1> QED
  BY <1>1, <1>4, <1>5, <1>6, <1>7, <1>8, <1>9, ClientLocals, GotoStep DEF TypeOK, Labels


LEMMA UnflagInv ==
  ASSUME IInv, NEW c \in Clients, Unflag(c)
  PROVE  IInv'
<1> DEFINE que == [queued EXCEPT ![ref[c]] = FALSE]
<1>1. /\ pc[c] = "unflag" /\ ref[c] \in Entries
      /\ Goto(c, "idle", 0)
      /\ UNCHANGED <<items, queue, popped, ch, done>>
      /\ Collect(expired, que)
  BY ClientLocals DEF Unflag
<1>2. que \in [Entries -> BOOLEAN] /\ \A d \in Entries : que[d] => queued[d] /\ d # ref[c]
  BY DEF IInv, TypeOK
<1>3. /\ key' \in [Entries -> Keys \cup {Nil}]
      /\ expired' \in [Entries -> Verdicts]
      /\ {removes', queued'} \subseteq [Entries -> BOOLEAN]
      /\ \A d \in Entries : d \in Reach' => key'[d] = key[d] /\ removes'[d] = removes[d]
      /\ \A d \in Entries : queued'[d] => d \in Reach' /\ que[d]
  <2> HIDE DEF que
  <2> QED BY <1>1, <1>2, CollectStep DEF IInv, TypeOK
<1>4. \A j \in Keys, d \in Entries :
        items[j] = d /\ items'[j] = d /\ removes'[d] /\ queued'[d] /\ ~done'
          => OnItsWay(d)'
  <2> HIDE DEF que
  <2> QED BY <1>1, <1>2, <1>3, ClientLocals, StillOnItsWay
<1>5. popped' \in Keys \cup {Nil} /\ (popped' # Nil <=> pc'[Provider] = "get")
  BY <1>1, ClientLocals DEF IInv, TypeOK, LocalsOK, Goto
<1>6. Range(ch') \subseteq Reach
  BY <1>1 DEF Reach, Live
<1>7. TypeOK'
  BY <1>1, <1>3, <1>5, ClientLocals DEF IInv, TypeOK, Goto
<1> QED
  BY <1>1, <1>3, <1>4, <1>5, <1>6, <1>7, ClientLocals, GotoStep DEF TypeOK, Labels

LEMMA TouchInv ==
  ASSUME IInv, NEW c \in Clients, NEW k \in Keys, Touch(c, k)
  PROVE  IInv'
<1>1. /\ pc[c] = "idle" /\ items[k] \in Entries /\ items[k] \in Reach /\ items[k] # 0
      /\ Goto(c, "flag", items[k])
      /\ UNCHANGED <<items, entryVars, queue, popped, ch, done>>
  BY DEF Touch, IInv, TypeOK, Reach, Live
<1>2. ref[c] = 0
  BY <1>1, ClientLocals DEF IInv, LocalsOK
<1>3. \A d \in Entries : d \in Reach => d \in Reach'
  BY <1>1, <1>2, LifetimerAssumption, ClientLocals DEF IInv, TypeOK, Reach, Live, Goto
<1>4. /\ key' \in [Entries -> Keys \cup {Nil}]
      /\ expired' \in [Entries -> Verdicts]
      /\ {removes', queued'} \subseteq [Entries -> BOOLEAN]
      /\ \A d \in Entries : d \in Reach' => key'[d] = key[d] /\ removes'[d] = removes[d]
      /\ \A d \in Entries : queued'[d] => d \in Reach' /\ queued[d]
  BY <1>1, <1>3, KeepStep
<1>5. \A j \in Keys, d \in Entries :
        items[j] = d /\ items'[j] = d /\ removes'[d] /\ queued'[d] /\ ~done'
          => OnItsWay(d)'
  BY <1>1, <1>2, <1>4, ClientLocals, StillOnItsWay, LifetimerAssumption
<1>6. popped' \in Keys \cup {Nil} /\ (popped' # Nil <=> pc'[Provider] = "get")
  BY <1>1, ClientLocals DEF IInv, TypeOK, LocalsOK, Goto
<1>7. Range(ch') \subseteq Reach
  BY <1>1 DEF Reach, Live
<1>8. TypeOK'
  BY <1>1, <1>4, <1>6, ClientLocals DEF IInv, TypeOK, Goto
<1> QED
  BY <1>1, <1>4, <1>5, <1>6, <1>7, <1>8, ClientLocals, GotoStep DEF TypeOK, Labels

LEMMA TouchFlagInv ==
  ASSUME IInv, NEW c \in Clients, TouchFlag(c)
  PROVE  IInv'
<1> DEFINE que == [queued EXCEPT ![ref[c]] = TRUE]
           l   == IF queued[ref[c]] THEN "idle" ELSE "push"
           e   == IF queued[ref[c]] THEN 0 ELSE ref[c]
<1>1. /\ pc[c] = "flag" /\ ref[c] \in Entries /\ ref[c] # 0
      /\ Goto(c, l, e)
      /\ UNCHANGED <<items, queue, popped, ch, done>>
      /\ Collect(expired, que)
  BY ClientLocals, LifetimerAssumption DEF TouchFlag
<1>2. que \in [Entries -> BOOLEAN] /\ \A d \in Entries : que[d] => queued[d] \/ d = ref[c]
  BY DEF IInv, TypeOK
<1>3. /\ key' \in [Entries -> Keys \cup {Nil}]
      /\ expired' \in [Entries -> Verdicts]
      /\ {removes', queued'} \subseteq [Entries -> BOOLEAN]
      /\ \A d \in Entries : d \in Reach' => key'[d] = key[d] /\ removes'[d] = removes[d]
      /\ \A d \in Entries : queued'[d] => d \in Reach' /\ que[d]
  <2> HIDE DEF que
  <2> QED BY <1>1, <1>2, CollectStep DEF IInv, TypeOK
<1>4. \A j \in Keys, d \in Entries :
        items[j] = d /\ items'[j] = d /\ removes'[d] /\ queued'[d] /\ ~done'
          => OnItsWay(d)'
  <2> SUFFICES ASSUME NEW j \in Keys, NEW d \in Entries,
                      items[j] = d, items'[j] = d, removes'[d], queued'[d], ~done'
               PROVE  OnItsWay(d)'
    OBVIOUS
  <2>1. CASE queued[d]
    <3> HIDE DEF que, l, e
    <3> QED BY <1>1, <1>3, <2>1, ClientLocals, StillOnItsWay
  <2>2. CASE ~queued[d]
    <3>1. d = ref[c] /\ pc'[c] = "push" /\ ref'[c] = d
      BY <1>1, <1>2, <1>3, <2>2, ClientLocals DEF Goto, IInv, TypeOK
    <3> QED BY <3>1 DEF OnItsWay
  <2> QED BY <2>1, <2>2
<1>5. popped' \in Keys \cup {Nil} /\ (popped' # Nil <=> pc'[Provider] = "get")
  BY <1>1, ClientLocals DEF IInv, TypeOK, LocalsOK, Goto
<1>6. Range(ch') \subseteq Reach
  BY <1>1 DEF Reach, Live
<1>7. TypeOK'
  BY <1>1, <1>3, <1>5, ClientLocals DEF IInv, TypeOK, Goto
<1>8. /\ l \in Labels /\ e \in Entries \cup {0} /\ (e # 0 => e \in Reach)
      /\ l \in {"flag", "push", "unflag", "check", "reset", "send", "call"} => e # 0
      /\ l \in {"idle", "pop", "get", "sample"} => e = 0
  BY <1>1, ClientLocals DEF Labels
<1>9. items' = items
  BY <1>1
<1> HIDE DEF que, l, e
<1> QED
  BY <1>1, <1>3, <1>4, <1>5, <1>6, <1>7, <1>8, <1>9, ClientLocals, GotoStep DEF TypeOK


\* The key an entry is queued under is the one it is cached under.
LEMMA TouchPushInv ==
  ASSUME IInv, NEW c \in Clients, TouchPush(c)
  PROVE  IInv'
<1>1. /\ pc[c] = "push" /\ ref[c] \in Entries /\ Len(queue) < QueueCap
      /\ Goto(c, "idle", 0)
      /\ queue' = Append(queue, key[ref[c]])
      /\ UNCHANGED <<items, popped, ch, done>>
      /\ Collect(expired, queued)
  BY ClientLocals DEF TouchPush
<1>2. /\ key' \in [Entries -> Keys \cup {Nil}]
      /\ expired' \in [Entries -> Verdicts]
      /\ {removes', queued'} \subseteq [Entries -> BOOLEAN]
      /\ \A d \in Entries : d \in Reach' => key'[d] = key[d] /\ removes'[d] = removes[d]
      /\ \A d \in Entries : queued'[d] => d \in Reach' /\ queued[d]
  BY <1>1, CollectStep DEF IInv, TypeOK
<1>3. key[ref[c]] \in Keys
  BY <1>1, ClientLocals DEF IInv, KeysOK
<1>4. /\ queue' \in Seq(Keys) /\ Len(queue') = Len(queue) + 1
      /\ Range(queue') = Range(queue) \cup {key[ref[c]]}
  BY <1>1, <1>3, RangeAppend DEF IInv, TypeOK
<1>5. Len(queue') <= QueueCap
  BY <1>1, <1>4, LifetimerAssumption, LenProperties DEF IInv, TypeOK
<1>6. ASSUME NEW j \in Keys, NEW d \in Entries,
             items[j] = d, items'[j] = d, removes'[d], queued'[d], ~done'
      PROVE  OnItsWay(d)'
  <2>1. d \in Reach' /\ key'[d] = key[d]
    BY <1>2, <1>6
  <2>2. d = ref[c] => OnItsWay(d)'
    BY <1>4, <2>1 DEF OnItsWay
  <2> QED BY <1>1, <1>2, <1>4, <1>6, <2>2, ClientLocals, StillOnItsWay
<1>7. popped' \in Keys \cup {Nil} /\ (popped' # Nil <=> pc'[Provider] = "get")
  BY <1>1, ClientLocals DEF IInv, TypeOK, LocalsOK, Goto
<1>8. Range(ch') \subseteq Reach
  BY <1>1 DEF Reach, Live
<1>9. TypeOK'
  BY <1>1, <1>2, <1>4, <1>5, <1>7, ClientLocals DEF IInv, TypeOK, Goto
<1> QED
  BY <1>1, <1>2, <1>6, <1>7, <1>8, <1>9, ClientLocals, GotoStep DEF TypeOK, Labels

\* A step that changes no entry and leaves every one within reach and on its way.
LEMMA KeepGotoStep ==
  ASSUME IInv, NEW g \in Goroutines, NEW l \in Labels, NEW e \in Entries \cup {0},
         Goto(g, l, e), UNCHANGED <<items, entryVars, done>>,
         e # 0 => e \in Reach,
         l \in {"flag", "push", "unflag", "check", "reset", "send", "call"} => e # 0,
         l \in {"idle", "pop", "get", "sample"} => e = 0,
         popped' \in Keys \cup {Nil}, popped' # Nil <=> pc'[Provider] = "get",
         queue' \in Seq(Keys), Len(queue') <= QueueCap,
         ch' \in Seq(Entries), Len(ch') <= ChanCap, Range(ch') \subseteq Reach,
         Range(ch) \subseteq Range(ch') \cup {e},
         ref[g] \in Range(ch') \cup {0, e},
         \A k \in Keys, d \in Entries :
           items[k] = d /\ OnItsWay(d) => OnItsWay(d)'
  PROVE  IInv'
<1>1. \A d \in Entries : d \in Reach => d \in Reach'
  <2> SUFFICES ASSUME NEW d \in Entries, d \in Reach PROVE d \in Reach'
    OBVIOUS
  <2>1. ref'[g] = e /\ \A p \in Goroutines \ {g} : ref'[p] = ref[p]
    BY DEF Goto, IInv, TypeOK
  <2>2. d # 0
    BY LifetimerAssumption
  <2>3. CASE \E k \in Keys : items[k] = d
    BY <2>3 DEF Reach, Live
  <2>4. CASE d \in Range(ch)
    BY <2>1, <2>4 DEF Reach, Live
  <2>5. CASE \E p \in Goroutines : ref[p] = d
    BY <2>1, <2>2, <2>5 DEF Reach, Live
  <2> QED BY <2>3, <2>4, <2>5 DEF Reach, Live
<1>2. /\ key' \in [Entries -> Keys \cup {Nil}]
      /\ expired' \in [Entries -> Verdicts]
      /\ {removes', queued'} \subseteq [Entries -> BOOLEAN]
      /\ \A d \in Entries : d \in Reach' => key'[d] = key[d] /\ removes'[d] = removes[d]
      /\ \A d \in Entries : queued'[d] => d \in Reach' /\ queued[d]
  BY <1>1, KeepStep
<1>3. \A k \in Keys, d \in Entries :
        items[k] = d /\ items'[k] = d /\ removes'[d] /\ queued'[d] /\ ~done'
          => OnItsWay(d)'
  BY <1>2, LifetimerAssumption DEF IInv, FlaggedIsOnItsWay, ToRemove
<1>4. items' \in [Keys -> Entries \cup {0}] /\ items' = items /\ done' \in BOOLEAN
  BY DEF IInv, TypeOK
<1> QED BY <1>2, <1>3, <1>4, GotoStep

LEMMA TouchPushFullInv ==
  ASSUME IInv, NEW c \in Clients, TouchPushFull(c)
  PROVE  IInv'
<1>1. /\ pc[c] = "push" /\ ref[c] \in Entries /\ ref[c] # 0
      /\ Goto(c, "unflag", ref[c])
      /\ UNCHANGED <<items, entryVars, queue, popped, ch, done>>
  BY ClientLocals, LifetimerAssumption DEF TouchPushFull
<1>2. popped' \in Keys \cup {Nil} /\ (popped' # Nil <=> pc'[Provider] = "get")
  BY <1>1, ClientLocals DEF IInv, TypeOK, LocalsOK, Goto
<1>3. Range(ch') \subseteq Reach /\ UNCHANGED <<items, entryVars, done>>
  BY <1>1 DEF Reach, Live
<1>4. ASSUME NEW d \in Entries, OnItsWay(d) PROVE OnItsWay(d)'
  <2>1. ref' = ref /\ \A p \in Clients : pc[p] \in {"push", "unflag"} => pc'[p] \in {"push", "unflag"}
    BY <1>1, ClientLocals DEF IInv, TypeOK, Goto
  <2> QED BY <1>1, <1>4, <2>1 DEF OnItsWay, entryVars
<1>5. /\ queue' \in Seq(Keys) /\ Len(queue') <= QueueCap
      /\ ch' \in Seq(Entries) /\ Len(ch') <= ChanCap
  BY <1>1 DEF IInv, TypeOK
<1> QED BY <1>1, <1>2, <1>3, <1>4, <1>5, ClientLocals, KeepGotoStep DEF Labels


-----------------------------------------------------------------------------
(* The steps of the provider. *)

LEMMA ProviderLocals ==
  ASSUME IInv
  PROVE  /\ Provider \in Goroutines /\ Provider \notin Clients
         /\ ref[Provider] \in Reach
         /\ pc[Provider] \in {"check", "reset", "send"} => ref[Provider] \in Entries
         /\ pc[Provider] \in {"idle", "pop", "get", "sample"} => ref[Provider] = 0
         /\ popped \in Keys \cup {Nil} /\ (popped # Nil <=> pc[Provider] = "get")
BY GoroutinesAssumption DEF IInv, TypeOK, LocalsOK, Goroutines, Reach, Live

\* Steps from and to "nothing in hands" of a provider that keeps the key it has.
LEMMA ProviderMoves ==
  ASSUME IInv, NEW l \in {"idle", "pop", "check", "send", "sample", "reset"},
         NEW e \in Entries \cup {0}, Goto(Provider, l, e),
         UNCHANGED <<items, entryVars, queue, popped, ch, done>>,
         pc[Provider] # "get", e # 0 => e \in Reach,
         l \in {"check", "send", "reset"} <=> e # 0,
         ref[Provider] \in {0, e}
  PROVE  IInv'
<1>1. pc'[Provider] = l /\ ref'[Provider] = e
  BY ProviderLocals DEF IInv, TypeOK, Goto
<1>2. \A p \in Goroutines \ {Provider} : pc'[p] = pc[p] /\ ref'[p] = ref[p]
  BY DEF IInv, TypeOK, Goto
<1>3. ASSUME NEW d \in Entries, OnItsWay(d) PROVE OnItsWay(d)'
  <2>1. d # 0
    BY LifetimerAssumption
  <2>2. CASE \E p \in Consumers \cup {Provider} : ref[p] = d
    BY <1>1, <1>2, <2>1, <2>2 DEF OnItsWay, Goroutines
  <2>3. CASE \E c \in Clients : ref[c] = d /\ pc[c] \in {"push", "unflag"}
    BY <1>2, <2>3, ProviderLocals DEF OnItsWay, Goroutines
  <2> QED BY <1>3, <2>2, <2>3 DEF OnItsWay, entryVars
<1>4. /\ queue' \in Seq(Keys) /\ Len(queue') <= QueueCap
      /\ ch' \in Seq(Entries) /\ Len(ch') <= ChanCap
  BY DEF IInv, TypeOK
<1>5. Range(ch') \subseteq Reach
  BY DEF Reach, Live
<1>6. popped' \in Keys \cup {Nil} /\ (popped' # Nil <=> pc'[Provider] = "get")
  BY <1>1, ProviderLocals
<1>7. UNCHANGED <<items, entryVars, done>> /\ Range(ch) \subseteq Range(ch') \cup {e}
  OBVIOUS
<1>8. /\ l \in {"flag", "push", "unflag", "check", "reset", "send", "call"} => e # 0
      /\ l \in {"idle", "pop", "get", "sample"} => e = 0
      /\ l \in Labels
  BY DEF Labels
<1> QED BY <1>3, <1>4, <1>5, <1>6, <1>7, <1>8, ProviderLocals, KeepGotoStep

LEMMA ScanInv == IInv /\ Scan => IInv'
BY ProviderLocals, ProviderMoves DEF Scan

LEMMA ScanPopEmptyInv == IInv /\ ScanPopEmpty => IInv'
BY ProviderLocals, ProviderMoves DEF ScanPopEmpty

LEMMA ScanCheckInv == IInv /\ ScanCheck => IInv'
<1> SUFFICES ASSUME IInv, ScanCheck PROVE IInv'
  OBVIOUS
<1>1. ref[Provider] \in Entries /\ ref[Provider] # 0
  BY ProviderLocals, LifetimerAssumption DEF ScanCheck
<1>2. PICK l \in {"send", "reset"} : Goto(Provider, l, ref[Provider])
  BY DEF ScanCheck
<1>3. pc[Provider] = "check" /\ UNCHANGED <<items, entryVars, queue, popped, ch, done>>
  BY DEF ScanCheck
<1> QED BY <1>1, <1>2, <1>3, ProviderLocals, ProviderMoves

LEMMA SampleHitInv == IInv /\ SampleHit => IInv'
<1> SUFFICES ASSUME IInv, SampleHit PROVE IInv'
  OBVIOUS
<1>1. PICK e \in Cached : Goto(Provider, "send", e)
  BY DEF SampleHit
<1>2. e \in Entries /\ e # 0 /\ e \in Reach
  BY LifetimerAssumption DEF Cached, IInv, TypeOK, Reach, Live
<1> QED BY <1>1, <1>2, ProviderLocals, ProviderMoves DEF SampleHit

LEMMA SampleMissInv == IInv /\ SampleMiss => IInv'
BY ProviderLocals, ProviderMoves DEF SampleMiss


\* The key the provider takes out of the queue is the one it looks for.
LEMMA ScanPopInv == IInv /\ ScanPop => IInv'
<1> SUFFICES ASSUME IInv, ScanPop PROVE IInv'
  OBVIOUS
<1>1. /\ pc[Provider] = "pop" /\ queue # <<>>
      /\ Goto(Provider, "get", 0)
      /\ queue' = Tail(queue) /\ popped' = Head(queue)
      /\ UNCHANGED <<items, entryVars, done>> /\ UNCHANGED <<entryVars, ch>>
  BY DEF ScanPop
<1>2. /\ popped' \in Keys /\ queue' \in Seq(Keys) /\ Len(queue') = Len(queue) - 1
      /\ Range(queue) = Range(queue') \cup {popped'}
  BY <1>1, RangeTail DEF IInv, TypeOK
<1>3. Len(queue') <= QueueCap
  BY <1>2, LifetimerAssumption, LenProperties DEF IInv, TypeOK
<1>4. popped = Nil /\ ref[Provider] = 0
  BY <1>1, ProviderLocals
<1>5. pc'[Provider] = "get" /\ popped' # Nil
  BY <1>1, <1>2, ProviderLocals, LifetimerAssumption DEF IInv, TypeOK, Goto
<1>6. ref' = ref
  BY <1>1, <1>4, ProviderLocals DEF IInv, TypeOK, Goto
<1>7. \A p \in Goroutines \ {Provider} : pc'[p] = pc[p]
  BY <1>1 DEF IInv, TypeOK, Goto
<1>8. ASSUME NEW k \in Keys, NEW d \in Entries, items[k] = d, OnItsWay(d)
      PROVE  OnItsWay(d)'
  <2>1. key[d] = k /\ k # Nil /\ key' = key
    BY <1>1, <1>8, LifetimerAssumption DEF IInv, KeysOK, entryVars
  <2>2. \A c \in Clients : pc'[c] = pc[c]
    BY <1>7, ProviderLocals DEF Goroutines
  <2> QED BY <1>1, <1>2, <1>4, <1>6, <1>8, <2>1, <2>2 DEF OnItsWay
<1>9. ch' \in Seq(Entries) /\ Len(ch') <= ChanCap /\ Range(ch') \subseteq Reach
  BY <1>1 DEF IInv, TypeOK, Reach, Live
<1>10. Range(ch) \subseteq Range(ch') \cup {0}
  BY <1>1
<1> QED
  BY <1>1, <1>2, <1>3, <1>4, <1>5, <1>8, <1>9, <1>10, ProviderLocals, KeepGotoStep DEF Labels

\* An entry that is cached under the key is found.
LEMMA ScanGetInv == IInv /\ ScanGet => IInv'
<1> SUFFICES ASSUME IInv, ScanGet PROVE IInv'
  OBVIOUS
<1> DEFINE e == items[popped]
           l == IF e = 0 THEN "sample" ELSE "check"
<1>1. /\ pc[Provider] = "get" /\ popped' = Nil
      /\ Goto(Provider, l, e)
      /\ UNCHANGED <<items, entryVars, done>> /\ UNCHANGED <<entryVars, queue, ch>>
  BY DEF ScanGet
<1>2. popped \in Keys /\ ref[Provider] = 0
  BY <1>1, ProviderLocals, LifetimerAssumption
<1>3. e \in Entries \cup {0} /\ (e # 0 => e \in Reach)
  BY <1>2 DEF IInv, TypeOK, Reach, Live
<1>4. /\ l \in Labels
      /\ l \in {"flag", "push", "unflag", "check", "reset", "send", "call"} => e # 0
      /\ l \in {"idle", "pop", "get", "sample"} => e = 0
      /\ l # "get"
  BY DEF Labels
<1>5. pc'[Provider] = l /\ ref'[Provider] = e
  BY <1>1, ProviderLocals DEF IInv, TypeOK, Goto
<1>6. \A p \in Goroutines \ {Provider} : pc'[p] = pc[p] /\ ref'[p] = ref[p]
  BY <1>1 DEF IInv, TypeOK, Goto
<1>7. ASSUME NEW k \in Keys, NEW d \in Entries, items[k] = d, OnItsWay(d)
      PROVE  OnItsWay(d)'
  <2>1. key[d] = k /\ key' = key /\ d # 0
    BY <1>1, <1>7, LifetimerAssumption DEF IInv, KeysOK, entryVars
  <2>2. CASE key[d] \in Range(queue)
    BY <1>1, <2>1, <2>2 DEF OnItsWay
  <2>3. CASE key[d] = popped
    BY <1>5, <1>7, <2>1, <2>3 DEF OnItsWay
  <2>4. CASE d \in Range(ch)
    BY <1>1, <2>4 DEF OnItsWay
  <2>5. CASE \E p \in Consumers \cup {Provider} : ref[p] = d
    BY <1>2, <1>6, <2>1, <2>5 DEF OnItsWay, Goroutines
  <2>6. CASE \E c \in Clients : ref[c] = d /\ pc[c] \in {"push", "unflag"}
    BY <1>6, <2>6, ProviderLocals DEF OnItsWay, Goroutines
  <2> QED BY <1>7, <2>2, <2>3, <2>4, <2>5, <2>6 DEF OnItsWay
<1>8. /\ queue' \in Seq(Keys) /\ Len(queue') <= QueueCap
      /\ ch' \in Seq(Entries) /\ Len(ch') <= ChanCap /\ Range(ch') \subseteq Reach
  BY <1>1 DEF IInv, TypeOK, Reach, Live
<1>9. Range(ch) \subseteq Range(ch') \cup {e}
  BY <1>1
<1> HIDE DEF e, l
<1> QED
  BY <1>1, <1>2, <1>3, <1>4, <1>5, <1>7, <1>8, <1>9, ProviderLocals, KeepGotoStep

LEMMA ScanResetInv == IInv /\ ScanReset => IInv'
<1> SUFFICES ASSUME IInv, ScanReset PROVE IInv'
  OBVIOUS
<1> DEFINE que == [queued EXCEPT ![ref[Provider]] = FALSE]
<1>1. /\ pc[Provider] = "reset"
      /\ Goto(Provider, "sample", 0)
      /\ UNCHANGED <<items, queue, popped, ch, done>>
      /\ Collect(expired, que)
  BY DEF ScanReset
<1>2. que \in [Entries -> BOOLEAN] /\ \A d \in Entries : que[d] => queued[d] /\ d # ref[Provider]
  BY DEF IInv, TypeOK
<1> HIDE DEF que
<1>3. /\ key' \in [Entries -> Keys \cup {Nil}]
      /\ expired' \in [Entries -> Verdicts]
      /\ {removes', queued'} \subseteq [Entries -> BOOLEAN]
      /\ \A d \in Entries : d \in Reach' => key'[d] = key[d] /\ removes'[d] = removes[d]
      /\ \A d \in Entries : queued'[d] => d \in Reach' /\ que[d]
  BY <1>1, <1>2, CollectStep DEF IInv, TypeOK
<1>4. \A j \in Keys, d \in Entries :
        items[j] = d /\ items'[j] = d /\ removes'[d] /\ queued'[d] /\ ~done'
          => OnItsWay(d)'
  BY <1>1, <1>2, <1>3, ProviderLocals, StillOnItsWay
<1>5. popped' \in Keys \cup {Nil} /\ (popped' # Nil <=> pc'[Provider] = "get")
  BY <1>1, ProviderLocals DEF IInv, TypeOK, Goto
<1>6. Range(ch') \subseteq Reach
  BY <1>1 DEF Reach, Live
<1>7. TypeOK'
  BY <1>1, <1>3, <1>5, ProviderLocals DEF IInv, TypeOK, Goto
<1> QED
  BY <1>1, <1>3, <1>4, <1>5, <1>6, <1>7, ProviderLocals, GotoStep DEF TypeOK, Labels


LEMMA SendInv == IInv /\ Send => IInv'
<1> SUFFICES ASSUME IInv, Send PROVE IInv'
  OBVIOUS
<1>1. /\ pc[Provider] = "send" /\ Len(ch) < ChanCap
      /\ ch' = Append(ch, ref[Provider])
      /\ Goto(Provider, "idle", 0)
      /\ UNCHANGED <<items, entryVars, queue, popped, done>>
      /\ UNCHANGED <<items, entryVars, done>>
  BY DEF Send
<1>2. ref[Provider] \in Entries /\ ref[Provider] \in Reach
  BY <1>1, ProviderLocals
<1>3. /\ ch' \in Seq(Entries) /\ Len(ch') = Len(ch) + 1
      /\ Range(ch') = Range(ch) \cup {ref[Provider]}
  BY <1>1, <1>2, RangeAppend DEF IInv, TypeOK
<1>4. Len(ch') <= ChanCap
  BY <1>1, <1>3, LifetimerAssumption, LenProperties DEF IInv, TypeOK
<1>5. Range(ch') \subseteq Reach
  BY <1>2, <1>3 DEF Reach, Live
<1>6. \A p \in Goroutines \ {Provider} : pc'[p] = pc[p] /\ ref'[p] = ref[p]
  BY <1>1 DEF IInv, TypeOK, Goto
<1>7. ASSUME NEW k \in Keys, NEW d \in Entries, items[k] = d, OnItsWay(d)
      PROVE  OnItsWay(d)'
  <2>1. CASE \E p \in Consumers \cup {Provider} : ref[p] = d
    BY <1>3, <1>6, <2>1 DEF OnItsWay, Goroutines
  <2>2. CASE \E c \in Clients : ref[c] = d /\ pc[c] \in {"push", "unflag"}
    BY <1>6, <2>2, ProviderLocals DEF OnItsWay, Goroutines
  <2> QED BY <1>1, <1>3, <1>7, <2>1, <2>2 DEF OnItsWay, entryVars
<1>8. queue' \in Seq(Keys) /\ Len(queue') <= QueueCap
  BY <1>1 DEF IInv, TypeOK
<1>9. popped' \in Keys \cup {Nil} /\ (popped' # Nil <=> pc'[Provider] = "get")
  BY <1>1, ProviderLocals DEF IInv, TypeOK, Goto
<1> QED
  BY <1>1, <1>3, <1>4, <1>5, <1>7, <1>8, <1>9, ProviderLocals, KeepGotoStep DEF Labels

\* Nothing is promised of a lifetimer that is closed.
LEMMA ProviderStopInv == IInv /\ ProviderStop => IInv'
<1> SUFFICES ASSUME IInv, ProviderStop PROVE IInv'
  OBVIOUS
<1>1. /\ done /\ pc[Provider] \in {"idle", "send"}
      /\ Goto(Provider, "stopped", 0)
      /\ UNCHANGED <<items, queue, popped, ch, done>>
      /\ Collect(expired, queued)
  BY DEF ProviderStop
<1>2. /\ key' \in [Entries -> Keys \cup {Nil}]
      /\ expired' \in [Entries -> Verdicts]
      /\ {removes', queued'} \subseteq [Entries -> BOOLEAN]
      /\ \A d \in Entries : d \in Reach' => key'[d] = key[d] /\ removes'[d] = removes[d]
      /\ \A d \in Entries : queued'[d] => d \in Reach' /\ queued[d]
  BY <1>1, CollectStep DEF IInv, TypeOK
<1>3. popped' \in Keys \cup {Nil} /\ (popped' # Nil <=> pc'[Provider] = "get")
  BY <1>1, ProviderLocals DEF IInv, TypeOK, Goto
<1>4. Range(ch') \subseteq Reach
  BY <1>1 DEF Reach, Live
<1>5. TypeOK' /\ done'
  BY <1>1, <1>2, <1>3, ProviderLocals DEF IInv, TypeOK, Goto
<1> QED
  BY <1>1, <1>2, <1>3, <1>4, <1>5, ProviderLocals, GotoStep DEF TypeOK, Labels

-----------------------------------------------------------------------------
(* The steps of consumers. *)

LEMMA ConsumerLocals ==
  ASSUME IInv, NEW c \in Consumers
  PROVE  /\ c \in Goroutines /\ c \notin Clients /\ c # Provider
         /\ ref[c] \in Reach
         /\ pc[c] = "call" => ref[c] \in Entries /\ key[ref[c]] \in Keys
         /\ pc[c] = "idle" => ref[c] = 0
BY GoroutinesAssumption DEF IInv, TypeOK, LocalsOK, KeysOK, Goroutines, Reach, Live

LEMMA ReceiveInv ==
  ASSUME IInv, NEW c \in Consumers, Receive(c)
  PROVE  IInv'
<1>1. /\ pc[c] = "idle" /\ ch # <<>>
      /\ ch' = Tail(ch)
      /\ Goto(c, "call", Head(ch))
      /\ UNCHANGED <<items, entryVars, queue, popped, done>>
      /\ UNCHANGED <<items, entryVars, done>>
  BY DEF Receive
<1>2. /\ Head(ch) \in Entries /\ ch' \in Seq(Entries) /\ Len(ch') = Len(ch) - 1
      /\ Range(ch) = Range(ch') \cup {Head(ch)}
  BY <1>1, RangeTail DEF IInv, TypeOK
<1>3. Len(ch') <= ChanCap
  BY <1>2, LifetimerAssumption, LenProperties DEF IInv, TypeOK
<1>4. Range(ch') \subseteq Reach /\ Head(ch) \in Reach /\ Head(ch) # 0
  BY <1>2, LifetimerAssumption DEF Reach, Live
<1>5. /\ \A p \in Goroutines \ {c} : pc'[p] = pc[p] /\ ref'[p] = ref[p]
      /\ ref'[c] = Head(ch) /\ ref[c] = 0
  BY <1>1, ConsumerLocals DEF IInv, TypeOK, Goto
<1>6. ASSUME NEW k \in Keys, NEW d \in Entries, items[k] = d, OnItsWay(d)
      PROVE  OnItsWay(d)'
  <2>1. CASE \E p \in Consumers \cup {Provider} : ref[p] = d
    BY <1>5, <2>1, LifetimerAssumption DEF OnItsWay, Goroutines
  <2>2. CASE \E p \in Clients : ref[p] = d /\ pc[p] \in {"push", "unflag"}
    BY <1>5, <2>2, ConsumerLocals DEF OnItsWay, Goroutines
  <2>3. CASE d \in Range(ch)
    BY <1>2, <1>5, <2>3 DEF OnItsWay
  <2> QED BY <1>1, <1>6, <2>1, <2>2, <2>3 DEF OnItsWay, entryVars
<1>7. queue' \in Seq(Keys) /\ Len(queue') <= QueueCap
  BY <1>1 DEF IInv, TypeOK
<1>8. popped' \in Keys \cup {Nil} /\ (popped' # Nil <=> pc'[Provider] = "get")
  BY <1>1, ConsumerLocals, ProviderLocals DEF IInv, TypeOK, Goto
<1> QED
  BY <1>1, <1>2, <1>3, <1>4, <1>5, <1>6, <1>7, <1>8, ConsumerLocals, KeepGotoStep DEF Labels

\* What is cached under the key leaves the cache, be it another entry.
LEMMA CallRemoveInv ==
  ASSUME IInv, NEW c \in Consumers, CallRemove(c)
  PROVE  IInv'
<1>1. /\ pc[c] = "call" /\ key[ref[c]] \in Keys
      /\ items' = [items EXCEPT ![key[ref[c]]] = 0]
      /\ Goto(c, "idle", 0)
      /\ UNCHANGED <<queue, popped, ch, done>>
      /\ Collect(expired, queued)
  BY ConsumerLocals DEF CallRemove
<1>2. /\ key' \in [Entries -> Keys \cup {Nil}]
      /\ expired' \in [Entries -> Verdicts]
      /\ {removes', queued'} \subseteq [Entries -> BOOLEAN]
      /\ \A d \in Entries : d \in Reach' => key'[d] = key[d] /\ removes'[d] = removes[d]
      /\ \A d \in Entries : queued'[d] => d \in Reach' /\ queued[d]
  BY <1>1, CollectStep DEF IInv, TypeOK
<1>3. items' \in [Keys -> Entries \cup {0}] /\ \A k \in Keys : items'[k] \in {items[k], 0}
  BY <1>1 DEF IInv, TypeOK
<1>4. ASSUME NEW j \in Keys, NEW d \in Entries,
             items[j] = d, items'[j] = d, removes'[d], queued'[d], ~done'
      PROVE  OnItsWay(d)'
  <2>1. key[d] = j /\ d # 0
    BY <1>4, LifetimerAssumption DEF IInv, KeysOK
  <2>2. ref[c] # d
    BY <1>1, <1>4, <2>1 DEF IInv, TypeOK
  <2> QED BY <1>1, <1>2, <1>4, <2>2, ConsumerLocals, StillOnItsWay
<1>5. popped' \in Keys \cup {Nil} /\ (popped' # Nil <=> pc'[Provider] = "get")
  BY <1>1, ConsumerLocals, ProviderLocals DEF IInv, TypeOK, Goto
<1>6. Range(ch') \subseteq Reach
  BY <1>1 DEF Reach, Live
<1>7. TypeOK'
  BY <1>1, <1>2, <1>3, <1>5, ConsumerLocals DEF IInv, TypeOK, Goto
<1> QED
  BY <1>1, <1>2, <1>3, <1>4, <1>5, <1>6, <1>7, ConsumerLocals, GotoStep DEF TypeOK, Labels

\* An entry that is refreshed keeps its flag; the property is about the others.
LEMMA CallRefreshInv ==
  ASSUME IInv, NEW c \in Consumers, CallRefresh(c)
  PROVE  IInv'
<1>1. /\ pc[c] = "call" /\ ~removes[ref[c]]
      /\ Goto(c, "idle", 0)
      /\ UNCHANGED <<items, queue, popped, ch, done>>
      /\ Collect(expired, queued)
  BY DEF CallRefresh
<1>2. /\ key' \in [Entries -> Keys \cup {Nil}]
      /\ expired' \in [Entries -> Verdicts]
      /\ {removes', queued'} \subseteq [Entries -> BOOLEAN]
      /\ \A d \in Entries : d \in Reach' => key'[d] = key[d] /\ removes'[d] = removes[d]
      /\ \A d \in Entries : queued'[d] => d \in Reach' /\ queued[d]
  BY <1>1, CollectStep DEF IInv, TypeOK
<1>3. ASSUME NEW j \in Keys, NEW d \in Entries,
             items[j] = d, items'[j] = d, removes'[d], queued'[d], ~done'
      PROVE  OnItsWay(d)'
  <2>1. ref[c] # d
    BY <1>1, <1>2, <1>3
  <2> QED BY <1>1, <1>2, <1>3, <2>1, ConsumerLocals, StillOnItsWay
<1>4. popped' \in Keys \cup {Nil} /\ (popped' # Nil <=> pc'[Provider] = "get")
  BY <1>1, ConsumerLocals, ProviderLocals DEF IInv, TypeOK, Goto
<1>5. Range(ch') \subseteq Reach
  BY <1>1 DEF Reach, Live
<1>6. TypeOK'
  BY <1>1, <1>2, <1>4, ConsumerLocals DEF IInv, TypeOK, Goto
<1> QED
  BY <1>1, <1>2, <1>3, <1>4, <1>5, <1>6, ConsumerLocals, GotoStep DEF TypeOK, Labels

LEMMA ConsumerStopInv ==
  ASSUME IInv, NEW c \in Consumers, ConsumerStop(c)
  PROVE  IInv'
<1>1. /\ done /\ pc[c] = "idle" /\ Goto(c, "stopped", 0)
      /\ UNCHANGED <<items, entryVars, queue, popped, ch, done>>
      /\ UNCHANGED <<items, entryVars, done>>
  BY DEF ConsumerStop
<1>2. ref' = ref /\ \A p \in Clients : pc'[p] = pc[p]
  BY <1>1, ConsumerLocals DEF IInv, TypeOK, Goto, Goroutines
<1>3. \A d \in Entries : OnItsWay(d) => OnItsWay(d)'
  BY <1>1, <1>2 DEF OnItsWay, entryVars
<1>4. popped' \in Keys \cup {Nil} /\ (popped' # Nil <=> pc'[Provider] = "get")
  BY <1>1, ConsumerLocals, ProviderLocals DEF IInv, TypeOK, Goto
<1>5. /\ queue' \in Seq(Keys) /\ Len(queue') <= QueueCap
      /\ ch' \in Seq(Entries) /\ Len(ch') <= ChanCap
  BY <1>1 DEF IInv, TypeOK
<1>6. Range(ch') \subseteq Reach /\ Range(ch) \subseteq Range(ch') \cup {0}
  BY <1>1 DEF Reach, Live
<1> QED BY <1>1, <1>3, <1>4, <1>5, <1>6, ConsumerLocals, KeepGotoStep DEF Labels

-----------------------------------------------------------------------------

LEMMA InitInv == Init => IInv
<1> SUFFICES ASSUME Init PROVE IInv
  OBVIOUS
<1>1. queue \in Seq(Keys) /\ Len(queue) = 0 /\ ch \in Seq(Entries) /\ Len(ch) = 0
  BY EmptySeq DEF Init
<1>2. TypeOK
  <2>1. Len(queue) <= QueueCap /\ Len(ch) <= ChanCap
    BY <1>1, LifetimerAssumption
  <2>2. /\ items \in [Keys -> Entries \cup {0}]
        /\ key \in [Entries -> Keys \cup {Nil}]
        /\ expired \in [Entries -> Verdicts]
        /\ {removes, queued} \subseteq [Entries -> BOOLEAN]
        /\ popped \in Keys \cup {Nil} /\ done \in BOOLEAN
    BY DEF Init
  <2>3. /\ pc \in [Goroutines -> Labels]
        /\ ref \in [Goroutines -> Entries \cup {0}]
    BY DEF Init, Labels
  <2> QED BY <1>1, <2>1, <2>2, <2>3 DEF TypeOK, Labels
<1>3. LocalsOK
  BY DEF Init, LocalsOK, Goroutines
<1>4. Range(ch) = {}
  BY <1>1 DEF Init, Range
<1>5. \A e \in Entries : e \notin Reach
  BY <1>4, LifetimerAssumption DEF Init, Reach, Live
<1>6. KeysOK /\ GarbageOK /\ FlaggedIsOnItsWay
  BY <1>5, LifetimerAssumption DEF Init, KeysOK, GarbageOK, FlaggedIsOnItsWay, ToRemove
<1> QED BY <1>2, <1>3, <1>6 DEF IInv

LEMMA StutterInv == IInv /\ UNCHANGED vars => IInv'
BY DEF IInv, TypeOK, LocalsOK, KeysOK, GarbageOK, FlaggedIsOnItsWay, ToRemove,
       OnItsWay, Reach, Live, vars, entryVars

LEMMA ExpireInv == ASSUME IInv, NEW e \in Entries, Expire(e) PROVE IInv'
<1>1. /\ expired' = [expired EXCEPT ![e] = IF @ = "no" THEN "maybe" ELSE "yes"]
      /\ UNCHANGED <<items, key, removes, queued, queue, popped, ch, done, pc, ref>>
  BY DEF Expire
<1>2. TypeOK'
  BY <1>1 DEF IInv, TypeOK
<1>3. Reach' = Reach
  BY <1>1 DEF Reach, Live
<1>4. LocalsOK' /\ KeysOK' /\ GarbageOK'
  BY <1>1, <1>3 DEF IInv, LocalsOK, KeysOK, GarbageOK
<1>5. FlaggedIsOnItsWay'
  BY <1>1 DEF IInv, FlaggedIsOnItsWay, ToRemove, OnItsWay
<1> QED BY <1>2, <1>4, <1>5 DEF IInv

LEMMA CancelInv == IInv /\ Cancel => IInv'
BY DEF Cancel, IInv, TypeOK, LocalsOK, KeysOK, GarbageOK, FlaggedIsOnItsWay, ToRemove,
       OnItsWay, Reach, Live, entryVars

LEMMA NextInv == IInv /\ [Next]_vars => IInv'
<1> SUFFICES ASSUME IInv, [Next]_vars PROVE IInv'
  OBVIOUS
<1>1. ASSUME NEW k \in Keys, Insert(k) \/ Drop(k) PROVE IInv'
  BY <1>1, InsertInv, DropInv
<1>2. ASSUME NEW c \in Clients, ClientCall(c) PROVE IInv'
  BY <1>2, UpdateInv, TouchInv DEF ClientCall
<1>3. ASSUME NEW c \in Clients, ClientStep(c) PROVE IInv'
  BY <1>3, UnflagInv, TouchFlagInv, TouchPushInv, TouchPushFullInv DEF ClientStep
<1>4. CASE ProviderStep
  BY <1>4, ScanInv, ScanPopInv, ScanGetInv, ScanPopEmptyInv, ScanCheckInv, ScanResetInv,
     SampleHitInv, SampleMissInv, SendInv DEF ProviderStep
<1>5. CASE ProviderStop
  BY <1>5, ProviderStopInv
<1>6. ASSUME NEW c \in Consumers, ConsumerStep(c) \/ ConsumerStop(c) PROVE IInv'
  BY <1>6, ReceiveInv, CallRemoveInv, CallRefreshInv, ConsumerStopInv DEF ConsumerStep
<1>7. ASSUME NEW e \in Entries, Expire(e) PROVE IInv'
  BY <1>7, ExpireInv
<1>8. CASE Cancel
  BY <1>8, CancelInv
<1>9. CASE UNCHANGED vars
  BY <1>9, StutterInv
<1> QED BY <1>1, <1>2, <1>3, <1>4, <1>5, <1>6, <1>7, <1>8, <1>9 DEF Next

LEMMA InvCorrect == Spec => []IInv
BY InitInv, NextInv, PTL DEF Spec

\* Queue, channel and locals keep their types: the refresh queue and invokeCh never
\* hold more than their capacities (refresh.go:12-23, lifetimer.go:93-109).
THEOREM LifetimerTypeCorrect == Spec => []TypeOK
<1>1. IInv => TypeOK
  BY DEF IInv
<1> QED BY <1>1, InvCorrect, PTL

\* However clients, provider and consumers interleave, no entry to be removed stays
\* flagged as queued with nothing under way for it (cache.go:175-179, 187,
\* refresh.go:25-37).
THEOREM FlaggedAlwaysOnItsWay == Spec => []FlaggedIsOnItsWay
<1>1. IInv => FlaggedIsOnItsWay
  BY DEF IInv
<1> QED BY <1>1, InvCorrect, PTL
=============================================================================
