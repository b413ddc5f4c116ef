----------------------------- MODULE Telemetry -----------------------------
(***************************************************************************)
(* The telemetry loop (internal/telemetry): it reads a cumulative counter  *)
(* when it starts and on each tick, and logs by how much it has grown.     *)
(* One counter stands for all of them; what each is worth comes from the   *)
(* component that has it.                                                  *)
(***************************************************************************)
EXTENDS Integers

VARIABLES
  counter,   \* the counter another component adds to
  logsDone,  \* the context of Logs is cancelled
  loop,      \* where the loop is
  prev,      \* the snapshot before
  logged     \* history: the first snapshot and all that was logged since

LogsTypeOK ==
  /\ logsDone \in BOOLEAN
  /\ loop \in {"new", "select", "ended"}
  /\ prev \in Nat /\ logged \in Nat

LogsInit ==
  /\ logsDone = FALSE /\ loop = "new"
  /\ prev = 0 /\ logged = 0

\* If the counter was reset, all of it is new.
Delta(before, cur) == IF cur >= before THEN cur - before ELSE cur

\* The goroutine has started: what was counted before is not logged.
LogsStart ==
  /\ loop = "new"
  /\ loop' = "select"
  /\ prev' = counter /\ logged' = counter
  /\ UNCHANGED <<counter, logsDone>>

\* Mutant: the snapshot is not kept.
LogForgets ==
  /\ loop = "select"
  /\ logged' = logged + Delta(prev, counter)
  /\ UNCHANGED <<counter, logsDone, loop, prev>>

\* A tick.
Log ==
  /\ loop = "select"
  /\ logged' = logged + Delta(prev, counter)
  /\ prev' = counter
  /\ UNCHANGED <<counter, logsDone, loop>>

\* Mutant: the loop ends on its own.
LogsStopEarly ==
  /\ loop = "select"
  /\ loop' = "ended"
  /\ UNCHANGED <<counter, logsDone, prev, logged>>

LogsStop ==
  /\ logsDone /\ loop = "select"
  /\ loop' = "ended"
  /\ UNCHANGED <<counter, logsDone, prev, logged>>

LogsClose ==
  /\ ~logsDone
  /\ logsDone' = TRUE
  /\ UNCHANGED <<counter, loop, prev, logged>>

LogsNext == LogsStart \/ Log \/ LogsStop \/ LogsClose
=============================================================================
