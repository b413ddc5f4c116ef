------------------------------ MODULE Workers ------------------------------
(***************************************************************************)
(* The evictor and the telemetry loop as the facade runs them (cache.go):  *)
(* the loop reports the evictor's counter, each has a context of its own   *)
(* that it can be closed with, and Close cancels the context they were     *)
(* made from, which cancels theirs one after the other.                    *)
(***************************************************************************)
EXTENDS Evictor

VARIABLES logsDone, loop, prev, logged, closed

Logs == INSTANCE Telemetry WITH counter <- evicted

logsVars    == <<logsDone, loop, prev, logged>>
workersVars == <<vars, logsVars, closed>>

WorkersTypeOK == TypeOK /\ Logs!LogsTypeOK /\ closed \in BOOLEAN

WorkersInit == Init /\ Logs!LogsInit /\ closed = FALSE

EvictorStep == Next /\ UNCHANGED <<logsVars, closed>>

LogsStep == Logs!LogsNext /\ UNCHANGED <<vars, closed>>

\* Cache.Close cancels the context of all.
CloseAll ==
  /\ ~closed
  /\ closed' = TRUE
  /\ UNCHANGED <<vars, logsVars>>

WorkersNext == EvictorStep \/ LogsStep \/ CloseAll

WorkersSpec == WorkersInit /\ [][WorkersNext]_workersVars

\* A step of the evictor, or of the loop, as a step of the whole.
Beside(A)   == A /\ UNCHANGED <<logsVars, closed>>
OfLogs(A)   == A /\ UNCHANGED <<vars, closed>>

\* A context is cancelled with its parent.
CancelEvictor == closed /\ Beside(Close)
CancelLogs    == closed /\ OfLogs(Logs!LogsClose)

\* Tickers tick and goroutines run.  A select chooses at random among the cases
\* that are ready, and a channel serves its senders in the order they came, so
\* that callers do not keep the provider from handing over.  NextShard goes round the shards, so that an eviction does not
\* miss the entries there are for ever.
WorkersFairness ==
  /\ WF_workersVars(Beside(ProviderTick))
  /\ SF_workersVars(Beside(ProviderStop))
  /\ SF_workersVars(Beside(\E c \in Consumers : ProviderHands(c)))
  /\ \A c \in Consumers :
       /\ WF_workersVars(Beside(Consume(c)))
       /\ SF_workersVars(Beside(Take(c)))
       /\ SF_workersVars(Beside(ConsumerStop(c)))
  /\ WF_workersVars(OfLogs(Logs!LogsStart \/ Logs!Log))
  /\ SF_workersVars(OfLogs(Logs!LogsStop))
  /\ WF_workersVars(CancelEvictor)
  /\ WF_workersVars(CancelLogs)

FairWorkersSpec == WorkersSpec /\ WorkersFairness

-----------------------------------------------------------------------------
(* Properties *)

\* Once clients stop inserting, an evictor that is not closed brings usage within
\* the limit, though a call may use up its iterations, consumers wait on the one
\* channel and ForceCall competes for them (evictor.go:91-146).
Relief ==
  (SoftMemoryLimitOvercome /\ writes = MaxWrites) ~> (~SoftMemoryLimitOvercome \/ done)

\* Close ends every goroutine, whatever it waits for: a provider whose consumers
\* have gone, a consumer whom callers keep busy (evictor.go:107-132,
\* logger.go:77-80, cache.go:51-54).
CloseEndsAll ==
  closed ~> (/\ provider = "ended" /\ loop = "ended"
             /\ \A c \in Consumers : consumer[c] = "ended")

\* What the evictor counts between two snapshots is logged once
\* (logger.go:75-85, sampler.go:57-89)...
LoggedOnce == logged <= evicted

\* ... and what it counts after the first snapshot is logged at last, unless the
\* loop is closed, which drops the last interval.
EveryEvictionLogged == logged # evicted ~> (logged = evicted \/ logsDone)
=============================================================================
