----------------------------- MODULE CachedTime -----------------------------
(***************************************************************************)
(* The cached clock (internal/shared/cachedtime/time.go): a time in a      *)
(* global variable that a ticker goroutine refreshes, read instead of the  *)
(* system's.  The variable, its close flag and the channel that ends the   *)
(* tickers are globals of the package, which all instances of the cache in *)
(* a process share; each instance brings a ticker, a goroutine that waits  *)
(* for its context, and a switch that may turn the cached time off.        *)
(*                                                                         *)
(* Times are numbers, 0 the zero value of the variable.  Every load and    *)
(* store of a global is a step.                                            *)
(***************************************************************************)
EXTENDS Integers

CONSTANTS
  Instances,  \* instances of the cache
  MaxTime     \* bound: when the system's time stops

ASSUME MaxTimeAssumption == MaxTime \in Nat \ {0}

VARIABLES
  real,       \* time.Now()
  nowUnix,    \* the cached time
  closed,     \* the cached time is off
  closes,     \* how often doneCh was closed; closing it twice panics
  cancelled,  \* the instances whose contexts are done
  boot,       \* where the call of RunIfEnabled of each instance is
  now,        \* the time it has loaded
  waiter,     \* where the goroutine of cancelDeferredByCtx is
  ticker,     \* where the ticker's goroutine is
  ch,         \* ticker.C: the time of the tick it holds, 0 if it is empty
  tt,         \* the tick the goroutine has received
  reading,    \* a goroutine has found the cached time on and will load it
  seen        \* the time it was shown last

bootVars   == <<boot, now>>
tickerVars == <<ticker, ch, tt>>
readVars   == <<reading, seen>>
vars == <<real, nowUnix, closed, closes, cancelled, bootVars, waiter, tickerVars, readVars>>

TypeOK ==
  /\ real \in 0 .. MaxTime /\ nowUnix \in 0 .. MaxTime /\ seen \in 0 .. MaxTime
  /\ closed \in BOOLEAN /\ reading \in BOOLEAN
  /\ closes \in Nat
  /\ cancelled \subseteq Instances
  /\ boot \in [Instances -> {"new", "load", "store", "on", "off"}]
  /\ waiter \in [Instances -> {"none", "wait", "close", "ended"}]
  /\ ticker \in [Instances -> {"none", "select", "store", "ended"}]
  /\ now \in [Instances -> 0 .. MaxTime]
  /\ ch \in [Instances -> 0 .. MaxTime]
  /\ tt \in [Instances -> 0 .. MaxTime]

Init ==
  /\ real = 1 /\ nowUnix = 0
  /\ closed = FALSE /\ closes = 0 /\ cancelled = {}
  /\ boot = [i \in Instances |-> "new"] /\ now = [i \in Instances |-> 0]
  /\ waiter = [i \in Instances |-> "none"]
  /\ ticker = [i \in Instances |-> "none"]
  /\ ch = [i \in Instances |-> 0] /\ tt = [i \in Instances |-> 0]
  /\ reading = FALSE /\ seen = 0

-----------------------------------------------------------------------------
(* RunIfEnabled *)

\* The instance has the cached time disabled: it is off for everybody.
RunDisabled(i) ==
  /\ boot[i] = "new"
  /\ boot' = [boot EXCEPT ![i] = "off"]
  /\ closed' = TRUE
  /\ UNCHANGED <<real, nowUnix, closes, cancelled, now, waiter, tickerVars, readVars>>

RunEnabled(i) ==
  /\ boot[i] = "new"
  /\ boot' = [boot EXCEPT ![i] = "load"]
  /\ waiter' = [waiter EXCEPT ![i] = "wait"]
  /\ UNCHANGED <<real, nowUnix, closed, closes, cancelled, now, tickerVars, readVars>>

\* Mutant: the ticker starts before the first time is stored.
LoadNowStarts(i) ==
  /\ boot[i] = "load"
  /\ boot' = [boot EXCEPT ![i] = "store"]
  /\ now' = [now EXCEPT ![i] = real]
  /\ ticker' = [ticker EXCEPT ![i] = "select"]
  /\ UNCHANGED <<real, nowUnix, closed, closes, cancelled, waiter, ch, tt, readVars>>

\* The first time is loaded...
LoadNow(i) ==
  /\ boot[i] = "load"
  /\ boot' = [boot EXCEPT ![i] = "store"]
  /\ now' = [now EXCEPT ![i] = real]
  /\ UNCHANGED <<real, nowUnix, closed, closes, cancelled, waiter, tickerVars, readVars>>

\* ... and stored, and the ticker and its goroutine start.
StoreNow(i) ==
  /\ boot[i] = "store"
  /\ boot' = [boot EXCEPT ![i] = "on"]
  /\ nowUnix' = now[i]
  /\ now' = [now EXCEPT ![i] = 0]
  /\ ticker' = [ticker EXCEPT ![i] = "select"]
  /\ UNCHANGED <<real, closed, closes, cancelled, waiter, ch, tt, readVars>>

-----------------------------------------------------------------------------
(* The ticker *)

\* The channel holds one tick; the runtime drops those that find it full.
Tick(i) ==
  /\ ticker[i] \in {"select", "store"}
  /\ ch[i] = 0
  /\ ch' = [ch EXCEPT ![i] = real]
  /\ UNCHANGED <<real, nowUnix, closed, closes, cancelled, bootVars, waiter, ticker, tt, readVars>>

ReceiveTick(i) ==
  /\ ticker[i] = "select"
  /\ ch[i] # 0
  /\ ticker' = [ticker EXCEPT ![i] = "store"]
  /\ tt' = [tt EXCEPT ![i] = ch[i]]
  /\ ch' = [ch EXCEPT ![i] = 0]
  /\ UNCHANGED <<real, nowUnix, closed, closes, cancelled, bootVars, waiter, readVars>>

\* Mutant: the time of the next tick is stored.
StoreTickAhead(i) ==
  /\ ticker[i] = "store"
  /\ ticker' = [ticker EXCEPT ![i] = "select"]
  /\ nowUnix' = tt[i] + 1
  /\ tt' = [tt EXCEPT ![i] = 0]
  /\ UNCHANGED <<real, closed, closes, cancelled, bootVars, waiter, ch, readVars>>

StoreTick(i) ==
  /\ ticker[i] = "store"
  /\ ticker' = [ticker EXCEPT ![i] = "select"]
  /\ nowUnix' = tt[i]
  /\ tt' = [tt EXCEPT ![i] = 0]
  /\ UNCHANGED <<real, closed, closes, cancelled, bootVars, waiter, ch, readVars>>

\* doneCh is closed; the channel of a stopped ticker holds nothing.
StopTicker(i) ==
  /\ ticker[i] = "select"
  /\ closes > 0
  /\ ticker' = [ticker EXCEPT ![i] = "ended"]
  /\ ch' = [ch EXCEPT ![i] = 0]
  /\ UNCHANGED <<real, nowUnix, closed, closes, cancelled, bootVars, waiter, tt, readVars>>

-----------------------------------------------------------------------------
(* cancelDeferredByCtx *)

\* The instance is closed, or the context it was made with.
Cancel(i) ==
  /\ i \notin cancelled
  /\ cancelled' = cancelled \cup {i}
  /\ UNCHANGED <<real, nowUnix, closed, closes, bootVars, waiter, tickerVars, readVars>>

\* Mutant: the flag is loaded and never set.
SwapClosedLoads(i) ==
  /\ waiter[i] = "wait"
  /\ i \in cancelled
  /\ waiter' = [waiter EXCEPT ![i] = IF closed THEN "ended" ELSE "close"]
  /\ UNCHANGED <<real, nowUnix, closed, closes, cancelled, bootVars, tickerVars, readVars>>

\* The first to turn the cached time off goes on to close the channel.
SwapClosed(i) ==
  /\ waiter[i] = "wait"
  /\ i \in cancelled
  /\ waiter' = [waiter EXCEPT ![i] = IF closed THEN "ended" ELSE "close"]
  /\ closed' = TRUE
  /\ UNCHANGED <<real, nowUnix, closes, cancelled, bootVars, tickerVars, readVars>>

\* Mutant: the channel is not closed.
CloseDoneForgets(i) ==
  /\ waiter[i] = "close"
  /\ waiter' = [waiter EXCEPT ![i] = "ended"]
  /\ UNCHANGED <<real, nowUnix, closed, closes, cancelled, bootVars, tickerVars, readVars>>

CloseDone(i) ==
  /\ waiter[i] = "close"
  /\ waiter' = [waiter EXCEPT ![i] = "ended"]
  /\ closes' = closes + 1
  /\ UNCHANGED <<real, nowUnix, closed, cancelled, bootVars, tickerVars, readVars>>

-----------------------------------------------------------------------------
(* Now and UnixNano *)

LoadClosed ==
  /\ ~reading
  /\ IF closed THEN seen' = real /\ UNCHANGED reading
               ELSE reading' = TRUE /\ UNCHANGED seen
  /\ UNCHANGED <<real, nowUnix, closed, closes, cancelled, bootVars, waiter, tickerVars>>

\* The cached time may have been turned off since.
LoadCached ==
  /\ reading
  /\ reading' = FALSE
  /\ seen' = nowUnix
  /\ UNCHANGED <<real, nowUnix, closed, closes, cancelled, bootVars, waiter, tickerVars>>

-----------------------------------------------------------------------------

\* The system's time, assumed not to be set back.
Advance ==
  /\ real < MaxTime
  /\ real' = real + 1
  /\ UNCHANGED <<nowUnix, closed, closes, cancelled, bootVars, waiter, tickerVars, readVars>>

\* The steps a goroutine takes once it can.
Step(i) ==
  \/ LoadNow(i) \/ StoreNow(i)
  \/ Tick(i) \/ ReceiveTick(i) \/ StoreTick(i)
  \/ SwapClosed(i) \/ CloseDone(i)

Next ==
  \/ \E i \in Instances : \/ RunDisabled(i) \/ RunEnabled(i) \/ Cancel(i)
                          \/ Step(i) \/ StopTicker(i)
  \/ LoadClosed \/ LoadCached \/ Advance

Spec == Init /\ [][Next]_vars

\* Goroutines run, tickers tick, and somebody reads the clock.  A select whose
\* channels are both ready chooses at random, so that it does not pass over a
\* closed doneCh for ever.
FairSpec ==
  /\ Spec
  /\ \A i \in Instances :
       /\ WF_vars(LoadNow(i) \/ StoreNow(i))
       /\ WF_vars(Tick(i))
       /\ WF_vars(ReceiveTick(i) \/ StoreTick(i))
       /\ WF_vars(SwapClosed(i) \/ CloseDone(i))
       /\ SF_vars(StopTicker(i))
  /\ WF_vars(LoadClosed \/ LoadCached)

-----------------------------------------------------------------------------
(* Properties *)

\* The instances that have the cached time enabled.
Enabled == { i \in Instances : waiter[i] # "none" }

\* Instances that are cancelled together close doneCh once: a second close would
\* panic (time.go:62-71).
DoneClosedOnce == closes <= 1

\* The cached time is never ahead, and a goroutine that reads it sees it go
\* forward through the start of the ticker, late ticks and the change to the
\* system's time, though it loads the flag and the time one after the other, as
\* long as one instance drives the clock (time.go:19-56).
Contract == INSTANCE ClockContract
  WITH crowd <- \E i, j \in Enabled : i # j
ImplementsContract == Contract!ClockSpec

\* The clock goes on whatever is closed: once an instance has started, a reader
\* is shown each time or a later one (time.go:27-41, 62-71).
ClockGoesOn ==
  \A t \in 1 .. MaxTime :
    (real >= t /\ \E i \in Instances : boot[i] \in {"on", "off"}) ~> seen >= t

\* Cancelling one instance ends every ticker of the process, unless an instance
\* with the cached time disabled has taken the flag and nobody closes doneCh
\* (time.go:19-23, 62-71).
CancelEndsTickers ==
  \A i, j \in Instances :
    (i \in cancelled /\ waiter[i] # "none" /\ ticker[j] # "none")
      ~> (ticker[j] = "ended" \/ \E d \in Instances : boot[d] = "off")
=============================================================================
