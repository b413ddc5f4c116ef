--------------------------- MODULE ClockContract ---------------------------
(***************************************************************************)
(* What a goroutine may rely on when it reads the cached clock again and   *)
(* again: it is never shown a time that has not come, and never one before *)
(* what it was shown, unless more than one instance of the cache drives    *)
(* the clock.                                                              *)
(***************************************************************************)
EXTENDS Integers

VARIABLES
  real,   \* the time
  seen,   \* what the goroutine was shown last
  crowd   \* more than one instance drives the clock

ClockInit == real \in Nat /\ seen = 0 /\ crowd = FALSE

ClockNext ==
  /\ real' \in Nat /\ real' >= real
  /\ crowd' \in BOOLEAN /\ (crowd => crowd')
  /\ seen' \in 0 .. real'
  /\ ~crowd' => seen' >= seen

ClockSpec == ClockInit /\ [][ClockNext]_<<real, seen, crowd>>
=============================================================================
