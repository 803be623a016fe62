--------------------------- MODULE SwitchSettling ---------------------------
(***************************************************************************)
(* What the switch does when it is left alone.  From some moment on, which *)
(* may be any moment, nobody gives commands, nothing breaks, and the        *)
(* behaviours want what they want: only the clock ticks and flash is        *)
(* written.                                                                *)
(***************************************************************************)
EXTENDS SwitchProps

VARIABLES
  quiet,   \* nothing happens any more
  second   \* SystemTime::posix(), modulo 2: only that it goes on matters

settlingVars == <<vars, quiet, second>>

BecomeQuiet == ~ quiet /\ quiet' = TRUE /\ UNCHANGED <<vars, second>>

NewSecond ==
  /\ \E lowPower \in BOOLEAN : Tick(lowPower, TRUE)
  /\ second' = 1 - second
  /\ UNCHANGED quiet

WithinSecond ==
  /\ IF quiet THEN Save \/ \E lowPower \in BOOLEAN : Tick(lowPower, FALSE)
              ELSE Next
  /\ UNCHANGED <<quiet, second>>

\* The main loop keeps ticking, and the clock it reads goes on.
TimeGoesOn == []<>(second = 0) /\ []<>(second = 1)

SettlingSpec ==
  /\ Init /\ quiet = FALSE /\ second = 0
  /\ [][NewSecond \/ WithinSecond \/ BecomeQuiet]_settlingVars
  /\ TimeGoesOn

\* What the override or else the behaviours want the switch to do.
Wanted ==
  IF sw.override # None THEN ResolveOverrideState(sw)
  ELSE IF behaviourNow = None THEN sw.aggregated
  ELSE IF twilightNow = None THEN behaviourNow ELSE Least(behaviourNow, twilightNow)

Free == /\ sw.mode = "normal" /\ sw.allowStateChanges
        /\ ~ sw.locked /\ sw.errors = {}

\* When nothing happens any more, the switch ends up doing what is wanted of it:
\* the value itself when it may dim, fully on instead when it may not.  What was
\* refused, interrupted or impossible before does not linger.
Settles ==
  [](quiet => <>[](Free /\ Wanted # None =>
       Output = IF ~ sw.allowDimming /\ Wanted # 0 THEN FullyOn ELSE Wanted))
=============================================================================
