--------------------------------- MODULE Pwm ---------------------------------
(***************************************************************************)
(* The dimmer: Dimmer (cs_Dimmer.cpp) and PWM (cs_PWM.cpp), with the timer *)
(* and the pin as they are.  The pin follows the timer by hardware alone:  *)
(* at the end of a period it goes on (ppiOn), at the tick cc it goes off   *)
(* (ppiOff), and after a value was lowered also at the old tick            *)
(* (transition), in case the timer has passed the new one.  The software   *)
(* changes these at any tick, and its own counting of periods comes by the *)
(* scheduler, later.                                                       *)
(*                                                                         *)
(* A value is 0 .. Max for the 0-100 of the code; TicksPerValue ticks each.*)
(* External: the timer, PPI and GPIOTE.  The length of a period is chosen  *)
(* at its start, from the range to which onZeroCrossingInterrupt() limits  *)
(* it.                                                                     *)
(***************************************************************************)
EXTENDS Integers

CONSTANTS Max,            \* _maxValue
          TicksPerValue,
          Low,            \* values below it are dimmed to 0
          Adjust,         \* limitDelta: by how much a period is shorter or longer
          Periods,        \* numPeriodsBeforeValueUpdate
          CountdownMod,   \* _updateValuesCountdown has 8 bits
          Speeds,         \* values of _softOnSpeed
          Hurry,          \* whether a value may change more than once in a period
          Lag             \* bound: period ends that wait on the scheduler

VARIABLES
  pwm,      \* PWM and Dimmer: the members
  timer,    \* ticks, period, cc, transitionCc of the timer; the PPI channels; the pin
  ends,     \* onTimerEnd events on the scheduler
  seen      \* the values of this period and the last one, and periods since a change

pwmVars == <<pwm, timer, ends, seen>>

MaxTicks == Max * TicksPerValue
Ticks(value) == IF value < Low THEN 0 ELSE value * TicksPerValue
Larger(a, b) == IF a > b THEN a ELSE b
Smaller(a, b) == IF a < b THEN a ELSE b

\* initChannel(): off, and no PPI channel enabled.
Init ==
  /\ pwm = [value |-> 0, target |-> 0, step |-> 0, countdown |-> 0,
            enabled |-> FALSE, started |-> FALSE, onZeroCrossing |-> FALSE]
  /\ timer = [ticks |-> 0, period |-> MaxTicks, cc |-> 1, transitionCc |-> 0,
              ppiOn |-> FALSE, ppiOff |-> FALSE, transition |-> FALSE, pin |-> FALSE]
  /\ ends = 0
  /\ seen = [now |-> 0, before |-> 0, steady |-> 2, changed |-> FALSE]
-----------------------------------------------------------------------------
(* setValue(channel, value), as operators on timer.                        *)

\* Mutant: the pin is not turned off at the old tick.
WithoutTransition(old, new) == [timer EXCEPT !.cc = Ticks(new), !.transition = FALSE,
                                             !.ppiOn = TRUE, !.ppiOff = TRUE]

DimTo(old, new) ==
  IF old \notin {0, Max} /\ new < old
  THEN [timer EXCEPT !.cc = Ticks(new), !.transition = TRUE, !.transitionCc = Ticks(old),
                     !.ppiOn = TRUE, !.ppiOff = TRUE]
  ELSE [timer EXCEPT !.cc = Ticks(new), !.transition = FALSE, !.ppiOn = TRUE, !.ppiOff = TRUE]

Apply(old, new) ==
  CASE Ticks(new) = 0 -> [timer EXCEPT !.transition = FALSE, !.ppiOn = FALSE, !.ppiOff = TRUE]
    [] new = Max      -> [timer EXCEPT !.transition = FALSE, !.ppiOn = TRUE, !.ppiOff = FALSE]
    [] OTHER          -> DimTo(old, new)

SetValue(p, new) ==
  IF p.value = new THEN pwm' = p /\ UNCHANGED <<timer, seen>>
  ELSE /\ Hurry \/ ~seen.changed
       /\ pwm' = [p EXCEPT !.value = new]
       /\ timer' = Apply(p.value, new)
       /\ seen' = [seen EXCEPT !.now = Larger(@, Ticks(new)), !.steady = 0, !.changed = TRUE]
-----------------------------------------------------------------------------
(* The main loop.                                                          *)

Start(onZeroCrossing) ==
  /\ ~pwm.enabled
  /\ pwm' = [pwm EXCEPT !.enabled = TRUE, !.onZeroCrossing = onZeroCrossing, !.started = ~onZeroCrossing]
  /\ UNCHANGED <<timer, ends, seen>>

\* Dimmer::set() and the first half of PWM::setValue(): only what may be for
\* safety is set at once.
Set(value, speed) ==
  /\ value > 0 => pwm.enabled
  /\ LET p == [pwm EXCEPT !.target = value, !.step = Larger(speed, 1)]
     IN  IF value \in {0, Max} /\ speed >= Max THEN SetValue(p, value)
         ELSE pwm' = p /\ UNCHANGED <<timer, seen>>
  /\ UNCHANGED ends

Towards(p) == IF p.target > p.value THEN Smaller(p.value + p.step, p.target)
              ELSE Larger(p.value - p.step, p.target)

UpdateValues ==
  /\ ends > 0
  /\ ends' = ends - 1
  /\ LET left == (pwm.countdown + CountdownMod - 1) % CountdownMod
     IN  IF ~pwm.started THEN UNCHANGED <<pwm, timer, seen>>
         ELSE IF left # 0 THEN pwm' = [pwm EXCEPT !.countdown = left] /\ UNCHANGED <<timer, seen>>
         ELSE SetValue([pwm EXCEPT !.countdown = Periods], Towards(pwm))
-----------------------------------------------------------------------------
(* The timer, and the interrupts of the zero crossing and of its period.   *)

OnZeroCrossing ==
  /\ ~pwm.started /\ pwm.onZeroCrossing
  /\ pwm' = [pwm EXCEPT !.started = TRUE]
  /\ UNCHANGED <<timer, ends, seen>>

GoesOff(tick) == (timer.ppiOff /\ tick = timer.cc) \/ (timer.transition /\ tick = timer.transitionCc)

CountTick ==
  /\ pwm.started /\ timer.ticks + 1 < timer.period
  /\ timer' = [timer EXCEPT !.ticks = @ + 1, !.pin = @ /\ ~GoesOff(timer.ticks + 1)]
  /\ UNCHANGED <<pwm, ends, seen>>

Lengths == (MaxTicks - Adjust) .. (MaxTicks + Adjust)

\* Also _handleInterrupt(), which comes while the counter is close to 0.  A full
\* scheduler does not get the event.
EndPeriod(period, fits) ==
  /\ pwm.started /\ timer.ticks + 1 = timer.period
  /\ fits => ends < Lag
  /\ ends' = IF fits THEN ends + 1 ELSE ends
  /\ timer' = [timer EXCEPT !.ticks = 0, !.period = period,
                            !.pin = (@ /\ ~GoesOff(timer.period)) \/ timer.ppiOn]
  /\ seen' = [now |-> Ticks(pwm.value), before |-> seen.now,
              steady |-> Smaller(seen.steady + 1, 2), changed |-> FALSE]
  /\ UNCHANGED pwm

Next ==
  \/ \E onZeroCrossing \in BOOLEAN : Start(onZeroCrossing)
  \/ \E value \in 0 .. Max, speed \in Speeds \union {Max} : Set(value, speed)
  \/ UpdateValues
  \/ OnZeroCrossing
  \/ CountTick
  \/ \E period \in Lengths, fits \in BOOLEAN : EndPeriod(period, fits)
-----------------------------------------------------------------------------
(* Properties.                                                             *)

\* No flash: whenever a value changes, the light is never on for longer in a
\* period than for the brightest value of that period or the one before
\* (setValue() with its transition).
NoFlash ==
  timer.pin => timer.ticks < Larger(seen.now, seen.before) \/ MaxTicks <= Larger(seen.now, seen.before)

\* Two periods after a change the light is what the value says, off included,
\* whatever the length of the periods (setValue(), onZeroCrossingInterrupt()).
LightFollows ==
  seen.steady = 2 =>
    timer.pin = (timer.ticks < Ticks(pwm.value) \/ (pwm.value = Max /\ pwm.started))
=============================================================================
