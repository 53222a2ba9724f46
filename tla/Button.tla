-------------------------------- MODULE Button --------------------------------
(***************************************************************************)
(* ButtonWithHold (sh1107/rtl/common/button.py): the debouncer, the edge   *)
(* detector that strobes down and up, and the timer of a long press.  The  *)
(* input is any level in any clock cycle.                                  *)
(***************************************************************************)
EXTENDS Gateware

CONSTANTS
  DebounceMax,   \* cycles of Debounce's timer
  HoldMax        \* cycles of the hold timer

ASSUME DebounceMaxAssumption == CounterMax(DebounceMax)
ASSUME HoldMaxAssumption == CounterMax(HoldMax)

VARIABLES
  i,                        \* the button's level
  o, debounce_cnt, timer_o, \* Debounce: its output, its timer
  registered,               \* o in the cycle before
  holding, held,            \* between down and up; long enough
  hold_cnt, hold_o,         \* the hold timer
  streak, calm,             \* history: cycles for which i has differed from o,
                            \*   and since that was last long enough
  pressed                   \* history: cycles since down

debounceVars == <<o, debounce_cnt, timer_o>>
holdVars == <<holding, held, hold_cnt, hold_o>>
buttonVars == <<i, debounceVars, registered, holdVars, streak, calm, pressed>>

\* The two combinational outputs, and the input of Debounce's timer.
Down == registered = 0 /\ o = 1
Up   == registered = 1 /\ o = 0
TimerIn == IF i # o THEN 1 ELSE 0

ButtonTypeOK ==
  /\ i \in Bit /\ o \in Bit /\ timer_o \in Bit /\ registered \in Bit
  /\ holding \in Bit /\ held \in Bit /\ hold_o \in Bit
  /\ debounce_cnt \in 0 .. DebounceMax - 1 /\ hold_cnt \in 0 .. HoldMax - 1
  /\ streak \in 0 .. DebounceMax /\ calm \in 0 .. 2
  /\ pressed \in 0 .. HoldMax + 2

ButtonInit ==
  /\ i \in Bit
  /\ o = 0 /\ debounce_cnt = 0 /\ timer_o = 0
  /\ registered = 0
  /\ holding = 0 /\ held = 0 /\ hold_cnt = 0 /\ hold_o = 0
  /\ streak = 0 /\ calm = 2 /\ pressed = 0

\* Variant: the timer runs on the level, not on the difference.
DebounceLevel ==
  /\ debounce_cnt' = CounterNext(DebounceMax, i, debounce_cnt)
  /\ timer_o' = TimerOut(DebounceMax, i, debounce_cnt, timer_o)
  /\ o' = IF timer_o = 1 THEN i ELSE o

\* Variant: the output only ever rises.
DebounceSticks ==
  /\ debounce_cnt' = CounterNext(DebounceMax, TimerIn, debounce_cnt)
  /\ timer_o' = TimerOut(DebounceMax, TimerIn, debounce_cnt, timer_o)
  /\ o' = IF timer_o = 1 THEN 1 ELSE o

Debounce ==
  /\ debounce_cnt' = CounterNext(DebounceMax, TimerIn, debounce_cnt)
  /\ timer_o' = TimerOut(DebounceMax, TimerIn, debounce_cnt, timer_o)
  /\ o' = IF timer_o = 1 THEN i ELSE o

\* Variant: the hold timer runs on the raw input.
HoldRaw ==
  /\ holding' = IF Up THEN 0 ELSE IF Down THEN 1 ELSE holding
  /\ held' = IF hold_o = 1 THEN 1 ELSE IF Down THEN 0 ELSE held
  /\ hold_cnt' = CounterNext(HoldMax, i, hold_cnt)
  /\ hold_o' = TimerOut(HoldMax, i, hold_cnt, hold_o)

\* Where two assignments meet, the later one wins.
Hold ==
  /\ holding' = IF Up THEN 0 ELSE IF Down THEN 1 ELSE holding
  /\ held' = IF hold_o = 1 THEN 1 ELSE IF Down THEN 0 ELSE held
  /\ hold_cnt' = CounterNext(HoldMax, holding, hold_cnt)
  /\ hold_o' = TimerOut(HoldMax, holding, hold_cnt, hold_o)

\* The histories, each capped one past what the properties compare it with.
Watch ==
  LET Capped(n, max) == IF n < max THEN n ELSE max IN
  /\ streak' = IF i # o THEN Capped(streak + 1, DebounceMax) ELSE 0
  /\ calm' = IF streak' >= DebounceMax - 1 THEN 0 ELSE Capped(calm + 1, 2)
  /\ pressed' = IF Down THEN 1
                ELSE IF o = 1 THEN Capped(pressed + 1, HoldMax + 2)
                ELSE pressed

ButtonNext ==
  /\ i' \in Bit
  /\ Debounce /\ registered' = o /\ Hold /\ Watch

\* The clock does not stop; what it finds at the input is up to the input, which
\* may rest.
clockedVars == <<debounceVars, registered, holdVars>>

ButtonSpec ==
  ButtonInit /\ [][ButtonNext]_buttonVars /\ WF_clockedVars(ButtonNext)

-------------------------------------------------------------------------------
\* The output changes only at the end of a stretch in which the input differed
\* from it for the hold time (less a cycle) without a break - or right after it
\* has changed: the timer's output falls a cycle late, and for as long as the
\* input toggles in every cycle it does not fall and the output follows.
DebounceHolds == [][o' # o => calm <= 1 \/ registered # o]_buttonVars

\* A press held for the hold time (and the two cycles it takes to register) is
\* reported as held when up strobes.
HeldIsReported == Up /\ pressed = HoldMax + 2 => held = 1

\* A button that comes to rest is seen where it rests.
Settles ==
  /\ <>[](i = 1) => <>[](o = 1)
  /\ <>[](i = 0) => <>[](o = 0)

\* What the timer's description says (sh1107/rtl/common/timer.py:14): while the
\* input is low the timer is reset and the output low.  It is false: the counter
\* may stand at its end in the cycle in which the input falls, and raises the
\* output.
TimerResetWhenLow == [][TimerIn = 0 => timer_o' = 0]_buttonVars
===============================================================================
