------------------------------- MODULE Switches --------------------------------
(***************************************************************************)
(* The simulated buttons: a key makes the display thread leave the number  *)
(* of a switch in press_signal (vsh/src/FPGAThread.zig); the FPGA thread   *)
(* takes it in the loop of its next tick and has the switch's connector    *)
(* (vsh/src/SwitchConnector.zig) press the switch for one cycle; and the   *)
(* gateware sees a button let go (sh1107/rtl/__init__.py) when the switch  *)
(* falls.                                                                  *)
(***************************************************************************)
EXTENDS Naturals

CONSTANT Buttons

VARIABLES
  press_signal,   \* the switch to be pressed, or 0
  switches        \* by switch: its connector's state, its level, and the
                  \*   gateware's buffer

switchVars == <<press_signal, switches>>

SwitchesInit ==
  /\ press_signal = 0
  /\ switches = [i \in Buttons |-> [state |-> "Idle", level |-> 0, buffer |-> 0]]

\* Variant: the switch is not let go.
SwitchTickSticks(s) ==
  IF s.state = "Pressing" THEN [s EXCEPT !.state = "Releasing", !.level = 1]
  ELSE [s EXCEPT !.state = "Idle"]

SwitchTick(s) ==
  IF s.state = "Pressing" THEN [s EXCEPT !.state = "Releasing", !.level = 1]
  ELSE IF s.state = "Releasing" THEN [s EXCEPT !.state = "Idle", !.level = 0]
  ELSE s

\* press: a switch that is being pressed is left alone.
Pressed(s) == IF s.state = "Idle" THEN [s EXCEPT !.state = "Pressing"] ELSE s

\* A tick and the clock edge after it.
SwitchesStep ==
  switches' =
    [i \in Buttons |->
      LET s == SwitchTick(IF press_signal = i THEN Pressed(switches[i])
                                              ELSE switches[i])
      IN  [s EXCEPT !.buffer = s.level]]

\* The buttons let go, as the clock edge finds them.
Released ==
  {i \in Buttons : switches[i].buffer = 1 /\ switches'[i].level = 0}
===============================================================================
