------------------------------- MODULE Simulator -------------------------------
(***************************************************************************)
(* The simulator of src/vsh/: the gateware clock cycle by clock cycle, the *)
(* switches in front of it, and the simulated display behind it, which is  *)
(* on the wires or, in the faster build, listens to the black box.         *)
(*                                                                         *)
(* Two threads: the display thread presses keys; the FPGA thread's loop is *)
(* Clock, a tick of every connector and the clock edge.                    *)
(***************************************************************************)
EXTENDS Board, I2CConnector, I2CBBConnector, Switches

CONSTANTS
  CharColumns,   \* by character code plus one, the bytes of its columns
  MaxPresses     \* bound on the keys pressed

ASSUME MaxPressesAssumption == MaxPresses \in Nat

VARIABLES
  build,         \* "wires" or "blackbox"
  presses,       \* the keys pressed
  work, adjusted, ram, start, point  \* history: what Panel makes of requests

toldVars == <<work, adjusted, ram, start, point>>
simVars == <<boardVars, connectorVars, targetVars, bbVars, switchVars,
             build, presses, toldVars>>

Reduced ==
  INSTANCE Panel WITH
    Users <- {}, Bytes <- {}, user <- <<>>, feed <- <<>>, asked <- FALSE,
    todo <- <<>>, shown <- <<>>

SimInit ==
  /\ BoardInit /\ ConnectorInit /\ TargetInit /\ BBInit /\ SwitchesInit
  /\ build \in {"wires", "blackbox"} /\ presses = 0
  /\ work = None /\ adjusted = 0
  /\ ram = [l \in Reduced!Lines |-> Reduced!BlankLine] /\ start = 0
  /\ point = [line |-> 0, page |-> 0]

-------------------------------------------------------------------------------
(***************************************************************************)
(* The FPGA thread.  The connector samples before the edge, and the edge   *)
(* finds what it puts out.                                                 *)
(***************************************************************************)
OnWires ==
  /\ build = "wires" /\ TargetStep
  /\ OLEDConnectorStep
  /\ Tick(Owned.stb, Owned.w_en, Owned.w, OwnREn, target'.sda_i)
  /\ UNCHANGED bbVars

OnBlackBox ==
  /\ build = "blackbox" /\ BBTick(Owned)
  /\ OLEDConnectorStep
  /\ BlackBox(Owned, OwnREn)
  /\ UNCHANGED targetVars

\* What the display is told: a request is carried out when its unit is done.
Told ==
  IF req # None THEN Reduced!UnitTakes
  ELSE IF work # None /\ \A u \in {loc', cls', wr', scr'} : u.busy = 0
  THEN Reduced!UnitDone
  ELSE UNCHANGED toldVars

Clock ==
  /\ press_signal' = 0 /\ SwitchesStep
  /\ OnWires \/ OnBlackBox
  /\ CommandCycle(0, Released)
  /\ Told
  /\ UNCHANGED <<build, presses>>

\* The display thread; keys are pressed while the OLED module rests or has just
\* taken a byte.
Press(i) ==
  /\ presses < MaxPresses /\ presses' = presses + 1
  /\ main \in {"IDLE", "START_STROBED_FIFO_IN_R_EN"}
  /\ press_signal' = i
  /\ UNCHANGED <<boardVars, connectorVars, targetVars, bbVars, switches,
                 build, toldVars>>

SimNext == Clock \/ \E i \in Buttons : Press(i)

SimSpec == SimInit /\ [][SimNext]_simVars /\ WF_simVars(Clock)

-------------------------------------------------------------------------------
(***************************************************************************)
(* Properties.                                                             *)
(***************************************************************************)
\* A line of the display is eight columns; the character in a cell is the one
\* that looks like it.
Garbled == 256

CharIn(line, page) ==
  LET bytes == [k \in 1 .. 8 |-> display.ram[page][8 * line + k - 1]]
      codes == {ch \in 0 .. Len(CharColumns) - 1 : CharColumns[ch + 1] = bytes}
  IN  IF codes = {} THEN Garbled ELSE CHOOSE ch \in codes : TRUE

\* What a unit is strobed for the simulated display does, byte by byte and bit
\* by bit: whenever the bus is at rest its memory, its pointer and the line it
\* shows first are what Panel's reduced units make of the requests.
DisplayAsTold ==
  req = None /\ work = None /\ busy = 0 =>
    /\ \A l \in Reduced!Lines, p \in Reduced!Pages : CharIn(l, p) = ram[l][p]
    /\ display.regs["SetDisplayStartLine"][1] = 8 * start
    /\ display.column \div 8 = point.line /\ display.page = point.page

\* Neither end of the simulation ever finds anything to complain of: every edge
\* is part of a transfer, every byte of a command, every transfer ends where a
\* command does, and no word is dropped.
NoComplaint ==
  ~complaint /\ ~(build = "blackbox" /\ Drops(Owned))

\* The byte that ID takes for the display's answer is the display's.
IDAnswers == main = "ID_RECV_STROBED_R_EN" => rest = Answer(display)

\* A key pressed while all is at rest starts a sequence: its own, or that of a
\* key pressed before the FPGA thread has seen the first.
Rests ==
  /\ top.fsm = "IDLE" /\ top.w_en = 0 /\ ~Given /\ main = "IDLE"
  /\ \A i \in Buttons : switches[i] = [state |-> "Idle", level |-> 0, buffer |-> 0]

PressPlays == press_signal # 0 /\ Rests ~> top.fsm # "IDLE"
===============================================================================
