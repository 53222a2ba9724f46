------------------------------ MODULE PanelProofs -------------------------------
(***************************************************************************)
(* Proofs about the OLED module, for every size of the screen and whatever *)
(* the user queues: the units take turns, the position and the pointer     *)
(* stay on the screen, and module and display together implement Terminal. *)
(*                                                                         *)
(* Who may work is not written down anywhere in the code: it follows from  *)
(* where the two FSMs are.  Strobing and Awaiting say which unit a state   *)
(* has just strobed or waits for, and TurnsInv that no other one works.    *)
(* ScreenInv says that FSM and queue agree on what each byte is, and       *)
(* RenderInv what there is on the display while an operation is carried    *)
(* out: so much of it has been done, and the rest is on its way.           *)
(***************************************************************************)
EXTENDS Panel, SequenceTheorems, TLAPS

\* The states in which the command FSM waits for the printer.
Running ==
  {"PRINT_DATA_CHPR_RUNNING", "PRINT_BYTE_STROBED_R_EN_CHPR_RUNNING",
   "PRINT_BYTE_SECOND_HALF_CHPR_RUNNING", "ID_FIRST_HALF_CHPR_RUNNING",
   "ID_SECOND_HALF_CHPR_RUNNING", "CURSOR_ON_OFF_CHPR_RUNNING"}

\* The states in which ID drives the controller.
Driving ==
  {"ID_START_WRITE_STROBED_W_EN", "ID_START_WRITE_STROBED_STB",
   "ID_WRITE_CMD_STROBED_W_EN", "ID_START_READ_STROBED_W_EN",
   "ID_RECV_WAIT", "ID_RECV_STROBED_R_EN"}

Strobing(unit) ==
  \/ unit = "locator" /\ (main \in {"CLSER_STROBED_LOCATOR",
       "LOCATE_COL_STROBED_R_EN"} \/ printer.fsm = "STROBED_LOCATOR")
  \/ unit = "clser" /\ main = "CLSER_STROBED"
  \/ unit = "scroller" /\ printer.fsm = "STROBED_SCROLLER"
  \/ unit = "rom_writer" /\ (main \in {"INIT_STROBED_ROM_WRITER",
       "ROM_WRITE_SINGLE_STROBED_ROM_WRITER"} \/ printer.fsm = "STROBED_ROM_WRITER")

Awaiting(unit) ==
  \/ unit = "locator" /\ (main \in {"CLSER_UNSTROBED_LOCATOR",
       "LOCATE_UNSTROBED_LOCATOR"} \/ printer.fsm = "UNSTROBED_LOCATOR")
  \/ unit = "clser" /\ main = "CLSER_UNSTROBED"
  \/ unit = "scroller" /\ printer.fsm = "UNSTROBED_SCROLLER"
  \/ unit = "rom_writer" /\ (main = "ROM_WRITE_SINGLE_UNSTROBED_ROM_WRITER"
       \/ printer.fsm \in {"UNSTROBED_ROM_WRITER",
                           "UNSTROBED_ROM_WRITER_NEEDS_SCROLL"})

PrinterRecord ==
  printer = [fsm |-> printer.fsm, run |-> printer.run, data |-> printer.data,
             advance |-> printer.advance]

\* One FSM at a time: the printer works while the command FSM waits for it.
PrinterInv ==
  /\ PrinterRecord
  /\ printer.run \in Bit /\ printer.advance \in Bit
  /\ printer.run = 0 => printer.fsm = "IDLE"
  /\ printer.run = 1 => main \in Running

OwnInv == own # OwnIdle => printer.run = 0 /\ main \in Driving

RequestInv == req # None => Strobing(req.unit)

WorkInv == work # None => req = None /\ Awaiting(work.unit)

TurnsInv == PrinterInv /\ OwnInv /\ RequestInv /\ WorkInv

-------------------------------------------------------------------------------
LEMMA InitTurns == PanelInit => TurnsInv
  BY DEF PanelInit, OLEDInit, TurnsInv, PrinterInv, PrinterRecord, OwnInv, RequestInv, WorkInv, Bit

\* The command FSM's steps: none is taken while the printer works.
Commanding(busy, bus, full) ==
  \/ AtIdle(full, bus.w_rdy) \/ Start
  \/ Cls(busy) \/ WriteSingle(busy) \/ LocateStep(busy)
  \/ PrintStep \/ IdStep(bus) \/ CursorStep

LEMMA PrinterIdle ==
  ASSUME NEW busy, NEW bus, NEW full, Commanding(busy, bus, full)
  PROVE  printer.run = 0
<1> USE DEF Pass, From, Starved, AwaitUnit
<1>1. CASE AtIdle(full, bus.w_rdy)
  BY <1>1 DEF AtIdle, IdleBlinks, IdleTakes, IdleElse
<1>2. CASE Start
  BY <1>2 DEF Start, Begin, BeginNop, BeginInit, BeginDisplay, BeginCls, BeginCursor,
              BeginOther, Unknown
<1>3. CASE Cls(busy)
  BY <1>3 DEF Cls
<1>4. CASE WriteSingle(busy)
  BY <1>4 DEF WriteSingle
<1>5. CASE LocateStep(busy)
  BY <1>5 DEF LocateStep, LocateRow, LocateCol
<1>6. CASE PrintStep
  BY <1>6 DEF PrintStep, PrintCount, PrintCounted, PrintData, PrintedData,
              PrintByteFirst, SecondDigit
<1>7. CASE IdStep(bus)
  BY <1>7 DEF IdStep, Drive, IdQueue, IdReceive, IdReceived, SecondDigit
<1>8. CASE CursorStep
  BY <1>8 DEF CursorStep, CursorOnReset, CursorOffReset
<1> QED BY <1>1, <1>2, <1>3, <1>4, <1>5, <1>6, <1>7, <1>8 DEF Commanding

\* What a clock cycle does to the turns, whoever is busy in it: a unit strobed
\* is waited for, and is so until it is no longer busy.
TurnsKept(busy) ==
  /\ PrinterInv' /\ OwnInv' /\ RequestInv'
  /\ \A unit : Strobing(unit) => Awaiting(unit)' /\ req' = None
  /\ \A unit \in DOMAIN busy :
       Awaiting(unit) /\ busy[unit] = 1 => Awaiting(unit)' /\ req' = None

LEMMA Shown ==
  ASSUME NEW char, PrinterRecord, Show(char)
  PROVE  PrinterRecord' /\ printer'.run = 1 /\ printer'.fsm = printer.fsm
                        /\ printer'.advance = printer.advance
  BY DEF Show, PrinterRecord

LEMMA Moved ==
  ASSUME NEW state, PrinterRecord, ToState(state)
  PROVE  PrinterRecord' /\ printer'.run = printer.run /\ printer'.fsm = state
                        /\ printer'.advance = printer.advance
  BY DEF ToState, PrinterRecord

\* A character is handed to the printer in a step to a state that waits for it.
LEMMA PrintShows ==
  ASSUME PrintStep
  PROVE  printer' = printer \/ (main' \in Running /\ \E char : Show(char))
  BY DEF PrintStep, PrintCount, PrintCounted, PrintData, PrintedData, PrintByteFirst,
         SecondDigit, Starved, AwaitUnit, Pass, Running

LEMMA IdShows ==
  ASSUME NEW bus, IdStep(bus)
  PROVE  printer' = printer \/ (main' \in Running /\ \E char : Show(char))
  BY DEF IdStep, Drive, IdQueue, IdReceive, IdReceived, IdFails, SecondDigit, AwaitUnit,
         Running

LEMMA CursorShows ==
  ASSUME PrinterRecord, CursorStep
  PROVE  \/ printer' = printer
         \/ /\ main' \in Running /\ PrinterRecord' /\ printer'.run = 1
            /\ printer'.fsm = printer.fsm /\ printer'.advance = 0
<1>1. CASE CursorOnReset
  BY <1>1 DEF CursorOnReset, PrinterRecord, Running
<1>2. CASE CursorOffReset
  BY <1>2 DEF CursorOffReset, PrinterRecord, Running
<1>3. CASE Pass("CURSOR_ON_OFF_CHPR_RUNNING", "IDLE")
  BY <1>3 DEF Pass
<1> QED BY <1>1, <1>2, <1>3 DEF CursorStep

LEMMA CommandTurns ==
  ASSUME NEW busy, NEW bus, NEW full, Commanding(busy, bus, full),
         busy = [locator |-> busy.locator, clser |-> busy.clser,
                 rom_writer |-> busy.rom_writer, scroller |-> busy.scroller],
         PrinterInv, OwnInv
  PROVE  TurnsKept(busy)
<1>0. printer.run = 0 /\ printer.fsm = "IDLE"
  BY PrinterIdle DEF PrinterInv
<1>1. ASSUME AtIdle(full, bus.w_rdy) \/ Start \/ Cls(busy) \/ WriteSingle(busy)
               \/ LocateStep(busy)
      PROVE  TurnsKept(busy)
  <2> USE <1>0 DEF TurnsKept, PrinterInv, PrinterRecord, OwnInv, RequestInv, Strobing,
      Awaiting, Running, Driving, Bit, Pass, From, Starved, AwaitUnit, Quiet, Pop, Ask,
      Finished
  <2>1. CASE AtIdle(full, bus.w_rdy)
    BY <2>1 DEF AtIdle, IdleBlinks, IdleTakes, IdleElse
  <2>2. CASE Start
    BY <2>2 DEF Start, Begin, BeginNop, BeginInit, BeginDisplay, BeginCls, BeginCursor,
                BeginOther, Unknown, FirstState, WriteROM, Clear
  <2>3. CASE Cls(busy)
    BY <2>3 DEF Cls, Locate
  <2>4. CASE WriteSingle(busy)
    BY <2>4 DEF WriteSingle
  <2>5. CASE LocateStep(busy)
    BY <2>5 DEF LocateStep, LocateRow, LocateCol, Locate
  <2> QED BY <1>1, <2>1, <2>2, <2>3, <2>4, <2>5
<1>2. ASSUME PrintStep \/ IdStep(bus) \/ CursorStep
      PROVE  TurnsKept(busy)
  <2>1. PrinterInv'
    BY <1>0, <1>2, PrintShows, IdShows, CursorShows, Shown DEF PrinterInv, Bit, PrinterRecord
  <2> USE <1>0 DEF OwnInv, RequestInv, Strobing, Awaiting, Driving, From, Pass, Starved,
      AwaitUnit, Quiet, Pop, Finished
  <2>2. req' = None
    BY <1>2
       DEF PrintStep, PrintCount, PrintCounted, PrintData, PrintedData, PrintByteFirst,
           SecondDigit, IdStep, Drive, IdQueue, IdReceive, IdReceived, IdFails,
           CursorStep, CursorOnReset, CursorOffReset
  <2>3. OwnInv'
    <3>1. CASE PrintStep
      BY <3>1 DEF PrintStep, PrintCount, PrintCounted, PrintData, PrintedData,
                  PrintByteFirst, SecondDigit
    <3>2. CASE IdStep(bus)
      BY <3>2 DEF IdStep, Drive, IdQueue, IdReceive, IdReceived, IdFails, SecondDigit
    <3>3. CASE CursorStep
      BY <3>3 DEF CursorStep, CursorOnReset, CursorOffReset
    <3> QED BY <1>2, <3>1, <3>2, <3>3
  <2>4. \A unit : ~Strobing(unit) /\ ~Awaiting(unit)
    BY <1>2
       DEF PrintStep, PrintCount, PrintCounted, PrintData, PrintedData, PrintByteFirst,
           SecondDigit, IdStep, Drive, IdQueue, IdReceive, IdReceived, IdFails,
           CursorStep, CursorOnReset, CursorOffReset
  <2> QED BY <2>1, <2>2, <2>3, <2>4 DEF TurnsKept
<1> QED BY <1>1, <1>2 DEF Commanding

\* What a step of the printer does to its own state and its requests.
LEMMA PrinterMoves ==
  ASSUME NEW busy, Chpr(busy), PrinterInv
  PROVE  /\ printer.run = 1 /\ main' = main /\ own' = own
         /\ PrinterRecord' /\ printer'.advance \in Bit
         /\ \/ printer'.run = 1
            \/ printer'.run = 0 /\ printer'.fsm = "IDLE" /\ req' = None
                 /\ printer.fsm = "UNSTROBED_LOCATOR" /\ busy.locator = 0
<1>1. printer.run = 1 /\ main' = main /\ own' = own
  BY DEF Chpr, ChprReturn, ChprLine, ChprLineScrolls, ChprWrite, ChprStay, ChprAdvance,
         ChprAdvanceScrolls, ChprChain, ChprPass, ChprDone, Working
<1>2. CASE \E state : ToState(state)
  BY <1>1, <1>2, Moved DEF PrinterInv
<1>3. CASE ChprStay
  BY <1>1, <1>3 DEF ChprStay, PrinterInv, PrinterRecord, Bit
<1>4. CASE busy.locator = 0 /\ ChprDone(busy) /\ ~\E state : ToState(state)
  BY <1>1, <1>4 DEF ChprDone, ChprPass, PrinterInv, PrinterRecord, Bit, Working, Quiet
<1> QED BY <1>1, <1>2, <1>3, <1>4
        DEF Chpr, ChprReturn, ChprLine, ChprLineScrolls, ChprWrite, ChprAdvance,
            ChprAdvanceScrolls, ChprChain, ChprPass, ChprDone

Moves(from, to) == printer.fsm = from /\ printer'.fsm = to

LEMMA PrinterTurns ==
  ASSUME NEW busy, Chpr(busy),
         busy = [locator |-> busy.locator, clser |-> busy.clser,
                 rom_writer |-> busy.rom_writer, scroller |-> busy.scroller],
         PrinterInv, OwnInv
  PROVE  TurnsKept(busy)
<1>1. /\ printer.run = 1 /\ main \in Running /\ main' = main /\ own' = own
      /\ PrinterInv'
  BY PrinterMoves DEF PrinterInv, Bit
<1>2. own = OwnIdle
  BY <1>1 DEF OwnInv
<1>3. \/ /\ req' = None
         /\ \/ Moves("STROBED_LOCATOR", "UNSTROBED_LOCATOR")
            \/ Moves("UNSTROBED_LOCATOR", "UNSTROBED_LOCATOR")
            \/ Moves("STROBED_SCROLLER", "UNSTROBED_SCROLLER")
            \/ Moves("UNSTROBED_SCROLLER", "UNSTROBED_SCROLLER")
            \/ Moves("STROBED_ROM_WRITER", "UNSTROBED_ROM_WRITER")
            \/ Moves("STROBED_ROM_WRITER", "UNSTROBED_ROM_WRITER_NEEDS_SCROLL")
            \/ Moves("UNSTROBED_ROM_WRITER", "UNSTROBED_ROM_WRITER")
            \/ Moves("UNSTROBED_ROM_WRITER_NEEDS_SCROLL",
                     "UNSTROBED_ROM_WRITER_NEEDS_SCROLL")
            \/ busy.locator = 0 /\ Moves("UNSTROBED_LOCATOR", "IDLE")
      \/ /\ req'.unit = "locator"
         /\ \/ Moves("IDLE", "STROBED_LOCATOR")
            \/ busy.rom_writer = 0 /\ Moves("UNSTROBED_ROM_WRITER", "STROBED_LOCATOR")
            \/ busy.scroller = 0 /\ Moves("UNSTROBED_SCROLLER", "STROBED_LOCATOR")
      \/ /\ req'.unit = "scroller"
         /\ \/ Moves("IDLE", "STROBED_SCROLLER")
            \/ busy.rom_writer = 0
                 /\ Moves("UNSTROBED_ROM_WRITER_NEEDS_SCROLL", "STROBED_SCROLLER")
      \/ req'.unit = "rom_writer" /\ Moves("IDLE", "STROBED_ROM_WRITER")
  <2> USE DEF Working, Ask, Quiet, Moves
  <2>1. CASE ChprReturn
    BY <2>1, Moved DEF ChprReturn, Locate, PrinterInv
  <2>2. CASE ChprLine
    BY <2>2, Moved DEF ChprLine, Locate, PrinterInv
  <2>3. CASE ChprLineScrolls
    BY <2>3, Moved DEF ChprLineScrolls, Scroll, PrinterInv
  <2>4. CASE ChprWrite
    BY <2>4, Moved DEF ChprWrite, WriteROM, PrinterInv
  <2>5. CASE ChprStay
    BY <2>5 DEF ChprStay, PrinterInv, PrinterRecord
  <2>6. CASE ChprAdvance \/ ChprAdvanceScrolls
    BY <2>6, Moved DEF ChprAdvance, ChprAdvanceScrolls, PrinterInv
  <2>7. CASE ChprDone(busy)
    BY <2>7, Moved DEF ChprDone, ChprPass, PrinterInv, PrinterRecord
  <2>8. ASSUME NEW from, NEW to, ChprPass(from, to)
        PROVE  req' = None /\ Moves(from, to)
    BY <2>8, Moved DEF ChprPass, PrinterInv
  <2>9. ASSUME NEW from, NEW bit, NEW r, NEW to, ChprChain(from, bit, r, to)
        PROVE  \/ req' = None /\ Moves(from, from)
               \/ bit = 0 /\ req' = r /\ Moves(from, to)
    BY <2>9, Moved DEF ChprChain, ChprPass, PrinterInv
  <2>10. Scroll.unit = "scroller" /\ \A r, c : Locate(r, c).unit = "locator"
    BY DEF Scroll, Locate
  <2> HIDE DEF Working, Ask, Quiet, Moves
  <2> QED BY <2>1, <2>2, <2>3, <2>4, <2>5, <2>6, <2>7, <2>8, <2>9, <2>10 DEF Chpr
<1>4. /\ \A unit : Strobing(unit) => Awaiting(unit)' /\ req' = None
      /\ \A unit \in DOMAIN busy :
           Awaiting(unit) /\ busy[unit] = 1 => Awaiting(unit)' /\ req' = None
  BY <1>1, <1>3 DEF Strobing, Awaiting, Running, Moves
<1>5. RequestInv'
  BY <1>3 DEF RequestInv, Strobing, Moves
<1> QED BY <1>1, <1>2, <1>4, <1>5 DEF TurnsKept, OwnInv

LEMMA StepTurns ==
  ASSUME TurnsInv, [PanelNext]_vars
  PROVE  TurnsInv'
<1>1. CASE UNCHANGED vars
  BY <1>1 DEF TurnsInv, PrinterInv, PrinterRecord, OwnInv, RequestInv, WorkInv,
              Strobing, Awaiting, vars, oledVars
<1>2. CASE PanelNext
  <2>1. PICK bus, full, w_en, b : OLEDStep(Busy, bus, full, w_en, b) /\ Units
    BY <1>2 DEF PanelNext, Quietly, Queueing
  <2>2. TurnsKept(Busy)
    BY <2>1, CommandTurns, PrinterTurns DEF OLEDStep, Commanding, Busy, TurnsInv
  <2>3. WorkInv'
    <3>1. CASE req # None /\ UnitTakes
      BY <2>2, <3>1 DEF UnitTakes, TurnsKept, TurnsInv, RequestInv, WorkInv
    <3>2. CASE req = None /\ work # None /\ UnitDone
      BY <3>2 DEF UnitDone, WorkInv
    <3>3. CASE req = None /\ work' = work
      <4>1. CASE work = None
        BY <3>3, <4>1 DEF WorkInv
      <4>2. CASE work # None
        <5>1. Awaiting(work.unit)
          BY <4>2 DEF TurnsInv, WorkInv
        <5>2. work.unit \in DOMAIN Busy /\ Busy[work.unit] = 1
          BY <5>1 DEF Busy, BusyBit, Awaiting
        <5> QED BY <2>2, <3>3, <5>1, <5>2 DEF TurnsKept, WorkInv
      <4> QED BY <4>1, <4>2
    <3> QED BY <2>1, <3>1, <3>2, <3>3 DEF Units
  <2> QED BY <2>2, <2>3 DEF TurnsKept, TurnsInv
<1> QED BY <1>1, <1>2

\* In every reachable state at most one FSM moves, and at most one unit is strobed,
\* waited for or busy.
THEOREM TurnsInvariance == PanelSpec => []TurnsInv
  BY InitTurns, StepTurns, PTL DEF PanelSpec

\* No unit is strobed while one is busy, and ID drives the bus only while all are
\* idle, for every screen and every stream of commands.
THEOREM UnitsAlternate == PanelSpec => []UnitsTakeTurns
<1>1. TurnsInv => UnitsTakeTurns
  BY DEF TurnsInv, UnitsTakeTurns, PrinterInv, OwnInv, RequestInv, WorkInv, Strobing,
         Awaiting, Driving
<1> QED BY <1>1, TurnsInvariance, PTL

-------------------------------------------------------------------------------
(***************************************************************************)
(* The position and the pointer stay on the screen.                        *)
(*                                                                         *)
(* A position is what LOCATE's operands made it, so this rests on the      *)
(* command FSM and whoever writes the queue agreeing on which byte is a    *)
(* command and which is an operand: Expecting says what the FSM takes the  *)
(* next byte for, and QueueInv that it was queued as that.                 *)
(***************************************************************************)
Expecting ==
  IF main = "START_STROBED_FIFO_IN_R_EN" THEN AfterCommand(command)
  ELSE IF main = "LOCATE_ROW_WAIT" THEN [want |-> "row", n |-> 0]
  ELSE IF main \in {"LOCATE_ROW_STROBED_R_EN", "LOCATE_COL_WAIT"}
  THEN [want |-> "col", n |-> rest]
  ELSE IF main = "PRINT_COUNT_WAIT" THEN [want |-> "count", n |-> 0]
  ELSE IF main \in {"PRINT_COUNT_STROBED_R_EN", "PRINT_DATA_WAIT"} THEN Chars(rest)
  ELSE IF main = "PRINT_DATA_CHPR_RUNNING" THEN Chars(rest - 1)
  ELSE IF main = "PRINT_BYTE_START" THEN [want |-> "byte", n |-> 0]
  ELSE Command

\* The states in which the queue's word may be on its way out.
Popped ==
  {"START_STROBED_FIFO_IN_R_EN", "LOCATE_ROW_STROBED_R_EN",
   "LOCATE_COL_STROBED_R_EN", "PRINT_COUNT_STROBED_R_EN",
   "PRINT_DATA_CHPR_RUNNING", "PRINT_BYTE_STROBED_R_EN_CHPR_RUNNING"}

FifoInv ==
  /\ fifo_in = <<>> \/ fifo_in = <<Byte1>>
  /\ fifo_r_en = 0 \/ (fifo_r_en = 1 /\ Given /\ main \in Popped)

\* A word still to be popped is what the FSM expects; the queue's writer is ahead
\* of the FSM by that word.
QueueInv ==
  /\ FifoInv /\ user \in Users
  /\ IF Given /\ fifo_r_en = 0
     THEN Byte1 \in Expected(Expecting) /\ feed = FeedAfter(Expecting, Byte1)
     ELSE feed = Expecting

RestInv ==
  /\ rest \in 0 .. 255
  /\ main \in {"LOCATE_ROW_STROBED_R_EN", "LOCATE_COL_WAIT"} => rest <= LastRow
  /\ main \in {"PRINT_DATA_WAIT", "PRINT_DATA_CHPR_RUNNING"} => rest > 0

CursorInv ==
  /\ cursor = [row |-> cursor.row, col |-> cursor.col, en |-> cursor.en,
               state |-> cursor.state, drawn_row |-> cursor.drawn_row,
               drawn_col |-> cursor.drawn_col]
  /\ cursor.row \in 1 .. LastRow /\ cursor.col \in 1 .. LastCol
  /\ cursor.drawn_row \in 1 .. LastRow /\ cursor.drawn_col \in 1 .. LastCol

\* A request to the locator names a place on the screen.
OnScreen(r) ==
  r.unit = "locator" => r.row \in 0 .. LastRow /\ r.col \in 0 .. LastCol

DisplayInv ==
  /\ adjusted \in Lines /\ start \in Lines
  /\ point = [line |-> point.line, page |-> point.page]
  /\ point.line \in Lines /\ point.page \in Pages

ScreenInv ==
  QueueInv /\ RestInv /\ CursorInv /\ OnScreen(req) /\ OnScreen(work) /\ DisplayInv

-------------------------------------------------------------------------------
LEMMA Sizes ==
  LastRow \in Nat /\ LastRow >= 1 /\ LastRow <= 255 /\ LastCol \in Nat /\ LastCol >= 1
  BY LastRowAssumption, LastColAssumption, ScreenAssumption

LEMMA Wrapped == ASSUME NEW n \in Nat PROVE n % LastRow \in Lines
  BY Sizes DEF Lines

LEMMA InitScreen == PanelInit => ScreenInv
  BY Sizes DEF PanelInit, OLEDInit, ScreenInv, QueueInv, FifoInv, Given, Readable,
     Expecting, RestInv, CursorInv, OnScreen, None, DisplayInv, Lines, Pages

\* The parser either stands still or takes a byte for what it expected.
Stands == fifo_r_en' = 0 /\ Expecting' = Expecting

Takes ==
  /\ Given /\ main \notin Popped /\ fifo_r_en' = 1 /\ main' \in Popped
  /\ Expecting' = FeedAfter(Expecting, Byte1)

Parses == (Stands \/ Takes) /\ RestInv'

\* The operands a byte may be, by what it is expected for.
LEMMA Operands ==
  ASSUME ScreenInv, Given, main \notin Popped
  PROVE  /\ Byte1 \in Expected(Expecting)
         /\ main = "LOCATE_ROW_WAIT" => Byte1 \in 0 .. LastRow
         /\ main = "LOCATE_COL_WAIT" => Byte1 \in 0 .. LastCol
         /\ main = "PRINT_COUNT_WAIT" => Byte1 \in 0 .. 255
         /\ main = "PRINT_BYTE_START" => Byte1 \in 0 .. 255
<1>1. Byte1 \in Expected(Expecting)
  BY DEF ScreenInv, QueueInv, FifoInv
<1>2. user.counts \subseteq 0 .. 255 /\ Bytes \subseteq 0 .. 255
  BY UsersAssumption DEF ScreenInv, QueueInv
<1> QED BY <1>1, <1>2 DEF Expected, Expecting

\* What the command FSM does to the queue and to the operand it keeps.
LEMMA CommandParses ==
  ASSUME NEW busy, NEW bus, NEW full, Commanding(busy, bus, full),
         main = "ID_RECV_WAIT" => bus.r_data \in Bytes,
         TurnsInv, ScreenInv
  PROVE  Parses
<1> USE Sizes DEF Parses, Stands, Takes, Popped, RestInv, Expecting, Pass, From, Starved,
    AwaitUnit, Quiet, Pop, Ask, Finished
<1>0. RestInv
  BY DEF ScreenInv
<1>1. CASE AtIdle(full, bus.w_rdy)
  <2>1. CASE Given /\ IdleTakes
    BY <1>0, <2>1 DEF IdleTakes, FeedAfter, Command, AfterCommand
  <2>2. CASE IdleBlinks \/ IdleElse
    BY <1>0, <2>2 DEF IdleBlinks, IdleElse
  <2> QED BY <1>1, <2>1, <2>2 DEF AtIdle
<1>2. CASE Start
  <2>1. CASE BeginOther
    BY <1>0, <2>1 DEF Begin, BeginOther, FirstState, AfterCommand, LOCATE, PRINT, ID,
                      PRINT_BYTE
  <2>2. CASE ~BeginOther
    BY <1>0, <1>2, <2>2
       DEF Start, Begin, BeginNop, BeginInit, BeginDisplay, BeginCls, BeginCursor,
           Unknown, AfterCommand, LOCATE, PRINT, PRINT_BYTE, NOP, INIT, DISPLAY_ON,
           DISPLAY_OFF, CLS, CURSOR_ON, CURSOR_OFF
  <2> QED BY <2>1, <2>2
<1>3. CASE Cls(busy)
  BY <1>0, <1>3 DEF Cls
<1>4. CASE WriteSingle(busy)
  BY <1>0, <1>4 DEF WriteSingle
<1>5. CASE LocateStep(busy)
  <2>1. CASE LocateRow
    BY <1>0, <2>1, Operands DEF LocateRow, FeedAfter
  <2>2. CASE LocateCol
    BY <1>0, <2>2 DEF LocateCol, FeedAfter, Command
  <2>3. CASE ~LocateRow /\ ~LocateCol
    BY <1>0, <1>5, <2>3 DEF LocateStep
  <2> QED BY <2>1, <2>2, <2>3
<1>6. CASE PrintStep
  <2>1. CASE PrintCount
    BY <1>0, <2>1, Operands DEF PrintCount, FeedAfter
  <2>2. CASE PrintCounted
    BY <1>0, <2>2 DEF PrintCounted, Chars
  <2>3. CASE PrintData
    BY <1>0, <2>3 DEF PrintData, FeedAfter, Chars
  <2>4. CASE PrintedData
    BY <1>0, <2>4 DEF PrintedData, Chars
  <2>5. CASE PrintByteFirst
    BY <1>0, <2>5, Operands DEF PrintByteFirst, FeedAfter, Command
  <2>6. CASE ~PrintCount /\ ~PrintCounted /\ ~PrintData /\ ~PrintedData
               /\ ~PrintByteFirst
    BY <1>0, <1>6, <2>6 DEF PrintStep, SecondDigit
  <2> QED BY <2>1, <2>2, <2>3, <2>4, <2>5, <2>6
<1>7. CASE IdStep(bus)
  <2>1. /\ fifo_r_en' = 0
        /\ rest' = rest \/ rest' = 0 \/ (main = "ID_RECV_WAIT" /\ rest' = bus.r_data)
    BY <1>7
       DEF IdStep, Drive, IdQueue, IdReceive, IdReceived, IdFails, SecondDigit
  <2>2. rest' \in 0 .. 255
    <3>1. main = "ID_RECV_WAIT" => bus.r_data \in 0 .. 255
      BY UsersAssumption
    <3> QED BY <1>0, <2>1, <3>1
  <2>3. Expecting = Command /\ Expecting' = Command
    BY <1>7
       DEF IdStep, Drive, IdQueue, IdReceive, IdReceived, IdFails, SecondDigit
  <2>4. main' \notin {"LOCATE_ROW_STROBED_R_EN", "LOCATE_COL_WAIT",
                     "PRINT_DATA_WAIT", "PRINT_DATA_CHPR_RUNNING"}
    BY <1>7
       DEF IdStep, Drive, IdQueue, IdReceive, IdReceived, IdFails, SecondDigit
  <2> QED BY <2>1, <2>2, <2>3, <2>4
<1>8. CASE CursorStep
  BY <1>0, <1>8 DEF CursorStep, CursorOnReset, CursorOffReset
<1> QED BY <1>1, <1>2, <1>3, <1>4, <1>5, <1>6, <1>7, <1>8 DEF Commanding

LEMMA StepParses ==
  ASSUME NEW bus, NEW full, NEW w_en, NEW w, OLEDStep(Busy, bus, full, w_en, w),
         main = "ID_RECV_WAIT" => bus.r_data \in Bytes,
         TurnsInv, ScreenInv
  PROVE  Parses
<1>1. CASE Chpr(Busy)
  <2>1. /\ fifo_r_en' = 0
        /\ UNCHANGED <<main, command, rest>>
    BY <1>1 DEF Chpr, ChprReturn, ChprLine, ChprLineScrolls, ChprWrite, ChprStay,
       ChprAdvance, ChprAdvanceScrolls, ChprChain, ChprPass, ChprDone, Ask, Quiet
  <2> QED BY <2>1 DEF Parses, Stands, Expecting, ScreenInv, RestInv
<1>2. CASE Commanding(Busy, bus, full)
  BY <1>2, CommandParses
<1> QED BY <1>1, <1>2 DEF OLEDStep, Commanding

\* The queue and its two ends.
LEMMA StepQueue ==
  ASSUME PanelNext, TurnsInv, ScreenInv
  PROVE  QueueInv' /\ RestInv'
<1>0. /\ FifoInv /\ user \in Users /\ user' = user
      /\ Given /\ fifo_r_en = 0 =>
           Byte1 \in Expected(Expecting) /\ feed = FeedAfter(Expecting, Byte1)
      /\ ~(Given /\ fifo_r_en = 0) => feed = Expecting
  BY DEF ScreenInv, QueueInv, PanelNext
<1>1. ASSUME Quietly PROVE QueueInv' /\ RestInv'
  <2>1. PICK bus \in BusInputs, full \in Pulses : OLEDStep(Busy, bus, full, 0, 0)
    BY <1>1 DEF Quietly
  <2>2. Parses
    BY <2>1, StepParses DEF BusInputs
  <2>3. fifo_in' = (IF fifo_r_en = 1 THEN <<>> ELSE fifo_in) /\ feed' = feed
    BY <1>0, <1>1, <2>1 DEF OLEDStep, FifoNext, Quietly
  <2>4. CASE Stands
    BY <1>0, <2>2, <2>3, <2>4
       DEF Parses, Stands, QueueInv, FifoInv, Given, Readable, Expected, FeedAfter,
           Byte1
  <2>5. CASE Takes
    BY <1>0, <2>2, <2>3, <2>5
       DEF Parses, Takes, QueueInv, FifoInv, Given, Readable, Byte1
  <2> QED BY <2>2, <2>4, <2>5 DEF Parses
<1>2. ASSUME Queueing PROVE QueueInv' /\ RestInv'
  <2>1. PICK bus \in BusInputs, full \in Pulses, b \in Expected(feed) :
          /\ OLEDStep(Busy, bus, full, 1, b) /\ Units /\ History(OpsOf(b))
          /\ feed' = FeedAfter(feed, b)
    BY <1>2 DEF Queueing
  <2>2. Parses
    BY <2>1, StepParses DEF BusInputs
  <2>3. fifo_in = <<>> /\ ~Given
    BY <1>2 DEF Queueing, Writable, Given, Readable
  <2>4. fifo_in' = <<b>>
    BY <2>1, <2>3 DEF OLEDStep, FifoNext, Writable
  <2>5. Stands /\ feed = Expecting
    BY <1>0, <2>2, <2>3 DEF Parses, Takes
  <2> QED BY <1>0, <2>1, <2>2, <2>4, <2>5
          DEF Parses, Stands, QueueInv, FifoInv, Given, Readable, Byte1, Expected,
              FeedAfter
<1> QED BY <1>1, <1>2 DEF PanelNext

\* The cursor with its position elsewhere.
At(r, c) ==
  [row |-> r, col |-> c, en |-> cursor.en, state |-> cursor.state,
   drawn_row |-> cursor.drawn_row, drawn_col |-> cursor.drawn_col]

LEMMA MoveTo ==
  ASSUME CursorInv, NEW r \in 1 .. LastRow, NEW c \in 1 .. LastCol, cursor' = At(r, c)
  PROVE  CursorInv'
  BY DEF At, CursorInv

\* The cursor, and where the locator is sent.
LEMMA StepCursor ==
  ASSUME PanelNext, TurnsInv, ScreenInv
  PROVE  CursorInv' /\ OnScreen(req)'
<1>1. PICK bus, full, w_en, b : OLEDStep(Busy, bus, full, w_en, b)
  BY DEF PanelNext, Quietly, Queueing
<1> USE Sizes DEF CursorInv
<1>2. CursorInv
  BY DEF ScreenInv
<1>3. OnScreen(Locate(cursor.row, cursor.col)) /\ OnScreen(None) /\ OnScreen(Scroll)
      /\ OnScreen(Clear) /\ OnScreen(Locate(0, 1))
      /\ \A i, rst : OnScreen(WriteROM(i, rst))
  BY <1>2 DEF OnScreen, Locate, None, Scroll, Clear, WriteROM
<1>4. CASE AtIdle(full, bus.w_rdy)
  BY <1>2, <1>3, <1>4 DEF AtIdle, IdleBlinks, IdleTakes, IdleElse, Pass, Quiet, Pop
<1>5. CASE Start
  <2> USE DEF Begin
  <2>1. CASE BeginInit
    <3>1. cursor' = At(1, 1)
      BY <1>2, <2>1 DEF BeginInit, At
    <3> HIDE DEF CursorInv
    <3>2. CursorInv'
      BY <1>2, <3>1, MoveTo
    <3> QED BY <1>3, <2>1, <3>2 DEF BeginInit, Ask
  <2>2. CASE BeginCls
    <3>1. cursor' = At(1, 1)
      BY <1>2, <2>2 DEF BeginCls, At
    <3> HIDE DEF CursorInv
    <3>2. CursorInv'
      BY <1>2, <3>1, MoveTo
    <3> QED BY <1>3, <2>2, <3>2 DEF BeginCls, Ask
  <2>3. CASE BeginCursor
    BY <1>2, <1>3, <2>3 DEF BeginCursor, Quiet
  <2>4. CASE BeginNop \/ BeginDisplay \/ BeginOther \/ Unknown
    BY <1>2, <1>3, <2>4 DEF BeginNop, BeginDisplay, BeginOther, Unknown, Pass, Quiet, Ask
  <2> QED BY <1>5, <2>1, <2>2, <2>3, <2>4 DEF Start
<1>6. CASE Cls(Busy) \/ WriteSingle(Busy)
  BY <1>2, <1>3, <1>6 DEF Cls, WriteSingle, Pass, AwaitUnit, Quiet, Ask
<1>7. CASE LocateStep(Busy)
  <2>1. CASE LocateRow
    <3>1. Byte1 \in 0 .. LastRow
      BY <2>1, Operands DEF LocateRow, From, Popped
    <3> QED BY <1>2, <1>3, <2>1, <3>1 DEF LocateRow, Pop
  <2>2. CASE LocateCol
    <3>1. Byte1 \in 0 .. LastCol /\ rest \in 0 .. LastRow
      BY <2>2, Operands DEF LocateCol, From, Popped, ScreenInv, RestInv
    <3> QED BY <1>2, <2>2, <3>1 DEF LocateCol, OnScreen, Locate
  <2>3. CASE ~LocateRow /\ ~LocateCol
    BY <1>2, <1>3, <1>7, <2>3 DEF LocateStep, Starved, Pass, AwaitUnit, Quiet
  <2> QED BY <2>1, <2>2, <2>3
<1>8. CASE PrintStep
  BY <1>2, <1>3, <1>8
     DEF PrintStep, PrintCount, PrintCounted, PrintData, PrintedData, PrintByteFirst,
         SecondDigit, Starved, Pass, AwaitUnit, Quiet, Pop
<1>9. CASE IdStep(bus)
  BY <1>2, <1>3, <1>9
     DEF IdStep, Drive, IdQueue, IdReceive, IdReceived, IdFails, SecondDigit, AwaitUnit,
         Quiet
<1>10. CASE CursorStep
  BY <1>2, <1>3, <1>10 DEF CursorStep, CursorOnReset, CursorOffReset, Pass, Quiet
<1>11. CASE Chpr(Busy)
  <2>1. CASE ChprLine
    <3>1. cursor.row + 1 \in 1 .. LastRow
      BY <1>2, <2>1 DEF ChprLine
    <3>2. cursor' = At(cursor.row + 1, 1)
      BY <1>2, <2>1 DEF ChprLine, At
    <3> HIDE DEF CursorInv
    <3>3. CursorInv'
      BY <1>2, <3>1, <3>2, MoveTo
    <3>4. OnScreen(Locate(cursor.row + 1, 1))
      BY <3>1 DEF OnScreen, Locate
    <3> QED BY <2>1, <3>3, <3>4 DEF ChprLine, Ask
  <2>2. CASE ChprReturn \/ ChprLineScrolls \/ ChprWrite \/ ChprStay
    BY <1>2, <1>3, <2>2 DEF ChprReturn, ChprLineScrolls, ChprWrite, ChprStay, Ask, Quiet
  <2>3. CASE ChprAdvanceScrolls
    BY <1>2, <1>3, <2>3 DEF ChprAdvanceScrolls, Quiet
  <2>4. CASE ChprAdvance
    <3>1. CASE cursor.col = LastCol
      <4>1. cursor.row + 1 \in 1 .. LastRow
        BY <1>2, <2>4, <3>1 DEF ChprAdvance
      <4>2. cursor' = At(cursor.row + 1, 1)
        BY <1>2, <2>4, <3>1 DEF ChprAdvance, At
      <4> HIDE DEF CursorInv
      <4>3. CursorInv'
        BY <1>2, <4>1, <4>2, MoveTo
      <4> QED BY <1>3, <2>4, <4>3 DEF ChprAdvance, Quiet
    <3>2. CASE cursor.col # LastCol
      <4>1. cursor.col + 1 \in 1 .. LastCol
        BY <1>2, <3>2
      <4>2. cursor' = [cursor EXCEPT !.col = cursor.col + 1]
        BY <1>2, <2>4, <3>2 DEF ChprAdvance
      <4> QED BY <1>2, <1>3, <2>4, <4>1, <4>2 DEF ChprAdvance, Quiet
    <3> QED BY <3>1, <3>2
  <2>5. CASE UNCHANGED cursor
    BY <1>2, <1>3, <1>11, <2>5
       DEF Chpr, ChprReturn, ChprLine, ChprLineScrolls, ChprWrite, ChprStay, ChprAdvance,
           ChprAdvanceScrolls, ChprChain, ChprPass, ChprDone, Ask, Quiet
  <2> QED BY <1>11, <2>1, <2>2, <2>3, <2>4, <2>5 DEF Chpr, ChprChain, ChprPass, ChprDone
<1> QED BY <1>1, <1>4, <1>5, <1>6, <1>7, <1>8, <1>9, <1>10, <1>11 DEF OLEDStep

\* The display's pointer and its first line, and the scroller's.
LEMMA StepDisplay ==
  ASSUME PanelNext, ScreenInv
  PROVE  DisplayInv' /\ OnScreen(work)'
<1>1. /\ OnScreen(req) /\ OnScreen(work)
      /\ adjusted \in Lines /\ start \in Lines
      /\ point = [line |-> point.line, page |-> point.page]
      /\ point.line \in Lines /\ point.page \in Pages
  BY DEF ScreenInv, DisplayInv
<1>2. OnScreen(None) /\ 0 \in Lines /\ 0 \in Pages /\ LastCol - 1 \in Pages
  BY Sizes DEF OnScreen, None, Lines, Pages
<1>3. Units
  BY DEF PanelNext, Quietly, Queueing
<1>4. CASE req # None /\ UnitTakes
  BY <1>1, <1>2, <1>4 DEF UnitTakes, DisplayInv, displayVars, OnScreen
<1>5. CASE UnitDone
  <2>1. OnScreen(work)'
    BY <1>2, <1>5 DEF UnitDone, OnScreen
  <2>2. ASSUME Located PROVE DisplayInv'
    <3>1. work.row \in 0 .. LastRow /\ work.col \in 0 .. LastCol
      BY <1>1, <2>2 DEF Located, OnScreen
    <3>2. work.row # 0 => (work.row - 1 + adjusted) % LastRow \in Lines
      BY <1>1, <3>1, Wrapped, Sizes DEF Lines
    <3>3. work.col # 0 => LastCol - work.col \in Pages
      BY <3>1, Sizes DEF Pages
    <3> QED BY <1>1, <2>2, <3>2, <3>3 DEF Located, DisplayInv
  <2>3. ASSUME Cleared PROVE DisplayInv'
    BY <1>1, <1>2, <2>3 DEF Cleared, DisplayInv
  <2>4. ASSUME ScrolledUp PROVE DisplayInv'
    <3>1. (adjusted + 1) % LastRow \in Lines
      BY <1>1, Wrapped, Sizes DEF Lines
    <3> QED BY <1>1, <1>2, <2>4, <3>1 DEF ScrolledUp, DisplayInv
  <2>5. ASSUME Initialised \/ Switched PROVE DisplayInv'
    BY <1>1, <1>2, <2>5 DEF Initialised, Switched, DisplayInv, displayVars
  <2>6. ASSUME CharWritten PROVE DisplayInv'
    <3>1. (point.line + 1) % LastRow \in Lines
      BY <1>1, Wrapped, Sizes DEF Lines
    <3> QED BY <1>1, <2>6, <3>1 DEF CharWritten, DisplayInv
  <2> QED BY <1>5, <2>1, <2>2, <2>3, <2>4, <2>5, <2>6 DEF UnitDone
<1>6. CASE UNCHANGED <<work, adjusted, displayVars>>
  BY <1>1, <1>6 DEF DisplayInv, displayVars, OnScreen
<1> QED BY <1>3, <1>4, <1>5, <1>6 DEF Units

LEMMA StepScreen ==
  ASSUME TurnsInv, ScreenInv, [PanelNext]_vars
  PROVE  ScreenInv'
<1>1. CASE UNCHANGED vars
  BY <1>1 DEF ScreenInv, QueueInv, FifoInv, Given, Readable, Byte1, Expected, Expecting,
     FeedAfter, RestInv, CursorInv, OnScreen, DisplayInv, vars, oledVars, displayVars
<1>2. CASE PanelNext
  BY <1>2, StepQueue, StepCursor, StepDisplay DEF ScreenInv
<1> QED BY <1>1, <1>2

\* The command FSM takes every byte for what it was queued as, and every request to
\* the locator names a place on the screen.
THEOREM ScreenInvariance == PanelSpec => []ScreenInv
  BY InitScreen, StepScreen, TurnsInvariance, PTL DEF PanelSpec

\* The position, the cursor and the display's pointer stay on the screen, whatever
\* is printed where and however often it scrolls.
THEOREM PositionStaysOnScreen == PanelSpec => []PanelTypeOK
<1>1. ScreenInv => PanelTypeOK
  BY DEF ScreenInv, RestInv, CursorInv, DisplayInv, PanelTypeOK
<1> QED BY <1>1, ScreenInvariance, PTL

-------------------------------------------------------------------------------
(***************************************************************************)
(* Module and display implement a terminal.  First, the display's memory,  *)
(* whose lines go round.                                                   *)
(***************************************************************************)
LEMMA Around ==
  ASSUME NEW x \in Nat, x < 2 * LastRow
  PROVE  x % LastRow = IF x < LastRow THEN x ELSE x - LastRow
<1>1. PICK q, m, L : q = x \div LastRow /\ m = x % LastRow /\ L = LastRow
  OBVIOUS
<1>2. L \in Nat /\ L >= 1 /\ x < 2 * L
  BY <1>1, Sizes
<1>3. q \in Nat /\ m \in 0 .. L - 1 /\ x = L * q + m
  BY <1>1, <1>2
<1>4. q < 2
  <2>1. ~(q >= 2)
    <3> SUFFICES ASSUME q >= 2 PROVE FALSE
      OBVIOUS
    <3>1. L * q >= L * 2
      BY <1>2, <1>3
    <3> QED BY <1>2, <1>3, <3>1
  <2> QED BY <1>3, <2>1
<1>5. CASE q = 0
  BY <1>1, <1>2, <1>3, <1>5
<1>6. CASE q = 1
  <2>1. x = L + m
    BY <1>2, <1>3, <1>6
  <2> QED BY <1>1, <1>2, <1>3, <2>1
<1> QED BY <1>3, <1>4, <1>5, <1>6

\* The line that a text row is, and the text row that a line is.
LineOf(first, row)  == (first + row - 1) % LastRow
RowOf(first, line) == ((line + LastRow - first) % LastRow) + 1

LEMMA Turned ==
  ASSUME NEW s \in Lines
  PROVE  /\ \A row \in 1 .. LastRow :
              LineOf(s, row) \in Lines /\ RowOf(s, LineOf(s, row)) = row
         /\ \A line \in Lines :
              RowOf(s, line) \in 1 .. LastRow /\ LineOf(s, RowOf(s, line)) = line
<1>1. PICK L : L = LastRow
  OBVIOUS
<1>2. L \in Nat /\ L >= 1 /\ s \in 0 .. L - 1 /\ Lines = 0 .. L - 1
  BY <1>1, Sizes DEF Lines
<1>3. \A x \in Nat : x < 2 * L => x % L = IF x < L THEN x ELSE x - L
  BY <1>1, Around
<1>4. ASSUME NEW row \in 1 .. L
      PROVE  LineOf(s, row) \in Lines /\ RowOf(s, LineOf(s, row)) = row
  <2>1. PICK x, l : x = s + row - 1 /\ l = x % L
    OBVIOUS
  <2>2. x \in Nat /\ x < 2 * L
    BY <1>2, <2>1
  <2>3. l = IF x < L THEN x ELSE x - L
    BY <1>3, <2>1, <2>2, Zenon
  <2>4. PICK y, r : y = l + L - s /\ r = y % L
    OBVIOUS
  <2>5. l \in 0 .. L - 1 /\ y \in Nat /\ y < 2 * L
    BY <1>2, <2>1, <2>2, <2>3, <2>4
  <2>6. r = IF y < L THEN y ELSE y - L
    BY <1>3, <2>4, <2>5, Zenon
  <2>7. r + 1 = row
    BY <1>2, <2>1, <2>3, <2>4, <2>6
  <2>8. LineOf(s, row) = l /\ RowOf(s, l) = r + 1
    BY <1>1, <2>1, <2>4 DEF LineOf, RowOf
  <2> QED BY <1>2, <2>5, <2>7, <2>8
<1>5. ASSUME NEW line \in Lines
      PROVE  RowOf(s, line) \in 1 .. L /\ LineOf(s, RowOf(s, line)) = line
  <2>1. PICK x, r : x = line + L - s /\ r = x % L
    OBVIOUS
  <2>2. x \in Nat /\ x < 2 * L
    BY <1>2, <2>1
  <2>3. r = IF x < L THEN x ELSE x - L
    BY <1>3, <2>1, <2>2, Zenon
  <2>4. PICK y, l : y = s + (r + 1) - 1 /\ l = y % L
    OBVIOUS
  <2>5. r \in 0 .. L - 1 /\ y \in Nat /\ y < 2 * L
    BY <1>2, <2>1, <2>2, <2>3, <2>4
  <2>6. l = IF y < L THEN y ELSE y - L
    BY <1>3, <2>4, <2>5, Zenon
  <2>7. l = line /\ r + 1 \in 1 .. L
    BY <1>2, <2>1, <2>3, <2>4, <2>5, <2>6
  <2>8. RowOf(s, line) = r + 1 /\ LineOf(s, r + 1) = l
    BY <1>1, <2>1, <2>4 DEF LineOf, RowOf
  <2> QED BY <2>7, <2>8
<1> QED BY <1>1, <1>4, <1>5

(***************************************************************************)
(* What the units' commands do to the screen and to the pen.               *)
(***************************************************************************)
BlankScreen == [r \in 1 .. LastRow |-> [c \in 1 .. LastCol |-> Blank]]
Up(s) == [r \in 1 .. LastRow |-> IF r < LastRow THEN s[r + 1] ELSE BlankScreen[r]]
Inked(s, pen, char) == [s EXCEPT ![pen[1]][pen[2]] = char]
To(r, c, p) == <<IF r = 0 THEN p[1] ELSE r, IF c = 0 THEN p[2] ELSE c>>

TurnedBy(s, n) == [r \in 1 .. LastRow |-> s[((r + n) % LastRow) + 1]]

MemoryInv == ram \in [Lines -> [Pages -> Nat]]

\* The screen and the pen, by the display's registers.
ScreenOf(first, mem) ==
  [r \in 1 .. LastRow |-> [c \in 1 .. LastCol |-> mem[LineOf(first, r)][LastCol - c]]]
PenOf(first, p) == <<RowOf(first, p.line), LastCol - p.page>>

LEMMA SeenIs ==
  /\ Screen = ScreenOf(start, ram) /\ Pen = PenOf(start, point)
  /\ Screen' = ScreenOf(start', ram') /\ Pen' = PenOf(start', point')
  BY DEF Screen, ScreenOf, Pen, PenOf, LineOf, RowOf

LEMMA PenRange ==
  ASSUME NEW s \in Lines, NEW p, p.line \in Lines, p.page \in Pages
  PROVE  PenOf(s, p)[1] \in 1 .. LastRow /\ PenOf(s, p)[2] \in 1 .. LastCol
<1>1. RowOf(s, p.line) \in 1 .. LastRow
  BY Turned
<1>2. LastCol - p.page \in 1 .. LastCol
  BY Sizes DEF Pages
<1> QED BY <1>1, <1>2 DEF PenOf

LEMMA ScreenRange ==
  ASSUME NEW s \in Lines, NEW mem \in [Lines -> [Pages -> Nat]]
  PROVE  ScreenOf(s, mem) \in [1 .. LastRow -> [1 .. LastCol -> Nat]]
<1>1. ASSUME NEW r \in 1 .. LastRow, NEW c \in 1 .. LastCol
      PROVE  mem[LineOf(s, r)][LastCol - c] \in Nat
  <2>1. LineOf(s, r) \in Lines
    BY Turned
  <2>2. LastCol - c \in Pages
    BY Sizes DEF Pages
  <2> QED BY <2>1, <2>2
<1> QED BY <1>1 DEF ScreenOf

LEMMA LocateShows ==
  ASSUME NEW s \in Lines, NEW p, p.line \in Lines, p.page \in Pages,
         NEW r \in 0 .. LastRow, NEW c \in 0 .. LastCol, NEW q,
         q = [line |-> IF r = 0 THEN p.line ELSE (r - 1 + s) % LastRow,
              page |-> IF c = 0 THEN p.page ELSE LastCol - c]
  PROVE  PenOf(s, q) = To(r, c, PenOf(s, p))
<1>1. s \in Nat
  BY DEF Lines
<1>2. r # 0 => RowOf(s, (r - 1 + s) % LastRow) = r
  <2>1. r # 0 => r \in 1 .. LastRow
    BY Sizes
  <2>2. r - 1 + s = s + r - 1
    BY <1>1, Sizes
  <2>3. r # 0 => RowOf(s, LineOf(s, r)) = r
    BY <2>1, Turned
  <2> QED BY <2>2, <2>3 DEF LineOf
<1>3. LastCol - (LastCol - c) = c
  BY Sizes
<1>4. /\ RowOf(s, q.line) = IF r = 0 THEN RowOf(s, p.line) ELSE r
      /\ LastCol - q.page = IF c = 0 THEN LastCol - p.page ELSE c
  BY <1>2, <1>3
<1> QED BY <1>4 DEF PenOf, To

LEMMA ClearShows ==
  ASSUME NEW s \in Lines, NEW mem, mem = [l \in Lines |-> BlankLine]
  PROVE  ScreenOf(s, mem) = BlankScreen
<1>1. ASSUME NEW r \in 1 .. LastRow, NEW c \in 1 .. LastCol
      PROVE  mem[LineOf(s, r)][LastCol - c] = Blank
  <2>1. LineOf(s, r) \in Lines
    BY Turned
  <2>2. LastCol - c \in Pages
    BY Sizes DEF Pages
  <2> QED BY <2>1, <2>2 DEF BlankLine
<1> QED BY <1>1 DEF ScreenOf, BlankScreen

LEMMA ScrollShows ==
  ASSUME NEW s \in Lines, NEW mem \in [Lines -> [Pages -> Nat]],
         NEW next, next = [mem EXCEPT ![s] = BlankLine]
  PROVE  ScreenOf((s + 1) % LastRow, next) = Up(ScreenOf(s, mem))
<1>1. PICK L, t : L = LastRow /\ t = (s + 1) % LastRow
  OBVIOUS
<1>2. L \in Nat /\ L >= 1 /\ s \in 0 .. L - 1 /\ Lines = 0 .. L - 1
  BY <1>1, Sizes DEF Lines
<1>3. \A x \in Nat : x < 2 * L => x % L = IF x < L THEN x ELSE x - L
  BY <1>1, Around
<1>4. t = IF s + 1 < L THEN s + 1 ELSE s + 1 - L
  <2>1. PICK x : x = s + 1
    OBVIOUS
  <2>2. x \in Nat /\ x < 2 * L
    BY <1>2, <2>1
  <2>3. t = x % L
    BY <1>1, <2>1
  <2>4. t = IF x < L THEN x ELSE x - L
    BY <1>3, <2>2, <2>3, Zenon
  <2> QED BY <1>2, <2>1, <2>2, <2>4
<1>5. t \in Lines
  BY <1>2, <1>4
<1>6. ASSUME NEW r \in 1 .. L
      PROVE  IF r < L THEN /\ LineOf(t, r) = LineOf(s, r + 1) /\ LineOf(t, r) # s
                           /\ r + 1 \in 1 .. L
                      ELSE LineOf(t, r) = s
  <2>1. PICK x, l : x = t + r - 1 /\ l = x % L
    OBVIOUS
  <2>2. x \in Nat /\ x < 2 * L
    BY <1>2, <1>4, <2>1
  <2>3. l = IF x < L THEN x ELSE x - L
    BY <1>3, <2>1, <2>2, Zenon
  <2>4. LineOf(t, r) = l
    BY <1>1, <2>1 DEF LineOf
  <2>5. PICK y, k : y = s + (r + 1) - 1 /\ k = y % L
    OBVIOUS
  <2>6. y \in Nat /\ y < 2 * L
    BY <1>2, <2>5
  <2>7. k = IF y < L THEN y ELSE y - L
    BY <1>3, <2>5, <2>6, Zenon
  <2>8. LineOf(s, r + 1) = k
    BY <1>1, <2>5 DEF LineOf
  <2>9. r < L => l = k /\ l # s /\ r + 1 \in 1 .. L
    BY <1>2, <1>4, <2>1, <2>3, <2>5, <2>7
  <2>10. ~(r < L) => l = s
    BY <1>2, <1>4, <2>1, <2>3
  <2> QED BY <2>4, <2>8, <2>9, <2>10
<1>7. ASSUME NEW r \in 1 .. L, NEW c \in 1 .. LastCol
      PROVE  next[LineOf(t, r)][LastCol - c] =
               IF r < L THEN mem[LineOf(s, r + 1)][LastCol - c] ELSE Blank
  <2>1. LineOf(t, r) \in Lines
    BY <1>1, <1>5, Turned
  <2>2. LastCol - c \in Pages
    BY Sizes DEF Pages
  <2>3. CASE r < L
    BY <1>6, <2>1, <2>3
  <2>4. CASE ~(r < L)
    <3>1. next[LineOf(t, r)] = BlankLine
      BY <1>6, <2>1, <2>4
    <3> QED BY <2>2, <2>4, <3>1 DEF BlankLine
  <2> QED BY <2>3, <2>4
<1>8. ASSUME NEW r \in 1 .. L
      PROVE  ScreenOf(t, next)[r] = Up(ScreenOf(s, mem))[r]
  <2>1. ScreenOf(t, next)[r] =
          [c \in 1 .. LastCol |-> IF r < L THEN mem[LineOf(s, r + 1)][LastCol - c] ELSE Blank]
    BY <1>1, <1>7 DEF ScreenOf
  <2>2. CASE r < L
    <3>1. r + 1 \in 1 .. LastRow
      BY <1>1, <1>6, <2>2
    <3>2. Up(ScreenOf(s, mem))[r] = ScreenOf(s, mem)[r + 1]
      BY <1>1, <2>2 DEF Up
    <3> QED BY <2>1, <2>2, <3>1, <3>2 DEF ScreenOf
  <2>3. CASE ~(r < L)
    BY <1>1, <2>1, <2>3 DEF Up, BlankScreen
  <2> QED BY <2>2, <2>3
<1>9. ScreenOf(t, next) = [r \in 1 .. L |-> ScreenOf(t, next)[r]]
  BY <1>1 DEF ScreenOf
<1>10. Up(ScreenOf(s, mem)) = [r \in 1 .. L |-> Up(ScreenOf(s, mem))[r]]
  BY <1>1 DEF Up
<1>11. [r \in 1 .. L |-> ScreenOf(t, next)[r]] = [r \in 1 .. L |-> Up(ScreenOf(s, mem))[r]]
  BY <1>8
<1> QED BY <1>1, <1>9, <1>10, <1>11

LEMMA InitShows ==
  ASSUME NEW s \in Lines, NEW mem
  PROVE  /\ \E n \in 1 .. LastRow : ScreenOf(0, mem) = TurnedBy(ScreenOf(s, mem), n)
         /\ PenOf(0, [line |-> 0, page |-> 0]) = <<1, LastCol>>
<1>1. PICK L : L = LastRow
  OBVIOUS
<1>2. L \in Nat /\ L >= 1 /\ s \in 0 .. L - 1 /\ Lines = 0 .. L - 1
  BY <1>1, Sizes DEF Lines
<1>3. \A x \in Nat : x < 2 * L => x % L = IF x < L THEN x ELSE x - L
  BY <1>1, Around
<1>4. PICK n : n = IF s < L - 1 THEN L - 1 - s ELSE L
  OBVIOUS
<1>5. n \in 1 .. L
  BY <1>2, <1>4
<1>6. ASSUME NEW r \in 1 .. L
      PROVE  LineOf(0, r) = LineOf(s, ((r + n) % L) + 1) /\ ((r + n) % L) + 1 \in 1 .. L
  <2>1. PICK x, l : x = 0 + r - 1 /\ l = x % L
    OBVIOUS
  <2>2. x \in Nat /\ x < 2 * L
    BY <1>2, <2>1
  <2>3. l = x
    BY <1>2, <1>3, <2>1, <2>2
  <2>4. CASE r + n < 2 * L
    <3>1. PICK y, k : y = r + n /\ k = y % L
      OBVIOUS
    <3>2. y \in Nat /\ y < 2 * L
      BY <1>2, <1>5, <2>4, <3>1
    <3>3. k = IF y < L THEN y ELSE y - L
      BY <1>3, <3>1, <3>2, Zenon
    <3>4. PICK z, m : z = s + (k + 1) - 1 /\ m = z % L
      OBVIOUS
    <3>5. z \in Nat /\ z < 2 * L /\ k \in 0 .. L - 1
      BY <1>2, <1>5, <3>1, <3>2, <3>3, <3>4
    <3>6. m = IF z < L THEN z ELSE z - L
      BY <1>3, <3>4, <3>5, Zenon
    <3>7. l = m
      BY <1>2, <1>4, <2>1, <2>3, <3>1, <3>3, <3>4, <3>6
    <3>8. LineOf(0, r) = l /\ LineOf(s, k + 1) = m
      BY <1>1, <2>1, <3>4 DEF LineOf
    <3>9. ((r + n) % L) + 1 = k + 1 /\ k + 1 \in 1 .. L
      BY <1>2, <3>1, <3>5
    <3> QED BY <3>7, <3>8, <3>9
  <2>5. CASE ~(r + n < 2 * L)
    <3>1. r = L /\ n = L /\ s = L - 1
      BY <1>2, <1>4, <1>5, <2>5
    <3>2. PICK y, k : y = r + n /\ k = y % L
      OBVIOUS
    <3>3. k = 0
      <4>1. y = L * 2
        BY <1>2, <3>1, <3>2
      <4>2. (L * 2) % L = 0
        <5>1. PICK q, m : q = (L * 2) \div L /\ m = (L * 2) % L
          OBVIOUS
        <5>2. q \in Nat /\ m \in 0 .. L - 1 /\ L * 2 = L * q + m
          BY <1>2, <5>1
        <5>3. ~(q >= 3) /\ ~(q <= 1)
          <6>1. q >= 3 => L * q >= L * 3
            BY <1>2, <5>2
          <6>2. q <= 1 => L * q <= L * 1
            BY <1>2, <5>2
          <6> QED BY <1>2, <5>2, <6>1, <6>2
        <5>4. q = 2
          BY <5>2, <5>3
        <5> QED BY <1>2, <5>1, <5>2, <5>4
      <4> QED BY <3>2, <4>1, <4>2
    <3>4. PICK z, m : z = s + (k + 1) - 1 /\ m = z % L
      OBVIOUS
    <3>5. z \in Nat /\ z < 2 * L
      BY <1>2, <3>3, <3>4
    <3>6. m = IF z < L THEN z ELSE z - L
      BY <1>3, <3>4, <3>5, Zenon
    <3>7. l = m
      BY <1>2, <2>1, <2>3, <3>1, <3>3, <3>4, <3>6
    <3>8. k + 1 \in 1 .. L
      BY <1>2, <3>3
    <3> QED BY <1>1, <2>1, <3>2, <3>4, <3>7, <3>8 DEF LineOf
  <2> QED BY <2>4, <2>5
<1>7. ASSUME NEW r \in 1 .. L
      PROVE  ScreenOf(0, mem)[r] = ScreenOf(s, mem)[((r + n) % L) + 1]
  BY <1>1, <1>6 DEF ScreenOf
<1>8. ScreenOf(0, mem) = [r \in 1 .. L |-> ScreenOf(0, mem)[r]]
  BY <1>1 DEF ScreenOf
<1>9. [r \in 1 .. L |-> ScreenOf(0, mem)[r]] = TurnedBy(ScreenOf(s, mem), n)
  BY <1>1, <1>7 DEF TurnedBy
<1>10. PenOf(0, [line |-> 0, page |-> 0]) = <<1, LastCol>>
  <2>1. (0 + LastRow - 0) % LastRow = 0
    <3>1. PICK x : x = 0 + LastRow - 0
      OBVIOUS
    <3>2. x = L /\ x \in Nat /\ x < 2 * L
      BY <1>1, <1>2, <3>1
    <3>3. x % L = IF x < L THEN x ELSE x - L
      BY <1>3, <3>2, Zenon
    <3>4. x % L = 0
      BY <1>2, <3>2, <3>3
    <3> QED BY <1>1, <3>1, <3>4
  <2>2. LastCol - 0 = LastCol
    BY Sizes
  <2>3. RowOf(0, 0) = 1
    BY <2>1 DEF RowOf
  <2> QED BY <2>2, <2>3 DEF PenOf
<1> QED BY <1>1, <1>5, <1>8, <1>9, <1>10

WrittenAt(next, mem, p, char) == next = [mem EXCEPT ![p.line][p.page] = char]

LEMMA WriteShows ==
  ASSUME NEW s \in Lines, NEW mem \in [Lines -> [Pages -> Nat]],
         NEW p, p.line \in Lines, p.page \in Pages, NEW char \in Nat,
         NEW next, WrittenAt(next, mem, p, char)
  PROVE  ScreenOf(s, next) = Inked(ScreenOf(s, mem), PenOf(s, p), char)
<1>1. PICK row, col : row = RowOf(s, p.line) /\ col = LastCol - p.page
  OBVIOUS
<1>2. PenOf(s, p) = <<row, col>> /\ row \in 1 .. LastRow /\ col \in 1 .. LastCol
  BY <1>1, PenRange DEF PenOf
<1>3. ASSUME NEW r \in 1 .. LastRow, NEW c \in 1 .. LastCol
      PROVE  next[LineOf(s, r)][LastCol - c] =
               IF r = row /\ c = col THEN char ELSE mem[LineOf(s, r)][LastCol - c]
  <2>1. LineOf(s, r) \in Lines /\ (LineOf(s, r) = p.line <=> r = row)
    BY <1>1, Turned
  <2>2. LastCol - c \in Pages /\ (LastCol - c = p.page <=> c = col)
    <3>1. PICK g : g = p.page
      OBVIOUS
    <3>2. g \in 0 .. LastCol - 1 /\ col = LastCol - g
      BY <1>1, <3>1 DEF Pages
    <3>3. LastCol - c \in 0 .. LastCol - 1 /\ (LastCol - c = g <=> c = col)
      BY <3>2, Sizes
    <3> QED BY <3>1, <3>3 DEF Pages
  <2> QED BY <2>1, <2>2 DEF WrittenAt
<1>4. ScreenOf(s, next) =
        [r \in 1 .. LastRow |-> [c \in 1 .. LastCol |->
           IF r = row /\ c = col THEN char ELSE mem[LineOf(s, r)][LastCol - c]]]
  BY <1>3 DEF ScreenOf
<1>5. PICK scr : scr = ScreenOf(s, mem)
  OBVIOUS
<1>6. /\ scr = [r \in 1 .. LastRow |-> scr[r]]
      /\ \A r \in 1 .. LastRow : scr[r] = [c \in 1 .. LastCol |-> mem[LineOf(s, r)][LastCol - c]]
  BY <1>5 DEF ScreenOf
<1>7. [scr EXCEPT ![row][col] = char] =
        [r \in 1 .. LastRow |-> [c \in 1 .. LastCol |->
           IF r = row /\ c = col THEN char ELSE mem[LineOf(s, r)][LastCol - c]]]
  <2>1. [scr EXCEPT ![row][col] = char] =
          [r \in 1 .. LastRow |-> IF r = row THEN [scr[row] EXCEPT ![col] = char] ELSE scr[r]]
    BY <1>2, <1>6
  <2>2. ASSUME NEW r \in 1 .. LastRow
        PROVE  (IF r = row THEN [scr[row] EXCEPT ![col] = char] ELSE scr[r]) =
                 [c \in 1 .. LastCol |->
                    IF r = row /\ c = col THEN char ELSE mem[LineOf(s, r)][LastCol - c]]
    <3>1. PICK line : line = scr[r]
      OBVIOUS
    <3>2. line = [c \in 1 .. LastCol |-> mem[LineOf(s, r)][LastCol - c]]
      BY <1>6, <3>1
    <3>3. [line EXCEPT ![col] = char] =
            [c \in 1 .. LastCol |-> IF c = col THEN char ELSE mem[LineOf(s, r)][LastCol - c]]
      BY <3>2
    <3>4. CASE r = row
      BY <3>1, <3>3, <3>4
    <3>5. CASE r # row
      BY <3>1, <3>2, <3>5
    <3> QED BY <3>4, <3>5
  <2> QED BY <2>1, <2>2
<1> QED BY <1>2, <1>4, <1>5, <1>7 DEF Inked

(***************************************************************************)
(* A request on its way: raised, with the unit, or carried out.            *)
(***************************************************************************)
Asks ==
  {Clear, Scroll, WriteROM(OFFSET_INIT, 1), WriteROM(OFFSET_DISPLAY_ON, 0),
   WriteROM(OFFSET_DISPLAY_OFF, 0)}
    \cup {Locate(r, c) : r \in 0 .. LastRow, c \in 0 .. LastCol}
    \cup {WriteROM(OFFSET_CHAR + char, 0) : char \in Nat}

\* What r has done to the screen s and the pen n.
Landed(r, s, n) ==
  /\ r.unit = "locator" => Screen = s /\ Pen = To(r.row, r.col, n)
  /\ r.unit = "clser" => Screen = BlankScreen
  /\ r.unit = "scroller" => Screen = Up(s)
  /\ r.unit = "rom_writer" =>
       /\ r.index = OFFSET_INIT =>
            Pen = <<1, LastCol>> /\ \E k \in 1 .. LastRow : Screen = TurnedBy(s, k)
       /\ r.index \in {OFFSET_DISPLAY_ON, OFFSET_DISPLAY_OFF} => Screen = s /\ Pen = n
       /\ r.index >= OFFSET_CHAR => Screen = Inked(s, n, r.index - OFFSET_CHAR)

InFlight(r, s, n) ==
  \/ req = r /\ work = None /\ Screen = s /\ Pen = n
  \/ req = None /\ work = r /\ Screen = s /\ Pen = n
  \/ req = None /\ work = None /\ Landed(r, s, n)

\* The scroller's count is that of the display, but while INIT is written.
AdjustedInv == adjusted = IF work = WriteROM(OFFSET_INIT, 1) THEN 0 ELSE start

UnitsInv ==
  /\ DisplayInv /\ MemoryInv /\ AdjustedInv
  /\ req \in Asks \cup {None} /\ work \in Asks \cup {None}
  /\ req # None => work = None

LEMMA AskKinds ==
  ASSUME NEW r \in Asks
  PROVE  /\ r # None
         /\ \/ r = Clear /\ r.unit = "clser"
            \/ r = Scroll /\ r.unit = "scroller"
            \/ /\ r.unit = "locator" /\ r.row \in 0 .. LastRow /\ r.col \in 0 .. LastCol
               /\ r # WriteROM(OFFSET_INIT, 1)
            \/ /\ r.unit = "rom_writer" /\ r.index = OFFSET_INIT /\ r.rst = 1
               /\ r = WriteROM(OFFSET_INIT, 1)
            \/ /\ r.unit = "rom_writer" /\ r.rst = 0 /\ r # WriteROM(OFFSET_INIT, 1)
               /\ r.index \in {OFFSET_DISPLAY_ON, OFFSET_DISPLAY_OFF}
            \/ /\ r.unit = "rom_writer" /\ r.rst = 0 /\ r # WriteROM(OFFSET_INIT, 1)
               /\ \E char \in Nat : r.index = OFFSET_CHAR + char
         /\ r.unit \in {"clser", "scroller", "locator", "rom_writer"}
  BY DEF Asks, Clear, Scroll, Locate, WriteROM, None, OFFSET_INIT, OFFSET_DISPLAY_ON,
         OFFSET_DISPLAY_OFF

\* A command carried out, by the unit that has it.
LEMMA LocateLands ==
  ASSUME UnitsInv, UnitDone, work.unit = "locator"
  PROVE  Screen' = Screen /\ Pen' = To(work.row, work.col, Pen)
         /\ UNCHANGED <<ram, start, adjusted>>
<1>1. Located
  BY DEF UnitDone, Located, Cleared, ScrolledUp, Initialised, Switched, CharWritten
<1>2. work \in Asks
  BY DEF UnitsInv, None
<1>3. work.row \in 0 .. LastRow /\ work.col \in 0 .. LastCol /\ work # WriteROM(OFFSET_INIT, 1)
  BY <1>2, AskKinds
<1>4. adjusted = start /\ start \in Lines /\ point.line \in Lines /\ point.page \in Pages
  BY <1>3 DEF UnitsInv, AdjustedInv, DisplayInv
<1>5. PenOf(start, point') = To(work.row, work.col, PenOf(start, point))
  BY <1>1, <1>3, <1>4, LocateShows DEF Located
<1> QED BY <1>1, <1>5, SeenIs DEF Located

LEMMA ClearLands ==
  ASSUME UnitsInv, UnitDone, work.unit = "clser"
  PROVE  Screen' = BlankScreen /\ MemoryInv' /\ UNCHANGED <<start, adjusted>>
<1>1. Cleared
  BY DEF UnitDone, Located, Cleared, ScrolledUp, Initialised, Switched, CharWritten
<1>2. start \in Lines
  BY DEF UnitsInv, DisplayInv
<1>3. ScreenOf(start, ram') = BlankScreen
  BY <1>1, <1>2, ClearShows DEF Cleared
<1>4. MemoryInv'
  BY <1>1 DEF Cleared, MemoryInv, BlankLine, Blank
<1> QED BY <1>1, <1>3, <1>4, SeenIs DEF Cleared

LEMMA ScrollLands ==
  ASSUME UnitsInv, UnitDone, work.unit = "scroller"
  PROVE  Screen' = Up(Screen) /\ MemoryInv' /\ adjusted' = start'
<1>1. ScrolledUp
  BY DEF UnitDone, Located, Cleared, ScrolledUp, Initialised, Switched, CharWritten
<1>2. work # WriteROM(OFFSET_INIT, 1)
  BY DEF WriteROM
<1>3. adjusted = start /\ start \in Lines /\ ram \in [Lines -> [Pages -> Nat]]
  BY <1>2 DEF UnitsInv, AdjustedInv, DisplayInv, MemoryInv
<1>4. start' = (start + 1) % LastRow /\ ram' = [ram EXCEPT ![start] = BlankLine]
  BY <1>1, <1>3 DEF ScrolledUp
<1>5. ScreenOf((start + 1) % LastRow, ram') = Up(ScreenOf(start, ram))
  BY <1>3, <1>4, ScrollShows
<1>6. MemoryInv'
  BY <1>3, <1>4 DEF MemoryInv, BlankLine, Blank
<1>7. Screen' = Up(Screen)
  BY <1>4, <1>5, SeenIs
<1> QED BY <1>1, <1>6, <1>7 DEF ScrolledUp

LEMMA InitLands ==
  ASSUME UnitsInv, UnitDone, work = WriteROM(OFFSET_INIT, 1)
  PROVE  /\ Pen' = <<1, LastCol>> /\ \E k \in 1 .. LastRow : Screen' = TurnedBy(Screen, k)
         /\ UNCHANGED ram /\ adjusted' = 0 /\ start' = 0
<1>1. Initialised
  BY DEF UnitDone, Located, Cleared, ScrolledUp, Initialised, Switched, CharWritten,
         WriteROM, OFFSET_INIT, OFFSET_DISPLAY_ON, OFFSET_DISPLAY_OFF, OFFSET_CHAR
<1>2. start \in Lines /\ adjusted = 0
  BY DEF UnitsInv, DisplayInv, AdjustedInv
<1>3. start' = 0 /\ point' = [line |-> 0, page |-> 0] /\ ram' = ram /\ adjusted' = adjusted
  BY <1>1 DEF Initialised
<1>4. /\ \E n \in 1 .. LastRow : ScreenOf(0, ram) = TurnedBy(ScreenOf(start, ram), n)
      /\ PenOf(0, [line |-> 0, page |-> 0]) = <<1, LastCol>>
  BY <1>2, InitShows
<1>5. Pen' = <<1, LastCol>>
  BY <1>3, <1>4, SeenIs
<1>6. \E k \in 1 .. LastRow : Screen' = TurnedBy(Screen, k)
  BY <1>3, <1>4, SeenIs
<1> QED BY <1>2, <1>3, <1>5, <1>6

LEMMA PowerLands ==
  ASSUME UnitDone, work.unit = "rom_writer",
         work.index \in {OFFSET_DISPLAY_ON, OFFSET_DISPLAY_OFF}
  PROVE  UNCHANGED <<ram, start, point, adjusted>>
<1>1. Switched
  BY DEF UnitDone, Located, Cleared, ScrolledUp, Initialised, Switched, CharWritten,
         OFFSET_INIT, OFFSET_DISPLAY_ON, OFFSET_DISPLAY_OFF, OFFSET_CHAR
<1> QED BY <1>1 DEF Switched, displayVars

LEMMA WriteLands ==
  ASSUME UnitsInv, UnitDone, work.unit = "rom_writer", NEW char \in Nat,
         work.index = OFFSET_CHAR + char
  PROVE  Screen' = Inked(Screen, Pen, char) /\ MemoryInv' /\ UNCHANGED <<start, adjusted>>
<1>1. CharWritten
  BY DEF UnitDone, Located, Cleared, ScrolledUp, Initialised, Switched, CharWritten,
         OFFSET_INIT, OFFSET_DISPLAY_ON, OFFSET_DISPLAY_OFF, OFFSET_CHAR
<1>2. /\ start \in Lines /\ ram \in [Lines -> [Pages -> Nat]]
      /\ point.line \in Lines /\ point.page \in Pages
  BY DEF UnitsInv, DisplayInv, MemoryInv
<1>3. work.index - OFFSET_CHAR = char
  BY DEF OFFSET_CHAR
<1>4. ram' = [ram EXCEPT ![point.line][point.page] = char]
  BY <1>1, <1>3 DEF CharWritten
<1>5. ScreenOf(start, ram') = Inked(ScreenOf(start, ram), PenOf(start, point), char)
  <2>1. PICK s, mem, p, next : s = start /\ mem = ram /\ p = point /\ next = ram'
    OBVIOUS
  <2>2. /\ s \in Lines /\ mem \in [Lines -> [Pages -> Nat]] /\ p.line \in Lines
        /\ p.page \in Pages /\ WrittenAt(next, mem, p, char)
    BY <1>2, <1>4, <2>1 DEF WrittenAt
  <2>3. ScreenOf(s, next) = Inked(ScreenOf(s, mem), PenOf(s, p), char)
    BY <2>2, WriteShows
  <2> QED BY <2>1, <2>3
<1>6. MemoryInv'
  BY <1>2, <1>4 DEF MemoryInv
<1>7. start' = start /\ adjusted' = adjusted
  BY <1>1 DEF CharWritten
<1> QED BY <1>5, <1>6, <1>7, SeenIs

LEMMA MemoryKept ==
  ASSUME UnitsInv, Units
  PROVE  MemoryInv' /\ AdjustedInv'
<1> DEFINE Good == MemoryInv' /\ AdjustedInv'
<1> SUFFICES Good
  OBVIOUS
<1>0. MemoryInv /\ AdjustedInv
  BY DEF UnitsInv
<1>1. CASE req # None /\ UnitTakes
  <2>1. req \in Asks /\ work = None /\ work' = req /\ ram' = ram /\ start' = start
    BY <1>1 DEF UnitsInv, UnitTakes, displayVars
  <2>2. adjusted = start
    BY <1>0, <2>1 DEF AdjustedInv, None, WriteROM
  <2>3. adjusted' = IF req = WriteROM(OFFSET_INIT, 1) THEN 0 ELSE start
    BY <1>1, <2>1, <2>2, AskKinds DEF UnitTakes, Clear, Scroll, WriteROM
  <2> QED BY <1>0, <2>1, <2>3 DEF MemoryInv, AdjustedInv
<1>2. CASE req = None /\ work # None /\ UnitDone
  <2>1. work \in Asks /\ work' = None
    BY <1>2 DEF UnitsInv, UnitDone
  <2>2. AdjustedInv' <=> adjusted' = start'
    BY <2>1 DEF AdjustedInv, None, WriteROM
  <2>3. work # WriteROM(OFFSET_INIT, 1) => adjusted = start
    BY <1>0 DEF AdjustedInv
  <2>4. CASE work.unit = "locator"
    <3>1. work # WriteROM(OFFSET_INIT, 1)
      BY <2>4 DEF WriteROM
    <3>2. UNCHANGED <<ram, start, adjusted>>
      BY <1>2, <2>4, LocateLands
    <3> QED BY <1>0, <2>2, <2>3, <3>1, <3>2 DEF MemoryInv
  <2>5. CASE work.unit = "clser"
    <3>1. work # WriteROM(OFFSET_INIT, 1)
      BY <2>5 DEF WriteROM
    <3>2. MemoryInv' /\ UNCHANGED <<start, adjusted>>
      BY <1>2, <2>5, ClearLands
    <3> QED BY <2>2, <2>3, <3>1, <3>2
  <2>6. CASE work.unit = "scroller"
    <3>1. MemoryInv' /\ adjusted' = start'
      BY <1>2, <2>6, ScrollLands
    <3> QED BY <2>2, <3>1
  <2>7. CASE work = WriteROM(OFFSET_INIT, 1)
    <3>1. UNCHANGED ram /\ adjusted' = 0 /\ start' = 0
      BY <1>2, <2>7, InitLands
    <3> QED BY <1>0, <2>2, <3>1 DEF MemoryInv
  <2>8. CASE work.unit = "rom_writer" /\ work # WriteROM(OFFSET_INIT, 1)
    <3>1. CASE work.index \in {OFFSET_DISPLAY_ON, OFFSET_DISPLAY_OFF}
      <4>1. UNCHANGED <<ram, start, point, adjusted>>
        BY <1>2, <2>8, <3>1, PowerLands
      <4> QED BY <1>0, <2>2, <2>3, <2>8, <4>1 DEF MemoryInv
    <3>2. CASE \E char \in Nat : work.index = OFFSET_CHAR + char
      <4>1. MemoryInv' /\ UNCHANGED <<start, adjusted>>
        BY <1>2, <2>8, <3>2, WriteLands
      <4> QED BY <2>2, <2>3, <2>8, <4>1
    <3>3. work.index \in {OFFSET_DISPLAY_ON, OFFSET_DISPLAY_OFF}
            \/ \E char \in Nat : work.index = OFFSET_CHAR + char
      BY <2>1, <2>8, AskKinds DEF Clear, Scroll
    <3> QED BY <3>1, <3>2, <3>3
  <2>9. work.unit \in {"clser", "scroller", "locator", "rom_writer"}
    BY <2>1, AskKinds
  <2> HIDE DEF Good
  <2> QED BY <2>4, <2>5, <2>6, <2>7, <2>8, <2>9
<1>3. CASE req = None /\ UNCHANGED <<work, adjusted, displayVars>>
  BY <1>0, <1>3 DEF MemoryInv, AdjustedInv, displayVars
<1> HIDE DEF Good
<1> QED BY <1>1, <1>2, <1>3 DEF Units

\* While nobody is asked and nobody works the display stays as it is.
LEMMA NothingMoves ==
  ASSUME Units, req = None, work = None
  PROVE  work' = None /\ Screen' = Screen /\ Pen' = Pen /\ UNCHANGED <<displayVars, adjusted>>
<1>1. UNCHANGED <<work, adjusted, displayVars>>
  BY DEF Units
<1> QED BY <1>1, SeenIs DEF displayVars

LEMMA Launches ==
  ASSUME Units, req = None, work = None, NEW r, req' = r
  PROVE  InFlight(r, Screen, Pen)'
<1>1. work' = None /\ Screen' = Screen /\ Pen' = Pen
  BY NothingMoves
<1> QED BY <1>1 DEF InFlight

LEMMA Flies ==
  ASSUME UnitsInv, Units, NEW r \in Asks, NEW s, NEW n, InFlight(r, s, n), req' = None
  PROVE  InFlight(r, s, n)'
<1> DEFINE Good == InFlight(r, s, n)'
<1> SUFFICES Good
  OBVIOUS
<1>1. CASE req = r /\ work = None /\ Screen = s /\ Pen = n
  <2>1. UnitTakes
    BY <1>1, AskKinds DEF Units
  <2>2. work' = r /\ Screen' = Screen /\ Pen' = Pen
    BY <1>1, <2>1, SeenIs DEF UnitTakes, displayVars
  <2> QED BY <1>1, <2>2 DEF InFlight
<1>2. CASE req = None /\ work = r /\ Screen = s /\ Pen = n
  <2>1. CASE UNCHANGED <<work, adjusted, displayVars>>
    <3>1. work' = r /\ Screen' = Screen /\ Pen' = Pen
      BY <1>2, <2>1, SeenIs DEF displayVars
    <3> QED BY <1>2, <3>1 DEF InFlight
  <2>2. CASE UnitDone
    <3>1. work' = None
      BY <2>2 DEF UnitDone
    <3>2. ASSUME Landed(r, s, n)' PROVE Good
      BY <3>1, <3>2 DEF InFlight
    <3>3. CASE r.unit = "locator"
      <4>1. Screen' = Screen /\ Pen' = To(work.row, work.col, Pen)
        BY <1>2, <2>2, <3>3, LocateLands
      <4>2. Landed(r, s, n)'
        BY <1>2, <3>3, <4>1 DEF Landed
      <4> HIDE DEF Good
      <4> QED BY <3>2, <4>2
    <3>4. CASE r.unit = "clser"
      <4>1. Screen' = BlankScreen
        BY <1>2, <2>2, <3>4, ClearLands
      <4>2. Landed(r, s, n)'
        BY <3>4, <4>1 DEF Landed
      <4> HIDE DEF Good
      <4> QED BY <3>2, <4>2
    <3>5. CASE r.unit = "scroller"
      <4>1. Screen' = Up(Screen)
        BY <1>2, <2>2, <3>5, ScrollLands
      <4>2. Landed(r, s, n)'
        BY <1>2, <3>5, <4>1 DEF Landed
      <4> HIDE DEF Good
      <4> QED BY <3>2, <4>2
    <3>6. CASE r = WriteROM(OFFSET_INIT, 1)
      <4>1. Pen' = <<1, LastCol>> /\ \E k \in 1 .. LastRow : Screen' = TurnedBy(Screen, k)
        BY <1>2, <2>2, <3>6, InitLands
      <4>2. r.unit = "rom_writer" /\ r.index = OFFSET_INIT
        BY <3>6 DEF WriteROM
      <4>3. Landed(r, s, n)'
        BY <1>2, <4>1, <4>2
           DEF Landed, OFFSET_INIT, OFFSET_DISPLAY_ON, OFFSET_DISPLAY_OFF, OFFSET_CHAR
      <4> HIDE DEF Good
      <4> QED BY <3>2, <4>3
    <3>7. CASE r.unit = "rom_writer" /\ r.index \in {OFFSET_DISPLAY_ON, OFFSET_DISPLAY_OFF}
      <4>1. UNCHANGED <<ram, start, point>>
        BY <1>2, <2>2, <3>7, PowerLands
      <4>2. Screen' = Screen /\ Pen' = Pen
        BY <4>1, SeenIs
      <4>3. Landed(r, s, n)'
        BY <1>2, <3>7, <4>2
           DEF Landed, OFFSET_INIT, OFFSET_DISPLAY_ON, OFFSET_DISPLAY_OFF, OFFSET_CHAR
      <4> HIDE DEF Good
      <4> QED BY <3>2, <4>3
    <3>8. CASE r.unit = "rom_writer" /\ \E char \in Nat : r.index = OFFSET_CHAR + char
      <4>1. PICK char \in Nat : r.index = OFFSET_CHAR + char
        BY <3>8
      <4>2. Screen' = Inked(Screen, Pen, char)
        BY <1>2, <2>2, <3>8, <4>1, WriteLands
      <4>3. r.index - OFFSET_CHAR = char
        BY <4>1 DEF OFFSET_CHAR
      <4>4. r.index \notin {OFFSET_INIT, OFFSET_DISPLAY_ON, OFFSET_DISPLAY_OFF}
        BY <4>1 DEF OFFSET_INIT, OFFSET_DISPLAY_ON, OFFSET_DISPLAY_OFF, OFFSET_CHAR
      <4>5. Landed(r, s, n)'
        BY <1>2, <3>8, <4>2, <4>3, <4>4 DEF Landed
      <4> HIDE DEF Good
      <4> QED BY <3>2, <4>5
    <3> HIDE DEF Good
    <3> QED BY <3>3, <3>4, <3>5, <3>6, <3>7, <3>8, AskKinds
  <2> HIDE DEF Good
  <2> QED BY <1>2, <2>1, <2>2 DEF Units
<1>3. CASE req = None /\ work = None /\ Landed(r, s, n)
  <2>1. work' = None /\ Screen' = Screen /\ Pen' = Pen
    BY <1>3, NothingMoves
  <2> QED BY <1>3, <2>1 DEF InFlight, Landed
<1> HIDE DEF Good
<1> QED BY <1>1, <1>2, <1>3 DEF InFlight

-------------------------------------------------------------------------------
(***************************************************************************)
(* What is being done, where the FSMs are.                                 *)
(***************************************************************************)
CursorOp(char) == [op |-> "cursor", char |-> char]
LocateOp(r, c) == [op |-> "locate", row |-> r, col |-> c]

Pos == <<cursor.row, cursor.col>>
Places == (1 .. LastRow) \X (1 .. LastCol)

Untouched(sh) == Screen = sh.screen /\ Pen = sh.pen /\ Pos = sh.pos

\* Where a character leaves the position, the screen and the pen; the cursor's
\* stays where it is.
Wraps(sh, char, stay) ==
  ~stay /\ (char = LF \/ (char # CR /\ sh.pos[2] = LastCol))
Scrolls(sh, char, stay) == Wraps(sh, char, stay) /\ sh.pos[1] = LastRow

EndPos(sh, char, stay) ==
  IF stay THEN sh.pos
  ELSE IF char = CR THEN <<sh.pos[1], 1>>
  ELSE IF Wraps(sh, char, stay)
  THEN <<IF sh.pos[1] < LastRow THEN sh.pos[1] + 1 ELSE LastRow, 1>>
  ELSE <<sh.pos[1], sh.pos[2] + 1>>

Drawn(sh, char) ==
  IF char \in {CR, LF} THEN sh.screen ELSE Inked(sh.screen, sh.pen, char)
EndScreen(sh, char, stay) ==
  IF Scrolls(sh, char, stay) THEN Up(Drawn(sh, char)) ELSE Drawn(sh, char)
EndPen(sh, char, stay) ==
  IF char = CR THEN <<sh.pen[1], 1>> ELSE EndPos(sh, char, stay)

Stays == main = "CURSOR_ON_OFF_CHPR_RUNNING"

WritesChar(char) == WriteROM(OFFSET_CHAR + char, 0)

\* The printer at work on char, which the cursor leaves in place.
PrintingAs(sh, char, stay) ==
  /\ printer.fsm = "IDLE" => printer.data = char /\ Untouched(sh)
  /\ printer.fsm = "STROBED_ROM_WRITER" =>
       /\ char \notin {CR, LF} /\ Pos = sh.pos
       /\ InFlight(WritesChar(char), sh.screen, sh.pen)
  /\ printer.fsm \in {"UNSTROBED_ROM_WRITER", "UNSTROBED_ROM_WRITER_NEEDS_SCROLL"} =>
       /\ char \notin {CR, LF} /\ Pos = EndPos(sh, char, stay)
       /\ InFlight(WritesChar(char), sh.screen, sh.pen)
       /\ printer.fsm = "UNSTROBED_ROM_WRITER_NEEDS_SCROLL" <=> Scrolls(sh, char, stay)
  /\ printer.fsm \in {"STROBED_SCROLLER", "UNSTROBED_SCROLLER"} =>
       /\ Scrolls(sh, char, stay) /\ Pos = EndPos(sh, char, stay)
       /\ \E n \in Places : InFlight(Scroll, Drawn(sh, char), n)
  /\ printer.fsm \in {"STROBED_LOCATOR", "UNSTROBED_LOCATOR"} =>
       /\ Pos = EndPos(sh, char, stay)
       /\ \E r \in 0 .. LastRow, c \in 0 .. LastCol, n \in Places :
            /\ InFlight(Locate(r, c), EndScreen(sh, char, stay), n)
            /\ To(r, c, n) = EndPen(sh, char, stay)
  /\ printer.advance = 0 <=> stay /\ printer.fsm \in {"IDLE", "STROBED_ROM_WRITER"}

Printing(sh, char) == PrintingAs(sh, char, Stays)

\* What there is on the display and where the position is, by state.
Locating == {"LOCATE_ROW_STROBED_R_EN", "LOCATE_COL_WAIT"}
Moving   == {"LOCATE_COL_STROBED_R_EN", "LOCATE_UNSTROBED_LOCATOR"}
Sending  == {"INIT_STROBED_ROM_WRITER", "ROM_WRITE_SINGLE_STROBED_ROM_WRITER",
             "ROM_WRITE_SINGLE_UNSTROBED_ROM_WRITER"}
Clearing == {"CLSER_STROBED", "CLSER_UNSTROBED"}
Homing   == {"CLSER_STROBED_LOCATOR", "CLSER_UNSTROBED_LOCATOR"}
Blinks   == {"CURSOR_ON_RESET", "CURSOR_OFF_RESET", "CURSOR_ON_OFF_CHPR_RUNNING"}
Asking   == {"ID_START", "ID_START_WRITE_STROBED_W_EN", "ID_START_WRITE_STROBED_STB",
             "ID_START_WRITE_UNSTROBED_STB", "ID_WRITE_CMD_STROBED_W_EN",
             "ID_WRITE_CMD_UNSTROBED_W_EN", "ID_START_READ_STROBED_W_EN",
             "ID_START_READ_UNSTROBED_W_EN", "ID_RECV_WAIT", "ID_RECV_STROBED_R_EN"}
Firsts   == {"PRINT_BYTE_STROBED_R_EN_CHPR_RUNNING", "ID_FIRST_HALF_CHPR_RUNNING"}

Shows(sh, op) ==
  IF printer.run = 1 THEN Printing(sh, op.char)
  ELSE IF main \in Locating
  THEN Screen = sh.screen /\ Pen = sh.pen /\ Pos = To(rest, 0, sh.pos)
  ELSE IF main \in Moving
  THEN /\ Pos = To(op.row, op.col, sh.pos)
       /\ InFlight(Locate(op.row, op.col), sh.screen, sh.pen)
  ELSE IF main \in Sending
  THEN \/ /\ op.op = "init" /\ Pos = <<1, 1>>
          /\ InFlight(WriteROM(OFFSET_INIT, 1), sh.screen, sh.pen)
       \/ /\ op.op = "power" /\ Pos = sh.pos
          /\ \E i \in {OFFSET_DISPLAY_ON, OFFSET_DISPLAY_OFF} :
               InFlight(WriteROM(i, 0), sh.screen, sh.pen)
  ELSE IF main \in Clearing
  THEN Pos = <<1, 1>> /\ InFlight(Clear, sh.screen, sh.pen)
  ELSE IF main \in Homing
  THEN /\ Pos = <<1, 1>>
       /\ \E n \in Places : InFlight(Locate(1, 1), BlankScreen, n)
  ELSE Untouched(sh)

Blinking == main \in {"CURSOR_ON_RESET", "CURSOR_OFF_RESET"} \/ (Stays /\ printer.run = 1)

CursorShown(sh, op) ==
  IF ~Blinking THEN sh.blinking <=> cursor.en = 1
  ELSE IF asked
  THEN IF Stays THEN cursor.en = 1 <=> op.char = CursorChar ELSE cursor.en = 0
  ELSE sh.blinking /\ (main # "CURSOR_ON_RESET" => cursor.en = 1)

\* The operation that is being carried out.
Carried(op) ==
  /\ printer.run = 1 => op = IF Stays THEN CursorOp(op.char) ELSE CharOp(op.char)
  /\ main = "CURSOR_ON_RESET" => op = CursorOp(CursorChar)
  /\ main = "CURSOR_OFF_RESET" => op = CursorOp(Blank)
  /\ printer.run = 1 /\ Stays => op.char \in {CursorChar, Blank}
  /\ main \in Moving => op = LocateOp(op.row, op.col)
  /\ main \in Sending => op = [op |-> op.op] /\ op.op \in {"init", "power"}
  /\ main \in Clearing \cup Homing => op = [op |-> "cls"]
  /\ main \in Asking => op = [op |-> "id"]

Carrying ==
  IF main \in Blinks THEN asked /\ Blinking
  ELSE printer.run = 1 \/ main \in Moving \cup Sending \cup Clearing \cup Homing \cup Asking

Doing(op) ==
  IF main = "START_STROBED_FIFO_IN_R_EN" THEN CommandOps(command)
  ELSE IF main \in Firsts
  THEN IF printer.run = 1 THEN <<op, CharOp(SecondHalf(rest))>>
                          ELSE <<CharOp(SecondHalf(rest))>>
  ELSE IF Carrying THEN <<op>> ELSE <<>>

OpsAt(f, b) ==
  CASE f.want = "command" -> CommandOps(b)
    [] f.want = "col"  -> <<LocateOp(f.n, b)>>
    [] f.want = "char" -> <<CharOp(b)>>
    [] f.want = "byte" -> <<CharOp(FirstHalf(b)), CharOp(SecondHalf(b))>>
    [] OTHER           -> <<>>

Waiting == IF Given /\ fifo_r_en = 0 THEN OpsAt(Expecting, Byte1) ELSE <<>>

\* A command in hand has neither succeeded nor failed.
Obeying ==
  /\ main \notin Blinks \cup {"IDLE"} => asked /\ result = "BUSY"
  /\ main = "ID_RECV_STROBED_R_EN" => rest \in Bytes

Operations ==
  [op : {"init", "cls", "id", "power"}]
    \cup {CharOp(char) : char \in Nat} \cup {CursorOp(char) : char \in Nat}
    \cup {LocateOp(r, c) : r \in 0 .. LastRow, c \in 0 .. LastCol}

Stage(sh, op) == Shows(sh, op) /\ CursorShown(sh, op) /\ Carried(op)

-------------------------------------------------------------------------------
(***************************************************************************)
(* Operations asked for, and what becomes of them in a cycle.              *)
(***************************************************************************)
LEMMA FewOps ==
  /\ <<>> \in Seq(Operations)
  /\ \A x \in Operations : <<x>> \in Seq(Operations)
  OBVIOUS

LEMMA ACommand ==
  ASSUME NEW b PROVE CommandOps(b) \in Seq(Operations)
<1>1. CommandOps(b) \in {<<[op |-> "init"]>>, <<[op |-> "cls"]>>, <<[op |-> "id"]>>,
        <<CursorOp(CursorChar)>>, <<CursorOp(Blank)>>, <<[op |-> "power"]>>, << >>}
  BY DEF CommandOps, CursorOp
<1>2. /\ [op |-> "init"] \in Operations /\ [op |-> "cls"] \in Operations
      /\ [op |-> "id"] \in Operations /\ [op |-> "power"] \in Operations
      /\ CursorOp(CursorChar) \in Operations /\ CursorOp(Blank) \in Operations
  BY DEF Operations, CursorChar, Blank
<1>3. ASSUME NEW x \in Operations, CommandOps(b) = <<x>> PROVE CommandOps(b) \in Seq(Operations)
  BY <1>3, FewOps
<1>4. CASE CommandOps(b) = <<>>
  BY <1>4, FewOps
<1> QED BY <1>1, <1>2, <1>3, <1>4

LEMMA AByte ==
  ASSUME NEW b \in 0 .. 255
  PROVE  /\ FirstHalf(b) \in Nat /\ SecondHalf(b) \in Nat
         /\ b % 16 \in 0 .. 255 /\ SecondHalf(b % 16) = SecondHalf(b)
<1>1. b \div 16 \in Nat /\ b % 16 \in 0 .. 15 /\ (b % 16) % 16 = b % 16
  OBVIOUS
<1>2. \A n \in Nat : HexDigit(n) \in Nat
  BY DEF HexDigit
<1> QED BY <1>1, <1>2 DEF FirstHalf, SecondHalf

\* What a byte asks for that is expected where f is.
LEMMA OpsTyped ==
  ASSUME NEW f, NEW b, user \in Users, b \in Expected(f), f.want = "col" => f.n \in 0 .. LastRow
  PROVE  /\ OpsAt(f, b) \in Seq(Operations)
         /\ f.want \in {"char", "byte"} => b \in 0 .. 255
<1>1. user.chars \subseteq 0 .. 255 /\ Bytes \subseteq 0 .. 255
  BY UsersAssumption
<1>2. CASE f.want = "command"
  BY <1>2, ACommand DEF OpsAt
<1>3. CASE f.want = "col"
  <2>1. b \in 0 .. LastCol
    BY <1>3 DEF Expected
  <2>2. LocateOp(f.n, b) \in Operations
    BY <1>3, <2>1 DEF Operations
  <2>3. OpsAt(f, b) = <<LocateOp(f.n, b)>>
    BY <1>3 DEF OpsAt
  <2> QED BY <1>3, <2>2, <2>3
<1>4. CASE f.want = "char"
  <2>1. b \in 0 .. 255
    BY <1>1, <1>4 DEF Expected
  <2>2. CharOp(b) \in Operations
    BY <2>1 DEF Operations
  <2>3. OpsAt(f, b) = <<CharOp(b)>>
    BY <1>4 DEF OpsAt
  <2> QED BY <2>1, <2>2, <2>3
<1>5. CASE f.want = "byte"
  <2>1. b \in 0 .. 255
    BY <1>1, <1>5 DEF Expected
  <2>2. FirstHalf(b) \in Nat /\ SecondHalf(b) \in Nat
    BY <2>1, AByte
  <2>3. CharOp(FirstHalf(b)) \in Operations /\ CharOp(SecondHalf(b)) \in Operations
    BY <2>2 DEF Operations
  <2>4. OpsAt(f, b) = <<CharOp(FirstHalf(b)), CharOp(SecondHalf(b))>>
    BY <1>5 DEF OpsAt
  <2> QED BY <2>1, <2>3, <2>4
<1>6. CASE f.want \notin {"command", "col", "char", "byte"}
  <2>1. OpsAt(f, b) = <<>>
    BY <1>6 DEF OpsAt
  <2> QED BY <1>6, <2>1, FewOps
<1> QED BY <1>2, <1>3, <1>4, <1>5, <1>6

LEMMA ColRange ==
  ASSUME ScreenInv, Expecting.want = "col" PROVE Expecting.n \in 0 .. LastRow
<1>1. main \in {"LOCATE_ROW_STROBED_R_EN", "LOCATE_COL_WAIT"} /\ Expecting.n = rest
  BY DEF Expecting, AfterCommand, Command, Chars
<1> QED BY <1>1 DEF ScreenInv, RestInv

\* The byte queued is asked for until the command FSM takes it.
WaitsOn(ops) ==
  \/ Stands /\ Waiting' = Waiting \o ops
  \/ Takes /\ ops = <<>> /\ Waiting' = <<>> /\ Waiting = OpsAt(Expecting, Byte1)

WaitingTyped == Waiting \in Seq(Operations)

LEMMA WaitingIs == ASSUME ScreenInv PROVE WaitingTyped
<1>1. CASE Given /\ fifo_r_en = 0
  <2>1. user \in Users /\ Byte1 \in Expected(Expecting)
    BY <1>1 DEF ScreenInv, QueueInv
  <2> QED BY <1>1, <2>1, OpsTyped, ColRange DEF WaitingTyped, Waiting
<1>2. CASE ~(Given /\ fifo_r_en = 0)
  BY <1>2 DEF WaitingTyped, Waiting
<1> QED BY <1>1, <1>2

LEMMA NothingAdded == ASSUME NEW S, NEW w \in Seq(S) PROVE w \o << >> = w /\ << >> \o w = w
  OBVIOUS

LEMMA StepWaits ==
  ASSUME PanelNext, TurnsInv, ScreenInv
  PROVE  \E bus \in BusInputs, full \in Pulses, ops \in Seq(Operations) :
           /\ Commanding(Busy, bus, full) \/ Chpr(Busy)
           /\ Units /\ History(ops) /\ WaitsOn(ops)
<1>0. /\ FifoInv /\ user \in Users
      /\ Given /\ fifo_r_en = 0 =>
           Byte1 \in Expected(Expecting) /\ feed = FeedAfter(Expecting, Byte1)
      /\ ~(Given /\ fifo_r_en = 0) => feed = Expecting
  BY DEF ScreenInv, QueueInv
<1>1. ASSUME Quietly
      PROVE  \E bus \in BusInputs, full \in Pulses, ops \in Seq(Operations) :
               /\ Commanding(Busy, bus, full) \/ Chpr(Busy)
               /\ Units /\ History(ops) /\ WaitsOn(ops)
  <2>1. PICK bus \in BusInputs, full \in Pulses :
          OLEDStep(Busy, bus, full, 0, 0) /\ Units /\ History(<<>>)
    BY <1>1 DEF Quietly
  <2>2. Parses
    BY <2>1, StepParses DEF BusInputs
  <2>3. fifo_in' = (IF fifo_r_en = 1 THEN <<>> ELSE fifo_in)
    BY <1>0, <2>1 DEF OLEDStep, FifoNext
  <2>4. Stands => Waiting' = Waiting
    BY <1>0, <2>3 DEF Stands, Waiting, FifoInv, Given, Readable, Byte1
  <2>5. Takes => Waiting' = <<>> /\ Waiting = OpsAt(Expecting, Byte1)
    BY <1>0, <2>3 DEF Takes, Waiting, FifoInv
  <2>6. WaitsOn(<<>>)
    <3>1. Waiting \o <<>> = Waiting
      BY WaitingIs, NothingAdded DEF WaitingTyped
    <3> QED BY <2>2, <2>4, <2>5, <3>1 DEF WaitsOn, Parses
  <2>7. Commanding(Busy, bus, full) \/ Chpr(Busy)
    BY <2>1 DEF OLEDStep, Commanding
  <2>8. <<>> \in Seq(Operations)
    OBVIOUS
  <2> QED BY <2>1, <2>6, <2>7, <2>8
<1>2. ASSUME Queueing
      PROVE  \E bus \in BusInputs, full \in Pulses, ops \in Seq(Operations) :
               /\ Commanding(Busy, bus, full) \/ Chpr(Busy)
               /\ Units /\ History(ops) /\ WaitsOn(ops)
  <2>1. PICK bus \in BusInputs, full \in Pulses, b \in Expected(feed) :
          /\ OLEDStep(Busy, bus, full, 1, b) /\ Units /\ History(OpsOf(b))
    BY <1>2 DEF Queueing
  <2>2. Parses
    BY <2>1, StepParses DEF BusInputs
  <2>3. fifo_in = <<>> /\ ~Given
    BY <1>2 DEF Queueing, Writable, Given, Readable
  <2>4. fifo_in' = <<b>>
    BY <2>1, <2>3 DEF OLEDStep, FifoNext, Writable
  <2>5. Stands /\ feed = Expecting
    BY <1>0, <2>2, <2>3 DEF Parses, Takes
  <2>6. OpsOf(b) = OpsAt(Expecting, b)
    BY <2>5 DEF OpsOf, OpsAt, LocateOp
  <2>7. OpsOf(b) \in Seq(Operations)
    BY <1>0, <2>1, <2>5, <2>6, OpsTyped, ColRange
  <2>8. Waiting' = OpsOf(b) /\ Waiting = <<>>
    BY <2>3, <2>4, <2>5, <2>6 DEF Stands, Waiting, Given, Readable, Byte1
  <2>9. WaitsOn(OpsOf(b))
    BY <2>5, <2>7, <2>8, NothingAdded DEF WaitsOn
  <2>10. Commanding(Busy, bus, full) \/ Chpr(Busy)
    BY <2>1 DEF OLEDStep, Commanding
  <2> QED BY <2>1, <2>7, <2>9, <2>10
<1> QED BY <1>1, <1>2 DEF PanelNext

-------------------------------------------------------------------------------
(***************************************************************************)
(* Steps that leave what is shown as it is.                                *)
(***************************************************************************)
AskedNext ==
  asked' = IF main = "IDLE" THEN main' = "START_STROBED_FIFO_IN_R_EN" ELSE asked

Fails   == result # "FAILURE" /\ result' = "FAILURE"
Answers == main = "ID_RECV_STROBED_R_EN" /\ main' # main
Keeping == ~Completes /\ ~Fails /\ ~Answers

\* From op in hand to next.
Going(op, next) ==
  \/ fifo_r_en' = 0 /\ Doing(next)' = Doing(op)
  \/ fifo_r_en' = 1 /\ Doing(op) = <<>> /\ Doing(next)' = OpsAt(Expecting, Byte1)

Silent(sh, op) ==
  /\ Keeping /\ Obeying'
  /\ \E next \in Operations : Stage(sh, next)' /\ Going(op, next)

Resting == main \notin Locating \cup Moving \cup Sending \cup Clearing \cup Homing

LEMMA Rests ==
  ASSUME TurnsInv, printer.run = 0,
         main \notin Moving \cup Sending \cup Clearing \cup Homing
  PROVE  req = None /\ work = None /\ printer.fsm = "IDLE"
<1>1. printer.fsm = "IDLE"
  BY DEF TurnsInv, PrinterInv
<1>2. \A unit : ~Strobing(unit) /\ ~Awaiting(unit)
  BY <1>1 DEF Strobing, Awaiting, Moving, Sending, Clearing, Homing
<1> QED BY <1>1, <1>2 DEF TurnsInv, RequestInv, WorkInv

LEMMA StaysPut ==
  ASSUME NEW sh, Untouched(sh), Units, req = None, work = None,
         cursor'.row = cursor.row, cursor'.col = cursor.col
  PROVE  Untouched(sh)'
<1>1. Screen' = Screen /\ Pen' = Pen
  BY NothingMoves
<1>2. Pos' = Pos
  BY DEF Pos
<1> QED BY <1>1, <1>2 DEF Untouched

\* A step from rest to rest, or to the printer.
LEMMA RestShows ==
  ASSUME NEW sh, NEW op, TurnsInv, Stage(sh, op), Units, printer.run = 0, Resting,
         cursor'.row = cursor.row, cursor'.col = cursor.col
  PROVE  /\ Untouched(sh)' /\ printer.fsm = "IDLE" /\ (~Blinking => (sh.blinking <=> cursor.en = 1))
         /\ printer' = printer /\ main' \notin Locating \cup Moving \cup Sending \cup Clearing \cup Homing
              => \A next : Shows(sh, next)'
<1>1. Untouched(sh)
  BY DEF Stage, Shows, Resting
<1>2. req = None /\ work = None /\ printer.fsm = "IDLE"
  BY Rests DEF Resting
<1>3. Untouched(sh)'
  BY <1>1, <1>2, StaysPut
<1>4. ~Blinking => (sh.blinking <=> cursor.en = 1)
  BY DEF Stage, CursorShown
<1>5. ASSUME NEW next, printer' = printer,
             main' \notin Locating \cup Moving \cup Sending \cup Clearing \cup Homing
      PROVE  Shows(sh, next)'
  BY <1>3, <1>5 DEF Shows
<1> QED BY <1>2, <1>3, <1>4, <1>5

ACursor(state) == CursorOp(IF state = "CURSOR_OFF_RESET" THEN Blank ELSE CursorChar)

LEMMA SomeOperations ==
  /\ \A o \in {"init", "cls", "id", "power"} : [op |-> o] \in Operations
  /\ \A s : ACursor(s) \in Operations
  /\ \A char \in Nat : CharOp(char) \in Operations
  /\ \A r \in 0 .. LastRow, c \in 0 .. LastCol : LocateOp(r, c) \in Operations
  BY DEF Operations, ACursor, Blank, CursorChar

LEMMA IdleGoes ==
  ASSUME NEW sh, NEW op, TurnsInv, ScreenInv, Obeying, Stage(sh, op), Units, AskedNext,
         NEW full \in Pulses, NEW w_rdy, AtIdle(full, w_rdy)
  PROVE  Silent(sh, op)
<1>1. main = "IDLE" /\ printer.run = 0 /\ printer' = printer
  BY DEF AtIdle, IdleBlinks, IdleTakes, IdleElse, From, Pass
<1>2. cursor'.row = cursor.row /\ cursor'.col = cursor.col
  BY DEF AtIdle, IdleBlinks, IdleTakes, IdleElse, Pass, ScreenInv, CursorInv
<1>3. Resting /\ ~Blinking /\ Expecting = Command /\ Doing(op) = <<>>
  BY <1>1 DEF Resting, Locating, Moving, Sending, Clearing, Homing, Blinking, Stays, Expecting, Doing,
     Firsts, Carrying, Blinks, Asking
<1>4. /\ sh.blinking <=> cursor.en = 1
      /\ main' \notin Locating \cup Moving \cup Sending \cup Clearing \cup Homing
           => \A next : Shows(sh, next)'
  BY <1>1, <1>2, <1>3, RestShows
<1>5. Keeping
  BY <1>1 DEF AtIdle, IdleBlinks, IdleTakes, IdleElse, From, Pass, Keeping, Completes, Fails,
     Answers, UnitWaits
<1>6. CASE main' \in {"CURSOR_ON_RESET", "CURSOR_OFF_RESET"}
  <2>0. PICK state : state = main'
    OBVIOUS
  <2>1. fifo_r_en' = 0 /\ cursor.en = 1 /\ (main' = "CURSOR_OFF_RESET" => cursor' = cursor)
    BY <1>1, <1>6 DEF AtIdle, IdleBlinks, IdleTakes, IdleElse, Pass, Pulses, Quiet
  <2>2. ~asked'
    BY <1>1, <1>6 DEF AskedNext
  <2>3. Carried(ACursor(state))'
    BY <2>0, <1>1, <1>6 DEF Carried, ACursor, Moving, Sending, Clearing, Homing, Asking
  <2>4. CursorShown(sh, ACursor(state))'
    BY <2>0, <1>4, <1>6, <2>1, <2>2 DEF CursorShown, Blinking, Stays
  <2>5. Doing(ACursor(state))' = <<>>
    BY <2>0, <1>1, <1>6, <2>2 DEF Doing, Firsts, Carrying, Blinks
  <2>6. Shows(sh, ACursor(state))'
    BY <2>0, <1>4, <1>6 DEF Locating, Moving, Sending, Clearing, Homing
  <2>7. Obeying'
    BY <1>6 DEF Obeying, Blinks
  <2> QED BY <1>3, <1>5, <2>1, <2>3, <2>4, <2>5, <2>6, <2>7, SomeOperations
          DEF Silent, Going, Stage
<1>7. CASE main' \in {"IDLE", "START_STROBED_FIFO_IN_R_EN"}
  <2>1. cursor' = cursor
    BY <1>7 DEF AtIdle, IdleBlinks, IdleTakes, IdleElse, Pass
  <2> DEFINE next == [op |-> "cls"]
  <2>2. Shows(sh, next)' /\ Carried(next)' /\ CursorShown(sh, next)'
    BY <1>1, <1>4, <1>7, <2>1
       DEF Locating, Moving, Sending, Clearing, Homing, Carried, Asking, CursorShown, Blinking, Stays
  <2>3. Obeying' /\ Going(op, next)
    <3>1. CASE main' = "IDLE"
      <4>1. fifo_r_en' = 0
        BY <1>7, <3>1 DEF AtIdle, IdleBlinks, IdleTakes, IdleElse, Pass, Quiet
      <4>2. Doing(next)' = <<>>
        BY <1>1, <3>1 DEF Doing, Firsts, Carrying, Blinks, Moving, Sending, Clearing, Homing, Asking
      <4> QED BY <1>3, <3>1, <4>1, <4>2 DEF Obeying, Going
    <3>2. CASE main' = "START_STROBED_FIFO_IN_R_EN"
      <4>1. fifo_r_en' = 1 /\ command' = Byte1 /\ result' = "BUSY"
        BY <3>2 DEF AtIdle, IdleBlinks, IdleTakes, IdleElse, Pass, From, Pop
      <4>2. Doing(next)' = CommandOps(Byte1)
        BY <3>2, <4>1 DEF Doing
      <4>3. OpsAt(Expecting, Byte1) = CommandOps(Byte1)
        BY <1>3 DEF OpsAt, Command
      <4> QED BY <1>1, <1>3, <3>2, <4>1, <4>2, <4>3 DEF Obeying, Going, AskedNext
    <3> QED BY <1>7, <3>1, <3>2
  <2> QED BY <1>5, <2>2, <2>3, SomeOperations DEF Silent, Stage
<1> QED BY <1>1, <1>6, <1>7 DEF AtIdle, IdleBlinks, IdleTakes, IdleElse, Pass

\* A request raised where the display rests.
LEMMA RestAsks ==
  ASSUME NEW sh, NEW op, TurnsInv, Stage(sh, op), Units, printer.run = 0, Resting,
         NEW r, req' = r
  PROVE  InFlight(r, sh.screen, sh.pen)' /\ Pos = sh.pos
<1>1. Untouched(sh)
  BY DEF Stage, Shows, Resting
<1>2. req = None /\ work = None
  BY Rests DEF Resting
<1>3. InFlight(r, Screen, Pen)'
  BY <1>2, Launches
<1>4. work' = None /\ Screen' = Screen /\ Pen' = Pen
  BY <1>2, NothingMoves
<1> QED BY <1>1, <1>4 DEF InFlight, Untouched

LEMMA StartGoes ==
  ASSUME NEW sh, NEW op \in Operations, TurnsInv, ScreenInv, Obeying, Stage(sh, op), Units, AskedNext,
         Start
  PROVE  Silent(sh, op)
<1>1. /\ main = "START_STROBED_FIFO_IN_R_EN" /\ printer.run = 0 /\ printer' = printer
      /\ fifo_r_en' = 0
  BY DEF Start, Begin, BeginNop, BeginInit, BeginDisplay, BeginCls, BeginCursor, BeginOther,
         Unknown, From, Pass, Quiet, Ask
<1>2. /\ Resting /\ ~Blinking /\ Doing(op) = CommandOps(command)
      /\ asked /\ asked' /\ result = "BUSY"
  BY <1>1 DEF Resting, Locating, Moving, Sending, Clearing, Homing, Blinking, Stays, Doing,
     Obeying, Blinks, AskedNext
<1>3. sh.blinking <=> cursor.en = 1
  BY <1>2 DEF Stage, CursorShown
<1>4. \/ main' = "IDLE" /\ result' = "SUCCESS"
      \/ main' = "START_STROBED_FIFO_IN_R_EN" /\ result' = result
      \/ main' \in {"INIT_STROBED_ROM_WRITER", "ROM_WRITE_SINGLE_STROBED_ROM_WRITER",
                    "CLSER_STROBED", "LOCATE_ROW_WAIT", "PRINT_COUNT_WAIT", "ID_START",
                    "PRINT_BYTE_START"} /\ result' = result
      \/ main' \in {"CURSOR_ON_RESET", "CURSOR_OFF_RESET"} /\ result' = "SUCCESS"
  BY <1>1 DEF Start, Begin, BeginNop, BeginInit, BeginDisplay, BeginCls, BeginCursor, BeginOther,
     Unknown, From, Pass, FirstState, Finished
<1>5. Keeping /\ Obeying'
  BY <1>1, <1>2, <1>4 DEF Keeping, Completes, Fails, Answers, UnitWaits, Obeying, Blinks
<1> DEFINE Good == Silent(sh, op)
<1> SUFFICES Good
  OBVIOUS
<1>6. ASSUME NEW next \in Operations, Shows(sh, next)', CursorShown(sh, next)', Carried(next)',
             Doing(next)' = CommandOps(command)
      PROVE  Good
  BY <1>1, <1>2, <1>5, <1>6 DEF Silent, Going, Stage
<1>7. CASE BeginNop \/ BeginOther \/ Unknown
  <2>1. cursor' = cursor
    BY <1>7 DEF BeginNop, BeginOther, Unknown, Pass
  <2> DEFINE next == IF main' = "ID_START" THEN [op |-> "id"] ELSE [op |-> "cls"]
  <2>2. PICK n : n = next
    OBVIOUS
  <2>3. n \in Operations /\ main' \notin Locating \cup Moving \cup Sending \cup Clearing \cup Homing
    BY <1>7, <2>2, SomeOperations
       DEF BeginNop, BeginOther, Unknown, Finished, FirstState, Begin, Pass, Locating, Moving, Sending, Clearing,
           Homing
  <2>4. Shows(sh, n)'
    BY <1>1, <1>2, <2>1, <2>3, RestShows
  <2>5. CursorShown(sh, n)' /\ Carried(n)'
    BY <1>1, <1>3, <1>7, <2>1, <2>2, <2>3
       DEF BeginNop, BeginOther, Unknown, Finished, FirstState, Begin, Pass, CursorShown, Blinking, Stays, Carried,
           Asking
  <2>6. Doing(n)' = CommandOps(command)
    <3>1. CASE BeginNop
      BY <1>1, <3>1
         DEF BeginNop, Begin, Finished, Doing, Firsts, Carrying, Blinks, Moving, Sending, Clearing, Homing,
             Asking, CommandOps, NOP, INIT, CLS, ID, CURSOR_ON, CURSOR_OFF, DISPLAY_ON, DISPLAY_OFF
    <3>2. CASE BeginOther
      <4>1. CASE command = ID
        <5>1. CommandOps(command) = <<[op |-> "id"]>>
          BY <4>1 DEF CommandOps, INIT, CLS, ID, CURSOR_ON, CURSOR_OFF, DISPLAY_ON, DISPLAY_OFF
        <5>2. main' = "ID_START"
          BY <3>2, <4>1 DEF BeginOther, FirstState, LOCATE, PRINT, ID
        <5>3. Doing(n)' = <<n>>
          BY <1>1, <5>2 DEF Doing, Firsts, Carrying, Blinks, Asking
        <5> QED BY <2>2, <5>1, <5>2, <5>3
      <4>2. CASE command \in {LOCATE, PRINT, PRINT_BYTE}
        <5>1. CommandOps(command) = <<>>
          BY <4>2 DEF CommandOps, INIT, CLS, ID, CURSOR_ON, CURSOR_OFF, DISPLAY_ON, DISPLAY_OFF,
             LOCATE, PRINT, PRINT_BYTE
        <5>2. main' \in {"LOCATE_ROW_WAIT", "PRINT_COUNT_WAIT", "PRINT_BYTE_START"}
          BY <3>2, <4>2 DEF BeginOther, FirstState, LOCATE, PRINT, PRINT_BYTE, ID
        <5>3. Doing(n)' = <<>>
          BY <1>1, <5>2 DEF Doing, Firsts, Carrying, Blinks, Moving, Sending, Clearing, Homing,
             Asking
        <5> QED BY <5>1, <5>3
      <4> QED BY <3>2, <4>1, <4>2 DEF BeginOther, Begin
    <3>3. CASE Unknown
      BY <3>3 DEF Unknown, Pass, Doing
    <3> QED BY <1>7, <3>1, <3>2, <3>3
  <2> HIDE DEF Good, next
  <2> QED BY <1>6, <2>3, <2>4, <2>5, <2>6
<1>8. CASE BeginCursor
  <2>1. /\ main' \in {"CURSOR_ON_RESET", "CURSOR_OFF_RESET"}
        /\ main' = (IF command = CURSOR_ON THEN "CURSOR_ON_RESET" ELSE "CURSOR_OFF_RESET")
        /\ command \in {CURSOR_ON, CURSOR_OFF}
    BY <1>8 DEF BeginCursor, Begin
  <2>2. cursor'.row = cursor.row /\ cursor'.col = cursor.col /\ cursor'.en = 0
    BY <1>8 DEF BeginCursor, ScreenInv, CursorInv
  <2>3. PICK n : n = ACursor(main')
    OBVIOUS
  <2>4. n \in Operations
    BY <2>3, SomeOperations
  <2>5. Shows(sh, n)'
    BY <1>1, <1>2, <2>1, <2>2, RestShows DEF Locating, Moving, Sending, Clearing, Homing
  <2>6. CursorShown(sh, n)' /\ Carried(n)'
    BY <1>1, <1>2, <2>1, <2>2, <2>3
       DEF CursorShown, Blinking, Stays, Carried, ACursor, Moving, Sending, Clearing, Homing, Asking
  <2>7. Doing(n)' = <<n>>
    BY <1>1, <1>2, <2>1 DEF Doing, Firsts, Carrying, Blinks, Blinking
  <2>8. CommandOps(command) = <<n>>
    BY <2>1, <2>3 DEF CommandOps, ACursor, CursorOp, INIT, CLS, ID, CURSOR_ON,
       CURSOR_OFF, DISPLAY_ON, DISPLAY_OFF
  <2> HIDE DEF Good
  <2> QED BY <1>6, <2>4, <2>5, <2>6, <2>7, <2>8
<1>9. CASE BeginInit
  <2>1. PICK n, r : n = [op |-> "init"] /\ r = WriteROM(OFFSET_INIT, 1)
    OBVIOUS
  <2>2. main' = "INIT_STROBED_ROM_WRITER" /\ req' = r /\ command = INIT
    BY <1>9, <2>1 DEF BeginInit, Begin, Ask
  <2>3. cursor'.row = 1 /\ cursor'.col = 1 /\ cursor'.en = cursor.en
    BY <1>9 DEF BeginInit, ScreenInv, CursorInv
  <2>4. n \in Operations
    BY <2>1, SomeOperations
  <2>5. InFlight(r, sh.screen, sh.pen)'
    BY <1>1, <1>2, <2>2, RestAsks
  <2>6. Shows(sh, n)'
    BY <1>1, <2>1, <2>2, <2>3, <2>5 DEF Shows, Locating, Moving, Sending, Pos
  <2>7. CursorShown(sh, n)' /\ Carried(n)'
    BY <1>1, <1>3, <2>1, <2>2, <2>3
       DEF CursorShown, Blinking, Stays, Carried, Moving, Sending, Clearing, Homing, Asking
  <2>8. Doing(n)' = <<n>>
    BY <1>1, <2>2 DEF Doing, Firsts, Carrying, Blinks, Sending
  <2>9. CommandOps(command) = <<n>>
    BY <2>1, <2>2 DEF CommandOps, INIT, CLS, ID, CURSOR_ON, CURSOR_OFF, DISPLAY_ON, DISPLAY_OFF
  <2> HIDE DEF Good
  <2> QED BY <1>6, <2>4, <2>6, <2>7, <2>8, <2>9
<1>10. CASE BeginDisplay
  <2>1. PICK n, i : /\ n = [op |-> "power"]
                    /\ i = IF command = DISPLAY_ON THEN OFFSET_DISPLAY_ON ELSE OFFSET_DISPLAY_OFF
    OBVIOUS
  <2>2. PICK r : r = WriteROM(i, 0)
    OBVIOUS
  <2>3. /\ main' = "ROM_WRITE_SINGLE_STROBED_ROM_WRITER" /\ req' = r
        /\ command \in {DISPLAY_ON, DISPLAY_OFF} /\ cursor' = cursor
        /\ i \in {OFFSET_DISPLAY_ON, OFFSET_DISPLAY_OFF}
    BY <1>10, <2>1, <2>2 DEF BeginDisplay, Begin, Ask
  <2>4. n \in Operations
    BY <2>1, SomeOperations
  <2>5. InFlight(r, sh.screen, sh.pen)' /\ Pos = sh.pos
    BY <1>1, <1>2, <2>3, RestAsks
  <2>6. Shows(sh, n)'
    <3>1. Pos' = sh.pos
      BY <2>3, <2>5 DEF Pos
    <3> QED BY <1>1, <2>1, <2>2, <2>3, <2>5, <3>1 DEF Shows, Locating, Moving, Sending
  <2>7. CursorShown(sh, n)' /\ Carried(n)'
    BY <1>1, <1>3, <2>1, <2>3
       DEF CursorShown, Blinking, Stays, Carried, Moving, Sending, Clearing, Homing, Asking
  <2>8. Doing(n)' = <<n>>
    BY <1>1, <2>3 DEF Doing, Firsts, Carrying, Blinks, Sending
  <2>9. CommandOps(command) = <<n>>
    BY <2>1, <2>3 DEF CommandOps, INIT, CLS, ID, CURSOR_ON, CURSOR_OFF, DISPLAY_ON, DISPLAY_OFF
  <2> HIDE DEF Good
  <2> QED BY <1>6, <2>4, <2>6, <2>7, <2>8, <2>9
<1>11. CASE BeginCls
  <2>1. PICK n : n = [op |-> "cls"]
    OBVIOUS
  <2>2. main' = "CLSER_STROBED" /\ req' = Clear /\ command = CLS
    BY <1>11 DEF BeginCls, Begin, Ask
  <2>3. cursor'.row = 1 /\ cursor'.col = 1 /\ cursor'.en = cursor.en
    BY <1>11 DEF BeginCls, ScreenInv, CursorInv
  <2>4. n \in Operations
    BY <2>1, SomeOperations
  <2>5. InFlight(Clear, sh.screen, sh.pen)'
    BY <1>1, <1>2, <2>2, RestAsks
  <2>6. Shows(sh, n)'
    BY <1>1, <2>1, <2>2, <2>3, <2>5 DEF Shows, Locating, Moving, Sending, Clearing, Pos
  <2>7. CursorShown(sh, n)' /\ Carried(n)'
    BY <1>1, <1>3, <2>1, <2>2, <2>3
       DEF CursorShown, Blinking, Stays, Carried, Moving, Sending, Clearing, Homing, Asking
  <2>8. Doing(n)' = <<n>>
    BY <1>1, <2>2 DEF Doing, Firsts, Carrying, Blinks, Clearing
  <2>9. CommandOps(command) = <<n>>
    BY <2>1, <2>2 DEF CommandOps, INIT, CLS, ID, CURSOR_ON, CURSOR_OFF, DISPLAY_ON, DISPLAY_OFF
  <2> HIDE DEF Good
  <2> QED BY <1>6, <2>4, <2>6, <2>7, <2>8, <2>9
<1> HIDE DEF Good
<1> QED BY <1>7, <1>8, <1>9, <1>10, <1>11 DEF Start

\* The printer stays in place for the cursor alone, and forgets that it does.
AdvanceInv ==
  printer.advance = 0 =>
    /\ printer.run = 1 /\ Stays /\ printer.fsm \in {"IDLE", "STROBED_ROM_WRITER"}
    /\ printer.fsm = "IDLE" => printer.data \notin {CR, LF}

LEMMA CommandAdvances ==
  ASSUME NEW busy, NEW bus, NEW full, TurnsInv, AdvanceInv, Commanding(busy, bus, full)
  PROVE  AdvanceInv'
<1>1. printer.run = 0 /\ PrinterRecord
  BY PrinterIdle DEF TurnsInv, PrinterInv
<1>2. printer.advance = 1 /\ printer.fsm = "IDLE"
  BY <1>1 DEF AdvanceInv, TurnsInv, PrinterInv, Bit
<1>3. CASE PrintStep \/ IdStep(bus)
  <2>1. printer' = printer \/ \E char : Show(char)
    BY <1>3, PrintShows, IdShows
  <2>2. printer'.advance = printer.advance
    BY <1>1, <2>1, Shown
  <2> QED BY <1>2, <2>2 DEF AdvanceInv
<1>4. CASE CursorStep
  <2>1. CASE Pass("CURSOR_ON_OFF_CHPR_RUNNING", "IDLE")
    BY <1>2, <2>1 DEF Pass, AdvanceInv
  <2>2. CASE CursorOnReset \/ CursorOffReset
    <3>1. /\ printer'.run = 1 /\ printer'.fsm = printer.fsm
          /\ main' = "CURSOR_ON_OFF_CHPR_RUNNING"
      BY <1>1, <2>2 DEF CursorOnReset, CursorOffReset, PrinterRecord
    <3>2. printer'.data \in {CursorChar, Blank}
      BY <1>1, <2>2 DEF CursorOnReset, CursorOffReset, PrinterRecord
    <3> QED BY <1>2, <3>1, <3>2 DEF AdvanceInv, Stays, CR, LF, CursorChar, Blank
  <2> QED BY <1>4, <2>1, <2>2 DEF CursorStep
<1>5. CASE AtIdle(full, bus.w_rdy) \/ Start \/ Cls(busy) \/ WriteSingle(busy) \/ LocateStep(busy)
  <2>1. printer' = printer
    BY <1>5 DEF AtIdle, IdleBlinks, IdleTakes, IdleElse, Pass, Start, Begin, BeginNop, BeginInit,
       BeginDisplay, BeginCls, BeginCursor, BeginOther, Unknown, Cls, WriteSingle, LocateStep,
       LocateRow, LocateCol, Starved, AwaitUnit
  <2> QED BY <1>2, <2>1 DEF AdvanceInv
<1> QED BY <1>3, <1>4, <1>5 DEF Commanding

LEMMA PrinterAdvances ==
  ASSUME NEW busy, TurnsInv, AdvanceInv, Chpr(busy)
  PROVE  AdvanceInv'
<1>1. PrinterRecord /\ main' = main /\ printer.run = 1
  BY PrinterMoves DEF TurnsInv, PrinterInv
<1>2. CASE ChprStay
  BY <1>1, <1>2 DEF ChprStay, PrinterRecord, AdvanceInv
<1>3. CASE ChprWrite
  BY <1>1, <1>3 DEF ChprWrite, ToState, PrinterRecord, AdvanceInv, Stays
<1>4. CASE printer.advance # 0 /\ ~ChprStay
  <2>1. printer'.advance = printer.advance
    BY <1>1, <1>4 DEF Chpr, ChprReturn, ChprLine, ChprLineScrolls, ChprWrite, ChprAdvance,
       ChprAdvanceScrolls, ChprChain, ChprPass, ChprDone, ToState, PrinterRecord
  <2> QED BY <1>4, <2>1 DEF AdvanceInv
<1>5. CASE printer.advance = 0 /\ ~ChprStay /\ ~ChprWrite
  BY <1>5 DEF AdvanceInv, Chpr, ChprReturn, ChprLine, ChprLineScrolls, ChprAdvance,
     ChprAdvanceScrolls, ChprChain, ChprPass, ChprDone, Working
<1> QED BY <1>2, <1>3, <1>4, <1>5

\* A step of either FSM, from the operation op on the screen sh.
Here(sh, op) ==
  /\ TurnsInv /\ ScreenInv /\ UnitsInv /\ AdvanceInv /\ Obeying
  /\ op \in Operations /\ Stage(sh, op) /\ Units /\ AskedNext

\* A character handed to the printer.
LEMMA ShowsChar ==
  ASSUME NEW sh, NEW op, Here(sh, op), printer.run = 0, Resting, ~Blinking, NEW char, Show(char),
         cursor' = cursor, main' \in Running, main' # "CURSOR_ON_OFF_CHPR_RUNNING"
  PROVE  Stage(sh, CharOp(char))'
<1>1. PrinterRecord /\ printer.fsm = "IDLE" /\ printer.advance = 1
  BY DEF Here, TurnsInv, PrinterInv, AdvanceInv, Bit
<1>2. printer'.run = 1 /\ printer'.fsm = "IDLE" /\ printer'.advance = 1 /\ printer'.data = char
  BY <1>1 DEF Show, PrinterRecord
<1>3. Untouched(sh)' /\ (sh.blinking <=> cursor.en = 1)
  BY RestShows DEF Here
<1>4. Shows(sh, CharOp(char))'
  BY <1>2, <1>3 DEF Shows, Printing, PrintingAs, Stays, CharOp
<1>5. CursorShown(sh, CharOp(char))' /\ Carried(CharOp(char))'
  BY <1>2, <1>3 DEF CursorShown, Blinking, Stays, Carried, Running, Moving, Sending, Clearing, Homing,
     Asking, CharOp
<1> QED BY <1>4, <1>5 DEF Stage

\* A step that touches neither, from one resting state to another.
LEMMA GoesOn ==
  ASSUME NEW sh, NEW op, Here(sh, op), printer.run = 0, Resting, ~Blinking,
         cursor' = cursor, printer' = printer,
         main' \notin Locating \cup Moving \cup Sending \cup Clearing \cup Homing \cup Blinks,
         NEW next, main' \in Asking => next = [op |-> "id"]
  PROVE  Stage(sh, next)'
<1>1. Shows(sh, next)' /\ (sh.blinking <=> cursor.en = 1)
  BY RestShows DEF Here
<1>2. CursorShown(sh, next)'
  BY <1>1 DEF CursorShown, Blinking, Stays, Blinks
<1>3. Carried(next)'
  BY DEF Carried, Blinks
<1> QED BY <1>1, <1>2, <1>3 DEF Stage

\* The operations the user is still owed when the FSMs have come to rest.
Remaining ==
  IF main \in Firsts THEN <<CharOp(SecondHalf(rest))>> ELSE <<>>

\* What a step comes to that ends an operation, or answers ID.
Ended == Settled' /\ Obeying' /\ fifo_r_en' = 0

Failed(sh, op) ==
  /\ Ended /\ Fails /\ op = [op |-> "id"] /\ Doing(op) = <<op>> /\ Remaining' = <<>>
  /\ Untouched(sh)' /\ (sh.blinking <=> cursor'.en = 1)

Answered(sh, op) ==
  /\ ~Completes /\ ~Fails /\ Answers /\ ~Settled' /\ Obeying' /\ fifo_r_en' = 0
  /\ op = [op |-> "id"] /\ Doing(op) = <<op>> /\ rest \in Bytes
  /\ \E next \in Operations :
       /\ Stage(sh, next)'
       /\ Doing(next)' = <<CharOp(FirstHalf(rest)), CharOp(SecondHalf(rest))>>

LEMMA PrintGoes ==
  ASSUME NEW sh, NEW op, Here(sh, op), PrintStep
  PROVE  Silent(sh, op)
<1> DEFINE Good == Silent(sh, op)
<1> SUFFICES Good
  OBVIOUS
<1>1. /\ main \in {"PRINT_COUNT_WAIT", "PRINT_COUNT_STROBED_R_EN", "PRINT_DATA_WAIT",
            "PRINT_DATA_CHPR_RUNNING", "PRINT_BYTE_START",
            "PRINT_BYTE_STROBED_R_EN_CHPR_RUNNING", "PRINT_BYTE_SECOND_HALF_CHPR_RUNNING"}
      /\ printer.run = 0 /\ cursor' = cursor
  BY DEF PrintStep, PrintCount, PrintCounted, PrintData, PrintedData, PrintByteFirst, SecondDigit,
     Starved, Pass, AwaitUnit, From
<1>2. Resting /\ ~Blinking /\ asked /\ asked' /\ result = "BUSY"
  BY <1>1 DEF Here, Resting, Locating, Moving, Sending, Clearing, Homing, Blinking, Stays,
     Obeying, Blinks, AskedNext
<1>3. /\ \/ main' = "IDLE" /\ result' = "SUCCESS"
         \/ /\ result' = result
            /\ main' \in {"PRINT_COUNT_WAIT", "PRINT_COUNT_STROBED_R_EN", "PRINT_DATA_WAIT",
                 "PRINT_DATA_CHPR_RUNNING", "PRINT_BYTE_START",
                 "PRINT_BYTE_STROBED_R_EN_CHPR_RUNNING", "PRINT_BYTE_SECOND_HALF_CHPR_RUNNING"}
  BY DEF PrintStep, PrintCount, PrintCounted, PrintData, PrintedData, PrintByteFirst, SecondDigit,
     Starved, Pass, AwaitUnit, From, Finished
<1>4. Keeping /\ Obeying'
  BY <1>1, <1>2, <1>3 DEF Keeping, Completes, Fails, Answers, UnitWaits, Obeying, Blinks
<1>5. ASSUME NEW next \in Operations, Stage(sh, next)', Going(op, next)
      PROVE  Good
  BY <1>4, <1>5 DEF Silent
<1>6. main' \notin Locating \cup Moving \cup Sending \cup Clearing \cup Homing \cup Blinks \cup Asking
  BY <1>3 DEF Locating, Moving, Sending, Clearing, Homing, Blinks, Asking
<1>7. PICK next : next = [op |-> "cls"]
  OBVIOUS
<1>8. next \in Operations
  BY <1>7, SomeOperations
<1>9. ASSUME NEW char, Show(char)
       PROVE  printer'.run = 1
  BY <1>9, Shown DEF Here, TurnsInv, PrinterInv
\* Waiting for a byte, or done with one.
<1>10. ASSUME printer' = printer, main \notin Firsts,
             \/ fifo_r_en' = 0
             \/ fifo_r_en' = 1 /\ OpsAt(Expecting, Byte1) = <<>>
      PROVE  Good
  <2>1. main' \notin Firsts
    <3>1. ~PrintByteFirst
      BY <1>1, <1>10, <1>9 DEF PrintByteFirst
    <3> QED BY <1>10, <3>1
            DEF PrintStep, PrintCount, PrintCounted, PrintData, PrintedData, SecondDigit, Starved, Pass,
                AwaitUnit, From, Finished, Firsts
  <2>2. Stage(sh, next)'
    BY <1>1, <1>2, <1>6, <1>10, GoesOn
  <2>3. Doing(next)' = <<>>
    BY <1>1, <1>3, <1>6, <1>10, <2>1 DEF Doing, Carrying
  <2>4. Doing(op) = <<>>
    BY <1>1, <1>10 DEF Doing, Carrying, Blinks, Moving, Sending, Clearing, Homing, Asking
  <2>5. Going(op, next)
    BY <1>10, <2>3, <2>4 DEF Going
  <2> HIDE DEF Good
  <2> QED BY <1>5, <1>8, <2>2, <2>5
\* A character for the printer.
<1>11. ASSUME NEW char \in Nat, Show(char), main' \in Running,
              Going(op, CharOp(char))
      PROVE  Good
  <2>1. main' # "CURSOR_ON_OFF_CHPR_RUNNING"
    BY <1>3
  <2>2. Stage(sh, CharOp(char))'
    BY <1>1, <1>2, <1>11, <2>1, ShowsChar
  <2>3. CharOp(char) \in Operations
    BY SomeOperations
  <2> HIDE DEF Good
  <2> QED BY <1>5, <1>11, <2>2, <2>3
<1>12. CASE PrintCount
  <2>1. OpsAt(Expecting, Byte1) = <<>> /\ fifo_r_en' = 1 /\ printer' = printer
    BY <1>12 DEF PrintCount, From, Expecting, OpsAt, Pop
  <2> HIDE DEF Good
  <2> QED BY <1>10, <1>12, <2>1 DEF PrintCount, From, Firsts
<1>13. CASE PrintCounted \/ PrintedData \/ Starved("PRINT_COUNT_WAIT") \/ Starved("PRINT_DATA_WAIT")
              \/ Starved("PRINT_BYTE_START") \/ AwaitUnit("PRINT_BYTE_SECOND_HALF_CHPR_RUNNING", 0)
  <2>1. fifo_r_en' = 0 /\ printer' = printer /\ main \notin Firsts
    BY <1>13 DEF PrintCounted, PrintedData, Starved, Pass, AwaitUnit, From, Quiet, Firsts
  <2> HIDE DEF Good
  <2> QED BY <1>10, <2>1
<1>14. CASE PrintData
  <2>1. /\ main = "PRINT_DATA_WAIT" /\ main' = "PRINT_DATA_CHPR_RUNNING" /\ Show(Byte1)
        /\ fifo_r_en' = 1 /\ Given
    BY <1>14 DEF PrintData, From, Pop
  <2>2. rest \in 0 .. 255 /\ rest > 0
    BY <2>1 DEF Here, ScreenInv, RestInv
  <2>3. Expecting.want = "char"
    BY <2>1, <2>2 DEF Expecting, Chars
  <2>4. Byte1 \in Expected(Expecting) /\ user \in Users
    BY <2>1, Operands DEF Here, ScreenInv, QueueInv, Popped
  <2>5. PICK char : char = Byte1
    OBVIOUS
  <2>6. char \in 0 .. 255
    BY <2>3, <2>4, <2>5, OpsTyped
  <2>7. OpsAt(Expecting, Byte1) = <<CharOp(char)>>
    BY <2>3, <2>5 DEF OpsAt
  <2>8. printer'.run = 1
    BY <1>9, <2>1
  <2>9. Doing(CharOp(char))' = <<CharOp(char)>>
    BY <2>1, <2>8 DEF Doing, Firsts, Carrying, Blinks
  <2>10. Doing(op) = <<>>
    BY <1>1, <2>1 DEF Doing, Firsts, Carrying, Blinks, Moving, Sending, Clearing, Homing, Asking
  <2>11. Going(op, CharOp(char))
    BY <2>1, <2>7, <2>9, <2>10 DEF Going
  <2>12. char \in Nat /\ main' \in Running /\ Show(char)
    BY <2>1, <2>5, <2>6 DEF Running
  <2> HIDE DEF Good
  <2> QED BY <1>11, <2>11, <2>12
<1>15. CASE PrintByteFirst
  <2>1. /\ main = "PRINT_BYTE_START" /\ main' = "PRINT_BYTE_STROBED_R_EN_CHPR_RUNNING"
        /\ Show(FirstHalf(Byte1)) /\ fifo_r_en' = 1 /\ Given /\ rest' = Byte1 % 16
    BY <1>15 DEF PrintByteFirst, From, Pop
  <2>2. Expecting.want = "byte"
    BY <2>1 DEF Expecting
  <2>3. Byte1 \in 0 .. 255
    BY <2>1, Operands DEF Here, Popped
  <2>4. PICK char, byte : byte = Byte1 /\ char = FirstHalf(byte)
    OBVIOUS
  <2>5. char \in Nat /\ SecondHalf(byte % 16) = SecondHalf(byte)
    BY <2>3, <2>4, AByte
  <2>6. OpsAt(Expecting, Byte1) = <<CharOp(char), CharOp(SecondHalf(byte))>>
    BY <2>2, <2>4 DEF OpsAt
  <2>7. printer'.run = 1
    BY <1>9, <2>1
  <2>8. SecondHalf(rest') = SecondHalf(byte)
    BY <2>1, <2>4, <2>5
  <2>9. Doing(CharOp(char))' = <<CharOp(char), CharOp(SecondHalf(rest'))>>
    BY <2>1, <2>7 DEF Doing, Firsts
  <2>10. Doing(op) = <<>>
    BY <1>1, <2>1 DEF Doing, Firsts, Carrying, Blinks, Moving, Sending, Clearing, Homing, Asking
  <2>11. Going(op, CharOp(char))
    BY <2>1, <2>6, <2>8, <2>9, <2>10 DEF Going
  <2>12. main' \in Running /\ Show(char)
    BY <2>1, <2>4 DEF Running
  <2> HIDE DEF Good
  <2> QED BY <1>11, <2>5, <2>11, <2>12
<1>16. CASE SecondDigit("PRINT_BYTE_STROBED_R_EN_CHPR_RUNNING", "PRINT_BYTE_SECOND_HALF_CHPR_RUNNING")
  <2>1. /\ main = "PRINT_BYTE_STROBED_R_EN_CHPR_RUNNING"
        /\ main' = "PRINT_BYTE_SECOND_HALF_CHPR_RUNNING"
        /\ Show(SecondHalf(rest)) /\ fifo_r_en' = 0
    BY <1>16 DEF SecondDigit, From, Quiet
  <2>2. PICK char : char = SecondHalf(rest)
    OBVIOUS
  <2>3. char \in Nat
    BY <2>2, AByte DEF Here, ScreenInv, RestInv
  <2>4. printer'.run = 1
    BY <1>9, <2>1
  <2>5. Doing(CharOp(char))' = <<CharOp(char)>>
    BY <2>1, <2>4 DEF Doing, Firsts, Carrying, Blinks
  <2>6. Doing(op) = <<CharOp(char)>>
    BY <1>1, <2>1, <2>2 DEF Doing, Firsts
  <2>7. Going(op, CharOp(char))
    BY <2>1, <2>5, <2>6 DEF Going
  <2>8. main' \in Running /\ Show(char)
    BY <2>1, <2>2 DEF Running
  <2> HIDE DEF Good
  <2> QED BY <1>11, <2>3, <2>7, <2>8
<1> HIDE DEF Good
<1> QED BY <1>12, <1>13, <1>14, <1>15, <1>16 DEF PrintStep

LEMMA IdGoes ==
  ASSUME NEW sh, NEW op, Here(sh, op), NEW bus, bus.r_data \in Bytes \/ bus.r_rdy = 0, IdStep(bus)
  PROVE  Silent(sh, op) \/ Failed(sh, op) \/ Answered(sh, op)
<1> DEFINE Good == Silent(sh, op) \/ Failed(sh, op) \/ Answered(sh, op)
<1> SUFFICES Good
  OBVIOUS
<1>1. /\ main \in Asking \cup {"ID_FIRST_HALF_CHPR_RUNNING", "ID_SECOND_HALF_CHPR_RUNNING"}
      /\ printer.run = 0 /\ cursor' = cursor /\ fifo_r_en' = 0
  BY DEF IdStep, Drive, IdQueue, IdReceive, IdReceived, IdFails, SecondDigit, AwaitUnit, From, Quiet,
     Asking
<1>2. Resting /\ ~Blinking /\ asked /\ asked' /\ result = "BUSY"
  BY <1>1 DEF Here, Resting, Locating, Moving, Sending, Clearing, Homing, Blinking, Stays,
     Obeying, Blinks, AskedNext, Asking
<1>3. PICK id : id = [op |-> "id"]
  OBVIOUS
<1>4. id \in Operations
  BY <1>3, SomeOperations
<1>5. main \in Asking => op = id /\ Doing(op) = <<id>>
  BY <1>1, <1>3
     DEF Here, Stage, Carried, Doing, Firsts, Carrying, Blinks, Asking
<1>6. ASSUME NEW char, Show(char)
      PROVE  printer'.run = 1
  BY <1>6, Shown DEF Here, TurnsInv, PrinterInv
\* Waiting for the controller.
<1>7. ASSUME printer' = printer, main \in Asking, main' \in Asking, result' = result,
             main' # main => main # "ID_RECV_STROBED_R_EN",
             main' = "ID_RECV_STROBED_R_EN" => rest' \in Bytes
      PROVE  Good
  <2>1. Stage(sh, id)'
    BY <1>1, <1>2, <1>3, <1>7, GoesOn
       DEF Asking, Locating, Moving, Sending, Clearing, Homing, Blinks
  <2>2. Doing(id)' = <<id>>
    BY <1>1, <1>7 DEF Doing, Firsts, Carrying, Blinks, Asking
  <2>3. Going(op, id)
    BY <1>1, <1>5, <1>7, <2>2 DEF Going
  <2>4. Keeping
    BY <1>1, <1>2, <1>7 DEF Keeping, Completes, Fails, Answers, UnitWaits, Asking
  <2>5. Obeying'
    BY <1>2, <1>7 DEF Obeying
  <2> QED BY <1>4, <2>1, <2>3, <2>4, <2>5 DEF Silent
<1>8. ASSUME NEW from \in Asking, NEW to \in Asking, NEW o, Drive(from, o, to),
             from # "ID_RECV_STROBED_R_EN", to # "ID_RECV_STROBED_R_EN"
      PROVE  Good
  <2>1. /\ main = from /\ main' = to /\ printer' = printer /\ result' = result
    BY <1>8 DEF Drive, From
  <2> HIDE DEF Good
  <2> QED BY <1>7, <1>8, <2>1
\* The display does not answer.
<1>9. ASSUME IdFails(bus), main \in Asking, main # "ID_RECV_STROBED_R_EN"
      PROVE  Good
  <2>1. main' = "IDLE" /\ result' = "FAILURE" /\ printer' = printer
    BY <1>9 DEF IdFails, Finished
  <2>2. Untouched(sh)' /\ (sh.blinking <=> cursor'.en = 1)
    BY <1>1, <1>2, RestShows DEF Here
  <2>3. Ended /\ Fails /\ Remaining' = <<>>
    BY <1>1, <1>2, <2>1 DEF Ended, Settled, Obeying, Blinks, Fails, Remaining, Firsts
  <2> QED BY <1>3, <1>5, <1>9, <2>2, <2>3 DEF Failed
<1>10. ASSUME NEW from \in Asking, NEW word, NEW to \in Asking, IdQueue(from, word, to, bus),
              from # "ID_RECV_STROBED_R_EN", to # "ID_RECV_STROBED_R_EN"
       PROVE  Good
  <2>1. \/ Drive(from, Put(word), to) \/ Drive(from, OwnIdle, from)
        \/ From(from) /\ IdFails(bus)
    BY <1>10 DEF IdQueue
  <2>2. From(from) => main = from
    BY DEF From
  <2> HIDE DEF Good
  <2> QED BY <1>8, <1>9, <1>10, <2>1, <2>2
<1>11. CASE \/ Drive("ID_START", Put("WRITE"), "ID_START_WRITE_STROBED_W_EN")
            \/ Drive("ID_START_WRITE_STROBED_W_EN", StartIt, "ID_START_WRITE_STROBED_STB")
            \/ Drive("ID_START_WRITE_STROBED_STB", OwnIdle, "ID_START_WRITE_UNSTROBED_STB")
            \/ Drive("ID_WRITE_CMD_STROBED_W_EN", OwnIdle, "ID_WRITE_CMD_UNSTROBED_W_EN")
            \/ Drive("ID_START_READ_STROBED_W_EN", OwnIdle, "ID_START_READ_UNSTROBED_W_EN")
  <2> HIDE DEF Good
  <2> QED BY <1>8, <1>11 DEF Asking
<1>12. CASE \/ IdQueue("ID_START_WRITE_UNSTROBED_STB", "DATA", "ID_WRITE_CMD_STROBED_W_EN", bus)
            \/ IdQueue("ID_WRITE_CMD_UNSTROBED_W_EN", "READ", "ID_START_READ_STROBED_W_EN", bus)
            \/ IdQueue("ID_START_READ_UNSTROBED_W_EN", "DATA", "ID_RECV_WAIT", bus)
  <2> HIDE DEF Good
  <2> QED BY <1>10, <1>12 DEF Asking
<1>13. CASE IdReceive(bus)
  <2>1. CASE /\ From("ID_RECV_WAIT") /\ bus.r_rdy = 1 /\ Quiet
             /\ rest' = bus.r_data /\ own' = TakeAnswer
             /\ main' = "ID_RECV_STROBED_R_EN"
             /\ UNCHANGED <<command, result, cursor, printer>>
    <3>1. /\ printer' = printer /\ main = "ID_RECV_WAIT" /\ result' = result
          /\ rest' \in Bytes /\ main' = "ID_RECV_STROBED_R_EN"
      BY <2>1 DEF From
    <3> HIDE DEF Good
    <3> QED BY <1>7, <3>1 DEF Asking
  <2>2. CASE From("ID_RECV_WAIT") /\ IdFails(bus)
    <3>1. main = "ID_RECV_WAIT"
      BY <2>2 DEF From
    <3> HIDE DEF Good
    <3> QED BY <1>9, <2>2, <3>1 DEF Asking
  <2>3. CASE Drive("ID_RECV_WAIT", OwnIdle, "ID_RECV_WAIT")
    <3> HIDE DEF Good
    <3> QED BY <1>8, <2>3 DEF Asking
  <2> HIDE DEF Good
  <2> QED BY <1>13, <2>1, <2>2, <2>3 DEF IdReceive
<1>14. CASE IdReceived(bus)
  <2>0. main = "ID_RECV_STROBED_R_EN" /\ rest \in Bytes
    BY <1>14 DEF IdReceived, Drive, From, Here, Obeying
  <2>1. CASE Drive("ID_RECV_STROBED_R_EN", OwnIdle, "ID_RECV_STROBED_R_EN")
    <3>1. /\ printer' = printer /\ result' = result /\ rest' = rest /\ main' = main
      BY <2>1 DEF Drive, From
    <3> HIDE DEF Good
    <3> QED BY <1>7, <2>0, <3>1 DEF Asking
  <2>2. CASE /\ Show(FirstHalf(rest)) /\ main' = "ID_FIRST_HALF_CHPR_RUNNING"
             /\ UNCHANGED <<command, result, rest, cursor>>
    <3>1. PICK char : char = FirstHalf(rest)
      OBVIOUS
    <3>2. char \in Nat
      BY <3>1, AByte DEF Here, ScreenInv, RestInv
    <3>3. printer'.run = 1 /\ Show(char) /\ rest' = rest
      BY <1>6, <2>2, <3>1
    <3>4. Stage(sh, CharOp(char))'
      BY <1>1, <1>2, <2>2, <3>3, ShowsChar DEF Running
    <3>5. Doing(CharOp(char))' = <<CharOp(char), CharOp(SecondHalf(rest))>>
      <4>1. Doing(CharOp(char))' = <<CharOp(char), CharOp(SecondHalf(rest'))>>
        BY <2>2, <3>3 DEF Doing, Firsts
      <4> QED BY <3>3, <4>1
    <3>6. ~Completes /\ ~Fails /\ Answers /\ ~Settled' /\ Obeying'
      BY <1>1, <1>2, <2>0, <2>2, <3>3
         DEF Completes, UnitWaits, Fails, Answers, Settled, Obeying
    <3>7. CharOp(char) \in Operations
      BY <3>2, SomeOperations
    <3>8. op = [op |-> "id"] /\ Doing(op) = <<op>>
      BY <1>3, <1>5, <2>0 DEF Asking
    <3> QED BY <1>1, <2>0, <3>1, <3>4, <3>5, <3>6, <3>7, <3>8 DEF Answered
  <2> HIDE DEF Good
  <2> QED BY <1>14, <2>1, <2>2 DEF IdReceived
<1>15. CASE SecondDigit("ID_FIRST_HALF_CHPR_RUNNING", "ID_SECOND_HALF_CHPR_RUNNING")
  <2>1. /\ main = "ID_FIRST_HALF_CHPR_RUNNING" /\ main' = "ID_SECOND_HALF_CHPR_RUNNING"
        /\ Show(SecondHalf(rest)) /\ result' = result
    BY <1>15 DEF SecondDigit, From, Quiet
  <2>2. PICK char : char = SecondHalf(rest)
    OBVIOUS
  <2>3. CharOp(char) \in Operations
    BY <2>2, AByte, SomeOperations DEF Here, ScreenInv, RestInv
  <2>4. printer'.run = 1 /\ Show(char)
    BY <1>6, <2>1, <2>2
  <2>5. Stage(sh, CharOp(char))'
    BY <1>1, <1>2, <2>1, <2>4, ShowsChar DEF Running
  <2>6. Doing(CharOp(char))' = <<CharOp(char)>>
    BY <2>1, <2>4 DEF Doing, Firsts, Carrying, Blinks
  <2>7. Doing(op) = <<CharOp(char)>>
    BY <1>1, <2>1, <2>2 DEF Doing, Firsts
  <2>8. Keeping /\ Obeying'
    BY <1>1, <1>2, <2>1 DEF Keeping, Completes, UnitWaits, Fails, Answers, Obeying
  <2> QED BY <1>1, <2>3, <2>5, <2>6, <2>7, <2>8 DEF Silent, Going
<1>16. CASE AwaitUnit("ID_SECOND_HALF_CHPR_RUNNING", 0)
  <2>1. /\ main = "ID_SECOND_HALF_CHPR_RUNNING" /\ main' = "IDLE" /\ result' = "SUCCESS"
        /\ printer' = printer
    BY <1>16 DEF AwaitUnit, From, Finished
  <2>2. Stage(sh, id)'
    BY <1>1, <1>2, <1>3, <2>1, GoesOn
       DEF Asking, Locating, Moving, Sending, Clearing, Homing, Blinks
  <2>3. Doing(id)' = <<>> /\ Doing(op) = <<>>
    BY <1>1, <2>1 DEF Doing, Firsts, Carrying, Blinks, Moving, Sending, Clearing, Homing, Asking
  <2>4. Keeping /\ Obeying'
    BY <1>1, <1>2, <2>1 DEF Keeping, Completes, UnitWaits, Fails, Answers, Obeying, Blinks
  <2> QED BY <1>1, <1>4, <2>2, <2>3, <2>4 DEF Silent, Going
<1> HIDE DEF Good
<1> QED BY <1>11, <1>12, <1>13, <1>14, <1>15, <1>16 DEF IdStep

LEMMA CursorGoes ==
  ASSUME NEW sh, NEW op, Here(sh, op), CursorStep
  PROVE  Silent(sh, op)
<1>1. /\ main \in Blinks /\ printer.run = 0 /\ fifo_r_en' = 0 /\ result' = result
      /\ cursor'.row = cursor.row /\ cursor'.col = cursor.col
  BY DEF CursorStep, CursorOnReset, CursorOffReset, Pass, From, Quiet, Blinks, Here, ScreenInv,
     CursorInv
<1>2. Resting /\ (asked' <=> asked)
  BY <1>1 DEF Resting, Blinks, Locating, Moving, Sending, Clearing, Homing, Here, AskedNext
<1>3. Untouched(sh)' /\ printer.fsm = "IDLE"
  BY <1>1, <1>2, RestShows DEF Here
<1>4. PrinterRecord /\ printer.advance = 1 /\ CursorInv
  BY <1>1 DEF Here, TurnsInv, PrinterInv, AdvanceInv, Bit, ScreenInv
<1>5. main' \in Blinks \cup {"IDLE"}
  BY DEF CursorStep, CursorOnReset, CursorOffReset, Pass, Blinks
<1>6. Keeping /\ Obeying'
  BY <1>1, <1>5 DEF Keeping, Completes, UnitWaits, Fails, Answers, Obeying, Blinks
<1>7. CASE CursorOnReset \/ CursorOffReset
  <2>1. PICK char : char = IF main = "CURSOR_ON_RESET" THEN CursorChar ELSE Blank
    OBVIOUS
  <2>2. /\ printer'.run = 1 /\ printer'.fsm = "IDLE" /\ printer'.advance = 0
        /\ printer'.data = char /\ main \in {"CURSOR_ON_RESET", "CURSOR_OFF_RESET"}
        /\ main' = "CURSOR_ON_OFF_CHPR_RUNNING"
    BY <1>3, <1>4, <1>7, <2>1 DEF CursorOnReset, CursorOffReset, From, PrinterRecord
  <2>3. cursor'.en = IF main = "CURSOR_ON_RESET" THEN 1 ELSE cursor.en
    BY <1>4, <1>7, <2>2 DEF CursorOnReset, CursorOffReset, From, CursorInv
  <2>4. op = CursorOp(char) /\ op.char = char /\ Blinking
    BY <2>1, <2>2 DEF Here, Stage, Carried, CursorOp, Blinking
  <2>5. Shows(sh, op)'
    BY <1>3, <2>2, <2>4 DEF Shows, Printing, PrintingAs, Stays
  <2>6. Carried(op)'
    BY <2>1, <2>2, <2>4
       DEF Carried, Stays, CursorOp, Moving, Sending, Clearing, Homing, Asking
  <2>7. IF asked THEN cursor.en = 0
                 ELSE sh.blinking /\ (main # "CURSOR_ON_RESET" => cursor.en = 1)
    BY <2>2, <2>4 DEF Here, Stage, CursorShown, Stays
  <2>8. CursorShown(sh, op)'
    BY <1>2, <2>1, <2>2, <2>3, <2>4, <2>7 DEF CursorShown, Blinking, Stays, CursorChar, Blank
  <2>9. Doing(op) = IF asked THEN <<op>> ELSE <<>>
    BY <1>1, <2>2, <2>4 DEF Doing, Firsts, Carrying, Blinks
  <2>10. Doing(op)' = IF asked THEN <<op>> ELSE <<>>
    BY <1>2, <2>2 DEF Doing, Firsts, Carrying, Blinks, Blinking, Stays
  <2> QED BY <1>1, <1>6, <2>5, <2>6, <2>8, <2>9, <2>10 DEF Silent, Going, Here, Stage
<1>8. CASE Pass("CURSOR_ON_OFF_CHPR_RUNNING", "IDLE")
  <2>1. /\ main = "CURSOR_ON_OFF_CHPR_RUNNING" /\ main' = "IDLE" /\ cursor' = cursor
        /\ printer' = printer
    BY <1>8 DEF Pass, From
  <2>2. ~Blinking
    BY <1>1, <2>1 DEF Blinking
  <2>3. Stage(sh, op)'
    BY <1>1, <1>2, <2>1, <2>2, GoesOn
       DEF Asking, Locating, Moving, Sending, Clearing, Homing, Blinks
  <2>4. Doing(op)' = <<>> /\ Doing(op) = <<>>
    BY <1>1, <2>1, <2>2 DEF Doing, Firsts, Carrying, Blinks, Moving, Sending, Clearing, Homing, Asking
  <2> QED BY <1>1, <1>6, <2>3, <2>4 DEF Silent, Going, Here
<1> QED BY <1>7, <1>8 DEF CursorStep

\* What carrying out op makes of sh; turned says how far INIT turns the rows.
Performs(sh, op) ==
  \/ /\ op = CharOp(op.char)
     /\ Screen' = EndScreen(sh, op.char, FALSE) /\ Pos' = EndPos(sh, op.char, FALSE)
     /\ Pen' = EndPen(sh, op.char, FALSE) /\ (sh.blinking <=> cursor'.en = 1)
  \/ /\ op = LocateOp(op.row, op.col) /\ Screen' = sh.screen
     /\ Pos' = To(op.row, op.col, sh.pos) /\ Pen' = To(op.row, op.col, sh.pen)
     /\ (sh.blinking <=> cursor'.en = 1)
  \/ /\ op = [op |-> "cls"] /\ Screen' = BlankScreen /\ Pos' = <<1, 1>> /\ Pen' = <<1, 1>>
     /\ (sh.blinking <=> cursor'.en = 1)
  \/ /\ op = [op |-> "init"] /\ (\E k \in 1 .. LastRow : Screen' = TurnedBy(sh.screen, k))
     /\ Pos' = <<1, 1>> /\ Pen' = <<1, LastCol>> /\ (sh.blinking <=> cursor'.en = 1)
  \/ /\ op = [op |-> "power"] /\ Untouched(sh)' /\ (sh.blinking <=> cursor'.en = 1)
  \/ /\ op = CursorOp(op.char) /\ op.char \in {CursorChar, Blank}
     /\ Screen' = Inked(sh.screen, sh.pen, op.char) /\ Pos' = sh.pos /\ Pen' = sh.pos
     /\ (cursor'.en = 1 <=> op.char = CursorChar)

Performed(sh, op) ==
  /\ Ended /\ Completes /\ Performs(sh, op) /\ Doing(op) = <<op>> \o Remaining'

\* A unit that is not busy any more has carried out its request.
LEMMA Lands ==
  ASSUME NEW r \in Asks, NEW s, NEW n, InFlight(r, s, n), req = None, work.unit # r.unit
  PROVE  work = None /\ Landed(r, s, n)
  BY AskKinds DEF InFlight

LEMMA NotBusy ==
  ASSUME NEW unit, BusyBit(unit) = 0 PROVE work.unit # unit
  BY DEF BusyBit

LEMMA Unasked ==
  ASSUME TurnsInv, printer.run = 0,
         main \in UnitWaits \cup {"CLSER_UNSTROBED"}
  PROVE  req = None
<1>1. printer.fsm = "IDLE"
  BY DEF TurnsInv, PrinterInv
<1>2. \A unit : ~Strobing(unit)
  BY <1>1 DEF Strobing, UnitWaits
<1> QED BY <1>2 DEF TurnsInv, RequestInv

\* A unit's command carried out, and the command FSM's with it.
LEMMA UnitEnds ==
  ASSUME NEW sh, NEW op, Here(sh, op), NEW unit, AwaitUnit(main, BusyBit(unit)),
         main \in UnitWaits, work.unit # unit,
         NEW r \in Asks, NEW s, NEW n, InFlight(r, s, n), r.unit = unit, Doing(op) = <<op>>
  PROVE  /\ Landed(r, s, n) /\ Screen' = Screen /\ Pen' = Pen /\ Pos' = Pos
         /\ Ended /\ Completes /\ Doing(op) = <<op>> \o Remaining'
         /\ (sh.blinking <=> cursor.en = 1) /\ cursor' = cursor
<1>1. /\ printer.run = 0 /\ printer' = printer /\ cursor' = cursor /\ fifo_r_en' = 0
      /\ main' = "IDLE" /\ result' = "SUCCESS"
  BY DEF AwaitUnit, From, Finished, Quiet, BusyBit
<1>2. req = None
  BY <1>1, Unasked DEF Here
<1>3. work = None /\ Landed(r, s, n)
  BY <1>2, Lands
<1>4. Screen' = Screen /\ Pen' = Pen
  BY <1>2, <1>3, NothingMoves DEF Here
<1>5. Ended /\ Completes
  BY <1>1 DEF Ended, Settled, Completes, Obeying, Blinks
<1>6. Remaining' = <<>>
  BY <1>1 DEF Remaining, Firsts
<1>7. <<op>> \o <<>> = <<op>>
  OBVIOUS
<1>8. sh.blinking <=> cursor.en = 1
  BY DEF Here, Stage, CursorShown, Blinking, Stays, UnitWaits
<1> QED BY <1>1, <1>3, <1>4, <1>5, <1>6, <1>7, <1>8 DEF Pos

\* A wait that goes on.
LEMMA WaitGoes ==
  ASSUME NEW sh, NEW op, Here(sh, op), printer.run = 0, printer' = printer, cursor' = cursor,
         main \in Moving \cup Sending \cup Clearing \cup Homing, Quiet, result' = result,
         main' \in Moving \cup Sending \cup Clearing \cup Homing, main \in UnitWaits => main' = main,
         Shows(sh, op)',
         main' \in Moving => op = LocateOp(op.row, op.col),
         main' \in Sending => op = [op |-> op.op] /\ op.op \in {"init", "power"},
         main' \in Clearing \cup Homing => op = [op |-> "cls"]
  PROVE  Silent(sh, op)
<1>1. /\ main \notin Blinks \cup Firsts \cup Asking \cup {"IDLE", "START_STROBED_FIFO_IN_R_EN"}
      /\ main' \notin Blinks \cup Firsts \cup Asking \cup {"IDLE", "START_STROBED_FIFO_IN_R_EN"}
  BY DEF Moving, Sending, Clearing, Homing, Blinks, Firsts, Asking
<1>2. asked /\ asked' /\ result = "BUSY"
  BY <1>1 DEF Here, Obeying, AskedNext
<1>3. ~Blinking /\ ~Blinking'
  BY <1>1 DEF Blinking, Stays, Blinks
<1>4. CursorShown(sh, op)'
  BY <1>3 DEF Here, Stage, CursorShown
<1>5. Carried(op)'
  BY <1>1 DEF Carried, Blinks
<1>6. Doing(op) = <<op>> /\ Doing(op)' = <<op>>
  BY <1>1 DEF Doing, Carrying
<1>7. Keeping
  BY <1>1, <1>2 DEF Keeping, Completes, Fails, Answers, Asking
<1>8. Obeying'
  BY <1>1, <1>2 DEF Obeying, Asking
<1> QED BY <1>4, <1>5, <1>6, <1>7, <1>8 DEF Silent, Going, Stage, Here, Quiet

LEMMA SomeAsks ==
  /\ Clear \in Asks /\ Scroll \in Asks /\ WriteROM(OFFSET_INIT, 1) \in Asks
  /\ \A i \in {OFFSET_DISPLAY_ON, OFFSET_DISPLAY_OFF} : WriteROM(i, 0) \in Asks
  /\ \A r \in 0 .. LastRow, c \in 0 .. LastCol : Locate(r, c) \in Asks
  /\ \A char \in Nat : WritesChar(char) \in Asks
  BY DEF Asks, WritesChar

LEMMA AnOperation ==
  ASSUME NEW op \in Operations, op = LocateOp(op.row, op.col)
  PROVE  op.row \in 0 .. LastRow /\ op.col \in 0 .. LastCol
  BY DEF Operations, LocateOp, CharOp, CursorOp

LEMMA LocateGoes ==
  ASSUME NEW sh, NEW op, Here(sh, op), LocateStep(Busy)
  PROVE  Silent(sh, op) \/ Performed(sh, op)
<1> DEFINE Good == Silent(sh, op) \/ Performed(sh, op)
<1> SUFFICES Good
  OBVIOUS
<1>1. /\ main \in {"LOCATE_ROW_WAIT", "LOCATE_ROW_STROBED_R_EN", "LOCATE_COL_WAIT",
            "LOCATE_COL_STROBED_R_EN", "LOCATE_UNSTROBED_LOCATOR"}
      /\ printer.run = 0 /\ printer' = printer
  BY DEF LocateStep, LocateRow, LocateCol, Starved, Pass, AwaitUnit, From
<1>2. asked /\ asked' /\ result = "BUSY" /\ CursorInv /\ rest \in 0 .. 255
  BY <1>1 DEF Here, Obeying, Blinks, AskedNext, ScreenInv, RestInv
<1>3. sh.blinking <=> cursor.en = 1
  BY <1>1 DEF Here, Stage, CursorShown, Blinking, Stays
<1>4. PICK next : next = [op |-> "cls"]
  OBVIOUS
<1>5. next \in Operations
  BY <1>4, SomeOperations
\* Before the request.
<1>6. ASSUME main \in {"LOCATE_ROW_WAIT", "LOCATE_ROW_STROBED_R_EN", "LOCATE_COL_WAIT"},
             main' \in {"LOCATE_ROW_WAIT", "LOCATE_ROW_STROBED_R_EN", "LOCATE_COL_WAIT"},
             result' = result, cursor'.en = cursor.en, req' = None,
             main' = "LOCATE_ROW_WAIT" => Pos' = sh.pos,
             main' # "LOCATE_ROW_WAIT" => Pos' = To(rest', 0, sh.pos),
             \/ fifo_r_en' = 0
             \/ fifo_r_en' = 1 /\ OpsAt(Expecting, Byte1) = <<>>
      PROVE  Good
  <2>1. req = None /\ work = None
    BY <1>1, <1>6, Rests DEF Here, Moving, Sending, Clearing, Homing
  <2>2. Screen' = sh.screen /\ Pen' = sh.pen
    <3>1. Screen = sh.screen /\ Pen = sh.pen
      BY <1>1, <1>6 DEF Here, Stage, Shows, Locating, Moving, Sending, Clearing, Homing, Untouched
    <3>2. Screen' = Screen /\ Pen' = Pen
      BY <2>1, NothingMoves DEF Here
    <3> QED BY <3>1, <3>2
  <2>3. Shows(sh, next)'
    BY <1>1, <1>6, <2>2 DEF Shows, Locating, Moving, Sending, Clearing, Homing, Untouched
  <2>4. CursorShown(sh, next)' /\ Carried(next)'
    BY <1>1, <1>3, <1>6
       DEF CursorShown, Blinking, Stays, Carried, Moving, Sending, Clearing, Homing, Asking
  <2>5. Doing(op) = <<>> /\ Doing(next)' = <<>>
    BY <1>1, <1>6 DEF Doing, Firsts, Carrying, Blinks, Moving, Sending, Clearing, Homing, Asking
  <2>6. Keeping /\ Obeying'
    BY <1>1, <1>2, <1>6 DEF Keeping, Completes, UnitWaits, Fails, Answers, Obeying
  <2> QED BY <1>5, <1>6, <2>3, <2>4, <2>5, <2>6 DEF Silent, Going, Stage
<1>7. CASE LocateRow
  <2>1. /\ main = "LOCATE_ROW_WAIT" /\ main' = "LOCATE_ROW_STROBED_R_EN" /\ rest' = Byte1
        /\ result' = result /\ req' = None /\ fifo_r_en' = 1
    BY <1>7 DEF LocateRow, From, Pop
  <2>2. OpsAt(Expecting, Byte1) = <<>>
    BY <2>1 DEF Expecting, OpsAt
  <2>3. Pos = sh.pos
    BY <1>1, <2>1 DEF Here, Stage, Shows, Locating, Moving, Sending, Clearing, Homing, Untouched
  <2>4. /\ cursor'.row = (IF Byte1 = 0 THEN cursor.row ELSE Byte1)
        /\ cursor'.col = cursor.col /\ cursor'.en = cursor.en
    BY <1>2, <1>7 DEF LocateRow, CursorInv
  <2>5. Pos' = To(rest', 0, sh.pos)
    BY <2>1, <2>3, <2>4 DEF Pos, To
  <2> HIDE DEF Good
  <2> QED BY <1>6, <2>1, <2>2, <2>4, <2>5
<1>8. CASE Starved("LOCATE_ROW_WAIT") \/ Starved("LOCATE_COL_WAIT")
             \/ Pass("LOCATE_ROW_STROBED_R_EN", "LOCATE_COL_WAIT")
  <2>1. /\ main \in {"LOCATE_ROW_WAIT", "LOCATE_ROW_STROBED_R_EN", "LOCATE_COL_WAIT"}
        /\ main' \in {"LOCATE_ROW_WAIT", "LOCATE_ROW_STROBED_R_EN", "LOCATE_COL_WAIT"}
        /\ main' = "LOCATE_ROW_WAIT" <=> main = "LOCATE_ROW_WAIT"
        /\ result' = result /\ req' = None /\ fifo_r_en' = 0 /\ cursor' = cursor /\ rest' = rest
    BY <1>8 DEF Starved, Pass, From, Quiet
  <2>2. Pos = IF main = "LOCATE_ROW_WAIT" THEN sh.pos ELSE To(rest, 0, sh.pos)
    BY <1>1, <2>1 DEF Here, Stage, Shows, Locating, Moving, Sending, Clearing, Homing, Untouched
  <2>3. Pos' = Pos
    BY <2>1 DEF Pos
  <2>4. cursor'.en = cursor.en
    BY <2>1
  <2> HIDE DEF Good
  <2> QED BY <1>6, <2>1, <2>2, <2>3, <2>4
<1>9. CASE LocateCol
  <2>1. /\ main = "LOCATE_COL_WAIT" /\ main' = "LOCATE_COL_STROBED_R_EN"
        /\ result' = result /\ fifo_r_en' = 1 /\ Given /\ req' = Locate(rest, Byte1)
    BY <1>9 DEF LocateCol, From
  <2>2. rest \in 0 .. LastRow /\ Byte1 \in 0 .. LastCol
    BY <2>1, <1>2, Operands, Sizes DEF Here, Popped, ScreenInv, RestInv
  <2>3. PICK r, c, o : r = rest /\ c = Byte1 /\ o = LocateOp(r, c)
    OBVIOUS
  <2>4. o \in Operations /\ o = LocateOp(o.row, o.col) /\ o.row = r /\ o.col = c
    BY <2>2, <2>3, SomeOperations DEF LocateOp
  <2>5. OpsAt(Expecting, Byte1) = <<o>>
    BY <2>1, <2>3 DEF Expecting, OpsAt
  <2>6. Screen = sh.screen /\ Pen = sh.pen /\ Pos = To(rest, 0, sh.pos)
    BY <1>1, <2>1 DEF Here, Stage, Shows, Locating, Moving, Sending, Clearing, Homing
  <2>7. cursor'.en = cursor.en /\ Pos' = To(r, c, sh.pos)
    <3>1. /\ cursor'.row = cursor.row /\ cursor'.en = cursor.en
          /\ cursor'.col = (IF Byte1 = 0 THEN cursor.col ELSE Byte1)
      BY <1>2, <1>9 DEF LocateCol, CursorInv
    <3> QED BY <2>3, <2>6, <3>1 DEF Pos, To
  <2>8. InFlight(Locate(r, c), sh.screen, sh.pen)'
    <3>1. req = None /\ work = None
      BY <1>1, <2>1, Rests DEF Here, Moving, Sending, Clearing, Homing
    <3>2. PICK q : q = Locate(r, c)
      OBVIOUS
    <3>3. InFlight(q, Screen, Pen)' /\ Screen' = Screen /\ Pen' = Pen
      BY <2>1, <2>3, <3>1, <3>2, Launches, NothingMoves DEF Here
    <3> QED BY <2>6, <3>2, <3>3 DEF InFlight
  <2>9. Shows(sh, o)'
    BY <1>1, <2>1, <2>4, <2>7, <2>8 DEF Shows, Locating, Moving
  <2>10. CursorShown(sh, o)' /\ Carried(o)'
    BY <1>1, <1>3, <2>1, <2>4, <2>7
       DEF CursorShown, Blinking, Stays, Carried, Moving, Sending, Clearing, Homing, Asking
  <2>11. Doing(op) = <<>> /\ Doing(o)' = <<o>>
    BY <1>1, <2>1 DEF Doing, Firsts, Carrying, Blinks, Moving, Sending, Clearing, Homing, Asking
  <2>12. Keeping /\ Obeying'
    BY <1>1, <1>2, <2>1 DEF Keeping, Completes, UnitWaits, Fails, Answers, Obeying
  <2> QED BY <2>1, <2>4, <2>5, <2>9, <2>10, <2>11, <2>12 DEF Silent, Going, Stage
<1>10. CASE Pass("LOCATE_COL_STROBED_R_EN", "LOCATE_UNSTROBED_LOCATOR")
             \/ AwaitUnit("LOCATE_UNSTROBED_LOCATOR", Busy.locator)
  <2>1. main \in Moving /\ cursor' = cursor /\ Quiet
    BY <1>10 DEF Moving, Pass, AwaitUnit, From
  <2>2. Pos = To(op.row, op.col, sh.pos) /\ InFlight(Locate(op.row, op.col), sh.screen, sh.pen)
    BY <1>1, <2>1 DEF Here, Stage, Shows, Moving, Locating
  <2>3. op = LocateOp(op.row, op.col)
    BY <2>1 DEF Here, Stage, Carried
  <2>4. PICK r : r = Locate(op.row, op.col)
    OBVIOUS
  <2>5. op.row \in 0 .. LastRow /\ op.col \in 0 .. LastCol
    BY <2>3, AnOperation DEF Here
  <2>6. r \in Asks
    BY <2>4, <2>5, SomeAsks
  <2>7. CASE main' \in Moving /\ result' = result /\ (main \in UnitWaits => main' = main)
    <3>1. InFlight(r, sh.screen, sh.pen)'
      BY <2>1, <2>2, <2>4, <2>6, Flies DEF Here, Quiet
    <3>2. Pos' = Pos
      BY <2>1 DEF Pos
    <3>3. Shows(sh, op)'
      BY <1>1, <2>2, <2>4, <2>7, <3>1, <3>2 DEF Shows, Locating, Moving
    <3>4. main' \notin Sending \cup Clearing \cup Homing
      BY <2>7 DEF Moving, Sending, Clearing, Homing
    <3>5. Silent(sh, op)
      BY <1>1, <2>1, <2>3, <2>7, <3>3, <3>4, WaitGoes
    <3> QED BY <3>5
  <2>8. CASE /\ AwaitUnit("LOCATE_UNSTROBED_LOCATOR", Busy.locator) /\ BusyBit("locator") = 0
             /\ main = "LOCATE_UNSTROBED_LOCATOR"
    <3>1. AwaitUnit(main, BusyBit("locator")) /\ main \in UnitWaits /\ r.unit = "locator"
      BY <2>4, <2>8 DEF Busy, UnitWaits, Locate
    <3>2. Doing(op) = <<op>>
      BY <1>1, <2>8 DEF Doing, Firsts, Carrying, Blinks, Moving
    <3>3. work.unit # "locator"
      BY <2>8, NotBusy
    <3>4. InFlight(r, sh.screen, sh.pen)
      BY <2>2, <2>4
    <3>5. /\ Landed(r, sh.screen, sh.pen) /\ Screen' = Screen /\ Pen' = Pen /\ Pos' = Pos
          /\ Ended /\ Completes /\ Doing(op) = <<op>> \o Remaining'
          /\ (sh.blinking <=> cursor.en = 1) /\ cursor' = cursor
      BY <2>6, <3>1, <3>2, <3>3, <3>4, UnitEnds
    <3>6. Screen = sh.screen /\ Pen = To(op.row, op.col, sh.pen)
      BY <2>4, <3>1, <3>5 DEF Landed, Locate
    <3> QED BY <2>2, <2>3, <3>5, <3>6 DEF Performed, Performs
  <2> HIDE DEF Good
  <2> QED BY <1>10, <2>7, <2>8
          DEF Pass, AwaitUnit, From, Moving, Busy, BusyBit, UnitWaits
<1> HIDE DEF Good
<1> QED BY <1>7, <1>8, <1>9, <1>10 DEF LocateStep

LEMMA PensPlace == ASSUME DisplayInv PROVE Pen \in Places
<1>1. Pen = PenOf(start, point) /\ start \in Lines /\ point.line \in Lines /\ point.page \in Pages
  BY SeenIs DEF DisplayInv
<1>2. Pen[1] \in 1 .. LastRow /\ Pen[2] \in 1 .. LastCol
  BY <1>1, PenRange
<1> QED BY <1>2 DEF Pen, Places

LEMMA ClsGoes ==
  ASSUME NEW sh, NEW op, Here(sh, op), Cls(Busy)
  PROVE  Silent(sh, op) \/ Performed(sh, op)
<1> DEFINE Good == Silent(sh, op) \/ Performed(sh, op)
<1> SUFFICES Good
  OBVIOUS
<1>1. /\ main \in Clearing \cup Homing /\ printer.run = 0 /\ printer' = printer /\ cursor' = cursor
  BY DEF Cls, Pass, AwaitUnit, From, Clearing, Homing
<1>2. op = [op |-> "cls"] /\ Pos = <<1, 1>> /\ cursor.row = 1 /\ cursor.col = 1
  <2>1. op = [op |-> "cls"] /\ Pos = <<1, 1>>
    BY <1>1 DEF Here, Stage, Carried, Shows, Clearing, Homing, Locating, Moving, Sending
  <2> QED BY <2>1 DEF Pos
<1>3. Pos' = <<1, 1>>
  BY <1>1, <1>2 DEF Pos
<1>4. 1 \in 0 .. LastRow /\ 1 \in 0 .. LastCol
  BY Sizes
<1>5. PICK home : home = Locate(1, 1)
  OBVIOUS
<1>6. Clear \in Asks /\ home \in Asks
  BY <1>4, <1>5, SomeAsks
<1>7. ASSUME Quiet, result' = result, main' \in Clearing \cup Homing, Shows(sh, op)',
             main \in UnitWaits => main' = main
      PROVE  Good
  <2>1. main' \notin Moving \cup Sending
    BY <1>7 DEF Clearing, Homing, Moving, Sending
  <2>2. Silent(sh, op)
    BY <1>1, <1>2, <1>7, <2>1, WaitGoes
  <2> QED BY <2>2
<1>8. CASE \/ Pass("CLSER_STROBED", "CLSER_UNSTROBED")
           \/ BusyBit("clser") = 1 /\ Pass("CLSER_UNSTROBED", "CLSER_UNSTROBED")
  <2>1. main \in Clearing /\ main' \in Clearing /\ Quiet /\ result' = result
    BY <1>8 DEF Pass, From, Clearing
  <2>2. InFlight(Clear, sh.screen, sh.pen)
    BY <1>1, <2>1 DEF Here, Stage, Shows, Clearing, Locating, Moving, Sending
  <2>3. InFlight(Clear, sh.screen, sh.pen)'
    <3>1. PICK r : r = Clear
      OBVIOUS
    <3>2. InFlight(r, sh.screen, sh.pen)'
      BY <1>6, <2>1, <2>2, <3>1, Flies DEF Here, Quiet
    <3> QED BY <3>1, <3>2
  <2>4. Shows(sh, op)'
    BY <1>1, <1>3, <2>1, <2>3 DEF Shows, Clearing, Locating, Moving, Sending
  <2>5. main \notin UnitWaits
    BY <2>1 DEF Clearing, UnitWaits
  <2> HIDE DEF Good
  <2> QED BY <1>7, <2>1, <2>4, <2>5
<1>9. CASE /\ From("CLSER_UNSTROBED") /\ BusyBit("clser") = 0
           /\ Ask(Locate(cursor.row, cursor.col))
           /\ main' = "CLSER_STROBED_LOCATOR"
           /\ UNCHANGED <<command, result, rest, cursor, printer, own>>
  <2>1. main = "CLSER_UNSTROBED" /\ req' = home /\ fifo_r_en' = 0
    BY <1>2, <1>5, <1>9 DEF From, Ask
  <2>2. InFlight(Clear, sh.screen, sh.pen)
    BY <1>1, <2>1 DEF Here, Stage, Shows, Clearing, Locating, Moving, Sending
  <2>3. req = None
    BY <1>1, <2>1, Unasked DEF Here
  <2>4. work = None /\ Screen = BlankScreen
    <3>1. PICK r : r = Clear
      OBVIOUS
    <3>2. r.unit = "clser" /\ work.unit # r.unit
      BY <1>9, <3>1, NotBusy DEF Clear
    <3>3. work = None /\ Landed(r, sh.screen, sh.pen)
      BY <1>6, <2>2, <2>3, <3>1, <3>2, Lands
    <3> QED BY <3>2, <3>3 DEF Landed
  <2>5. PICK n : n = Pen
    OBVIOUS
  <2>6. n \in Places
    BY <2>5, PensPlace DEF Here, ScreenInv
  <2>7. Screen' = Screen /\ Pen' = Pen /\ InFlight(home, Screen, Pen)'
    BY <2>1, <2>3, <2>4, NothingMoves, Launches DEF Here
  <2>8. InFlight(home, BlankScreen, n)'
    BY <2>4, <2>5, <2>7 DEF InFlight, BlankScreen
  <2>9. Shows(sh, op)'
    BY <1>1, <1>3, <1>5, <1>9, <2>6, <2>8 DEF Shows, Clearing, Homing, Locating, Moving, Sending, Places
  <2>10. asked /\ asked' /\ result = "BUSY" /\ main' \in Homing
    BY <1>9, <2>1 DEF Here, Obeying, Blinks, AskedNext, Homing
  <2>11. ~Blinking /\ ~Blinking'
    BY <1>9, <2>1 DEF Blinking, Stays
  <2>12. CursorShown(sh, op)'
    BY <1>1, <2>11 DEF Here, Stage, CursorShown
  <2>13. Carried(op)'
    BY <1>1, <1>2, <1>9
       DEF Carried, Moving, Sending, Clearing, Homing, Asking
  <2>14. Doing(op) = <<op>> /\ Doing(op)' = <<op>>
    BY <1>1, <1>9, <2>1 DEF Doing, Firsts, Carrying, Blinks, Clearing, Homing
  <2>15. Keeping /\ Obeying'
    BY <1>1, <1>9, <2>1, <2>10 DEF Keeping, Completes, UnitWaits, Fails, Answers, Obeying
  <2> QED BY <2>1, <2>9, <2>12, <2>13, <2>14, <2>15 DEF Silent, Going, Stage, Here
<1>10. CASE Pass("CLSER_STROBED_LOCATOR", "CLSER_UNSTROBED_LOCATOR")
              \/ AwaitUnit("CLSER_UNSTROBED_LOCATOR", Busy.locator)
  <2>1. main \in Homing /\ Quiet
    BY <1>10 DEF Pass, AwaitUnit, From, Homing
  <2>2. PICK n \in Places : InFlight(home, BlankScreen, n)
    BY <1>1, <1>5, <2>1 DEF Here, Stage, Shows, Clearing, Homing, Locating, Moving, Sending
  <2>3. CASE main' \in Homing /\ result' = result /\ (main \in UnitWaits => main' = main)
    <3>1. PICK s : s = BlankScreen
      OBVIOUS
    <3>2. InFlight(home, s, n)'
      BY <1>6, <2>1, <2>2, <3>1, Flies DEF Here, Quiet
    <3>3. InFlight(home, BlankScreen, n)'
      BY <3>1, <3>2 DEF BlankScreen
    <3>4. Shows(sh, op)'
      BY <1>1, <1>3, <1>5, <2>3, <3>3 DEF Shows, Clearing, Homing, Locating, Moving, Sending, Places
    <3> HIDE DEF Good
    <3> QED BY <1>7, <2>1, <2>3, <3>4
  <2>4. CASE /\ AwaitUnit("CLSER_UNSTROBED_LOCATOR", Busy.locator) /\ BusyBit("locator") = 0
             /\ main = "CLSER_UNSTROBED_LOCATOR"
    <3>1. AwaitUnit(main, BusyBit("locator")) /\ main \in UnitWaits /\ home.unit = "locator"
      BY <1>5, <2>4 DEF Busy, UnitWaits, Locate
    <3>2. Doing(op) = <<op>>
      BY <1>1, <2>4 DEF Doing, Firsts, Carrying, Blinks, Homing
    <3>3. work.unit # "locator"
      BY <2>4, NotBusy
    <3>4. PICK s : s = BlankScreen
      OBVIOUS
    <3>5. InFlight(home, s, n)
      BY <2>2, <3>4
    <3>6. /\ Landed(home, s, n) /\ Screen' = Screen /\ Pen' = Pen /\ Pos' = Pos
          /\ Ended /\ Completes /\ Doing(op) = <<op>> \o Remaining'
          /\ (sh.blinking <=> cursor.en = 1) /\ cursor' = cursor
      BY <1>6, <3>1, <3>2, <3>3, <3>5, UnitEnds
    <3>7. Screen = BlankScreen /\ Pen = <<1, 1>>
      BY <1>5, <3>1, <3>4, <3>6 DEF Landed, Locate, To
    <3> QED BY <1>2, <3>6, <3>7 DEF Performed, Performs
  <2> HIDE DEF Good
  <2> QED BY <1>10, <2>3, <2>4 DEF Pass, AwaitUnit, From, Homing, Busy, BusyBit, UnitWaits
<1>11. PICK busy : busy = Busy
  OBVIOUS
<1>12. busy.clser = BusyBit("clser")
  BY <1>11 DEF Busy
<1>13. \/ Pass("CLSER_STROBED", "CLSER_UNSTROBED")
       \/ BusyBit("clser") = 1 /\ Pass("CLSER_UNSTROBED", "CLSER_UNSTROBED")
       \/ /\ From("CLSER_UNSTROBED") /\ BusyBit("clser") = 0
          /\ Ask(Locate(cursor.row, cursor.col))
          /\ main' = "CLSER_STROBED_LOCATOR"
          /\ UNCHANGED <<command, result, rest, cursor, printer, own>>
       \/ Pass("CLSER_STROBED_LOCATOR", "CLSER_UNSTROBED_LOCATOR")
       \/ AwaitUnit("CLSER_UNSTROBED_LOCATOR", Busy.locator)
  <2>1. Cls(busy)
    BY <1>11
  <2> QED BY <1>11, <1>12, <2>1 DEF Cls
<1> HIDE DEF Good
<1> QED BY <1>8, <1>9, <1>10, <1>13

LEMMA SinglesGo ==
  ASSUME NEW sh, NEW op, Here(sh, op), WriteSingle(Busy)
  PROVE  Silent(sh, op) \/ Performed(sh, op)
<1> DEFINE Good == Silent(sh, op) \/ Performed(sh, op)
<1> SUFFICES Good
  OBVIOUS
<1>1. main \in Sending /\ printer.run = 0 /\ printer' = printer /\ cursor' = cursor /\ Quiet
  BY DEF WriteSingle, Pass, AwaitUnit, From, Sending
<1>2. op = [op |-> op.op] /\ op.op \in {"init", "power"}
  BY <1>1 DEF Here, Stage, Carried
<1>3. PICK r : /\ r \in Asks /\ r.unit = "rom_writer" /\ InFlight(r, sh.screen, sh.pen)
               /\ \/ op.op = "init" /\ Pos = <<1, 1>> /\ r = WriteROM(OFFSET_INIT, 1)
                  \/ /\ op.op = "power" /\ Pos = sh.pos
                     /\ \E i \in {OFFSET_DISPLAY_ON, OFFSET_DISPLAY_OFF} : r = WriteROM(i, 0)
  <2>1. \/ /\ op.op = "init" /\ Pos = <<1, 1>>
           /\ InFlight(WriteROM(OFFSET_INIT, 1), sh.screen, sh.pen)
        \/ /\ op.op = "power" /\ Pos = sh.pos
           /\ \E i \in {OFFSET_DISPLAY_ON, OFFSET_DISPLAY_OFF} :
                InFlight(WriteROM(i, 0), sh.screen, sh.pen)
    BY <1>1 DEF Here, Stage, Shows, Sending, Locating, Moving
  <2>2. \A i, rst : WriteROM(i, rst).unit = "rom_writer"
    BY DEF WriteROM
  <2> QED BY <2>1, <2>2, SomeAsks
<1>4. Pos' = Pos
  BY <1>1 DEF Pos
<1>5. CASE main' \in Sending /\ result' = result /\ (main \in UnitWaits => main' = main)
  <2>1. InFlight(r, sh.screen, sh.pen)'
    BY <1>1, <1>3, Flies DEF Here, Quiet
  <2>2. Shows(sh, op)'
    BY <1>1, <1>3, <1>4, <1>5, <2>1 DEF Shows, Sending, Locating, Moving
  <2>3. main' \notin Moving \cup Clearing \cup Homing
    BY <1>5 DEF Moving, Sending, Clearing, Homing
  <2>4. Silent(sh, op)
    BY <1>1, <1>2, <1>5, <2>2, <2>3, WaitGoes
  <2> QED BY <2>4
<1>6. CASE /\ AwaitUnit("ROM_WRITE_SINGLE_UNSTROBED_ROM_WRITER", Busy.rom_writer)
           /\ BusyBit("rom_writer") = 0 /\ main = "ROM_WRITE_SINGLE_UNSTROBED_ROM_WRITER"
  <2>1. AwaitUnit(main, BusyBit("rom_writer")) /\ main \in UnitWaits
    BY <1>6 DEF Busy, UnitWaits
  <2>2. Doing(op) = <<op>>
    BY <1>1, <1>6 DEF Doing, Firsts, Carrying, Blinks, Sending
  <2>3. work.unit # "rom_writer"
    BY <1>6, NotBusy
  <2>4. /\ Landed(r, sh.screen, sh.pen) /\ Screen' = Screen /\ Pen' = Pen /\ Pos' = Pos
        /\ Ended /\ Completes /\ Doing(op) = <<op>> \o Remaining'
        /\ (sh.blinking <=> cursor.en = 1) /\ cursor' = cursor
    BY <1>3, <2>1, <2>2, <2>3, UnitEnds
  <2>5. CASE op.op = "init"
    <3>1. r.index = OFFSET_INIT /\ Pos = <<1, 1>>
      BY <1>3, <2>5 DEF WriteROM
    <3>2. Pen = <<1, LastCol>> /\ \E k \in 1 .. LastRow : Screen = TurnedBy(sh.screen, k)
      BY <1>3, <2>4, <3>1 DEF Landed
    <3>3. Pen' = <<1, LastCol>> /\ \E k \in 1 .. LastRow : Screen' = TurnedBy(sh.screen, k)
      BY <2>4, <3>2
    <3>4. op = [op |-> "init"]
      BY <1>2, <2>5
    <3> QED BY <2>4, <3>1, <3>3, <3>4 DEF Performed, Performs
  <2>6. CASE op.op = "power"
    <3>1. r.index \in {OFFSET_DISPLAY_ON, OFFSET_DISPLAY_OFF} /\ Pos = sh.pos
      BY <1>3, <2>6 DEF WriteROM
    <3>2. Screen = sh.screen /\ Pen = sh.pen
      BY <1>3, <2>4, <3>1 DEF Landed
    <3>3. Untouched(sh)'
      BY <2>4, <3>1, <3>2 DEF Untouched
    <3>4. op = [op |-> "power"]
      BY <1>2, <2>6
    <3> QED BY <2>4, <3>3, <3>4 DEF Performed, Performs
  <2> HIDE DEF Good
  <2> QED BY <1>2, <2>5, <2>6
<1> HIDE DEF Good
<1> QED BY <1>1, <1>5, <1>6
        DEF WriteSingle, Pass, AwaitUnit, From, Sending, Busy, BusyBit, UnitWaits

LEMMA PrinterRests ==
  ASSUME TurnsInv, printer.run = 1,
         printer.fsm \notin {"STROBED_LOCATOR", "STROBED_SCROLLER", "STROBED_ROM_WRITER"}
  PROVE  req = None /\ (printer.fsm = "IDLE" => work = None)
<1>1. main \in Running
  BY DEF TurnsInv, PrinterInv
<1>2. \A unit : ~Strobing(unit)
  BY <1>1 DEF Strobing, Running
<1>3. printer.fsm = "IDLE" => \A unit : ~Awaiting(unit)
  BY <1>1 DEF Awaiting, Running
<1> QED BY <1>2, <1>3 DEF TurnsInv, RequestInv, WorkInv

\* The next request, on the screen as it is now.
LEMMA NextAsk ==
  ASSUME DisplayInv, Units, req = None, work = None, NEW q, req' = q
  PROVE  \E s, n : s = Screen /\ n = Pen /\ n \in Places /\ InFlight(q, s, n)'
<1>1. PICK s, n : s = Screen /\ n = Pen
  OBVIOUS
<1>2. n \in Places
  BY <1>1, PensPlace
<1>3. InFlight(q, Screen, Pen)' /\ Screen' = s /\ Pen' = n
  BY <1>1, NothingMoves, Launches
<1> QED BY <1>1, <1>2, <1>3 DEF InFlight

\* The character the printer works on is the one of the operation carried out.
LEMMA TypingIs ==
  ASSUME NEW sh, NEW op, Here(sh, op), Chpr(Busy)
  PROVE  \E char \in Nat :
           /\ char = op.char /\ Printing(sh, char) /\ printer.run = 1 /\ main' = main
           /\ op = IF Stays THEN CursorOp(char) ELSE CharOp(char)
           /\ Stays => char \in {CursorChar, Blank}
<1>1. printer.run = 1 /\ main' = main
  BY PrinterMoves DEF Here, TurnsInv
<1>2. op = IF Stays THEN CursorOp(op.char) ELSE CharOp(op.char)
  BY <1>1 DEF Here, Stage, Carried
<1>3. op \in Operations /\ (op = CursorOp(op.char) \/ op = CharOp(op.char))
  BY <1>2 DEF Here
<1>4. op.char \in Nat
  BY <1>3 DEF Operations, CursorOp, CharOp, LocateOp
<1>5. Printing(sh, op.char) /\ (Stays => op.char \in {CursorChar, Blank})
  BY <1>1 DEF Here, Stage, Shows, Carried
<1> QED BY <1>1, <1>2, <1>4, <1>5

\* The printer at work on char.
Typing(sh, op, char, stay) ==
  /\ Here(sh, op) /\ printer.run = 1 /\ PrintingAs(sh, char, stay)
  /\ char \in Nat /\ stay \in BOOLEAN /\ (stay => char \in {CursorChar, Blank})

LEMMA TypingHas ==
  ASSUME NEW sh, NEW op, NEW char, NEW stay, Typing(sh, op, char, stay)
  PROVE  /\ PrinterRecord /\ CursorInv /\ DisplayInv /\ UnitsInv /\ Units
         /\ cursor.row \in 1 .. LastRow /\ cursor.col \in 1 .. LastCol
         /\ LastRow \in Nat /\ LastCol \in Nat /\ LastRow >= 1 /\ LastCol >= 1
         /\ printer.advance \in Bit
         /\ printer.fsm = "IDLE" =>
              /\ req = None /\ work = None /\ printer.data = char /\ Untouched(sh)
              /\ stay => printer.data \notin {CR, LF}
  BY PrinterRests, Sizes
     DEF Typing, Here, TurnsInv, PrinterInv, ScreenInv, CursorInv, PrintingAs, CR, LF, CursorChar, Blank

\* Where a step may leave the printer.
LEMMA ToLocator ==
  ASSUME NEW sh, NEW char, NEW stay, printer'.fsm \in {"STROBED_LOCATOR", "UNSTROBED_LOCATOR"},
         printer'.advance = 1, Pos' = EndPos(sh, char, stay),
         NEW e, e = EndScreen(sh, char, stay), NEW r \in 0 .. LastRow, NEW c \in 0 .. LastCol,
         NEW n \in Places, InFlight(Locate(r, c), e, n)', To(r, c, n) = EndPen(sh, char, stay)
  PROVE  PrintingAs(sh, char, stay)'
<1>1. InFlight(Locate(r, c), EndScreen(sh, char, stay), n)'
  BY DEF InFlight
<1>2. \E x \in 0 .. LastRow, y \in 0 .. LastCol, m \in Places :
        /\ InFlight(Locate(x, y), EndScreen(sh, char, stay), m)'
        /\ To(x, y, m) = EndPen(sh, char, stay)
  BY <1>1
<1> QED BY <1>2 DEF PrintingAs, Places, EndPos, EndScreen, EndPen, Wraps, Scrolls

LEMMA ToScroller ==
  ASSUME NEW sh, NEW char, NEW stay, printer'.fsm \in {"STROBED_SCROLLER", "UNSTROBED_SCROLLER"},
         printer'.advance = 1, Pos' = EndPos(sh, char, stay), Scrolls(sh, char, stay),
         NEW e, e = Drawn(sh, char), NEW n \in Places, InFlight(Scroll, e, n)'
  PROVE  PrintingAs(sh, char, stay)'
<1>1. InFlight(Scroll, Drawn(sh, char), n)'
  BY DEF InFlight
<1>2. \E m \in Places : InFlight(Scroll, Drawn(sh, char), m)'
  BY <1>1
<1> QED BY <1>2 DEF PrintingAs, Places, EndPos, Wraps, Scrolls, Drawn

LEMMA ToWriter ==
  ASSUME NEW sh, NEW char, NEW stay,
         printer'.fsm \in {"UNSTROBED_ROM_WRITER", "UNSTROBED_ROM_WRITER_NEEDS_SCROLL"},
         printer'.advance = 1, Pos' = EndPos(sh, char, stay), char \notin {CR, LF},
         printer'.fsm = "UNSTROBED_ROM_WRITER_NEEDS_SCROLL" <=> Scrolls(sh, char, stay),
         InFlight(WritesChar(char), sh.screen, sh.pen)'
  PROVE  PrintingAs(sh, char, stay)'
  BY DEF PrintingAs, EndPos, Wraps, Scrolls

\* A character that is not drawn.
LEMMA ReturnTypes ==
  ASSUME NEW sh, NEW op, NEW char, NEW stay, Typing(sh, op, char, stay),
         ChprReturn \/ ChprLine \/ ChprLineScrolls
  PROVE  PrintingAs(sh, char, stay)'
<1>1. /\ PrinterRecord /\ CursorInv /\ DisplayInv /\ Units /\ printer.fsm = "IDLE"
      /\ cursor.row \in 1 .. LastRow /\ cursor.col \in 1 .. LastCol
      /\ LastRow \in Nat /\ LastCol \in Nat /\ LastRow >= 1 /\ LastCol >= 1
      /\ char = printer.data /\ char \in {CR, LF} /\ req = None /\ work = None /\ Untouched(sh)
      /\ stay = FALSE /\ printer.advance \in Bit
  BY TypingHas DEF ChprReturn, ChprLine, ChprLineScrolls, Working, Typing
<1>2. printer.advance = 1
  BY <1>1 DEF Typing, PrintingAs, Bit
<1>3. PICK q : q = req'
  OBVIOUS
<1>4. PICK s, n : s = Screen /\ n = Pen /\ n \in Places /\ InFlight(q, s, n)'
  BY <1>1, <1>3, NextAsk
<1>5. s = sh.screen /\ n = sh.pen /\ cursor.row = sh.pos[1] /\ cursor.col = sh.pos[2]
  BY <1>1, <1>4 DEF Untouched, Pos
<1>6. Drawn(sh, char) = s
  BY <1>1, <1>5 DEF Drawn
<1>7. CASE ChprReturn
  <2>1. /\ char = CR /\ q = Locate(0, 1) /\ printer'.fsm = "STROBED_LOCATOR" /\ printer'.advance = 1
        /\ cursor'.row = cursor.row /\ cursor'.col = 1
    BY <1>1, <1>2, <1>3, <1>7 DEF ChprReturn, Ask, ToState, PrinterRecord, CursorInv
  <2>2. ~Wraps(sh, char, stay)
    BY <2>1 DEF Wraps, CR, LF
  <2>3. /\ EndPos(sh, char, stay) = <<sh.pos[1], 1>> /\ EndScreen(sh, char, stay) = s
        /\ EndPen(sh, char, stay) = <<n[1], 1>>
    BY <1>1, <1>5, <1>6, <2>1, <2>2 DEF EndPos, EndScreen, Scrolls, EndPen
  <2>4. Pos' = EndPos(sh, char, stay)
    BY <1>5, <2>1, <2>3 DEF Pos
  <2>5. To(0, 1, n) = EndPen(sh, char, stay)
    BY <2>3 DEF To
  <2>6. InFlight(Locate(0, 1), s, n)'
    BY <1>4, <2>1
  <2>7. 0 \in 0 .. LastRow /\ 1 \in 0 .. LastCol
    BY <1>1
  <2> QED BY <1>4, <2>1, <2>3, <2>4, <2>5, <2>6, <2>7, ToLocator
<1>8. CASE ChprLine
  <2>1. PICK r : r = cursor.row + 1
    OBVIOUS
  <2>2. /\ char = LF /\ q = Locate(r, 1) /\ printer'.fsm = "STROBED_LOCATOR" /\ printer'.advance = 1
        /\ cursor'.row = r /\ cursor'.col = 1 /\ cursor.row # LastRow
    BY <1>1, <1>2, <1>3, <1>8, <2>1 DEF ChprLine, Ask, ToState, PrinterRecord, CursorInv
  <2>3. r \in 0 .. LastRow /\ 1 \in 0 .. LastCol /\ r # 0 /\ cursor.row < LastRow
    BY <1>1, <2>1, <2>2
  <2>4. Wraps(sh, char, stay) /\ ~Scrolls(sh, char, stay)
    BY <1>1, <1>5, <2>2 DEF Wraps, Scrolls
  <2>5. /\ EndPos(sh, char, stay) = <<r, 1>> /\ EndScreen(sh, char, stay) = s
        /\ EndPen(sh, char, stay) = <<r, 1>>
    BY <1>1, <1>5, <1>6, <2>1, <2>2, <2>3, <2>4 DEF EndPos, EndScreen, EndPen, CR, LF
  <2>6. Pos' = EndPos(sh, char, stay)
    BY <2>2, <2>5 DEF Pos
  <2>7. To(r, 1, n) = EndPen(sh, char, stay)
    BY <2>3, <2>5 DEF To
  <2>8. InFlight(Locate(r, 1), s, n)'
    BY <1>4, <2>2
  <2> QED BY <1>4, <2>2, <2>3, <2>5, <2>6, <2>7, <2>8, ToLocator
<1>9. CASE ChprLineScrolls
  <2>1. /\ char = LF /\ q = Scroll /\ printer'.fsm = "STROBED_SCROLLER" /\ printer'.advance = 1
        /\ cursor'.row = cursor.row /\ cursor'.col = 1 /\ cursor.row = LastRow
    BY <1>1, <1>2, <1>3, <1>9 DEF ChprLineScrolls, Ask, ToState, PrinterRecord, CursorInv
  <2>2. Wraps(sh, char, stay) /\ Scrolls(sh, char, stay)
    BY <1>1, <1>5, <2>1 DEF Wraps, Scrolls
  <2>3. EndPos(sh, char, stay) = <<LastRow, 1>>
    BY <1>1, <1>5, <2>1, <2>2 DEF EndPos, CR, LF
  <2>4. Pos' = EndPos(sh, char, stay)
    BY <2>1, <2>3 DEF Pos
  <2>5. InFlight(Scroll, s, n)'
    BY <1>4, <2>1
  <2> QED BY <1>4, <1>6, <2>1, <2>2, <2>4, <2>5, ToScroller
<1> QED BY <1>7, <1>8, <1>9

LEMMA WriteTypes ==
  ASSUME NEW sh, NEW op, NEW char, NEW stay, Typing(sh, op, char, stay), ChprWrite
  PROVE  PrintingAs(sh, char, stay)'
<1>1. /\ PrinterRecord /\ DisplayInv /\ Units /\ printer.fsm = "IDLE"
      /\ char = printer.data /\ char \notin {CR, LF} /\ req = None /\ work = None /\ Untouched(sh)
  BY TypingHas DEF ChprWrite, Working
<1>2. PICK q : q = WritesChar(char)
  OBVIOUS
<1>3. /\ req' = q /\ printer'.fsm = "STROBED_ROM_WRITER" /\ printer'.advance = printer.advance
      /\ cursor' = cursor
  BY <1>1, <1>2 DEF ChprWrite, WritesChar, Ask, ToState, PrinterRecord
<1>4. PICK s, n : s = Screen /\ n = Pen /\ InFlight(q, s, n)'
  BY <1>1, <1>3, NextAsk
<1>5. s = sh.screen /\ n = sh.pen /\ Pos' = sh.pos
  BY <1>1, <1>3, <1>4 DEF Untouched, Pos
<1>6. InFlight(WritesChar(char), sh.screen, sh.pen)'
  BY <1>2, <1>4, <1>5 DEF WritesChar
<1>7. printer.advance = 0 <=> stay
  BY <1>1 DEF Typing, PrintingAs
<1> QED BY <1>1, <1>3, <1>5, <1>6, <1>7 DEF PrintingAs

\* Where the character leaves the position.
LEMMA AdvanceTypes ==
  ASSUME NEW sh, NEW op, NEW char, NEW stay, Typing(sh, op, char, stay),
         ChprStay \/ ChprAdvance \/ ChprAdvanceScrolls
  PROVE  PrintingAs(sh, char, stay)'
<1>1. /\ PrinterRecord /\ CursorInv /\ UnitsInv /\ Units /\ printer.fsm = "STROBED_ROM_WRITER"
      /\ cursor.row \in 1 .. LastRow /\ cursor.col \in 1 .. LastCol
      /\ LastRow \in Nat /\ LastCol \in Nat /\ LastRow >= 1 /\ LastCol >= 1
      /\ req' = None
  BY TypingHas DEF ChprStay, ChprAdvance, ChprAdvanceScrolls, Working, Quiet
<1>2. /\ char \notin {CR, LF} /\ Pos = sh.pos /\ InFlight(WritesChar(char), sh.screen, sh.pen)
      /\ printer.advance = 0 <=> stay
  BY <1>1 DEF Typing, PrintingAs
<1>3. PICK q : q = WritesChar(char)
  OBVIOUS
<1>4. q \in Asks
  BY <1>3, SomeAsks DEF Typing
<1>5. InFlight(q, sh.screen, sh.pen)'
  BY <1>1, <1>2, <1>3, <1>4, Flies
<1>6. InFlight(WritesChar(char), sh.screen, sh.pen)'
  BY <1>3, <1>5 DEF WritesChar
<1>7. cursor.row = sh.pos[1] /\ cursor.col = sh.pos[2]
  BY <1>2 DEF Pos
<1>8. CASE ChprStay
  <2>1. printer'.fsm = "UNSTROBED_ROM_WRITER" /\ printer'.advance = 1 /\ cursor' = cursor
    BY <1>1, <1>8 DEF ChprStay, PrinterRecord
  <2>2. ~Scrolls(sh, char, stay) /\ EndPos(sh, char, stay) = sh.pos
    BY <1>2, <1>8 DEF ChprStay, Scrolls, Wraps, EndPos
  <2>3. Pos' = EndPos(sh, char, stay)
    BY <1>2, <2>1, <2>2 DEF Pos
  <2>4. /\ printer'.fsm \in {"UNSTROBED_ROM_WRITER", "UNSTROBED_ROM_WRITER_NEEDS_SCROLL"}
        /\ printer'.fsm = "UNSTROBED_ROM_WRITER_NEEDS_SCROLL" <=> Scrolls(sh, char, stay)
    BY <2>1, <2>2
  <2> QED BY <1>2, <1>6, <2>1, <2>3, <2>4, ToWriter
<1>9. CASE ChprAdvance
  <2>1. /\ printer'.fsm = "UNSTROBED_ROM_WRITER" /\ printer'.advance = 1 /\ stay = FALSE
        /\ ~(cursor.col = LastCol /\ cursor.row = LastRow)
        /\ cursor'.row = (IF cursor.col = LastCol THEN cursor.row + 1 ELSE cursor.row)
        /\ cursor'.col = IF cursor.col = LastCol THEN 1 ELSE cursor.col + 1
    BY <1>1, <1>2, <1>9 DEF ChprAdvance, ToState, PrinterRecord, CursorInv, Typing
  <2>2. /\ Wraps(sh, char, stay) <=> cursor.col = LastCol
        /\ ~Scrolls(sh, char, stay)
    BY <1>2, <1>7, <2>1 DEF Wraps, Scrolls
  <2>3. EndPos(sh, char, stay) =
          IF cursor.col = LastCol THEN <<cursor.row + 1, 1>> ELSE <<cursor.row, cursor.col + 1>>
    BY <1>1, <1>2, <1>7, <2>1, <2>2 DEF EndPos
  <2>4. Pos' = EndPos(sh, char, stay)
    BY <2>1, <2>3 DEF Pos
  <2> QED BY <1>2, <1>6, <2>1, <2>2, <2>4, ToWriter
<1>10. CASE ChprAdvanceScrolls
  <2>1. /\ printer'.fsm = "UNSTROBED_ROM_WRITER_NEEDS_SCROLL" /\ printer'.advance = 1 /\ stay = FALSE
        /\ cursor.col = LastCol /\ cursor.row = LastRow
        /\ cursor'.row = cursor.row /\ cursor'.col = 1
    BY <1>1, <1>2, <1>10 DEF ChprAdvanceScrolls, ToState, PrinterRecord, CursorInv, Typing
  <2>2. Wraps(sh, char, stay) /\ Scrolls(sh, char, stay)
    BY <1>2, <1>7, <2>1 DEF Wraps, Scrolls
  <2>3. EndPos(sh, char, stay) = <<LastRow, 1>>
    BY <1>1, <1>2, <1>7, <2>1, <2>2 DEF EndPos
  <2>4. Pos' = EndPos(sh, char, stay)
    BY <2>1, <2>3 DEF Pos
  <2> QED BY <1>2, <1>6, <2>1, <2>2, <2>4, ToWriter
<1> QED BY <1>8, <1>9, <1>10

\* Waiting for a unit.
LEMMA PassTypes ==
  ASSUME NEW sh, NEW op, NEW char, NEW stay, Typing(sh, op, char, stay), NEW from, NEW to,
         ChprPass(from, to),
         \/ from = to /\ from \in {"UNSTROBED_ROM_WRITER", "UNSTROBED_ROM_WRITER_NEEDS_SCROLL",
                                   "UNSTROBED_SCROLLER", "UNSTROBED_LOCATOR"}
         \/ from = "STROBED_SCROLLER" /\ to = "UNSTROBED_SCROLLER"
         \/ from = "STROBED_LOCATOR" /\ to = "UNSTROBED_LOCATOR"
  PROVE  PrintingAs(sh, char, stay)'
<1>1. /\ PrinterRecord /\ UnitsInv /\ Units /\ printer.fsm = from /\ req' = None
      /\ printer.advance \in Bit /\ cursor' = cursor
  BY TypingHas DEF ChprPass, Working, Quiet
<1>2. printer'.fsm = to /\ printer'.advance = 1
  <2>1. printer'.fsm = to /\ printer'.advance = printer.advance
    BY <1>1 DEF ChprPass, ToState, PrinterRecord
  <2>2. printer.advance = 1
    BY <1>1 DEF Typing, PrintingAs, Bit
  <2> QED BY <2>1, <2>2
<1>3. Pos' = Pos
  BY <1>1 DEF Pos
<1>4. CASE from \in {"UNSTROBED_ROM_WRITER", "UNSTROBED_ROM_WRITER_NEEDS_SCROLL"}
  <2>1. /\ char \notin {CR, LF} /\ Pos = EndPos(sh, char, stay)
        /\ InFlight(WritesChar(char), sh.screen, sh.pen)
        /\ printer.fsm = "UNSTROBED_ROM_WRITER_NEEDS_SCROLL" <=> Scrolls(sh, char, stay)
    BY <1>1, <1>4 DEF Typing, PrintingAs
  <2>2. PICK q : q = WritesChar(char)
    OBVIOUS
  <2>3. q \in Asks
    BY <2>2, SomeAsks DEF Typing
  <2>4. InFlight(q, sh.screen, sh.pen)'
    BY <1>1, <2>1, <2>2, <2>3, Flies
  <2>5. InFlight(WritesChar(char), sh.screen, sh.pen)'
    BY <2>2, <2>4 DEF WritesChar
  <2> QED BY <1>1, <1>2, <1>3, <1>4, <2>1, <2>5, ToWriter
<1>5. CASE from \in {"STROBED_SCROLLER", "UNSTROBED_SCROLLER"}
  <2>1. Scrolls(sh, char, stay) /\ Pos = EndPos(sh, char, stay)
    BY <1>1, <1>5 DEF Typing, PrintingAs
  <2>2. PICK n \in Places : InFlight(Scroll, Drawn(sh, char), n)
    BY <1>1, <1>5 DEF Typing, PrintingAs
  <2>3. PICK q, e : q = Scroll /\ e = Drawn(sh, char)
    OBVIOUS
  <2>4. InFlight(q, e, n)'
    BY <1>1, <2>2, <2>3, SomeAsks, Flies
  <2>5. InFlight(Scroll, e, n)'
    BY <2>3, <2>4
  <2> QED BY <1>2, <1>3, <1>5, <2>1, <2>3, <2>5, ToScroller
<1>6. CASE from \in {"STROBED_LOCATOR", "UNSTROBED_LOCATOR"}
  <2>1. Pos = EndPos(sh, char, stay)
    BY <1>1, <1>6 DEF Typing, PrintingAs
  <2>2. PICK r \in 0 .. LastRow, c \in 0 .. LastCol, n \in Places :
          /\ InFlight(Locate(r, c), EndScreen(sh, char, stay), n)
          /\ To(r, c, n) = EndPen(sh, char, stay)
    BY <1>1, <1>6 DEF Typing, PrintingAs
  <2>3. PICK q, e : q = Locate(r, c) /\ e = EndScreen(sh, char, stay)
    OBVIOUS
  <2>4. InFlight(q, e, n)'
    BY <1>1, <2>2, <2>3, SomeAsks, Flies
  <2>5. InFlight(Locate(r, c), e, n)'
    BY <2>3, <2>4
  <2>6. Pos' = EndPos(sh, char, stay) /\ printer'.fsm \in {"STROBED_LOCATOR", "UNSTROBED_LOCATOR"}
    BY <1>2, <1>3, <1>6, <2>1
  <2> QED BY <1>2, <2>2, <2>3, <2>5, <2>6, ToLocator
<1> QED BY <1>1, <1>4, <1>5, <1>6

\* The locator is told where the position is.
LEMMA HereTypes ==
  ASSUME NEW sh, NEW op, NEW char, NEW stay, Typing(sh, op, char, stay),
         req = None, work = None, req' = Locate(cursor.row, cursor.col), char # CR,
         ToState("STROBED_LOCATOR"), printer.fsm \notin {"IDLE", "STROBED_ROM_WRITER"},
         Pos = EndPos(sh, char, stay), Screen = EndScreen(sh, char, stay), cursor' = cursor
  PROVE  PrintingAs(sh, char, stay)'
<1>1. /\ PrinterRecord /\ DisplayInv /\ Units /\ printer.advance \in Bit
      /\ cursor.row \in 1 .. LastRow /\ cursor.col \in 1 .. LastCol
      /\ LastRow \in Nat /\ LastCol \in Nat
  BY TypingHas
<1>2. printer.advance = 1
  BY <1>1 DEF Typing, PrintingAs, Bit
<1>3. printer'.fsm = "STROBED_LOCATOR" /\ printer'.advance = 1 /\ Pos' = EndPos(sh, char, stay)
  BY <1>1, <1>2 DEF ToState, PrinterRecord, Pos
<1>4. PICK q, r, c : q = req' /\ r = cursor.row /\ c = cursor.col
  OBVIOUS
<1>5. PICK s, n : s = Screen /\ n = Pen /\ n \in Places /\ InFlight(q, s, n)'
  BY <1>1, <1>4, NextAsk
<1>6. r \in 0 .. LastRow /\ c \in 0 .. LastCol /\ r # 0 /\ c # 0
  BY <1>1, <1>4
<1>7. EndPen(sh, char, stay) = <<r, c>>
  BY <1>4 DEF EndPen, Pos
<1>8. To(r, c, n) = EndPen(sh, char, stay)
  BY <1>6, <1>7 DEF To
<1>9. InFlight(Locate(r, c), s, n)' /\ s = EndScreen(sh, char, stay)
  BY <1>4, <1>5
<1> QED BY <1>3, <1>5, <1>6, <1>8, <1>9, ToLocator

\* A unit is done, and the printer strobes the next.
LEMMA ChainTypes ==
  ASSUME NEW sh, NEW op, NEW char, NEW stay, Typing(sh, op, char, stay), NEW from, NEW next, NEW to,
         Working(from), Ask(next), ToState(to), cursor' = cursor,
         \/ /\ from = "UNSTROBED_ROM_WRITER" /\ BusyBit("rom_writer") = 0
            /\ next = Locate(cursor.row, cursor.col) /\ to = "STROBED_LOCATOR"
         \/ /\ from = "UNSTROBED_ROM_WRITER_NEEDS_SCROLL" /\ BusyBit("rom_writer") = 0
            /\ next = Scroll /\ to = "STROBED_SCROLLER"
         \/ /\ from = "UNSTROBED_SCROLLER" /\ BusyBit("scroller") = 0
            /\ next = Locate(cursor.row, cursor.col) /\ to = "STROBED_LOCATOR"
  PROVE  PrintingAs(sh, char, stay)'
<1>1. /\ PrinterRecord /\ DisplayInv /\ Units /\ printer.fsm = from /\ req' = next
      /\ printer.advance \in Bit
  BY TypingHas DEF Working, Ask
<1>2. req = None
  BY <1>1, PrinterRests DEF Typing, Here
<1>3. PICK q : q = WritesChar(char)
  OBVIOUS
<1>4. q \in Asks /\ q.unit = "rom_writer" /\ q.index = OFFSET_CHAR + char
  BY <1>3, SomeAsks DEF Typing, WritesChar, WriteROM
<1>5. ASSUME from \in {"UNSTROBED_ROM_WRITER", "UNSTROBED_ROM_WRITER_NEEDS_SCROLL"},
             BusyBit("rom_writer") = 0
      PROVE  /\ work = None /\ Screen = Drawn(sh, char) /\ char \notin {CR, LF}
             /\ Pos = EndPos(sh, char, stay)
             /\ from = "UNSTROBED_ROM_WRITER_NEEDS_SCROLL" <=> Scrolls(sh, char, stay)
  <2>1. /\ char \notin {CR, LF} /\ InFlight(q, sh.screen, sh.pen) /\ Pos = EndPos(sh, char, stay)
        /\ from = "UNSTROBED_ROM_WRITER_NEEDS_SCROLL" <=> Scrolls(sh, char, stay)
    BY <1>1, <1>3, <1>5 DEF Typing, PrintingAs
  <2>2. work = None /\ Landed(q, sh.screen, sh.pen)
    BY <1>2, <1>4, <1>5, <2>1, NotBusy, Lands
  <2>3. q.index >= OFFSET_CHAR /\ q.index - OFFSET_CHAR = char
    BY <1>4 DEF OFFSET_CHAR, Typing
  <2>4. Screen = Inked(sh.screen, sh.pen, char)
    BY <1>4, <2>2, <2>3 DEF Landed
  <2> QED BY <2>1, <2>2, <2>4 DEF Drawn
<1>6. CASE /\ from = "UNSTROBED_ROM_WRITER" /\ BusyBit("rom_writer") = 0
           /\ next = Locate(cursor.row, cursor.col) /\ to = "STROBED_LOCATOR"
  <2>1. ~Scrolls(sh, char, stay)
    BY <1>5, <1>6
  <2>2. Screen = EndScreen(sh, char, stay)
    BY <1>5, <1>6, <2>1 DEF EndScreen
  <2>3. /\ req' = Locate(cursor.row, cursor.col) /\ char # CR /\ work = None
        /\ ToState("STROBED_LOCATOR") /\ printer.fsm \notin {"IDLE", "STROBED_ROM_WRITER"}
        /\ Pos = EndPos(sh, char, stay)
    BY <1>1, <1>5, <1>6
  <2> QED BY <1>2, <2>2, <2>3, HereTypes
<1>7. CASE /\ from = "UNSTROBED_ROM_WRITER_NEEDS_SCROLL" /\ BusyBit("rom_writer") = 0
           /\ next = Scroll /\ to = "STROBED_SCROLLER"
  <2>1. Scrolls(sh, char, stay) /\ Pos = EndPos(sh, char, stay) /\ work = None
    BY <1>5, <1>7
  <2>2. PICK s, n : s = Screen /\ n = Pen /\ n \in Places /\ InFlight(next, s, n)'
    BY <1>1, <1>2, <2>1, NextAsk
  <2>3. s = Drawn(sh, char) /\ InFlight(Scroll, s, n)'
    BY <1>5, <1>7, <2>2
  <2>4. printer.advance = 1
    BY <1>1, <1>7 DEF Typing, PrintingAs, Bit
  <2>5. printer'.fsm = "STROBED_SCROLLER" /\ printer'.advance = 1 /\ Pos' = EndPos(sh, char, stay)
    BY <1>1, <1>7, <2>1, <2>4 DEF ToState, PrinterRecord, Pos
  <2> QED BY <2>1, <2>2, <2>3, <2>5, ToScroller
<1>8. CASE /\ from = "UNSTROBED_SCROLLER" /\ BusyBit("scroller") = 0
           /\ next = Locate(cursor.row, cursor.col) /\ to = "STROBED_LOCATOR"
  <2>1. Scrolls(sh, char, stay) /\ Pos = EndPos(sh, char, stay)
    BY <1>1, <1>8 DEF Typing, PrintingAs
  <2>2. PICK n \in Places : InFlight(Scroll, Drawn(sh, char), n)
    BY <1>1, <1>8 DEF Typing, PrintingAs
  <2>3. PICK p, e : p = Scroll /\ e = Drawn(sh, char)
    OBVIOUS
  <2>4. p \in Asks /\ p.unit = "scroller" /\ InFlight(p, e, n)
    BY <2>2, <2>3, SomeAsks DEF Scroll
  <2>5. work = None /\ Landed(p, e, n)
    BY <1>2, <1>8, <2>4, NotBusy, Lands
  <2>6. Screen = EndScreen(sh, char, stay)
    BY <2>1, <2>3, <2>4, <2>5 DEF Landed, EndScreen
  <2>7. /\ req' = Locate(cursor.row, cursor.col) /\ char # CR
        /\ ToState("STROBED_LOCATOR") /\ printer.fsm \notin {"IDLE", "STROBED_ROM_WRITER"}
    BY <1>1, <1>8, <2>1 DEF Scrolls, Wraps, CR, LF
  <2> QED BY <1>2, <2>1, <2>5, <2>6, <2>7, HereTypes
<1> QED BY <1>6, <1>7, <1>8

Blinked(sh, op) ==
  /\ Ended /\ Keeping /\ Doing(op) = <<>> /\ Remaining' = <<>>
  /\ op.char \in {CursorChar, Blank}
  /\ Screen' = Inked(sh.screen, sh.pen, op.char) /\ Pos' = sh.pos /\ Pen' = sh.pos
  /\ sh.blinking /\ cursor'.en = 1

\* The printer at rest again: what it was to print is printed.
LEMMA Typed ==
  ASSUME NEW sh, NEW op, NEW char, NEW stay, Typing(sh, op, char, stay),
         printer.fsm = "UNSTROBED_LOCATOR", BusyBit("locator") = 0, Quiet, cursor' = cursor
  PROVE  /\ Screen' = EndScreen(sh, char, stay) /\ Pos' = EndPos(sh, char, stay)
         /\ Pen' = EndPen(sh, char, stay)
<1>1. Pos = EndPos(sh, char, stay)
  BY DEF Typing, PrintingAs
<1>2. PICK r \in 0 .. LastRow, c \in 0 .. LastCol, n \in Places :
        /\ InFlight(Locate(r, c), EndScreen(sh, char, stay), n)
        /\ To(r, c, n) = EndPen(sh, char, stay)
  BY DEF Typing, PrintingAs
<1>3. PICK q, e : q = Locate(r, c) /\ e = EndScreen(sh, char, stay)
  OBVIOUS
<1>4. /\ q \in Asks /\ q.unit = "locator" /\ q.row = r /\ q.col = c /\ InFlight(q, e, n)
  BY <1>2, <1>3, SomeAsks DEF Locate
<1>5. req = None
  BY PrinterRests DEF Typing, Here
<1>6. work = None /\ Landed(q, e, n)
  BY <1>4, <1>5, NotBusy, Lands
<1>7. Screen = e /\ Pen = EndPen(sh, char, stay)
  BY <1>2, <1>4, <1>6 DEF Landed
<1>8. Units
  BY DEF Typing, Here
<1>9. Screen' = Screen /\ Pen' = Pen
  BY <1>5, <1>6, <1>8, NothingMoves
<1> QED BY <1>1, <1>3, <1>7, <1>9 DEF Pos

LEMMA Types ==
  ASSUME NEW sh, NEW op, NEW char, NEW stay, Typing(sh, op, char, stay), Chpr(Busy), printer'.run = 1
  PROVE  PrintingAs(sh, char, stay)'
<1>1. PICK busy : busy = Busy
  OBVIOUS
<1>2. /\ busy.rom_writer = BusyBit("rom_writer") /\ busy.scroller = BusyBit("scroller")
      /\ busy.locator = BusyBit("locator") /\ PrinterRecord
  BY <1>1, TypingHas DEF Busy
<1>3. Chpr(busy)
  BY <1>1
<1>4. \/ ChprReturn \/ ChprLine \/ ChprLineScrolls
      \/ ChprWrite
      \/ ChprStay \/ ChprAdvance \/ ChprAdvanceScrolls
      \/ ChprChain("UNSTROBED_ROM_WRITER", busy.rom_writer, Locate(cursor.row, cursor.col),
                   "STROBED_LOCATOR")
      \/ ChprChain("UNSTROBED_ROM_WRITER_NEEDS_SCROLL", busy.rom_writer, Scroll, "STROBED_SCROLLER")
      \/ ChprPass("STROBED_SCROLLER", "UNSTROBED_SCROLLER")
      \/ ChprChain("UNSTROBED_SCROLLER", busy.scroller, Locate(cursor.row, cursor.col),
                   "STROBED_LOCATOR")
      \/ ChprPass("STROBED_LOCATOR", "UNSTROBED_LOCATOR")
      \/ ChprPass("UNSTROBED_LOCATOR", "UNSTROBED_LOCATOR")
  <2>1. ChprDone(busy) => ChprPass("UNSTROBED_LOCATOR", "UNSTROBED_LOCATOR")
    <3>1. ASSUME printer' = [printer EXCEPT !.fsm = "IDLE", !.run = 0] PROVE printer'.run = 0
      BY <1>2, <3>1 DEF PrinterRecord
    <3>2. 0 # 1
      OBVIOUS
    <3> QED BY <3>1, <3>2 DEF ChprDone
  <2> QED BY <1>3, <2>1 DEF Chpr
<1>5. CASE ChprReturn \/ ChprLine \/ ChprLineScrolls
  BY <1>5, ReturnTypes
<1>6. CASE ChprWrite
  BY <1>6, WriteTypes
<1>7. CASE ChprStay \/ ChprAdvance \/ ChprAdvanceScrolls
  BY <1>7, AdvanceTypes
<1>8. CASE \/ ChprPass("STROBED_SCROLLER", "UNSTROBED_SCROLLER")
           \/ ChprPass("STROBED_LOCATOR", "UNSTROBED_LOCATOR")
           \/ ChprPass("UNSTROBED_LOCATOR", "UNSTROBED_LOCATOR")
  BY <1>8, PassTypes
<1>10. CASE ChprChain("UNSTROBED_ROM_WRITER", busy.rom_writer, Locate(cursor.row, cursor.col),
                      "STROBED_LOCATOR")
  <2>1. PICK next : next = Locate(cursor.row, cursor.col)
    OBVIOUS
  <2>2. \/ ChprPass("UNSTROBED_ROM_WRITER", "UNSTROBED_ROM_WRITER")
        \/ /\ busy.rom_writer = 0 /\ Working("UNSTROBED_ROM_WRITER") /\ Ask(next)
           /\ ToState("STROBED_LOCATOR") /\ cursor' = cursor
    BY <1>10, <2>1 DEF ChprChain
  <2>3. CASE ChprPass("UNSTROBED_ROM_WRITER", "UNSTROBED_ROM_WRITER")
    BY <2>3, PassTypes
  <2>4. CASE /\ busy.rom_writer = 0 /\ Working("UNSTROBED_ROM_WRITER") /\ Ask(next)
             /\ ToState("STROBED_LOCATOR") /\ cursor' = cursor
    <3>1. BusyBit("rom_writer") = 0 /\ Working("UNSTROBED_ROM_WRITER") /\ Ask(next)
          /\ ToState("STROBED_LOCATOR") /\ cursor' = cursor
      BY <1>2, <2>4
    <3> QED BY <2>1, <3>1, ChainTypes
  <2> QED BY <2>2, <2>3, <2>4
<1>11. CASE ChprChain("UNSTROBED_ROM_WRITER_NEEDS_SCROLL", busy.rom_writer, Scroll, "STROBED_SCROLLER")
  <2>1. PICK next : next = Scroll
    OBVIOUS
  <2>2. \/ ChprPass("UNSTROBED_ROM_WRITER_NEEDS_SCROLL", "UNSTROBED_ROM_WRITER_NEEDS_SCROLL")
        \/ /\ busy.rom_writer = 0 /\ Working("UNSTROBED_ROM_WRITER_NEEDS_SCROLL") /\ Ask(next)
           /\ ToState("STROBED_SCROLLER") /\ cursor' = cursor
    BY <1>11, <2>1 DEF ChprChain
  <2>3. CASE ChprPass("UNSTROBED_ROM_WRITER_NEEDS_SCROLL", "UNSTROBED_ROM_WRITER_NEEDS_SCROLL")
    BY <2>3, PassTypes
  <2>4. CASE /\ busy.rom_writer = 0 /\ Working("UNSTROBED_ROM_WRITER_NEEDS_SCROLL") /\ Ask(next)
             /\ ToState("STROBED_SCROLLER") /\ cursor' = cursor
    <3>1. BusyBit("rom_writer") = 0 /\ Working("UNSTROBED_ROM_WRITER_NEEDS_SCROLL") /\ Ask(next)
          /\ ToState("STROBED_SCROLLER") /\ cursor' = cursor
      BY <1>2, <2>4
    <3> QED BY <2>1, <3>1, ChainTypes
  <2> QED BY <2>2, <2>3, <2>4
<1>12. CASE ChprChain("UNSTROBED_SCROLLER", busy.scroller, Locate(cursor.row, cursor.col),
                      "STROBED_LOCATOR")
  <2>1. PICK next : next = Locate(cursor.row, cursor.col)
    OBVIOUS
  <2>2. \/ ChprPass("UNSTROBED_SCROLLER", "UNSTROBED_SCROLLER")
        \/ /\ busy.scroller = 0 /\ Working("UNSTROBED_SCROLLER") /\ Ask(next)
           /\ ToState("STROBED_LOCATOR") /\ cursor' = cursor
    BY <1>12, <2>1 DEF ChprChain
  <2>3. CASE ChprPass("UNSTROBED_SCROLLER", "UNSTROBED_SCROLLER")
    BY <2>3, PassTypes
  <2>4. CASE /\ busy.scroller = 0 /\ Working("UNSTROBED_SCROLLER") /\ Ask(next)
             /\ ToState("STROBED_LOCATOR") /\ cursor' = cursor
    <3>1. BusyBit("scroller") = 0 /\ Working("UNSTROBED_SCROLLER") /\ Ask(next)
          /\ ToState("STROBED_LOCATOR") /\ cursor' = cursor
      BY <1>2, <2>4
    <3> QED BY <2>1, <3>1, ChainTypes
  <2> QED BY <2>2, <2>3, <2>4
<1> QED BY <1>4, <1>5, <1>6, <1>7, <1>8, <1>10, <1>11, <1>12

\* A step of the printer.
LEMMA ChprGoes ==
  ASSUME NEW sh, NEW op, Here(sh, op), Chpr(Busy)
  PROVE  Silent(sh, op) \/ Performed(sh, op) \/ Blinked(sh, op)
<1> DEFINE Good == Silent(sh, op) \/ Performed(sh, op) \/ Blinked(sh, op)
<1> SUFFICES Good
  OBVIOUS
<1>1. PICK char \in Nat :
        /\ char = op.char /\ Printing(sh, char) /\ printer.run = 1 /\ main' = main
        /\ op = IF Stays THEN CursorOp(char) ELSE CharOp(char)
        /\ Stays => char \in {CursorChar, Blank}
  BY TypingIs
<1>2. PICK stay \in BOOLEAN : stay = Stays
  BY DEF Stays
<1>3. Typing(sh, op, char, stay)
  BY <1>1, <1>2 DEF Typing, Printing
<1>4. main \in Running /\ PrinterRecord
  BY <1>1 DEF Here, TurnsInv, PrinterInv
<1>5. /\ UNCHANGED <<main, command, result, rest, own>> /\ fifo_r_en' = 0
      /\ cursor'.en = cursor.en /\ (asked' <=> asked)
  <2>1. CursorInv /\ AskedNext
    BY DEF Here, ScreenInv
  <2>2. /\ UNCHANGED <<main, command, result, rest, own>> /\ fifo_r_en' = 0
    BY DEF Chpr, ChprReturn, ChprLine, ChprLineScrolls, ChprWrite, ChprStay, ChprAdvance,
       ChprAdvanceScrolls, ChprChain, ChprPass, ChprDone, Quiet, Ask
  <2>3. cursor'.en = cursor.en
    BY <2>1 DEF Chpr, ChprReturn, ChprLine, ChprLineScrolls, ChprWrite, ChprStay, ChprAdvance,
       ChprAdvanceScrolls, ChprChain, ChprPass, ChprDone, CursorInv
  <2>4. asked' <=> asked
    BY <1>4, <2>1, <2>2 DEF AskedNext, Running
  <2> QED BY <2>2, <2>3, <2>4
<1>6. Obeying' /\ ~Fails /\ ~Answers
  BY <1>5 DEF Here, Obeying, Fails, Answers
<1>7. main \notin UnitWaits
  BY <1>4 DEF Running, UnitWaits
<1>8. ~Stays => asked /\ main \notin Blinks
  BY <1>4 DEF Here, Obeying, Running, Blinks, Stays
<1>9. CASE printer'.run = 1
  <2>1. PrintingAs(sh, char, stay)'
    BY <1>3, <1>9, Types
  <2>2. Stays' = stay
    BY <1>2, <1>5 DEF Stays
  <2>3. Shows(sh, op)'
    BY <1>1, <1>9, <2>1, <2>2 DEF Shows, Printing, PrintingAs
  <2>4. CursorShown(sh, op)'
    BY <1>1, <1>5, <1>9 DEF Here, Stage, CursorShown, Blinking, Stays
  <2>5. Carried(op)'
    BY <1>1, <1>5, <1>9 DEF Here, Stage, Carried, Stays
  <2>6. Doing(op)' = Doing(op)
    BY <1>1, <1>5, <1>9 DEF Doing, Carrying, Blinking, Stays
  <2>7. Keeping
    BY <1>6, <1>7, <1>9 DEF Keeping, Completes
  <2> QED BY <1>5, <1>6, <2>3, <2>4, <2>5, <2>6, <2>7 DEF Silent, Going, Stage, Here
<1>10. CASE printer'.run # 1
  <2>1. /\ printer'.run = 0 /\ printer.fsm = "UNSTROBED_LOCATOR" /\ BusyBit("locator") = 0
        /\ Quiet /\ cursor' = cursor
    <3>1. /\ printer'.run = 0 /\ req' = None
          /\ printer.fsm = "UNSTROBED_LOCATOR" /\ BusyBit("locator") = 0
      <4>1. PICK busy : busy = Busy
        OBVIOUS
      <4>2. Chpr(busy) /\ busy.locator = BusyBit("locator") /\ PrinterInv
        BY <4>1 DEF Busy, Here, TurnsInv
      <4> QED BY <1>10, <4>2, PrinterMoves
    <3>2. cursor' = cursor
      BY <3>1 DEF Chpr, ChprReturn, ChprLine, ChprLineScrolls, ChprWrite, ChprStay, ChprAdvance,
         ChprAdvanceScrolls, ChprChain, ChprPass, ChprDone, Working
    <3> QED BY <1>5, <3>1, <3>2 DEF Quiet
  <2>2. /\ Screen' = EndScreen(sh, char, stay) /\ Pos' = EndPos(sh, char, stay)
        /\ Pen' = EndPen(sh, char, stay)
    BY <1>3, <2>1, Typed
  <2>3. Ended
    BY <1>4, <1>5, <1>6, <2>1 DEF Ended, Settled, Running
  <2>4. Remaining' = IF main \in Firsts THEN <<CharOp(SecondHalf(rest))>> ELSE <<>>
    BY <1>5 DEF Remaining
  <2>5. CASE ~Stays
    <3>1. asked /\ stay = FALSE /\ main \notin Blinks
      BY <1>2, <1>8, <2>5
    <3>2. op = CharOp(char)
      BY <1>1, <2>5
    <3>3. sh.blinking <=> cursor'.en = 1
      BY <1>5, <2>5, <3>1 DEF Here, Stage, CursorShown, Blinking, Blinks
    <3>4. Doing(op) = <<op>> \o Remaining'
      <4>1. CASE main \in Firsts
        <5>1. PICK o : o = CharOp(SecondHalf(rest))
          OBVIOUS
        <5>2. Doing(op) = <<op, o>> /\ Remaining' = <<o>>
          BY <1>1, <2>4, <4>1, <5>1 DEF Doing, Firsts
        <5>3. <<op, o>> = <<op>> \o <<o>>
          OBVIOUS
        <5> QED BY <5>2, <5>3
      <4>2. CASE main \notin Firsts
        <5>1. Doing(op) = <<op>> /\ Remaining' = <<>>
          BY <1>1, <1>4, <2>4, <3>1, <4>2 DEF Doing, Carrying, Running
        <5>2. <<op>> = <<op>> \o <<>>
          OBVIOUS
        <5> QED BY <5>1, <5>2
      <4> QED BY <4>1, <4>2
    <3>5. Completes
      BY <1>1, <2>1, <3>1 DEF Completes
    <3>6. Performs(sh, op)
      BY <1>1, <2>2, <3>1, <3>2, <3>3 DEF Performs
    <3> QED BY <2>3, <3>4, <3>5, <3>6 DEF Performed
  <2>6. CASE Stays
    <3>1. /\ op = CursorOp(char) /\ char \in {CursorChar, Blank} /\ char \notin {CR, LF}
          /\ stay = TRUE
      BY <1>1, <1>2, <2>6 DEF CursorChar, Blank, CR, LF
    <3>2. Screen' = Inked(sh.screen, sh.pen, char) /\ Pos' = sh.pos /\ Pen' = sh.pos
      BY <2>2, <3>1 DEF EndScreen, Drawn, Scrolls, Wraps, EndPos, EndPen
    <3>3. Remaining' = <<>> /\ main \in Blinks /\ main \notin Firsts
      BY <2>4, <2>6 DEF Stays, Firsts, Blinks
    <3>4. Blinking
      BY <1>1, <2>6 DEF Blinking
    <3>5. Doing(op) = IF asked THEN <<op>> ELSE <<>>
      BY <3>3, <3>4, <2>6 DEF Doing, Carrying, Stays
    <3>6. CASE asked
      <4>1. cursor'.en = 1 <=> op.char = CursorChar
        BY <1>5, <2>6, <3>4, <3>6 DEF Here, Stage, CursorShown
      <4>2. Doing(op) = <<op>> \o Remaining'
        <5>1. <<op>> = <<op>> \o <<>>
          OBVIOUS
        <5> QED BY <3>3, <3>5, <3>6, <5>1
      <4>3. Completes
        BY <1>1, <2>1, <3>6 DEF Completes
      <4>4. Performs(sh, op)
        BY <1>1, <3>1, <3>2, <4>1 DEF Performs
      <4> QED BY <2>3, <4>2, <4>3, <4>4 DEF Performed
    <3>7. CASE ~asked
      <4>1. sh.blinking /\ cursor'.en = 1
        BY <1>5, <2>6, <3>4, <3>7 DEF Here, Stage, CursorShown, Stays
      <4>2. Keeping
        BY <1>6, <1>7, <3>7 DEF Keeping, Completes
      <4> QED BY <1>1, <2>3, <3>1, <3>2, <3>3, <3>5, <3>7, <4>1, <4>2 DEF Blinked
    <3> QED BY <3>6, <3>7
  <2> QED BY <2>5, <2>6
<1> QED BY <1>9, <1>10

\* What a cycle comes to.
Comes(sh, op) ==
  \/ Silent(sh, op) \/ Performed(sh, op) \/ Failed(sh, op) \/ Answered(sh, op)
  \/ Blinked(sh, op)

LEMMA StepComes ==
  ASSUME NEW sh, NEW op, Here(sh, op), NEW bus \in BusInputs, NEW full \in Pulses,
         Commanding(Busy, bus, full) \/ Chpr(Busy)
  PROVE  Comes(sh, op)
<1>1. bus.r_data \in Bytes \/ bus.r_rdy = 0
  BY DEF BusInputs
<1>2. CASE AtIdle(full, bus.w_rdy) \/ Start
  BY <1>2, IdleGoes, StartGoes DEF Here, Comes
<1>3. CASE Cls(Busy) \/ WriteSingle(Busy) \/ LocateStep(Busy)
  BY <1>3, ClsGoes, SinglesGo, LocateGoes DEF Comes
<1>4. CASE PrintStep \/ IdStep(bus) \/ CursorStep
  BY <1>1, <1>4, PrintGoes, IdGoes, CursorGoes DEF Comes
<1>5. CASE Chpr(Busy)
  BY <1>5, ChprGoes DEF Comes
<1> QED BY <1>2, <1>3, <1>4, <1>5 DEF Commanding

\* What is asked of a unit.
LEMMA StepAsks ==
  ASSUME NEW sh, NEW op, Here(sh, op), NEW bus \in BusInputs, NEW full \in Pulses,
         Commanding(Busy, bus, full) \/ Chpr(Busy)
  PROVE  req' \in Asks \cup {None}
<1> DEFINE Good == req' \in Asks \cup {None}
<1> SUFFICES Good
  OBVIOUS
<1>1. /\ cursor.row \in 1 .. LastRow /\ cursor.col \in 1 .. LastCol
      /\ LastRow \in Nat /\ LastCol \in Nat /\ LastRow >= 1 /\ LastCol >= 1
  BY Sizes DEF Here, ScreenInv, CursorInv
<1>2. ASSUME NEW r, NEW c, r \in 0 .. LastRow, c \in 0 .. LastCol, req' = Locate(r, c)
      PROVE  Good
  BY <1>2, SomeAsks
<1>3. Locate(cursor.row, cursor.col) \in Asks
  <2>1. cursor.row \in 0 .. LastRow /\ cursor.col \in 0 .. LastCol
    BY <1>1
  <2> QED BY <2>1, SomeAsks
<1>4. CASE AtIdle(full, bus.w_rdy) \/ PrintStep \/ IdStep(bus) \/ CursorStep
  BY <1>4
     DEF AtIdle, IdleBlinks, IdleTakes, IdleElse, Pass, PrintStep, PrintCount, PrintCounted, PrintData,
         PrintedData, PrintByteFirst, SecondDigit, Starved, AwaitUnit, IdStep, Drive, IdQueue, IdReceive,
         IdReceived, IdFails, CursorStep, CursorOnReset, CursorOffReset, Quiet, Pop
<1>5. CASE Start
  <2>1. \/ req' \in {None, Clear, WriteROM(OFFSET_INIT, 1)}
        \/ req' \in {WriteROM(OFFSET_DISPLAY_ON, 0), WriteROM(OFFSET_DISPLAY_OFF, 0)}
    BY <1>5 DEF Start, Begin, BeginNop, BeginInit, BeginDisplay, BeginCls, BeginCursor, BeginOther,
       Unknown, Pass, Quiet, Ask
  <2> QED BY <2>1 DEF Asks
<1>6. CASE Cls(Busy) \/ WriteSingle(Busy)
  <2>1. req' \in {None, Locate(cursor.row, cursor.col)}
    BY <1>6 DEF Cls, WriteSingle, Pass, AwaitUnit, Quiet, Ask
  <2> QED BY <1>3, <2>1
<1>7. CASE LocateStep(Busy)
  <2>1. CASE LocateCol
    <3>1. main = "LOCATE_COL_WAIT" /\ Given /\ req' = Locate(rest, Byte1)
      BY <2>1 DEF LocateCol, From
    <3>2. rest \in 0 .. LastRow /\ Byte1 \in 0 .. LastCol
      BY <1>1, <3>1, Operands DEF Here, Popped, ScreenInv, RestInv
    <3> HIDE DEF Good
    <3> QED BY <1>2, <3>1, <3>2
  <2>2. CASE ~LocateCol
    BY <1>7, <2>2 DEF LocateStep, LocateRow, Starved, Pass, AwaitUnit, Quiet, Pop
  <2> QED BY <2>1, <2>2
<1>8. CASE Chpr(Busy)
  <2>1. CASE ChprReturn
    <3>1. req' = Locate(0, 1) /\ 0 \in 0 .. LastRow /\ 1 \in 0 .. LastCol
      BY <1>1, <2>1 DEF ChprReturn, Ask
    <3> HIDE DEF Good
    <3> QED BY <1>2, <3>1
  <2>2. CASE ChprLine
    <3>1. req' = Locate(cursor.row + 1, 1) /\ cursor.row + 1 \in 0 .. LastRow /\ 1 \in 0 .. LastCol
      BY <1>1, <2>2 DEF ChprLine, Ask
    <3> HIDE DEF Good
    <3> QED BY <1>2, <3>1
  <2>3. CASE ChprWrite
    <3>1. PICK char \in Nat : char = op.char /\ Printing(sh, char)
      BY <1>8, TypingIs
    <3>2. req' = WritesChar(printer.data) /\ printer.data = char
      BY <2>3, <3>1 DEF ChprWrite, Working, Ask, WritesChar, Printing, PrintingAs
    <3> QED BY <3>1, <3>2, SomeAsks
  <2>4. CASE ~ChprReturn /\ ~ChprLine /\ ~ChprWrite
    <3>1. req' \in {None, Scroll, Locate(cursor.row, cursor.col)}
      BY <1>8, <2>4
         DEF Chpr, ChprLineScrolls, ChprStay, ChprAdvance, ChprAdvanceScrolls, ChprChain, ChprPass,
             ChprDone, Quiet, Ask
    <3> QED BY <1>3, <3>1, SomeAsks
  <2> QED BY <2>1, <2>2, <2>3, <2>4
<1> HIDE DEF Good
<1> QED BY <1>4, <1>5, <1>6, <1>7, <1>8 DEF Commanding

LEMMA WorkAsks ==
  ASSUME UnitsInv, Units PROVE work' \in Asks \cup {None}
  BY DEF UnitsInv, Units, UnitTakes, UnitDone

\* What is seen is a screen, with a position and a pen on it.
Seen(sh) ==
  /\ sh = [screen |-> sh.screen, pos |-> sh.pos, pen |-> sh.pen, blinking |-> sh.blinking]
  /\ sh.screen \in [1 .. LastRow -> [1 .. LastCol -> Nat]]
  /\ sh.pos \in Places /\ sh.pen \in Places /\ sh.blinking \in BOOLEAN

LEMMA Looks ==
  ASSUME NEW s \in Lines, NEW mem \in [Lines -> [Pages -> Nat]], NEW p, p.line \in Lines, p.page \in Pages,
         NEW r \in 1 .. LastRow, NEW c \in 1 .. LastCol, NEW on \in BOOLEAN
  PROVE  Seen([screen |-> ScreenOf(s, mem), pos |-> <<r, c>>, pen |-> PenOf(s, p), blinking |-> on])
<1>1. ScreenOf(s, mem) \in [1 .. LastRow -> [1 .. LastCol -> Nat]]
  BY ScreenRange
<1>2. PenOf(s, p)[1] \in 1 .. LastRow /\ PenOf(s, p)[2] \in 1 .. LastCol
  BY PenRange
<1>3. PenOf(s, p) \in Places /\ <<r, c>> \in Places
  BY <1>2 DEF PenOf, Places
<1>4. PICK v, n : v = ScreenOf(s, mem) /\ n = PenOf(s, p)
  OBVIOUS
<1> QED BY <1>1, <1>3, <1>4 DEF Seen

LEMMA LookNext ==
  ASSUME MemoryInv', ScreenInv'
  PROVE  Seen(Look')
<1>1. /\ start' \in Lines /\ point'.line \in Lines /\ point'.page \in Pages
      /\ cursor'.row \in 1 .. LastRow /\ cursor'.col \in 1 .. LastCol
      /\ ram' \in [Lines -> [Pages -> Nat]]
  BY DEF ScreenInv, DisplayInv, CursorInv, MemoryInv
<1>2. PICK s, mem, p, r, c, on : /\ s = start' /\ mem = ram' /\ p = point' /\ r = cursor'.row
                                 /\ c = cursor'.col /\ on = (cursor'.en = 1)
  OBVIOUS
<1>3. Seen([screen |-> ScreenOf(s, mem), pos |-> <<r, c>>, pen |-> PenOf(s, p), blinking |-> on])
  BY <1>1, <1>2, Looks
<1>4. Look' = [screen |-> ScreenOf(s, mem), pos |-> <<r, c>>, pen |-> PenOf(s, p), blinking |-> on]
  BY <1>2, SeenIs DEF Look
<1> QED BY <1>3, <1>4

-------------------------------------------------------------------------------
(***************************************************************************)
(* What there is to do, after a cycle.                                     *)
(***************************************************************************)
RenderAt(sh, op) == sh = shown /\ Stage(sh, op) /\ todo = Doing(op) \o Waiting

RenderInv ==
  /\ MemoryInv /\ AdjustedInv /\ AdvanceInv /\ Obeying
  /\ req \in Asks \cup {None} /\ work \in Asks \cup {None}
  /\ Seen(shown)
  /\ \E sh, op : op \in Operations /\ RenderAt(sh, op)

LEMMA JoinsAssociate ==
  ASSUME NEW s \in Seq(Operations), NEW t \in Seq(Operations), NEW u \in Seq(Operations)
  PROVE  (s \o t) \o u = s \o (t \o u)
  BY ConcatAssociative

LEMMA DoingIs ==
  ASSUME ScreenInv, NEW op \in Operations PROVE Doing(op) \in Seq(Operations)
<1>1. rest \in 0 .. 255
  BY DEF ScreenInv, RestInv
<1>2. CharOp(SecondHalf(rest)) \in Operations
  BY <1>1, AByte, SomeOperations
<1>3. PICK a, none, second, both :
        /\ a = <<op>> /\ none = << >> /\ second = <<CharOp(SecondHalf(rest))>>
        /\ both = <<op, CharOp(SecondHalf(rest))>>
  OBVIOUS
<1>4. none \in Seq(Operations) /\ a \in Seq(Operations) /\ second \in Seq(Operations)
  BY <1>2, <1>3, FewOps
<1>5. both = a \o second
  BY <1>3
<1>6. both \in Seq(Operations)
  BY <1>4, <1>5, ConcatProperties
<1>7. CommandOps(command) \in Seq(Operations)
  BY ACommand
<1>8. Doing(op) \in {CommandOps(command), both, second, a, none}
  BY <1>3, Zenon DEF Doing
<1> QED BY <1>4, <1>6, <1>7, <1>8

LEMMA RemainingNext == ASSUME ScreenInv' PROVE Remaining' \in Seq(Operations)
<1>1. PICK r : r = rest'
  OBVIOUS
<1>2. r \in 0 .. 255
  BY <1>1 DEF ScreenInv, RestInv
<1>3. CharOp(SecondHalf(r)) \in Operations
  BY <1>2, AByte, SomeOperations
<1>4. PICK none, second : none = << >> /\ second = <<CharOp(SecondHalf(r))>>
  OBVIOUS
<1>5. none \in Seq(Operations) /\ second \in Seq(Operations)
  BY <1>3, <1>4, FewOps
<1>6. Remaining' \in {none, second}
  BY <1>1, <1>4, Zenon DEF Remaining
<1> QED BY <1>5, <1>6

\* Nothing is being done when an operation has just been.
LEMMA SettledIs ==
  ASSUME NEW sh, NEW next, Settled'
  PROVE  /\ Doing(next)' = Remaining'
         /\ Stage(sh, next)' <=> Untouched(sh)' /\ (sh.blinking <=> cursor'.en = 1)
<1>1. PICK state : state = main'
  OBVIOUS
<1>2. printer'.run = 0
  BY DEF Settled
<1>3. /\ state \notin Locating \cup Moving \cup Sending \cup Clearing \cup Homing \cup Asking
      /\ state \notin {"CURSOR_ON_RESET", "CURSOR_OFF_RESET", "START_STROBED_FIFO_IN_R_EN"}
  BY <1>1 DEF Settled, Locating, Moving, Sending, Clearing, Homing, Asking
<1>4. ~Blinking' /\ ~Carrying'
  BY <1>1, <1>2, <1>3 DEF Blinking, Carrying, Blinks
<1>5. Doing(next)' = Remaining'
  <2>1. printer'.run # 1 /\ main' # "START_STROBED_FIFO_IN_R_EN"
    BY <1>1, <1>2, <1>3
  <2> QED BY <1>4, <2>1, Zenon DEF Doing, Remaining
<1>6. Shows(sh, next)' <=> Untouched(sh)'
  <2>1. printer'.run # 1 /\ main' \notin Locating /\ main' \notin Moving /\ main' \notin Sending
        /\ main' \notin Clearing /\ main' \notin Homing
    BY <1>1, <1>2, <1>3
  <2> QED BY <2>1, Zenon DEF Shows
<1>7. CursorShown(sh, next)' <=> (sh.blinking <=> cursor'.en = 1)
  BY <1>4 DEF CursorShown
<1>8. Carried(next)'
  BY <1>1, <1>2, <1>3 DEF Carried
<1> QED BY <1>5, <1>6, <1>7, <1>8 DEF Stage

\* What is seen and what was shown last are the same, if nothing has changed.
LEMMA SameLook ==
  ASSUME NEW sh, Seen(sh), Untouched(sh)', sh.blinking <=> cursor'.en = 1
  PROVE  Look' = sh
<1>1. PICK s, p, n, on : s = Screen' /\ p = <<cursor'.row, cursor'.col>> /\ n = Pen' /\ on = (cursor'.en = 1)
  OBVIOUS
<1>2. s = sh.screen /\ p = sh.pos /\ n = sh.pen
  BY <1>1 DEF Untouched, Pos
<1>3. on = sh.blinking
  <2>1. on \in BOOLEAN /\ sh.blinking \in BOOLEAN
    BY <1>1 DEF Seen
  <2>2. CASE cursor'.en = 1
    <3>1. on = TRUE /\ sh.blinking = TRUE
      BY <1>1, <2>1, <2>2
    <3> QED BY <3>1
  <2>3. CASE cursor'.en # 1
    <3>1. on = FALSE /\ sh.blinking = FALSE
      BY <1>1, <2>1, <2>3
    <3> QED BY <3>1
  <2> QED BY <2>2, <2>3
<1>4. Look' = [screen |-> s, pos |-> p, pen |-> n, blinking |-> on]
  BY <1>1 DEF Look
<1> QED BY <1>2, <1>3, <1>4 DEF Seen

-------------------------------------------------------------------------------
(***************************************************************************)
(* The two histories, after a cycle.                                       *)
(***************************************************************************)
LEMMA HeadIs ==
  ASSUME NEW S, NEW a \in S, NEW s \in Seq(S), NEW t, t = <<a>> \o s
  PROVE  t # << >> /\ t \in Seq(S) /\ Head(t) = a /\ Tail(t) = s
<1>1. PICK one : one = <<a>>
  OBVIOUS
<1>2. one \in Seq(S) /\ Len(one) = 1 /\ one[1] = a
  BY <1>1
<1>3. /\ t \in Seq(S) /\ Len(t) = 1 + Len(s) /\ Len(s) \in Nat
      /\ \A i \in 1 .. 1 + Len(s) : t[i] = IF i <= 1 THEN one[i] ELSE s[i - 1]
  BY <1>1, <1>2, ConcatProperties, LenProperties
<1>4. t # << >> /\ Head(t) = t[1]
  <2>1. Len(t) # 0
    BY <1>3
  <2> QED BY <1>3, <2>1
<1>5. t[1] = a
  BY <1>2, <1>3
<1>6. Tail(t) = s
  <2>1. /\ Tail(t) \in Seq(S) /\ Len(Tail(t)) = Len(t) - 1
        /\ \A i \in 1 .. Len(Tail(t)) : Tail(t)[i] = t[i + 1]
    BY <1>3, <1>4, HeadTailProperties
  <2>2. PICK v : v = Tail(t)
    OBVIOUS
  <2>3. v \in Seq(S) /\ Len(v) = Len(s) /\ \A i \in 1 .. Len(v) : v[i] = t[i + 1]
    BY <1>3, <2>1, <2>2
  <2>4. ASSUME NEW i \in 1 .. Len(v) PROVE v[i] = s[i]
    <3>1. i + 1 \in 1 .. 1 + Len(s) /\ ~(i + 1 <= 1) /\ (i + 1) - 1 = i
      BY <1>3, <2>3
    <3> QED BY <1>3, <2>3, <3>1
  <2>5. v = s
    BY <2>3, <2>4, SeqEqual
  <2> QED BY <2>2, <2>5
<1> QED BY <1>3, <1>4, <1>5, <1>6

LEMMA StartsWith ==
  ASSUME NEW S, NEW x \in Seq(S), NEW v \in Seq(S), NEW t, t = x \o v
  PROVE  Len(t) >= Len(x) /\ SubSeq(t, 1, Len(x)) = x
<1>1. Len(x) \in Nat /\ Len(v) \in Nat /\ Len(t) = Len(x) + Len(v)
  BY ConcatProperties, LenProperties
<1>2. CASE Len(x) = 0
  <2>1. x = << >>
    BY <1>2, EmptySeq
  <2>2. SubSeq(t, 1, 0) = << >>
    BY SubSeqEmpty
  <2> QED BY <1>1, <1>2, <2>1, <2>2
<1>3. CASE Len(x) # 0
  <2>1. PICK n : n = Len(x)
    OBVIOUS
  <2>2. 1 \in 1 .. Len(x) /\ n \in 1 .. Len(x)
    BY <1>1, <1>3, <2>1
  <2>3. SubSeq(t, 1, n) = SubSeq(x, 1, n)
    BY <2>2, SubSeqOfConcat1
  <2>4. SubSeq(x, 1, n) = x
    BY <2>1, SubSeqFull
  <2> QED BY <1>1, <2>1, <2>3, <2>4
<1> QED BY <1>2, <1>3

Rendered == \E sh, next : next \in Operations /\ RenderAt(sh, next)

\* A cycle that ends no operation.
LEMMA Silently ==
  ASSUME ScreenInv, Seen(shown), NEW sh, NEW op \in Operations, RenderAt(sh, op),
         NEW ops \in Seq(Operations), WaitsOn(ops), History(ops), Silent(sh, op)
  PROVE  Rendered' /\ shown' = sh /\ todo' = todo \o ops
<1>1. todo' = todo \o ops
  BY DEF Silent, Keeping, Fails, Answers, History, Left
<1>2. PICK next \in Operations : Stage(sh, next)' /\ Going(op, next)
  BY DEF Silent
<1>3. shown' = sh
  <2>1. CASE Settled'
    <3>1. Untouched(sh)' /\ (sh.blinking <=> cursor'.en = 1)
      BY <1>2, <2>1, SettledIs
    <3>2. Seen(sh)
      BY DEF RenderAt
    <3>3. Look' = sh
      BY <3>1, <3>2, SameLook
    <3> QED BY <2>1, <3>3, Zenon DEF History
  <2>2. CASE ~Settled'
    BY <2>2, Zenon DEF History, RenderAt
  <2> QED BY <2>1, <2>2
<1>4. PICK d, w : d = Doing(op) /\ w = Waiting
  OBVIOUS
<1>5. d \in Seq(Operations) /\ w \in Seq(Operations)
  BY <1>4, DoingIs, WaitingIs DEF WaitingTyped
<1>6. todo = d \o w
  BY <1>4, Zenon DEF RenderAt
<1>7. todo' = Doing(next)' \o Waiting'
  <2>1. CASE fifo_r_en' = 0
    <3>1. Doing(next)' = d
      BY <1>2, <1>4, <2>1 DEF Going
    <3>2. Waiting' = w \o ops
      BY <1>4, <2>1 DEF WaitsOn, Takes
    <3>3. (d \o w) \o ops = d \o (w \o ops)
      BY <1>5, ConcatAssociative
    <3> QED BY <1>1, <1>6, <3>1, <3>2, <3>3, Zenon
  <2>2. CASE fifo_r_en' = 1
    <3>1. d = << >> /\ Doing(next)' = OpsAt(Expecting, Byte1)
      BY <1>2, <1>4, <2>2 DEF Going
    <3>2. ops = << >> /\ Waiting' = << >> /\ w = OpsAt(Expecting, Byte1)
      BY <1>4, <2>2 DEF WaitsOn, Stands
    <3>3. << >> \o w = w /\ w \o << >> = w
      BY <1>5, ConcatEmptySeq
    <3> QED BY <1>1, <1>6, <3>1, <3>2, <3>3, Zenon
  <2> QED BY <1>2, <2>1, <2>2 DEF Going
<1>8. RenderAt(sh, next)'
  BY <1>2, <1>3, <1>7, Zenon DEF RenderAt
<1> QED BY <1>1, <1>3, <1>8, Zenon DEF Rendered

\* A cycle that ends one, or the drawing of the cursor.
LEMMA EndsAt ==
  ASSUME ScreenInv', NEW x, x = Look', Settled', fifo_r_en' = 0,
         NEW ops \in Seq(Operations), WaitsOn(ops), History(ops),
         todo' = Remaining' \o (Waiting \o ops)
  PROVE  Rendered' /\ shown' = x
<1>1. shown' = x
  BY Zenon DEF History
<1>2. PICK next \in Operations : next = [op |-> "id"]
  BY SomeOperations
<1>3. Untouched(x)' /\ (x.blinking <=> cursor'.en = 1)
  BY DEF Look, Untouched, Pos
<1>4. Stage(x, next)' /\ Doing(next)' = Remaining'
  BY <1>3, SettledIs
<1>5. Waiting' = Waiting \o ops
  BY DEF WaitsOn, Takes
<1>6. RenderAt(x, next)'
  BY <1>1, <1>4, <1>5, Zenon DEF RenderAt
<1> QED BY <1>1, <1>6, Zenon DEF Rendered

\* What there is left to do when the first operation goes.
LEMMA Leaves ==
  ASSUME ScreenInv, NEW sh, NEW op \in Operations, RenderAt(sh, op),
         NEW ops \in Seq(Operations), NEW rest2 \in Seq(Operations),
         Doing(op) = <<op>> \o rest2
  PROVE  /\ todo # << >> /\ Head(todo) = op /\ Tail(todo) = rest2 \o Waiting
         /\ Tail(todo) \in Seq(Operations)
         /\ Tail(todo) \o ops = rest2 \o (Waiting \o ops)
<1>1. PICK w, one : w = Waiting /\ one = <<op>>
  OBVIOUS
<1>2. w \in Seq(Operations) /\ one \in Seq(Operations)
  BY <1>1, WaitingIs, FewOps DEF WaitingTyped
<1>3. PICK left : left = rest2 \o w
  OBVIOUS
<1>4. left \in Seq(Operations)
  BY <1>2, <1>3, ConcatProperties
<1>5. todo = one \o left
  <2>1. todo = (one \o rest2) \o w
    BY <1>1, Zenon DEF RenderAt
  <2>2. one \in Seq(Operations) /\ rest2 \in Seq(Operations) /\ w \in Seq(Operations)
    BY <1>2
  <2>3. (one \o rest2) \o w = one \o (rest2 \o w)
    BY <2>2, JoinsAssociate, Zenon
  <2> QED BY <1>3, <2>1, <2>3, Zenon
<1>6. todo # << >> /\ Head(todo) = op /\ Tail(todo) = left
  BY <1>1, <1>4, <1>5, HeadIs
<1>7. left \o ops = rest2 \o (w \o ops)
  <2>1. rest2 \in Seq(Operations) /\ w \in Seq(Operations) /\ ops \in Seq(Operations)
    BY <1>2
  <2>2. (rest2 \o w) \o ops = rest2 \o (w \o ops)
    BY <2>1, JoinsAssociate, Zenon
  <2> QED BY <1>3, <2>2, Zenon
<1> QED BY <1>1, <1>3, <1>4, <1>6, <1>7, Zenon

\* The first operation is done, or the display did not answer.
LEMMA Endings ==
  ASSUME ScreenInv, ScreenInv', NEW sh, NEW op \in Operations, RenderAt(sh, op),
         NEW ops \in Seq(Operations), WaitsOn(ops), History(ops), NEW x, x = Look',
         Ended, Completes \/ Fails, Doing(op) = <<op>> \o Remaining'
  PROVE  /\ Rendered' /\ shown' = x
         /\ todo # << >> /\ Head(todo) = op /\ Tail(todo) \in Seq(Operations)
         /\ todo' = Tail(todo) \o ops
<1>1. PICK rest2 \in Seq(Operations) : rest2 = Remaining'
  BY RemainingNext
<1>2. /\ todo # << >> /\ Head(todo) = op /\ Tail(todo) \in Seq(Operations)
      /\ Tail(todo) \o ops = rest2 \o (Waiting \o ops)
  BY <1>1, Leaves
<1>3. todo' = Tail(todo) \o ops
  BY Zenon DEF History, Left, Fails
<1>4. todo' = Remaining' \o (Waiting \o ops)
  BY <1>1, <1>2, <1>3, Zenon
<1>5. Settled' /\ fifo_r_en' = 0
  BY DEF Ended
<1>6. Rendered' /\ shown' = x
  BY <1>4, <1>5, EndsAt
<1> QED BY <1>2, <1>3, <1>6

LEMMA Failing ==
  ASSUME ScreenInv, ScreenInv', Seen(shown), NEW sh, NEW op \in Operations, RenderAt(sh, op),
         NEW ops \in Seq(Operations), WaitsOn(ops), History(ops), Failed(sh, op)
  PROVE  /\ Rendered' /\ shown' = sh /\ op.op = "id"
         /\ todo # << >> /\ Head(todo) = op /\ Tail(todo) \in Seq(Operations)
         /\ todo' = Tail(todo) \o ops
<1>1. PICK x : x = Look'
  OBVIOUS
<1>2. x = sh
  <2>1. Seen(sh) /\ Untouched(sh)' /\ (sh.blinking <=> cursor'.en = 1)
    BY DEF RenderAt, Failed
  <2> QED BY <1>1, <2>1, SameLook
<1>3. Doing(op) = <<op>> \o Remaining'
  <2>1. PICK one \in Seq(Operations) : one = <<op>>
    BY FewOps
  <2>2. one \o << >> = one
    BY ConcatEmptySeq
  <2> QED BY <2>1, <2>2, Zenon DEF Failed
<1>4. Ended /\ Fails /\ op.op = "id"
  BY DEF Failed
<1> QED BY <1>1, <1>2, <1>3, <1>4, Endings

\* The display answered: two digits are to be printed.
LEMMA Answering ==
  ASSUME ScreenInv, NEW sh, NEW op \in Operations, RenderAt(sh, op),
         NEW ops \in Seq(Operations), WaitsOn(ops), History(ops), Answered(sh, op)
  PROVE  /\ Rendered' /\ shown' = sh /\ rest \in Bytes /\ op.op = "id"
         /\ todo # << >> /\ Head(todo) = op /\ Tail(todo) \in Seq(Operations)
         /\ todo' = (<<CharOp(FirstHalf(rest)), CharOp(SecondHalf(rest))>> \o Tail(todo)) \o ops
         /\ <<CharOp(FirstHalf(rest)), CharOp(SecondHalf(rest))>> \in Seq(Operations)
<1>1. PICK two : two = <<CharOp(FirstHalf(rest)), CharOp(SecondHalf(rest))>>
  OBVIOUS
<1>2. two \in Seq(Operations)
  <2>1. rest \in 0 .. 255
    BY DEF ScreenInv, RestInv
  <2>2. PICK a \in Operations, b \in Operations :
          a = CharOp(FirstHalf(rest)) /\ b = CharOp(SecondHalf(rest))
    BY <2>1, AByte, SomeOperations
  <2>3. two = <<a, b>>
    BY <1>1, <2>2, Zenon
  <2> QED BY <2>3
<1>3. PICK none \in Seq(Operations), one \in Seq(Operations) : none = << >> /\ one = <<op>>
  BY FewOps
<1>4. Doing(op) = <<op>> \o none
  <2>1. one \o << >> = one
    BY ConcatEmptySeq
  <2> QED BY <1>3, <2>1, Zenon DEF Answered
<1>5. /\ todo # << >> /\ Head(todo) = op /\ Tail(todo) \in Seq(Operations)
      /\ Tail(todo) = none \o Waiting
  BY <1>4, Leaves
<1>6. PICK w : w = Waiting
  OBVIOUS
<1>7. w \in Seq(Operations) /\ Tail(todo) = w
  <2>1. w \in Seq(Operations)
    BY <1>6, WaitingIs DEF WaitingTyped
  <2>2. << >> \o w = w
    BY <2>1, ConcatEmptySeq
  <2> QED BY <1>3, <1>5, <1>6, <2>1, <2>2, Zenon
<1>8. todo' = (two \o w) \o ops
  <2>1. ~Completes /\ ~Fails /\ Answers
    BY DEF Answered
  <2>2. Left = two \o Tail(todo)
    BY <1>1, <2>1 DEF Left, Fails, Answers
  <2> QED BY <1>7, <2>2, Zenon DEF History
<1>9. shown' = sh
  BY Zenon DEF History, Answered, RenderAt
<1>10. PICK next \in Operations : Stage(sh, next)' /\ Doing(next)' = two
  BY <1>1 DEF Answered
<1>11. Waiting' = w \o ops
  BY <1>6 DEF WaitsOn, Takes, Answered
<1>12. (two \o w) \o ops = two \o (w \o ops)
  <2>1. two \in Seq(Operations) /\ w \in Seq(Operations) /\ ops \in Seq(Operations)
    BY <1>2, <1>7
  <2> QED BY <2>1, JoinsAssociate, Zenon
<1>13. RenderAt(sh, next)'
  BY <1>8, <1>9, <1>10, <1>11, <1>12, Zenon DEF RenderAt
<1>14. Rendered'
  BY <1>13, Zenon DEF Rendered
<1>15. rest \in Bytes /\ op.op = "id"
  BY DEF Answered
<1> QED BY <1>1, <1>2, <1>5, <1>7, <1>8, <1>9, <1>14, <1>15, Zenon

\* The cursor was drawn, or blanked.
LEMMA BlinkingEnds ==
  ASSUME ScreenInv, ScreenInv', NEW sh, NEW op \in Operations, RenderAt(sh, op),
         NEW ops \in Seq(Operations), WaitsOn(ops), History(ops), NEW x, x = Look',
         Blinked(sh, op)
  PROVE  Rendered' /\ shown' = x /\ todo \in Seq(Operations) /\ todo' = todo \o ops
<1>1. PICK w : w = Waiting
  OBVIOUS
<1>2. w \in Seq(Operations)
  BY <1>1, WaitingIs DEF WaitingTyped
<1>3. todo = w
  <2>1. << >> \o w = w
    BY <1>2, ConcatEmptySeq
  <2> QED BY <1>1, <2>1, Zenon DEF RenderAt, Blinked
<1>4. todo' = w \o ops
  BY <1>3 DEF Blinked, Keeping, Fails, Answers, History, Left
<1>5. PICK v : v = w \o ops
  OBVIOUS
<1>6. << >> \o v = v
  <2>1. v \in Seq(Operations)
    BY <1>2, <1>5, ConcatProperties
  <2> QED BY <2>1, ConcatEmptySeq
<1>7. todo' = Remaining' \o (Waiting \o ops)
  BY <1>1, <1>4, <1>5, <1>6, Zenon DEF Blinked
<1>8. Settled' /\ fifo_r_en' = 0
  BY DEF Blinked, Ended
<1>9. Rendered' /\ shown' = x
  BY <1>7, <1>8, EndsAt
<1> QED BY <1>2, <1>3, <1>4, <1>9

-------------------------------------------------------------------------------
(***************************************************************************)
(* The steps of the terminal that the cycles are.                          *)
(***************************************************************************)
LEMMA SameScreens ==
  ASSUME NEW s
  PROVE  Promise!Scrolled(s) = Up(s) /\ Promise!Blanks = BlankScreen
  BY DEF Promise!Scrolled, Promise!Blanks, Promise!TextRows, Promise!TextCols, Up, BlankScreen

LEMMA CharDone ==
  ASSUME NEW sh, sh = shown, Seen(sh), NEW char,
         shown'.screen = EndScreen(sh, char, FALSE),
         shown'.pos = EndPos(sh, char, FALSE), shown'.pen = EndPen(sh, char, FALSE)
  PROVE  Promise!Char(char)
<1>1. CR # LF
  BY DEF CR, LF
<1>2. PICK drawn, x : drawn = Drawn(sh, char) /\ x = shown'
  OBVIOUS
<1>3. /\ x.screen = IF Scrolls(sh, char, FALSE) THEN Up(drawn) ELSE drawn
      /\ x.pos = IF char = CR THEN <<sh.pos[1], 1>>
                 ELSE IF Wraps(sh, char, FALSE)
                 THEN <<IF sh.pos[1] < LastRow THEN sh.pos[1] + 1 ELSE LastRow, 1>>
                 ELSE <<sh.pos[1], sh.pos[2] + 1>>
      /\ x.pen = IF char = CR THEN <<sh.pen[1], 1>> ELSE x.pos
  BY <1>2 DEF EndScreen, EndPos, EndPen
<1>4. /\ Wraps(sh, char, FALSE) <=> char = LF \/ (char # CR /\ sh.pos[2] = LastCol)
      /\ Scrolls(sh, char, FALSE) <=> Wraps(sh, char, FALSE) /\ sh.pos[1] = LastRow
  BY DEF Wraps, Scrolls
<1>5. sh.pos[1] \in 1 .. LastRow
  BY DEF Seen, Places
<1>6. sh.pos[1] < LastRow <=> sh.pos[1] # LastRow
  BY <1>5, Sizes
<1>7. ASSUME Wraps(sh, char, FALSE), char # CR
      PROVE  Promise!Advance(drawn)
  <2>1. x.pos = <<IF sh.pos[1] < LastRow THEN sh.pos[1] + 1 ELSE LastRow, 1>>
    BY <1>3, <1>7
  <2>2. x.screen = IF sh.pos[1] < LastRow THEN drawn ELSE Promise!Scrolled(drawn)
    BY <1>3, <1>4, <1>6, <1>7, SameScreens, Zenon
  <2> QED BY <1>2, <2>1, <2>2 DEF Promise!Advance
<1>8. x.pen = IF char = CR THEN <<shown.pen[1], 1>> ELSE x.pos
  BY <1>3
<1>9. CASE char = CR
  <2>1. x.screen = sh.screen /\ x.pos = <<shown.pos[1], 1>>
    BY <1>1, <1>2, <1>3, <1>4, <1>9 DEF Drawn
  <2>2. UNCHANGED shown.screen /\ shown'.pos = <<shown.pos[1], 1>> /\ char # LF
    BY <1>1, <1>2, <1>9, <2>1
  <2>3. shown'.pen = <<shown.pen[1], 1>>
    BY <1>2, <1>8, <1>9
  <2> QED BY <1>9, <2>2, <2>3 DEF Promise!Char
<1>10. CASE char = LF
  <2>1. drawn = shown.screen /\ Promise!Advance(drawn)
    BY <1>1, <1>2, <1>4, <1>7, <1>10 DEF Drawn
  <2>2. Promise!Advance(shown.screen) /\ char # CR
    BY <1>1, <1>10, <2>1
  <2> QED BY <1>2, <1>8, <1>10, <2>2 DEF Promise!Char
<1>11. CASE char # CR /\ char # LF
  <2>1. drawn = Promise!Written(shown.screen, char)
    BY <1>2, <1>11 DEF Drawn, Inked, Promise!Written
  <2>2. CASE sh.pos[2] = LastCol
    <3>1. Promise!Advance(Promise!Written(shown.screen, char))
      BY <1>4, <1>7, <1>11, <2>1, <2>2
    <3> QED BY <1>2, <1>8, <1>11, <2>2, <3>1 DEF Promise!Char
  <2>3. CASE sh.pos[2] # LastCol
    <3>1. x.screen = Promise!Written(shown.screen, char) /\ x.pos = <<shown.pos[1], shown.pos[2] + 1>>
      BY <1>3, <1>4, <1>11, <2>1, <2>3
    <3> QED BY <1>2, <1>8, <1>11, <2>3, <3>1 DEF Promise!Char
  <2> QED BY <2>2, <2>3
<1> QED BY <1>9, <1>10, <1>11

LEMMA Kept ==
  ASSUME NEW x \in Seq(Operations), NEW ops \in Seq(Operations), todo' = x \o ops
  PROVE  Promise!Keeps(x)
<1>1. PICK t : t = todo'
  OBVIOUS
<1>2. Len(t) >= Len(x) /\ SubSeq(t, 1, Len(x)) = x
  BY <1>1, StartsWith
<1> QED BY <1>1, <1>2 DEF Promise!Keeps

\* What is done is what the first operation asks for.
LEMMA Done ==
  ASSUME NEW sh, sh = shown, Seen(sh), NEW op, Performs(sh, op), shown' = Look'
  PROVE  Promise!Do(op)
<1>1. PICK s, p, n, on : s = Screen' /\ p = Pos' /\ n = Pen' /\ on = (cursor'.en = 1)
  OBVIOUS
<1>2. shown'.screen = s /\ shown'.pos = p /\ shown'.pen = n /\ shown'.blinking = on
  BY <1>1 DEF Look, Pos
<1>3. on \in BOOLEAN /\ sh.blinking \in BOOLEAN
  BY <1>1 DEF Seen
<1>4. ASSUME sh.blinking <=> cursor'.en = 1 PROVE shown'.blinking = shown.blinking
  <2>1. CASE cursor'.en = 1
    <3>1. on = TRUE /\ sh.blinking = TRUE
      BY <1>1, <1>3, <1>4, <2>1
    <3> QED BY <1>2, <3>1
  <2>2. CASE cursor'.en # 1
    <3>1. on = FALSE /\ sh.blinking = FALSE
      BY <1>1, <1>3, <1>4, <2>2
    <3> QED BY <1>2, <3>1
  <2> QED BY <2>1, <2>2
<1>5. CASE /\ op = CharOp(op.char)
           /\ Screen' = EndScreen(sh, op.char, FALSE) /\ Pos' = EndPos(sh, op.char, FALSE)
           /\ Pen' = EndPen(sh, op.char, FALSE) /\ (sh.blinking <=> cursor'.en = 1)
  <2>1. Promise!Char(op.char)
    BY <1>1, <1>2, <1>5, CharDone, Zenon
  <2>2. op.op = "char"
    BY <1>5 DEF CharOp
  <2> QED BY <1>4, <1>5, <2>1, <2>2 DEF Promise!Do
<1>6. CASE /\ op = LocateOp(op.row, op.col) /\ Screen' = sh.screen
           /\ Pos' = To(op.row, op.col, sh.pos) /\ Pen' = To(op.row, op.col, sh.pen)
           /\ (sh.blinking <=> cursor'.en = 1)
  <2>1. Promise!Goto(op.row, op.col)
    BY <1>1, <1>2, <1>6 DEF Promise!Goto, To
  <2>2. op.op = "locate"
    BY <1>6 DEF LocateOp
  <2> QED BY <1>4, <1>6, <2>1, <2>2 DEF Promise!Do
<1>7. CASE /\ op = [op |-> "cls"] /\ Screen' = BlankScreen /\ Pos' = <<1, 1>> /\ Pen' = <<1, 1>>
           /\ (sh.blinking <=> cursor'.en = 1)
  <2>1. Promise!Clear
    BY <1>1, <1>2, <1>7, SameScreens DEF Promise!Clear
  <2>2. op.op = "cls"
    BY <1>7
  <2> QED BY <1>4, <1>7, <2>1, <2>2 DEF Promise!Do
<1>8. CASE /\ op = [op |-> "init"] /\ (\E k \in 1 .. LastRow : Screen' = TurnedBy(sh.screen, k))
           /\ Pos' = <<1, 1>> /\ Pen' = <<1, LastCol>> /\ (sh.blinking <=> cursor'.en = 1)
  <2>1. Promise!Reset
    BY <1>1, <1>2, <1>8 DEF Promise!Reset, TurnedBy, Promise!TextRows
  <2>2. op.op = "init"
    BY <1>8
  <2> QED BY <1>4, <1>8, <2>1, <2>2 DEF Promise!Do
<1>9. CASE /\ op = [op |-> "power"] /\ Untouched(sh)' /\ (sh.blinking <=> cursor'.en = 1)
  <2>1. shown'.screen = shown.screen /\ shown'.pos = shown.pos /\ shown'.pen = shown.pen
    BY <1>1, <1>2, <1>9 DEF Untouched
  <2>2. op.op = "power"
    BY <1>9
  <2> QED BY <1>4, <1>9, <2>1, <2>2 DEF Promise!Do
<1>10. CASE /\ op = CursorOp(op.char) /\ op.char \in {CursorChar, Blank}
            /\ Screen' = Inked(sh.screen, sh.pen, op.char) /\ Pos' = sh.pos /\ Pen' = sh.pos
            /\ (cursor'.en = 1 <=> op.char = CursorChar)
  <2>1. Promise!Cursor(op.char)
    BY <1>1, <1>2, <1>10 DEF Promise!Cursor, Promise!Written, Inked
  <2>2. shown'.blinking = (op.char = CursorChar)
    <3>1. PICK same : same = (op.char = CursorChar)
      OBVIOUS
    <3>2. same \in BOOLEAN /\ (on <=> same)
      BY <1>1, <1>10, <3>1
    <3>3. on = same
      BY <1>3, <3>2
    <3> QED BY <1>2, <3>1, <3>3, Zenon
  <2>3. op.op = "cursor"
    BY <1>10 DEF CursorOp
  <2> QED BY <2>1, <2>2, <2>3 DEF Promise!Do
<1> QED BY <1>5, <1>6, <1>7, <1>8, <1>9, <1>10 DEF Performs

LEMMA AskedNow == ASSUME NEW ops, History(ops) PROVE AskedNext
  BY DEF History, AskedNext

\* Every cycle keeps the invariant, and is a step of the terminal.
LEMMA StepRenders ==
  ASSUME PanelNext, TurnsInv, ScreenInv, RenderInv
  PROVE  RenderInv' /\ Promise!Next
<1>1. TurnsInv' /\ ScreenInv'
  BY StepTurns, StepScreen
<1>2. PICK sh, op : op \in Operations /\ RenderAt(sh, op)
  BY DEF RenderInv
<1>3. sh = shown /\ Stage(sh, op) /\ Seen(shown)
  BY <1>2 DEF RenderAt, RenderInv
<1>4. UnitsInv
  BY DEF UnitsInv, RenderInv, ScreenInv, TurnsInv, WorkInv
<1>5. PICK bus \in BusInputs, full \in Pulses, ops \in Seq(Operations) :
        /\ Commanding(Busy, bus, full) \/ Chpr(Busy)
        /\ Units /\ History(ops) /\ WaitsOn(ops)
  BY StepWaits
<1>6. Here(sh, op)
  BY <1>2, <1>3, <1>4, <1>5, AskedNow DEF Here, RenderInv
<1>7. Comes(sh, op)
  BY <1>5, <1>6, StepComes
<1>8. AdvanceInv'
  BY <1>5, CommandAdvances, PrinterAdvances DEF RenderInv
<1>9. req' \in Asks \cup {None} /\ work' \in Asks \cup {None}
  BY <1>4, <1>5, <1>6, StepAsks, WorkAsks
<1>10. MemoryInv' /\ AdjustedInv'
  BY <1>4, <1>5, MemoryKept
<1>11. PICK x : x = Look'
  OBVIOUS
<1>12. Seen(x)
  BY <1>1, <1>10, <1>11, LookNext
<1>13. todo \in Seq(Operations)
  <2>1. PICK d, w : d = Doing(op) /\ w = Waiting
    OBVIOUS
  <2>2. d \in Seq(Operations) /\ w \in Seq(Operations)
    BY <1>2, <2>1, DoingIs, WaitingIs DEF WaitingTyped
  <2>3. todo = d \o w
    BY <1>2, <2>1, Zenon DEF RenderAt
  <2> QED BY <2>2, <2>3, ConcatProperties
<1> DEFINE Good == Obeying' /\ Seen(shown') /\ Rendered' /\ Promise!Next
<1> SUFFICES Good
  BY <1>8, <1>9, <1>10, Zenon DEF RenderInv, Rendered
<1>14. CASE Silent(sh, op)
  <2>1. Rendered' /\ shown' = sh /\ todo' = todo \o ops
    BY <1>2, <1>3, <1>5, <1>14, Silently
  <2>2. Promise!Keeps(todo)
    BY <1>13, <2>1, Kept
  <2>3. Promise!AskFor
    BY <1>3, <2>1, <2>2 DEF Promise!AskFor
  <2> QED BY <1>3, <1>14, <2>1, <2>3 DEF Silent, Promise!Next
<1>15. CASE Performed(sh, op)
  <2>1. /\ Rendered' /\ shown' = x
        /\ todo # << >> /\ Head(todo) = op /\ Tail(todo) \in Seq(Operations)
        /\ todo' = Tail(todo) \o ops
    BY <1>1, <1>2, <1>5, <1>11, <1>15, Endings DEF Performed
  <2>2. Promise!Keeps(Tail(todo))
    BY <2>1, Kept
  <2>3. Promise!Do(op)
    BY <1>3, <1>11, <1>15, <2>1, Done DEF Performed
  <2>4. Promise!Perform
    BY <2>1, <2>2, <2>3 DEF Promise!Perform
  <2>5. Obeying'
    BY <1>15 DEF Performed, Ended
  <2> QED BY <1>12, <2>1, <2>4, <2>5 DEF Promise!Next
<1>16. CASE Failed(sh, op)
  <2>1. /\ Rendered' /\ shown' = sh /\ op.op = "id"
        /\ todo # << >> /\ Head(todo) = op /\ Tail(todo) \in Seq(Operations)
        /\ todo' = Tail(todo) \o ops
    BY <1>1, <1>2, <1>3, <1>5, <1>16, Failing
  <2>2. Promise!Keeps(Tail(todo))
    BY <2>1, Kept
  <2>3. Promise!Identify
    BY <1>3, <2>1, <2>2 DEF Promise!Identify
  <2>4. Obeying'
    BY <1>16 DEF Failed, Ended
  <2> QED BY <1>3, <2>1, <2>3, <2>4 DEF Promise!Next
<1>17. CASE Answered(sh, op)
  <2>1. PICK d, e : d = FirstHalf(rest) /\ e = SecondHalf(rest)
    OBVIOUS
  <2>2. PICK two : two = <<CharOp(d), CharOp(e)>>
    OBVIOUS
  <2>3. /\ Rendered' /\ shown' = sh /\ rest \in Bytes /\ op.op = "id"
        /\ todo # << >> /\ Head(todo) = op /\ Tail(todo) \in Seq(Operations)
        /\ todo' = (two \o Tail(todo)) \o ops /\ two \in Seq(Operations)
    BY <1>2, <1>5, <1>17, <2>1, <2>2, Answering
  <2>4. PICK both : both = two \o Tail(todo)
    OBVIOUS
  <2>5. both \in Seq(Operations)
    BY <2>3, <2>4, ConcatProperties
  <2>6. Promise!Keeps(both)
    BY <2>3, <2>4, <2>5, Kept
  <2>7. /\ d \in {FirstHalf(b) : b \in Bytes} \cup {SecondHalf(b) : b \in Bytes}
        /\ e \in {FirstHalf(b) : b \in Bytes} \cup {SecondHalf(b) : b \in Bytes}
    BY <2>1, <2>3
  <2>8. both = <<[op |-> "char", char |-> d], [op |-> "char", char |-> e]>> \o Tail(todo)
    BY <2>2, <2>4 DEF CharOp
  <2>9. Promise!Identify
    BY <1>3, <2>3, <2>6, <2>7, <2>8, Zenon DEF Promise!Identify
  <2>10. Obeying'
    BY <1>17 DEF Answered
  <2> QED BY <1>3, <2>3, <2>9, <2>10 DEF Promise!Next
<1>18. CASE Blinked(sh, op)
  <2>1. Rendered' /\ shown' = x /\ todo' = todo \o ops
    BY <1>1, <1>2, <1>5, <1>11, <1>18, BlinkingEnds
  <2>2. Promise!Keeps(todo)
    BY <1>13, <2>1, Kept
  <2>3. Promise!Cursor(op.char) /\ op.char \in {CursorChar, Blank}
    BY <1>3, <1>11, <1>18, <2>1
       DEF Blinked, Promise!Cursor, Promise!Written, Inked, Look, Pos
  <2>4. shown.blinking = TRUE /\ shown'.blinking = TRUE
    BY <1>3, <1>11, <1>12, <1>18, <2>1 DEF Blinked, Seen, Look
  <2>5. Promise!Blink
    BY <2>2, <2>3, <2>4 DEF Promise!Blink
  <2>6. Obeying'
    BY <1>18 DEF Blinked, Ended
  <2> QED BY <1>12, <2>1, <2>5, <2>6 DEF Promise!Next
<1> HIDE DEF Good
<1> QED BY <1>7, <1>14, <1>15, <1>16, <1>17, <1>18 DEF Comes

LEMMA InitRenders ==
  ASSUME PanelInit PROVE RenderInv /\ Promise!Init
<1>1. /\ main = "IDLE" /\ result = "SUCCESS" /\ fifo_in = << >> /\ printer.run = 0
      /\ printer.advance = 1 /\ printer.fsm = "IDLE" /\ req = None /\ work = None
      /\ cursor.row = 1 /\ cursor.col = 1 /\ cursor.en = 0
      /\ adjusted = 0 /\ start = 0 /\ ram = [l \in Lines |-> BlankLine]
      /\ point = [line |-> 0, page |-> 0] /\ asked = FALSE /\ todo = << >> /\ shown = Look
  BY DEF PanelInit, OLEDInit
<1>2. PICK zero \in Lines : zero = 0
  BY Sizes DEF Lines
<1>3. Screen = BlankScreen
  <2>1. ScreenOf(zero, ram) = BlankScreen
    BY <1>1, ClearShows
  <2> QED BY <1>1, <1>2, <2>1, SeenIs, Zenon
<1>4. Pen = <<1, LastCol>>
  BY <1>1, <1>2, InitShows, SeenIs
<1>5. Pos = <<1, 1>>
  BY <1>1 DEF Pos
<1>6. MemoryInv
  BY <1>1 DEF MemoryInv, BlankLine, Blank
<1>7. AdjustedInv /\ AdvanceInv /\ Obeying
  BY <1>1 DEF AdjustedInv, AdvanceInv, Obeying
<1>8. shown = [screen |-> BlankScreen, pos |-> <<1, 1>>, pen |-> <<1, LastCol>>, blinking |-> FALSE]
  <2>1. PICK s, p, n : s = Screen /\ p = <<cursor.row, cursor.col>> /\ n = Pen
    OBVIOUS
  <2>2. s = BlankScreen /\ p = <<1, 1>> /\ n = <<1, LastCol>> /\ (cursor.en = 1) = FALSE
    BY <1>1, <1>3, <1>4, <2>1
  <2>3. shown = [screen |-> s, pos |-> p, pen |-> n, blinking |-> cursor.en = 1]
    BY <1>1, <2>1 DEF Look
  <2> QED BY <2>2, <2>3
<1>9. Promise!Init
  BY <1>1, <1>8, SameScreens DEF Promise!Init
<1>10. Seen(shown)
  <2>1. BlankScreen \in [1 .. LastRow -> [1 .. LastCol -> Nat]]
    BY DEF BlankScreen, Blank
  <2>2. <<1, 1>> \in Places /\ <<1, LastCol>> \in Places
    BY Sizes DEF Places
  <2> QED BY <1>8, <2>1, <2>2 DEF Seen
<1>11. PICK sh, op : sh = shown /\ op \in Operations /\ op = [op |-> "id"]
  BY SomeOperations
<1>12. Untouched(sh) /\ ~sh.blinking
  BY <1>3, <1>4, <1>5, <1>8, <1>11 DEF Untouched
<1>13. ~Blinking /\ ~Carrying /\ ~Given
  BY <1>1 DEF Blinking, Carrying, Blinks, Stays, Moving, Sending, Clearing, Homing, Asking,
              Given, Readable
<1>14. Shows(sh, op) /\ CursorShown(sh, op) /\ Carried(op)
  BY <1>1, <1>12, <1>13
     DEF Shows, CursorShown, Carried, Locating, Moving, Sending, Clearing, Homing, Asking
<1>15. Doing(op) = << >> /\ Waiting = << >>
  <2>1. main # "START_STROBED_FIFO_IN_R_EN" /\ main \notin Firsts
    BY <1>1 DEF Firsts
  <2> QED BY <1>13, <2>1, Zenon DEF Doing, Waiting
<1>16. todo = Doing(op) \o Waiting
  <2>1. << >> \o << >> = << >>
    BY FewOps, ConcatEmptySeq
  <2> QED BY <1>1, <1>15, <2>1, Zenon
<1>17. RenderAt(sh, op)
  BY <1>11, <1>14, <1>16, Zenon DEF RenderAt, Stage
<1> QED BY <1>1, <1>6, <1>7, <1>9, <1>10, <1>11, <1>17 DEF RenderInv

\* Nothing depends on anything but the variables.
LEMMA StutterRenders ==
  ASSUME UNCHANGED vars, RenderInv
  PROVE  RenderInv'
<1>1. /\ main' = main /\ command' = command /\ result' = result /\ fifo_in' = fifo_in
      /\ fifo_r_en' = fifo_r_en /\ rest' = rest /\ cursor' = cursor /\ printer' = printer
      /\ req' = req /\ work' = work /\ adjusted' = adjusted /\ ram' = ram /\ start' = start
      /\ point' = point /\ asked' = asked /\ todo' = todo /\ shown' = shown
  BY DEF vars, oledVars, displayVars, historyVars
<1>2. PICK sh, op : op \in Operations /\ RenderAt(sh, op)
  BY DEF RenderInv
<1>3. Screen' = Screen /\ Pen' = Pen
  BY <1>1, SeenIs
<1>4. Pos' = Pos /\ (Stays' <=> Stays) /\ (Blinking' <=> Blinking) /\ (Carrying' <=> Carrying)
  BY <1>1 DEF Pos, Stays, Blinking, Carrying
<1>5. ASSUME NEW r, NEW s, NEW n PROVE InFlight(r, s, n)' <=> InFlight(r, s, n)
  BY <1>1, <1>3, Zenon DEF InFlight, Landed
<1>6. Untouched(sh)' <=> Untouched(sh)
  BY <1>3, <1>4 DEF Untouched
<1>7. Printing(sh, op.char)' <=> Printing(sh, op.char)
  <2>1. PICK char : char = op.char
    OBVIOUS
  <2>2. ASSUME NEW stay PROVE PrintingAs(sh, char, stay)' <=> PrintingAs(sh, char, stay)
    <3>1. EndPos(sh, char, stay)' = EndPos(sh, char, stay)
      BY <1>1, Zenon DEF EndPos, Wraps
    <3>2. Scrolls(sh, char, stay)' <=> Scrolls(sh, char, stay)
      BY <1>1, Zenon DEF Scrolls, Wraps
    <3>3. EndScreen(sh, char, stay)' = EndScreen(sh, char, stay)
      BY <1>1, Zenon DEF EndScreen, Drawn, Scrolls, Wraps
    <3>4. EndPen(sh, char, stay)' = EndPen(sh, char, stay)
      BY <1>1, Zenon DEF EndPen, EndPos, Wraps
    <3> QED BY <1>1, <1>4, <1>5, <1>6, <3>1, <3>2, <3>3, <3>4, Zenon DEF PrintingAs, Drawn
  <2>3. Stays' = Stays
    BY <1>1, Zenon DEF Stays
  <2> QED BY <2>1, <2>2, <2>3, Zenon DEF Printing
<1>8. Shows(sh, op)' <=> Shows(sh, op)
  BY <1>1, <1>3, <1>4, <1>5, <1>6, <1>7, Zenon DEF Shows
<1>9. (CursorShown(sh, op)' <=> CursorShown(sh, op)) /\ (Carried(op)' <=> Carried(op))
  BY <1>1, <1>4, Zenon DEF CursorShown, Carried
<1>10. Doing(op)' = Doing(op)
  BY <1>1, <1>4, Zenon DEF Doing
<1>11. Waiting' = Waiting
  BY <1>1, Zenon DEF Waiting, Given, Readable, Expecting, Byte1
<1>12. RenderAt(sh, op)'
  BY <1>1, <1>2, <1>8, <1>9, <1>10, <1>11, Zenon DEF RenderAt, Stage
<1>13. MemoryInv' /\ AdjustedInv' /\ AdvanceInv' /\ Obeying' /\ Seen(shown')
  BY <1>1, <1>4, Zenon DEF RenderInv, MemoryInv, AdjustedInv, AdvanceInv, Obeying
<1> QED BY <1>1, <1>2, <1>12, <1>13, Zenon DEF RenderInv

\* The module in front of its display implements a terminal: what is on the display
\* is what the operations queued, carried out one after the other, put there.
THEOREM PanelIsATerminal == PanelSpec => Renders
<1>1. PanelInit => RenderInv /\ Promise!Init
  BY InitRenders
<1>2. ASSUME TurnsInv, ScreenInv, RenderInv, [PanelNext]_vars
      PROVE  RenderInv' /\ [Promise!Next]_Promise!vars
  <2>1. CASE PanelNext
    BY <1>2, <2>1, StepRenders
  <2>2. CASE UNCHANGED vars
    BY <1>2, <2>2, StutterRenders DEF vars, historyVars, Promise!vars
  <2> QED BY <1>2, <2>1, <2>2
<1> QED BY <1>1, <1>2, TurnsInvariance, ScreenInvariance, PTL DEF PanelSpec, Renders, Promise!Spec
===============================================================================
