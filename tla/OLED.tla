--------------------------------- MODULE OLED ---------------------------------
(***************************************************************************)
(* The OLED module's command FSM and character printer,                    *)
(* sh1107/rtl/oled/__init__.py, apart from the units they strobe and the   *)
(* bus.  A step is one clock cycle; the operands of OLEDStep are that      *)
(* cycle's inputs: busy gives each unit's busy line, bus what own_i2c_bus  *)
(* shows, full the pulse of the cursor's counter, w_en and w_data the      *)
(* writing end of the command queue.                                       *)
(*                                                                         *)
(* The two FSMs write the same signals, but never in the same cycle: while *)
(* printer.run is set the command FSM stays in a "CHPR_RUNNING" state,     *)
(* until the printer clears it; while it is clear the printer is idle.     *)
(*                                                                         *)
(* A register's content is left out (zero) once nothing reads it any more. *)
(***************************************************************************)
EXTENDS Gateware, Requests

CONSTANTS
  LastRow, LastCol   \* 16 each

ASSUME LastRowAssumption == LastRow \in Nat \ {0}
ASSUME LastColAssumption == LastCol \in Nat \ {0}

\* OLED.Command, less SPI_TEST.
NOP         == 0
INIT        == 1
DISPLAY_ON  == 2
DISPLAY_OFF == 3
CLS         == 4
LOCATE      == 5
PRINT       == 6
CURSOR_ON   == 7
CURSOR_OFF  == 8
ID          == 9
PRINT_BYTE  == 10

\* The characters the code knows by name, and the commands of the ROM.
CR         == 13
LF         == 10
Blank      == 32
CursorChar == 95
OFFSET_INIT        == 0
OFFSET_DISPLAY_ON  == 1
OFFSET_DISPLAY_OFF == 2
OFFSET_CHAR        == 4

VARIABLES
  main,                \* the command FSM's state
  command, result,
  fifo_in, fifo_r_en,  \* the command queue, and its pop strobe
  rest,                \* the operand still to be used: LOCATE's row, PRINT's
                       \*   remaining, the byte of ID or PRINT_BYTE
  cursor,              \* _row, _col and the _cursor signals
  printer,             \* the printer's state and the _chpr signals
  req,                 \* the request strobed in this cycle
  own                  \* own_i2c_bus, used by ID alone

oledVars == <<main, command, result, fifo_in, fifo_r_en, rest, cursor, printer,
              req, own>>

OwnIdle == [stb |-> 0, w_en |-> 0, w |-> "none", r_en |-> 0]

\* The module as the ROM fill after power-up leaves it.
OLEDInit ==
  /\ main = "IDLE" /\ command = NOP /\ result = "SUCCESS"
  /\ fifo_in = <<>> /\ fifo_r_en = 0 /\ rest = 0
  /\ cursor = [row |-> 1, col |-> 1, en |-> 0, state |-> 0,
               drawn_row |-> 1, drawn_col |-> 1]
  /\ printer = [fsm |-> "IDLE", run |-> 0, data |-> 0, advance |-> 1]
  /\ req = None /\ own = OwnIdle

-------------------------------------------------------------------------------
(***************************************************************************)
(* The command FSM.  A strobe falls in the cycle after it was raised:      *)
(* Quiet.                                                                  *)
(***************************************************************************)
From(state) == printer.run = 0 /\ main = state

Given == Readable(fifo_in)
Byte1 == fifo_in[1]

Quiet    == fifo_r_en' = 0 /\ req' = None
Pop      == fifo_r_en' = 1 /\ req' = None
Ask(r)   == fifo_r_en' = 0 /\ req' = r

Finished(r) == result' = r /\ main' = "IDLE"

\* Start the printer on a character.
Show(char) == printer' = [printer EXCEPT !.run = 1, !.data = char]

\* A state that only lets strobes fall, or waits for the queue.
Pass(from, to) ==
  /\ From(from) /\ main' = to /\ Quiet
  /\ UNCHANGED <<command, result, rest, cursor, printer, own>>

Starved(state) == ~Given /\ Pass(state, state)

\* A state that waits for a unit to finish, and the command with it.
AwaitUnit(state, unit_busy) ==
  /\ From(state) /\ Quiet
  /\ IF unit_busy = 0 THEN Finished("SUCCESS") ELSE UNCHANGED <<main, result>>
  /\ UNCHANGED <<command, rest, cursor, printer, own>>

(***************************************************************************)
(* IDLE: the cursor blinks, else a command is taken (if a unit could use   *)
(* the bus), else the cursor follows the position.                         *)
(***************************************************************************)
IdleBlinks ==
  Pass("IDLE", IF cursor.state = 1 THEN "CURSOR_OFF_RESET" ELSE "CURSOR_ON_RESET")

IdleTakes ==
  /\ From("IDLE") /\ Pop
  /\ command' = Byte1 /\ result' = "BUSY" /\ main' = "START_STROBED_FIFO_IN_R_EN"
  /\ UNCHANGED <<rest, cursor, printer, own>>

CursorMoved == cursor.drawn_col # cursor.col \/ cursor.drawn_row # cursor.row

IdleElse ==
  /\ From("IDLE") /\ Quiet
  /\ IF cursor.en = 1 /\ CursorMoved
     THEN main' = "CURSOR_ON_RESET" /\ cursor' = [cursor EXCEPT !.en = 0]
     ELSE UNCHANGED <<main, cursor>>
  /\ UNCHANGED <<command, result, rest, printer, own>>

AtIdle(full, w_rdy) ==
  \/ full = 1 /\ IdleBlinks
  \/ full = 0 /\ Given /\ w_rdy = 1 /\ IdleTakes
  \/ full = 0 /\ ~(Given /\ w_rdy = 1) /\ IdleElse

(***************************************************************************)
(* START: what each command byte begins.  There is no default: an unknown  *)
(* one leaves the FSM where it is.                                         *)
(***************************************************************************)
Begin(commands) ==
  /\ From("START_STROBED_FIFO_IN_R_EN") /\ command \in commands
  /\ command' = NOP
  /\ UNCHANGED <<rest, printer, own>>

BeginNop ==
  Begin({NOP}) /\ Quiet /\ Finished("SUCCESS") /\ UNCHANGED cursor

BeginInit ==
  /\ Begin({INIT}) /\ Ask(WriteROM(OFFSET_INIT, 1))
  /\ cursor' = [cursor EXCEPT !.row = 1, !.col = 1]
  /\ main' = "INIT_STROBED_ROM_WRITER"
  /\ UNCHANGED result

BeginDisplay ==
  /\ Begin({DISPLAY_ON, DISPLAY_OFF})
  /\ Ask(WriteROM(IF command = DISPLAY_ON THEN OFFSET_DISPLAY_ON
                                          ELSE OFFSET_DISPLAY_OFF, 0))
  /\ main' = "ROM_WRITE_SINGLE_STROBED_ROM_WRITER"
  /\ UNCHANGED <<result, cursor>>

BeginCls ==
  /\ Begin({CLS}) /\ Ask(Clear)
  /\ cursor' = [cursor EXCEPT !.row = 1, !.col = 1]
  /\ main' = "CLSER_STROBED"
  /\ UNCHANGED result

BeginCursor ==
  /\ Begin({CURSOR_ON, CURSOR_OFF}) /\ Quiet
  /\ cursor' = [cursor EXCEPT !.en = 0]
  /\ result' = "SUCCESS"
  /\ main' = IF command = CURSOR_ON THEN "CURSOR_ON_RESET" ELSE "CURSOR_OFF_RESET"

\* The commands that have an operand, and ID.
FirstState(c) ==
  IF c = LOCATE THEN "LOCATE_ROW_WAIT"
  ELSE IF c = PRINT THEN "PRINT_COUNT_WAIT"
  ELSE IF c = ID THEN "ID_START"
  ELSE "PRINT_BYTE_START"

BeginOther ==
  /\ Begin({LOCATE, PRINT, ID, PRINT_BYTE}) /\ Quiet
  /\ main' = FirstState(command)
  /\ UNCHANGED <<result, cursor>>

Unknown ==
  command \notin NOP .. PRINT_BYTE
    /\ Pass("START_STROBED_FIFO_IN_R_EN", "START_STROBED_FIFO_IN_R_EN")

Start ==
  \/ BeginNop \/ BeginInit \/ BeginDisplay \/ BeginCls \/ BeginCursor
  \/ BeginOther \/ Unknown

Cls(busy) ==
  \/ Pass("CLSER_STROBED", "CLSER_UNSTROBED")
  \/ busy.clser = 1 /\ Pass("CLSER_UNSTROBED", "CLSER_UNSTROBED")
  \/ /\ From("CLSER_UNSTROBED") /\ busy.clser = 0
     /\ Ask(Locate(cursor.row, cursor.col))
     /\ main' = "CLSER_STROBED_LOCATOR"
     /\ UNCHANGED <<command, result, rest, cursor, printer, own>>
  \/ Pass("CLSER_STROBED_LOCATOR", "CLSER_UNSTROBED_LOCATOR")
  \/ AwaitUnit("CLSER_UNSTROBED_LOCATOR", busy.locator)

WriteSingle(busy) ==
  \/ Pass("INIT_STROBED_ROM_WRITER", "ROM_WRITE_SINGLE_UNSTROBED_ROM_WRITER")
  \/ Pass("ROM_WRITE_SINGLE_STROBED_ROM_WRITER",
          "ROM_WRITE_SINGLE_UNSTROBED_ROM_WRITER")
  \/ AwaitUnit("ROM_WRITE_SINGLE_UNSTROBED_ROM_WRITER", busy.rom_writer)

(***************************************************************************)
(* locate_states: a zero leaves that coordinate as it is.                  *)
(***************************************************************************)
LocateRow ==
  /\ From("LOCATE_ROW_WAIT") /\ Given /\ Pop
  /\ rest' = Byte1
  /\ cursor' = IF Byte1 # 0 THEN [cursor EXCEPT !.row = Byte1] ELSE cursor
  /\ main' = "LOCATE_ROW_STROBED_R_EN"
  /\ UNCHANGED <<command, result, printer, own>>

LocateCol ==
  /\ From("LOCATE_COL_WAIT") /\ Given
  /\ fifo_r_en' = 1 /\ req' = Locate(rest, Byte1) /\ rest' = 0
  /\ cursor' = IF Byte1 # 0 THEN [cursor EXCEPT !.col = Byte1] ELSE cursor
  /\ main' = "LOCATE_COL_STROBED_R_EN"
  /\ UNCHANGED <<command, result, printer, own>>

LocateStep(busy) ==
  \/ LocateRow \/ Starved("LOCATE_ROW_WAIT")
  \/ Pass("LOCATE_ROW_STROBED_R_EN", "LOCATE_COL_WAIT")
  \/ LocateCol \/ Starved("LOCATE_COL_WAIT")
  \/ Pass("LOCATE_COL_STROBED_R_EN", "LOCATE_UNSTROBED_LOCATOR")
  \/ AwaitUnit("LOCATE_UNSTROBED_LOCATOR", busy.locator)

(***************************************************************************)
(* print_states and print_byte_states.                                     *)
(***************************************************************************)
PrintCount ==
  /\ From("PRINT_COUNT_WAIT") /\ Given /\ Pop
  /\ rest' = Byte1
  /\ main' = "PRINT_COUNT_STROBED_R_EN"
  /\ UNCHANGED <<command, result, cursor, printer, own>>

\* Variant: a count of zero is not looked at.
PrintCountedUnchecked ==
  Pass("PRINT_COUNT_STROBED_R_EN", "PRINT_DATA_WAIT")

PrintCounted ==
  /\ From("PRINT_COUNT_STROBED_R_EN") /\ Quiet
  /\ IF rest = 0 THEN Finished("SUCCESS")
                 ELSE main' = "PRINT_DATA_WAIT" /\ UNCHANGED result
  /\ UNCHANGED <<command, rest, cursor, printer, own>>

PrintData ==
  /\ From("PRINT_DATA_WAIT") /\ Given /\ Pop
  /\ Show(Byte1)
  /\ main' = "PRINT_DATA_CHPR_RUNNING"
  /\ UNCHANGED <<command, result, rest, cursor, own>>

PrintedData ==
  /\ From("PRINT_DATA_CHPR_RUNNING") /\ Quiet
  /\ rest' = rest - 1
  /\ IF rest = 1 THEN Finished("SUCCESS")
                 ELSE main' = "PRINT_DATA_WAIT" /\ UNCHANGED result
  /\ UNCHANGED <<command, cursor, printer, own>>

PrintByteFirst ==
  /\ From("PRINT_BYTE_START") /\ Given /\ Pop
  /\ Show(FirstHalf(Byte1)) /\ rest' = Byte1 % 16
  /\ main' = "PRINT_BYTE_STROBED_R_EN_CHPR_RUNNING"
  /\ UNCHANGED <<command, result, cursor, own>>

\* The second half of the byte in rest, for PRINT_BYTE and ID alike.
SecondDigit(from, to) ==
  /\ From(from) /\ Quiet
  /\ Show(SecondHalf(rest)) /\ rest' = 0
  /\ main' = to
  /\ UNCHANGED <<command, result, cursor, own>>

PrintStep ==
  \/ PrintCount \/ Starved("PRINT_COUNT_WAIT") \/ PrintCounted
  \/ PrintData \/ Starved("PRINT_DATA_WAIT") \/ PrintedData
  \/ PrintByteFirst \/ Starved("PRINT_BYTE_START")
  \/ SecondDigit("PRINT_BYTE_STROBED_R_EN_CHPR_RUNNING",
                 "PRINT_BYTE_SECOND_HALF_CHPR_RUNNING")
  \/ AwaitUnit("PRINT_BYTE_SECOND_HALF_CHPR_RUNNING", 0)

(***************************************************************************)
(* id_states: ID drives the controller itself, and is the only command     *)
(* that can fail.                                                          *)
(***************************************************************************)
Drive(from, o, to) ==
  /\ From(from) /\ own' = o /\ main' = to /\ Quiet
  /\ UNCHANGED <<command, result, rest, cursor, printer>>

\* Variant: the strobe comes with the word, before the queue shows it.
PutStrobed(word) == [OwnIdle EXCEPT !.w_en = 1, !.w = word, !.stb = 1]

Put(word)  == [OwnIdle EXCEPT !.w_en = 1, !.w = word]
StartIt    == [OwnIdle EXCEPT !.stb = 1]
TakeAnswer == [OwnIdle EXCEPT !.r_en = 1]

IdFails(bus) ==
  /\ bus.busy = 0 /\ own' = OwnIdle /\ Finished("FAILURE") /\ Quiet
  /\ UNCHANGED <<command, rest, cursor, printer>>

\* Variant: a word is queued without a look at the queue.
IdQueueUnchecked(from, word, to, bus) ==
  LET ready == bus.busy = 1 /\ bus.ack = 1 IN
  \/ ready /\ Drive(from, Put(word), to)
  \/ From(from) /\ ~ready /\ IdFails(bus)

\* Queue a word once the one before it is on the wire, unless refused.
IdQueue(from, word, to, bus) ==
  LET ready == bus.busy = 1 /\ bus.ack = 1 /\ bus.w_rdy = 1 IN
  \/ ready /\ Drive(from, Put(word), to)
  \/ From(from) /\ ~ready /\ IdFails(bus)
  \/ ~ready /\ bus.busy = 1 /\ Drive(from, OwnIdle, from)

IdReceive(bus) ==
  \/ /\ From("ID_RECV_WAIT") /\ bus.r_rdy = 1 /\ Quiet
     /\ rest' = bus.r_data /\ own' = TakeAnswer
     /\ main' = "ID_RECV_STROBED_R_EN"
     /\ UNCHANGED <<command, result, cursor, printer>>
  \/ From("ID_RECV_WAIT") /\ bus.r_rdy = 0 /\ IdFails(bus)
  \/ bus.r_rdy = 0 /\ bus.busy = 1 /\ Drive("ID_RECV_WAIT", OwnIdle, "ID_RECV_WAIT")

IdReceived(bus) ==
  \/ bus.busy = 1 /\ Drive("ID_RECV_STROBED_R_EN", OwnIdle, "ID_RECV_STROBED_R_EN")
  \/ /\ From("ID_RECV_STROBED_R_EN") /\ bus.busy = 0 /\ Quiet
     /\ own' = OwnIdle
     /\ Show(FirstHalf(rest)) /\ main' = "ID_FIRST_HALF_CHPR_RUNNING"
     /\ UNCHANGED <<command, result, rest, cursor>>

IdStep(bus) ==
  \/ Drive("ID_START", Put("WRITE"), "ID_START_WRITE_STROBED_W_EN")
  \/ Drive("ID_START_WRITE_STROBED_W_EN", StartIt, "ID_START_WRITE_STROBED_STB")
  \/ Drive("ID_START_WRITE_STROBED_STB", OwnIdle, "ID_START_WRITE_UNSTROBED_STB")
  \/ IdQueue("ID_START_WRITE_UNSTROBED_STB", "DATA",
             "ID_WRITE_CMD_STROBED_W_EN", bus)
  \/ Drive("ID_WRITE_CMD_STROBED_W_EN", OwnIdle, "ID_WRITE_CMD_UNSTROBED_W_EN")
  \/ IdQueue("ID_WRITE_CMD_UNSTROBED_W_EN", "READ",
             "ID_START_READ_STROBED_W_EN", bus)
  \/ Drive("ID_START_READ_STROBED_W_EN", OwnIdle, "ID_START_READ_UNSTROBED_W_EN")
  \/ IdQueue("ID_START_READ_UNSTROBED_W_EN", "DATA", "ID_RECV_WAIT", bus)
  \/ IdReceive(bus) \/ IdReceived(bus)
  \/ SecondDigit("ID_FIRST_HALF_CHPR_RUNNING", "ID_SECOND_HALF_CHPR_RUNNING")
  \/ AwaitUnit("ID_SECOND_HALF_CHPR_RUNNING", 0)

(***************************************************************************)
(* The cursor: an underscore or a blank printed where the cursor is.       *)
(***************************************************************************)
CursorOnReset ==
  /\ From("CURSOR_ON_RESET") /\ Quiet
  /\ printer' = [printer EXCEPT !.run = 1, !.data = CursorChar, !.advance = 0]
  /\ cursor' = [cursor EXCEPT !.en = 1, !.state = 1,
                              !.drawn_row = cursor.row, !.drawn_col = cursor.col]
  /\ main' = "CURSOR_ON_OFF_CHPR_RUNNING"
  /\ UNCHANGED <<command, result, rest, own>>

CursorOffReset ==
  /\ From("CURSOR_OFF_RESET") /\ Quiet
  /\ printer' = [printer EXCEPT !.run = 1, !.data = Blank, !.advance = 0]
  /\ cursor' = [cursor EXCEPT !.state = 0]
  /\ main' = "CURSOR_ON_OFF_CHPR_RUNNING"
  /\ UNCHANGED <<command, result, rest, own>>

CursorStep ==
  \/ CursorOnReset \/ CursorOffReset
  \/ Pass("CURSOR_ON_OFF_CHPR_RUNNING", "IDLE")

-------------------------------------------------------------------------------
(***************************************************************************)
(* The printer, chpr_fsm, working while the command FSM waits for it.      *)
(***************************************************************************)
Working(state) == printer.run = 1 /\ printer.fsm = state

ToState(state) == printer' = [printer EXCEPT !.fsm = state, !.data = 0]

\* To column 1 of the same row, or of the next.
ChprReturn ==
  /\ Working("IDLE") /\ printer.data = CR
  /\ cursor' = [cursor EXCEPT !.col = 1]
  /\ Ask(Locate(0, 1)) /\ ToState("STROBED_LOCATOR")

\* Variant: a line feed on the last row does not stop at it.
ChprLineRunsOn ==
  /\ Working("IDLE") /\ printer.data = LF
  /\ cursor' = [cursor EXCEPT !.col = 1, !.row = @ + 1]
  /\ Ask(Locate(cursor.row + 1, 1)) /\ ToState("STROBED_LOCATOR")

ChprLine ==
  /\ Working("IDLE") /\ printer.data = LF /\ cursor.row # LastRow
  /\ cursor' = [cursor EXCEPT !.col = 1, !.row = @ + 1]
  /\ Ask(Locate(cursor.row + 1, 1)) /\ ToState("STROBED_LOCATOR")

ChprLineScrolls ==
  /\ Working("IDLE") /\ printer.data = LF /\ cursor.row = LastRow
  /\ cursor' = [cursor EXCEPT !.col = 1]
  /\ Ask(Scroll) /\ ToState("STROBED_SCROLLER")

ChprWrite ==
  /\ Working("IDLE") /\ printer.data \notin {CR, LF}
  /\ Ask(WriteROM(OFFSET_CHAR + printer.data, 0))
  /\ ToState("STROBED_ROM_WRITER")
  /\ UNCHANGED cursor

\* The position after the character: the cursor's does not move it.
ChprStay ==
  /\ Working("STROBED_ROM_WRITER") /\ printer.advance = 0
  /\ printer' = [printer EXCEPT !.fsm = "UNSTROBED_ROM_WRITER", !.advance = 1]
  /\ Quiet /\ UNCHANGED cursor

ChprAdvance ==
  /\ Working("STROBED_ROM_WRITER") /\ printer.advance = 1
  /\ ~(cursor.col = LastCol /\ cursor.row = LastRow)
  /\ cursor' = IF cursor.col = LastCol
               THEN [cursor EXCEPT !.col = 1, !.row = @ + 1]
               ELSE [cursor EXCEPT !.col = @ + 1]
  /\ Quiet /\ ToState("UNSTROBED_ROM_WRITER")

\* Variant: the column stays behind when the screen scrolls.
ChprAdvanceScrollsInPlace ==
  /\ Working("STROBED_ROM_WRITER") /\ printer.advance = 1
  /\ cursor.col = LastCol /\ cursor.row = LastRow
  /\ UNCHANGED cursor
  /\ Quiet /\ ToState("UNSTROBED_ROM_WRITER_NEEDS_SCROLL")

ChprAdvanceScrolls ==
  /\ Working("STROBED_ROM_WRITER") /\ printer.advance = 1
  /\ cursor.col = LastCol /\ cursor.row = LastRow
  /\ cursor' = [cursor EXCEPT !.col = 1]
  /\ Quiet /\ ToState("UNSTROBED_ROM_WRITER_NEEDS_SCROLL")

ChprPass(from, to) ==
  Working(from) /\ Quiet /\ ToState(to) /\ UNCHANGED cursor

\* Wait for a unit, then strobe the next.
ChprChain(from, unit_busy, r, to) ==
  \/ unit_busy = 1 /\ ChprPass(from, from)
  \/ Working(from) /\ unit_busy = 0 /\ Ask(r) /\ ToState(to) /\ UNCHANGED cursor

\* Variant: the printer does not wait for the last locator.
ChprDoneAtOnce(busy) ==
  /\ Working("UNSTROBED_LOCATOR")
  /\ printer' = [printer EXCEPT !.fsm = "IDLE", !.run = 0]
  /\ Quiet /\ UNCHANGED cursor

ChprDone(busy) ==
  \/ busy.locator = 1 /\ ChprPass("UNSTROBED_LOCATOR", "UNSTROBED_LOCATOR")
  \/ /\ Working("UNSTROBED_LOCATOR") /\ busy.locator = 0
     /\ printer' = [printer EXCEPT !.fsm = "IDLE", !.run = 0]
     /\ Quiet /\ UNCHANGED cursor

Chpr(busy) ==
  LET here == Locate(cursor.row, cursor.col) IN
  /\ \/ ChprReturn \/ ChprLine \/ ChprLineScrolls \/ ChprWrite
     \/ ChprStay \/ ChprAdvance \/ ChprAdvanceScrolls
     \/ ChprChain("UNSTROBED_ROM_WRITER", busy.rom_writer, here, "STROBED_LOCATOR")
     \/ ChprChain("UNSTROBED_ROM_WRITER_NEEDS_SCROLL", busy.rom_writer, Scroll,
                  "STROBED_SCROLLER")
     \/ ChprPass("STROBED_SCROLLER", "UNSTROBED_SCROLLER")
     \/ ChprChain("UNSTROBED_SCROLLER", busy.scroller, here, "STROBED_LOCATOR")
     \/ ChprPass("STROBED_LOCATOR", "UNSTROBED_LOCATOR")
     \/ ChprDone(busy)
  /\ UNCHANGED <<main, command, result, rest, own>>

-------------------------------------------------------------------------------
\* One clock cycle.
OLEDStep(busy, bus, full, w_en, w_data) ==
  /\ fifo_in' = FifoNext(fifo_in, w_en, w_data, fifo_r_en)
  /\ \/ AtIdle(full, bus.w_rdy) \/ Start
     \/ Cls(busy) \/ WriteSingle(busy) \/ LocateStep(busy)
     \/ PrintStep \/ IdStep(bus) \/ CursorStep
     \/ Chpr(busy)
===============================================================================
