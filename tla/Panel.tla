-------------------------------- MODULE Panel ---------------------------------
(***************************************************************************)
(* The OLED module in front of a display that acknowledges every byte,     *)
(* seen in whole characters.  The four units are reduced to what Writers   *)
(* shows of them: a unit that is strobed is busy for a while, and when it  *)
(* is done its command has reached the display.  The display is the        *)
(* SH1107 of src/vsh/src/SH1107.zig: memory by page and column, a pointer  *)
(* that a data byte advances, and the line shown first; a line here is the *)
(* eight columns that a text row occupies.                                 *)
(*                                                                         *)
(* The user queues commands and their operands, a byte in any cycle in     *)
(* which the queue has room.                                               *)
(***************************************************************************)
EXTENDS OLED, FiniteSets

CONSTANTS
  Users,       \* what a user may queue: commands, PRINT's counts and chars
  Bytes        \* PRINT_BYTE's operands, and the answers to ID

ASSUME ScreenAssumption == LastRow <= 255
ASSUME UsersAssumption ==
  /\ Bytes \subseteq 0 .. 255
  /\ \A u \in Users : \A set \in {u.commands, u.counts, u.chars} :
       set \subseteq 0 .. 255

VARIABLES
  user,              \* the user there is
  work,              \* the request a unit is busy with
  adjusted,          \* the scroller's
  ram, start, point, \* the display
  feed,              \* what the next byte queued is: [want, n]
  asked,             \* the command FSM works for a command, not the cursor
  todo,              \* history: the operations queued and not yet done
  shown              \* history: the screen when the last one was done

displayVars == <<ram, start, point>>
historyVars == <<asked, todo, shown>>
vars == <<oledVars, user, work, adjusted, displayVars, feed, historyVars>>

Lines == 0 .. LastRow - 1
Pages == 0 .. LastCol - 1
BlankLine == [p \in Pages |-> Blank]

\* The queue is ready for a command.
Command == [want |-> "command", n |-> 0]

\* Text columns run along the pages, backwards; text rows along the lines.
Screen ==
  [r \in 1 .. LastRow |->
    [c \in 1 .. LastCol |-> ram[(start + r - 1) % LastRow][LastCol - c]]]

Pen ==
  <<((point.line + LastRow - start) % LastRow) + 1, LastCol - point.page>>

Look == [screen |-> Screen, pos |-> <<cursor.row, cursor.col>>, pen |-> Pen,
         blinking |-> cursor.en = 1]

PanelInit ==
  /\ OLEDInit
  /\ user \in Users
  /\ work = None /\ adjusted = 0
  /\ ram = [l \in Lines |-> BlankLine] /\ start = 0
  /\ point = [line |-> 0, page |-> 0]
  /\ feed = Command
  /\ asked = FALSE /\ todo = <<>> /\ shown = Look

-------------------------------------------------------------------------------
(***************************************************************************)
(* The units and the display.                                              *)
(***************************************************************************)
BusyBit(unit) == IF work.unit = unit THEN 1 ELSE 0

Busy == [locator |-> BusyBit("locator"), clser |-> BusyBit("clser"),
         rom_writer |-> BusyBit("rom_writer"), scroller |-> BusyBit("scroller")]

Located ==
  /\ work.unit = "locator"
  /\ point' = [line |-> IF work.row = 0 THEN point.line
                        ELSE (work.row - 1 + adjusted) % LastRow,
               page |-> IF work.col = 0 THEN point.page ELSE LastCol - work.col]
  /\ UNCHANGED <<ram, start, adjusted>>

Cleared ==
  /\ work.unit = "clser"
  /\ ram' = [l \in Lines |-> BlankLine]
  /\ point' = [line |-> 0, page |-> LastCol - 1]
  /\ UNCHANGED <<start, adjusted>>

\* Where the pointer stays is in the middle of the line cleared.
ScrolledUp ==
  /\ work.unit = "scroller"
  /\ ram' = [ram EXCEPT ![adjusted] = BlankLine]
  /\ start' = (adjusted + 1) % LastRow /\ adjusted' = start'
  /\ point' = [line |-> adjusted, page |-> 0]

Initialised ==
  /\ work.unit = "rom_writer" /\ work.index = OFFSET_INIT
  /\ start' = 0 /\ point' = [line |-> 0, page |-> 0]
  /\ UNCHANGED <<ram, adjusted>>

Switched ==
  /\ work.unit = "rom_writer"
  /\ work.index \in {OFFSET_DISPLAY_ON, OFFSET_DISPLAY_OFF}
  /\ UNCHANGED <<displayVars, adjusted>>

CharWritten ==
  /\ work.unit = "rom_writer" /\ work.index >= OFFSET_CHAR
  /\ ram' = [ram EXCEPT ![point.line][point.page] = work.index - OFFSET_CHAR]
  /\ point' = [point EXCEPT !.line = (@ + 1) % LastRow]
  /\ UNCHANGED <<start, adjusted>>

UnitDone ==
  /\ work' = None
  /\ Located \/ Cleared \/ ScrolledUp \/ Initialised \/ Switched \/ CharWritten

\* A unit takes its strobe; the scroller's reset may come with one.
UnitTakes ==
  /\ work' = req
  /\ adjusted' = IF req.unit = "rom_writer" /\ req.rst = 1 THEN 0 ELSE adjusted
  /\ UNCHANGED displayVars

Units ==
  \/ req # None /\ UnitTakes
  \/ req = None /\ work # None /\ UnitDone
  \/ req = None /\ UNCHANGED <<work, adjusted, displayVars>>

-------------------------------------------------------------------------------
(***************************************************************************)
(* The user: the bytes it may queue next, and the operations they ask for. *)
(***************************************************************************)
CharOp(char) == [op |-> "char", char |-> char]

Expected(f) ==
  IF f.want = "command" THEN user.commands
  ELSE IF f.want = "row" THEN 0 .. LastRow
  ELSE IF f.want = "col" THEN 0 .. LastCol
  ELSE IF f.want = "count" THEN user.counts
  ELSE IF f.want = "char" THEN user.chars
  ELSE Bytes

\* What is expected after the byte b, where f was.
AfterCommand(b) ==
  IF b = LOCATE THEN [want |-> "row", n |-> 0]
  ELSE IF b = PRINT THEN [want |-> "count", n |-> 0]
  ELSE IF b = PRINT_BYTE THEN [want |-> "byte", n |-> 0]
  ELSE Command

Chars(n) == IF n > 0 THEN [want |-> "char", n |-> n] ELSE Command

FeedAfter(f, b) ==
  IF f.want = "command" THEN AfterCommand(b)
  ELSE IF f.want = "row" THEN [want |-> "col", n |-> b]
  ELSE IF f.want = "count" THEN Chars(b)
  ELSE IF f.want = "char" THEN Chars(f.n - 1)
  ELSE Command

CommandOps(b) ==
  CASE b = INIT       -> <<[op |-> "init"]>>
    [] b = CLS        -> <<[op |-> "cls"]>>
    [] b = ID         -> <<[op |-> "id"]>>
    [] b = CURSOR_ON  -> <<[op |-> "cursor", char |-> CursorChar]>>
    [] b = CURSOR_OFF -> <<[op |-> "cursor", char |-> Blank]>>
    [] b \in {DISPLAY_ON, DISPLAY_OFF} -> <<[op |-> "power"]>>
    [] OTHER          -> <<>>

OpsOf(b) ==
  CASE feed.want = "command" -> CommandOps(b)
    [] feed.want = "col"  -> <<[op |-> "locate", row |-> feed.n, col |-> b]>>
    [] feed.want = "char" -> <<CharOp(b)>>
    [] feed.want = "byte" -> <<CharOp(FirstHalf(b)), CharOp(SecondHalf(b))>>
    [] OTHER              -> <<>>

-------------------------------------------------------------------------------
(***************************************************************************)
(* The histories.  An operation is done when its unit or the printer is,   *)
(* and the command FSM with it.                                            *)
(***************************************************************************)
Settled ==
  printer.run = 0 /\ (main = "IDLE" \/ \E s \in {"PRINT_DATA_CHPR_RUNNING",
    "PRINT_BYTE_STROBED_R_EN_CHPR_RUNNING", "PRINT_BYTE_SECOND_HALF_CHPR_RUNNING",
    "ID_FIRST_HALF_CHPR_RUNNING", "ID_SECOND_HALF_CHPR_RUNNING",
    "CURSOR_ON_OFF_CHPR_RUNNING"} : main = s)

UnitWaits == {"CLSER_UNSTROBED_LOCATOR", "LOCATE_UNSTROBED_LOCATOR",
              "ROM_WRITE_SINGLE_UNSTROBED_ROM_WRITER"}

Completes ==
  \/ asked /\ printer.run = 1 /\ printer'.run = 0
  \/ main \in UnitWaits /\ main' = "IDLE"

Left ==
  IF Completes \/ (result # "FAILURE" /\ result' = "FAILURE") THEN Tail(todo)
  ELSE IF main = "ID_RECV_STROBED_R_EN" /\ main' # main
  THEN <<CharOp(FirstHalf(rest)), CharOp(SecondHalf(rest))>> \o Tail(todo)
  ELSE todo

History(ops) ==
  /\ asked' = IF main = "IDLE" THEN main' = "START_STROBED_FIFO_IN_R_EN" ELSE asked
  /\ todo' = Left \o ops
  /\ shown' = IF Settled' THEN Look' ELSE shown

-------------------------------------------------------------------------------
\* What own_i2c_bus may show: in IDLE room or none; to ID, anything.
BusInputs ==
  IF main \in {"ID_START_WRITE_UNSTROBED_STB", "ID_WRITE_CMD_UNSTROBED_W_EN",
               "ID_START_READ_UNSTROBED_W_EN", "ID_RECV_WAIT", "ID_RECV_STROBED_R_EN"}
  THEN [busy : Bit, ack : Bit, w_rdy : Bit, r_rdy : Bit, r_data : Bytes]
  ELSE [busy : {0}, ack : {1}, w_rdy : Bit, r_rdy : {0}, r_data : {0}]

Pulses == IF cursor.en = 1 THEN Bit ELSE {0}

Quietly ==
  \E bus \in BusInputs, full \in Pulses :
    /\ OLEDStep(Busy, bus, full, 0, 0) /\ Units /\ History(<<>>)
    /\ UNCHANGED feed

Queueing ==
  /\ Writable(fifo_in)
  /\ \E bus \in BusInputs, full \in Pulses, b \in Expected(feed) :
       /\ OLEDStep(Busy, bus, full, 1, b) /\ Units /\ History(OpsOf(b))
       /\ feed' = FeedAfter(feed, b)

PanelNext == (Quietly \/ Queueing) /\ UNCHANGED user

PanelSpec == PanelInit /\ [][PanelNext]_vars

-------------------------------------------------------------------------------
(***************************************************************************)
(* Properties.                                                             *)
(***************************************************************************)
\* The position stays on the screen, whatever is printed where.
PanelTypeOK ==
  /\ cursor.row \in 1 .. LastRow /\ cursor.col \in 1 .. LastCol
  /\ cursor.drawn_row \in 1 .. LastRow /\ cursor.drawn_col \in 1 .. LastCol
  /\ rest \in 0 .. 255
  /\ adjusted \in Lines /\ start \in Lines
  /\ point.line \in Lines /\ point.page \in Pages

\* The printer, the cursor and the commands never strobe a unit while one is
\* busy, or drive the bus themselves: the busy unit owns it, and the strobe
\* would find the bus taken.
UnitsTakeTurns ==
  /\ req # None => work = None
  /\ own # OwnIdle => work = None /\ req = None

\* What is on the display is what the operations queued, carried out one after
\* the other, put there: the module implements a terminal.
Promise ==
  INSTANCE Terminal WITH
    screen <- shown.screen, pos <- shown.pos, pen <- shown.pen,
    blinking <- shown.blinking,
    Digits <- {FirstHalf(b) : b \in Bytes} \cup {SecondHalf(b) : b \in Bytes}

Renders == Promise!Spec
===============================================================================
