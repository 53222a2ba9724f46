------------------------------- MODULE Writers --------------------------------
(***************************************************************************)
(* The four units that write to the display, on one I2C controller and one *)
(* ROM, as sh1107/rtl/oled/__init__.py connects them; the display          *)
(* acknowledges or refuses any byte.                                       *)
(*                                                                         *)
(* The user is the OLED module, cut to what the units see of it: a unit is *)
(* strobed only when none is busy.  For a command the module first looks   *)
(* for room in the word queue (line 235); for the further units of the     *)
(* command, for PRINT's characters and to draw the cursor it does not look *)
(* (lines 229-234, 351-366, 560-567 and 637-662), and in no case whether   *)
(* the controller is idle.                                                 *)
(***************************************************************************)
EXTENDS Bus

CONSTANTS
  Cells,        \* the <<row, col>> that LOCATE and the printer ask for
  ROMIndices,   \* the ROM commands asked for
  Characters    \* those of them that are characters

ASSUME CellsAssumption == Cells \subseteq (0 .. Rows) \X (0 .. Rows)
ASSUME IndicesAssumption ==
  /\ ROMIndices \subseteq Nat /\ Characters \subseteq ROMIndices
  /\ \A index \in ROMIndices :
       index + 1 \in DOMAIN Commands /\ Commands[index + 1][1] # <<>>

\* Every part begins with a control byte: Cmd.compose puts it there.
ControlBytes == {0, 64, 128, 192}
ASSUME ControlAssumption ==
  \A k \in DOMAIN Commands : \A i \in DOMAIN Commands[k] :
    Commands[k][i] # <<>> => Commands[k][i][1] \in ControlBytes

VARIABLES
  req,          \* the request being strobed in this cycle
  follow,       \* what the unit strobed last is followed by, if by anything
  script, taken, refused  \* the unit's words; those on the wire; NACKed

vars == <<i2cVars, unitVars, req, follow, script, taken, refused>>

-------------------------------------------------------------------------------
(***************************************************************************)
(* What the display should be sent, from the commands' meaning: the text   *)
(* cell's page and column, all pages' columns, a ROM command's parts, the  *)
(* scroll command for the next row.                                        *)
(***************************************************************************)
Transmission(bytes) ==
  <<StartWord>> \o [i \in DOMAIN bytes |-> DataWord(bytes[i])]

\* The three addressing bytes of a display column, low nibble first.
ColumnBytes(column) ==
  <<SetLowerColumnAddress(column % 16), SetHigherColumnAddress(column \div 16)>>

LocatorScript(r, c, adjust) ==
  Transmission(<<ControlCommand>>
    \o (IF c = 0 THEN <<>> ELSE <<SetPageAddress(Rows - c)>>)
    \o (IF r = 0 THEN <<>> ELSE ColumnBytes(8 * ((r + Rows - 1 + adjust) % Rows))))

PageScript(page) ==
  Transmission(<<ControlCommand>> \o (IF page = 0 THEN ColumnBytes(0) ELSE <<>>)
                 \o <<SetPageAddress(page)>>)
  \o Transmission(<<ControlData>> \o [i \in 1 .. Columns |-> 0])

ClserScript == Concatenation([i \in 1 .. LastPage + 1 |-> PageScript(i - 1)])

PartsScript(parts) ==
  Concatenation([i \in DOMAIN parts |-> Transmission(parts[i])])

\* The parts of the scroll command, for a display scrolled by adjust rows: the
\* row's eight columns are cleared and the display then starts one row on.
ScrollParts(adjust) ==
  LET parts == Commands[OFFSET_SCROLL + 1]
      last  == Len(parts)
      low(i) == ColumnBytes(8 * adjust + parts[i][2])[1]
  IN  [i \in DOMAIN parts |->
         IF i = 1 THEN [parts[1] EXCEPT ![4] = ColumnBytes(8 * adjust)[2]]
         ELSE IF i = last THEN [parts[i] EXCEPT ![4] = 8 * ((adjust + 1) % Rows)]
         ELSE [parts[i] EXCEPT ![2] = low(i)]]

\* How many bytes of the scroll command are before its part i.
Before(i) == Len(Concatenation(SubSeq(Commands[OFFSET_SCROLL + 1], 1, i - 1)))

\* SCROLL_OFFSETS is computed from the command's own parts: the first part ends
\* with a higher column address of zero, the parts of the row's columns have a
\* lower one below eight behind their control byte, and the last the start line.
ASSUME OffsetsAssumption ==
  LET parts == Commands[OFFSET_SCROLL + 1]
      last  == Len(parts)
  IN  /\ last >= 2
      /\ Len(parts[1]) >= 4 /\ parts[1][4] = SetHigherColumnAddress(0)
      /\ InitialHigherColumnAddress = 3
      /\ \A i \in 2 .. last - 1 : Len(parts[i]) >= 2 /\ parts[i][2] \in 0 .. 7
      /\ LowerColumnAddresses = {Before(i) + 1 : i \in 2 .. last - 1}
      /\ Len(parts[last]) >= 4 /\ DisplayStartLine + 1 = Before(last) + 3

-------------------------------------------------------------------------------
(***************************************************************************)
(* The user's requests.                                                    *)
(***************************************************************************)
OFFSET_INIT == 0

Locates == {Locate(cell[1], cell[2]) : cell \in Cells}

Requests ==
  {Clear} \cup Locates
    \cup {WriteROM(index, IF index = OFFSET_INIT THEN 1 ELSE 0) :
             index \in ROMIndices \ Characters}

Glyphs == {WriteROM(index, 0) : index \in Characters}

\* A character may be a carriage return or a line feed.
Prints == Glyphs \cup {Scroll} \cup {l \in Locates : l.col # 0}

\* The units a command goes on to, without a look at the queue: the cursor is put
\* home behind CLS, and to where it belongs behind a character and a scroll.
Behind(r) ==
  CASE r = Clear -> {Locate(1, 1)}
    [] r = Scroll -> {Locate(Rows, 1)}
    [] r \in Glyphs -> {Scroll} \cup {l \in Locates : l.row # 0 /\ l.col # 0}
    [] OTHER -> {}

ScriptOf(r) ==
  CASE r.unit = "locator" -> LocatorScript(r.row, r.col, scr.adjusted)
    [] r.unit = "clser" -> ClserScript
    [] r.unit = "rom_writer" -> PartsScript(Commands[r.index + 1])
    [] r.unit = "scroller" -> PartsScript(ScrollParts(scr.adjusted))

-------------------------------------------------------------------------------
WritersInit ==
  /\ Init /\ UnitsInit(0)
  /\ req = None /\ follow = {}
  /\ script = <<>> /\ taken = <<>> /\ refused = FALSE

\* A word is on the wire once the controller takes it for sending.
Takes == r_en' = 1 /\ fsm' # "FIN_SCL_LOW"

\* The unit's first START goes to the queue; if that still holds a word, the
\* START is dropped and the word is sent in its place.
Opening == IF Queued THEN in_fifo ELSE <<StartWord>>

\* A byte of the unit's is refused, or the byte that its START waits behind.
Refuses == ack' = 0 /\ fsm' = "COMMON_ACK_BIT_SCL_HIGH" /\ (in_fifo' # <<>> \/ taken' # <<>>)

History ==
  /\ script' = IF req # None THEN Opening \o Tail(ScriptOf(req))
               ELSE IF AnyBusy' THEN script ELSE <<>>
  /\ taken' = IF ~AnyBusy' THEN <<>>
              ELSE IF Takes THEN Append(taken, FrontWord) ELSE taken
  /\ refused' = (AnyBusy' /\ (refused \/ Refuses))

\* One clock cycle of everything but the user.
Gateware(sda_i) ==
  /\ UnitsStep(req)
  /\ Tick(Owner(IdleUnit).stb, Owner(IdleUnit).w_en, Owner(IdleUnit).w, 0, sda_i)
  /\ History

Free == req = None /\ ~AnyBusy

\* The user lets the gateware work.
Work ==
  /\ ~(Free /\ follow # {})
  /\ req' = None
  /\ UNCHANGED follow

\* Strobe a unit, and remember what is to follow.
StrobeUnit(requests) ==
  /\ req' \in requests
  /\ follow' = Behind(req')

\* A command.
Ask == Free /\ follow = {} /\ Writable(in_fifo) /\ StrobeUnit(Requests)

\* The next character of PRINT, or the cursor, is drawn.
Draw == Free /\ follow = {} /\ StrobeUnit(Prints)

\* A command's next unit.
GoOn == Free /\ follow # {} /\ StrobeUnit(follow)

User == (Work \/ Ask \/ Draw \/ GoOn) /\ TakeOperands(req', req # None)

WritersNext == \E sda_i \in Bit : Gateware(sda_i) /\ User

\* The clock does not stop, at least while a unit works.
WritersSpec ==
  WritersInit /\ [][WritersNext]_vars /\ WF_vars(AnyBusy /\ WritersNext)

-------------------------------------------------------------------------------
(***************************************************************************)
(* Properties.                                                             *)
(***************************************************************************)
\* The units' counters stay within what the code's signals hold.
WritersTypeOK ==
  /\ row \in 0 .. Rows /\ col \in 0 .. Rows
  /\ cls.page \in 0 .. LastPage /\ cls.column \in 0 .. Columns
  /\ \A u \in {wr, scr} :
       u.offset \in 0 .. Len(ROMContent) /\ u.remain \in 0 .. Len(ROMContent)
  /\ scr.adjusted \in 0 .. Rows - 1

\* A write to a full queue is dropped without a sign.  That happens to one kind of
\* word only: the first START of a unit, when the controller is idle and a unit
\* that was refused has left a control byte in the queue.
LeftWord == Queued /\ FrontWord \in {DataWord(b) : b \in ControlBytes}

NoWordLost ==
  LET unit == Owner(IdleUnit) IN
  unit.w_en = 1 /\ ~Writable(in_fifo) =>
    busy = 0 /\ LeftWord /\ unit.w = StartWord /\ taken = <<>>

\* What the idle controller takes for an address and a direction is the unit's
\* START or such a word, whose last bit says "write" too: no unit ever finds the
\* controller reading, or starts it with nothing to send.
UnitsAddressFirst ==
  fsm = "IDLE" /\ Owner(IdleUnit).stb = 1 =>
    Queued /\ RwOf(FrontWord) = W /\ (FrontWord = StartWord \/ LeftWord)

\* Each unit strobed puts its script on the wire, word for word, whatever the
\* timing of the queue, of repeated STARTs and of refusals, but that a word left
\* in the queue is sent instead of the first START: the abstract specification of
\* a delivery.
Scripts ==
  {LocatorScript(r, c, adjust) :
     r \in 0 .. Rows, c \in 0 .. Rows, adjust \in 0 .. Rows - 1}
    \cup {ClserScript}
    \cup {PartsScript(Commands[k]) : k \in DOMAIN Commands}
    \cup {PartsScript(ScrollParts(adjust)) : adjust \in 0 .. Rows - 1}

Promise ==
  INSTANCE Delivery WITH active <- AnyBusy, delivered <- taken,
    left <- IF AnyBusy THEN <<>> ELSE in_fifo,
    Leavings <- {DataWord(b) : b \in ControlBytes}

Delivers == Promise!Spec

\* A unit strobed is busy for a while only: the user's wait for it ends,
\* whichever bytes the display refuses, as long as LOCATE is not asked for neither
\* row nor column.  That leaves the controller busy with a control byte, and a
\* unit strobed just after that byte has been acknowledged waits for good.
CommandsEnd == [](req # Locate(0, 0)) => (AnyBusy ~> ~AnyBusy)

\* The scroll position kept for later commands moves only with the display's:
\* when the whole scroll command has been sent and no byte of it refused, or
\* on a reset.
ScrollFollowsDisplay ==
  [][scr'.adjusted # scr.adjusted =>
       \/ scr'.adjusted = 0 /\ req.unit = "rom_writer"
       \/ taken = script /\ ~refused
            /\ scr'.adjusted = (scr.adjusted + 1) % Rows]_vars


\* How the controller's documentation has it started (sh1107/rtl/i2c/__init__.py:
\* 90-91): by a word that says START, and so with no other left in its queue.
StartsWithAddress ==
  fsm = "IDLE" /\ Owner(IdleUnit).stb = 1 => FrontWord.kind = "START"
===============================================================================
