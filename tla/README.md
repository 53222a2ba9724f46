# oled_i2c in TLA+

Models, model checks and proofs of the gateware in `src/sh1107`: an I²C
controller, the units that write to an SH1107 OLED with it, the module that
turns commands (`CLS`, `PRINT`, `LOCATE`, ...) into work for those units, and
the sequencer that plays command sequences when a button is let go; of the
reader that fills its ROM from flash; of the codec of display commands; and of
the simulator in `src/vsh` that runs the gateware against a simulated display.

## The system

All gateware runs on one clock. Signals assigned in `m.d.sync` are registers:
their new values show in the next cycle. So a step of every gateware model is one
clock cycle, and what makes the design hard is not threads but a dozen FSMs that
see each other's outputs a cycle late. The simulator has two threads, one of
which runs that clock.

| part | state | operations | talks to |
|---|---|---|---|
| I2C controller, `rtl/i2c/__init__.py` | clock divider, word queue and result queue (one entry each), an FSM of 15 states, the byte in the shift register, `scl_o`, `sda_o`, `sda_oe`, `busy`, `ack` | start on `stb`; take words from the queue; repeated START; read; stop | its user (queue, `stb`, `busy`, `ack`), the wires |
| Locator, `rtl/oled/locator.py` | FSM | move the display's pointer to a text cell | controller |
| Clser, `rtl/oled/clser.py` | FSM, page, column | clear the display | controller |
| ROMWriter, `rtl/oled/rom_writer.py` | FSM, ROM offset, bytes remaining | send a command of the ROM | controller, ROM |
| Scroller, `rtl/oled/scroller.py` | the same, and the scroll position | send the scroll command, patched for the position | controller, ROM |
| ROM image, `rom/__init__.py` | – | index of offsets and lengths, parts with the next part's length after each | ROMWriter, Scroller |
| OLED module, `rtl/oled/__init__.py` | command queue, command FSM, character printer, cursor, text position | the twelve commands and the cursor's blink | the four units by strobe and busy line; the controller itself for `ID` |
| Multiplexer, `elaborate_submodules` there | – | gives controller and ROM to the busy unit | all of these |
| Sequencer, `rtl/__init__.py` | FSM, ROM offset, bytes remaining | write a sequence into the command queue | buttons, OLED module |
| Button, Debounce, Timer, Counter, `rtl/common` | counters, levels | debounce, `up`/`down` strobes, hold detection | sequencer |
| SPI flash reader, `rtl/spi/__init__.py` | FSM, shift register, bit and byte counts | wake the flash up, read `len` bytes from `addr`, a pulse of `valid` for each | OLED module, the flash |
| ROM memory, its fill, and `SPI_TEST`, in the OLED module | memory of two-byte words, fill address, a queue for the bytes to print | fill after power-up; read port; print the flash's first bytes | flash reader, units |
| Command codec, `proto/__init__.py` and `vsh/src/Cmd.zig` | two parsers' states | compose commands, data and labels to bytes; parse bytes | ROM image, simulator |
| Simulated wires, `vsh/src/I2CConnector.zig`, `Sample.zig` | lines as sampled, a byte transmitter | make START, bytes, acknowledgements and STOP of edges; answer reads | controller, simulated display |
| Black boxes, `vsh/*.cc`, and `vsh/src/I2CBBConnector.zig` | queue, countdown; chip or reader state | stand in for the I²C controller, the flash reader, the flash | units, OLED module |
| Simulated display, `vsh/src/OLEDConnector.zig`, `SH1107.zig` | memory, pointer, registers | carry out parsed commands and data | connectors, display thread |
| Threads and switches, `vsh/src/FPGAThread.zig`, `SwitchConnector.zig` | `press_signal`, switch states | a loop of ticks and clock edges; a key press | gateware, display thread |

What is hard in it:

* The word queue has one entry, drops a write when full, and shows it full again
  only a cycle after a write. The controller pops it by a registered strobe, a
  cycle after it has used the word.
* SCL is toggled by the divider alone while the FSM counts the same pulses on
  its own; they agree only if every state takes the right number.
* The display may refuse (NACK) any byte, when the user has already queued more.
* A unit that is done may leave the controller busy, and the next unit is strobed
  at once.
* The cursor's blink, `PRINT` and `ID` use the same printer, the same registers
  and the same units.
* Commands and their operands share a one-byte queue filled by a sequencer that
  knows nothing of them.
* The flash shifts a bit in every cycle, and the fill takes two states to store a
  byte: the rates must fit, and the last byte is stored when the reader is done.
* The memory's read port looks through a write of the same cycle, and which half
  of a word counts is last cycle's address.
* Two parsers in two languages must agree on every transmission, and where one
  may end.
* The simulated target sees the lines once a tick, and guesses what happened
  between; the black box guesses from silence that a transfer has ended.
* A key reaches the gateware through one shared field and a switch that is
  pressed for one cycle.

What makes each part correct: the controller keeps the discipline of the wires
and neither loses nor repeats a word, always comes to an end, and stops after a
NACK; a unit puts exactly its command's bytes on the wire, or stops at the byte
refused, and ends; the scroll position follows the display's; the OLED module is
a text terminal; a sequence reaches it whole; a button's bounces are not seen
and a long press is; the memory holds the flash's bytes; what was composed is
what both parsers find; and the simulation, with wires or without, shows what the
units were asked for.

## The modules

| module | models |
|---|---|
| `Gateware` | `SyncFIFO` (Amaranth's, seen from its users), `Counter`, `Timer` |
| `I2C` | the controller; one action per FSM state and outcome, `Tick` is a cycle |
| `I2CUser` | the user's end of the controller: signals and idioms the units share |
| `Locator`, `Clser`, `ROMWriter`, `Scroller` | the four units |
| `ROMImage` | the ROM's layout and its read port |
| `Requests`, `Bus` | what the OLED module can strobe, and the digits it prints; units, controller and ROM on one multiplexer |
| `Writers` | units and controller, strobed as the OLED module strobes them, with a display that may refuse anything |
| `Delivery` | abstract: what a unit promises |
| `OLED` | command FSM and character printer |
| `Terminal` | abstract: a text screen on which operations are carried out in order |
| `Panel` | `OLED` with a user, a display in whole characters, and the units reduced to what `Writers` shows of them |
| `Top` | the sequencer |
| `Board` | everything between buttons and wires: `Top`, `OLED`, `Bus` and its units, `I2C`, cycle by cycle |
| `Button` | debouncer, edge strobes and hold timer |
| `SPIFlash` | the flash reader on the wires of the simulated chip, and the black box for both |
| `ByteStream` | abstract: what a flash reader promises |
| `ROMFill` | the fill after power-up, the packed memory with its read port, `SPI_TEST` |
| `Proto` | commands, composing with labels, the parser of the tests and the one of the simulator |
| `Codec` | what is composed, and any other bytes, fed to both parsers |
| `ROMCommands` | the commands of the ROM, composed as the build does |
| `SH1107` | the simulated display, byte by byte |
| `OLEDConnector`, `I2CConnector`, `I2CBBConnector` | what the display makes of what it hears; the target on the wires; the black box and its listener |
| `Switches` | key presses on their way to the gateware |
| `Simulator` | all of `Board` with `Switches` in front and the simulated display behind, in both builds |
| `GatewareProofs`, `PanelProofs`, `FlashProofs`, `CodecProofs`, `BoardProofs` | theorems about `I2C` and `Button`, `Panel`, `ROMFill` with `SPIFlash`, `Codec`, `Board` |
| `WritersProofs`, `DeliveryProofs` | theorems about `Writers`: the units by themselves; the units and the controller |
| `Recursion` | induction over the natural numbers, and what concatenation of sequences is, for those proofs |

`I2C` is a module of its own with its own open specification; `Bus` extends the
units, which extend `I2CUser` and so `I2C`; `Writers` and `Board` extend `Bus`;
`Simulator` extends `Board` and instantiates `Panel` for its reduced units.
Strobes and bus signals are operands of the step operators (`Tick`, `LocStep`,
`OLEDStep`, ...), so a composition is a conjunction of steps.

Conventions:

* State names are the code's, with `_` for `: ` and spaces.
* A register that nothing will read again is set to zero, so that two states that
  behave alike are one; data outputs are kept only while they are used.
* A byte is a function from bit indices, so that its width is a constant.
* An operator under a comment "Variant:" is a plausible mistake in the definition
  that follows it. No specification uses it; it is there to see that a property
  would notice the mistake.

### Correspondence

*I2C.* `fsm`, `byte`, `byte_ix`, `rw`, `in_fifo`, `out_fifo`, `r_en`, `cnt`,
`en` are the code's; `COMMON ACK BIT: SCL HIGH` is split by outcome into
`AckWait`, `NextWrite`, `NextRead`, `RepeatStart` and `Finish`. Each action takes
the half or full pulse as guard, as the code does.

*Units.* A record of FSM state, `busy`, bus outputs and counters per unit. The
code's `busy & ack & w_rdy` is `Ready`, and its `Elif(~busy)` is `Refused`. What an
idle unit's registers hold from its last command is zero (`Forget`, `ClsIdle`,
`TakeOperands`): the next strobe sets them.

*Writers.* The user is the OLED module, cut to what the units see of it. `Ask` is a
command taken in `IDLE`, where line 235 looks for room in the word queue. `Draw` is
the cursor, or `PRINT`'s next character (lines 229-234 and 560-567), and `GoOn` the
next unit of a command (`Behind`: Locator behind Clser, lines 351-366; Scroller and
Locator behind a character, lines 637-662): those strobe on `~busy` of the unit
before, and look neither at the queue nor at the controller. `AnyBusy` is the busy
line of the units, not of the controller, which may still be ending a transfer
whenever a unit is strobed; nothing in the code waits for that. Which cell, command
or character comes next is left open.

A word that a refused unit has left in the queue takes the place of the next unit's
first START, which the full queue drops (`Opening`); the controller then sends it as
an address, with its last bit for the direction.

*OLED.* `main` is the command FSM and `printer` the character printer. The two
write the same registers, but the command FSM waits in a `CHPR RUNNING` state
whenever `_chpr_run` is set; `From` and `Working` say so. The position registers,
the cursor and the strobes keep their names; `req` holds the strobe and the
operands of the unit that is strobed, since no two ever are in a cycle.

*Panel.* A unit is busy for any number of cycles, and its effect on the display
happens when it is done: `Writers` is where that is checked. The display follows
`SH1107.zig`: writing goes on along the line's columns, a page is a text column,
`SetDisplayStartLine` chooses the line shown first.

*Board.* The bytes are cut to three bits: the words' number, kind and direction
are what its properties need. The cursor's half second is a pulse at any time,
except that after one the module rests for a cycle before the next: a blink is
drawn in milliseconds.

*SPIFlash and ROMFill.* `reader`, `chip` and `blackbox` hold the registers of the
three programs; `part` says whether the reader or its black box is elaborated.
`ROMFill` has the states `INIT` and `SPI_TEST` of the command FSM; its `IDLE` is
everything else the FSM does, during which any address may be on the ROM bus. The
two bytes of a word are a pair, the memory's granularity a choice of its half.

*Proto and Codec.* A command is its name and field values; `ToBytes` gives its
bytes, `Compose` the parts with control bytes and label offsets. The tables name
each command's first byte and fields, from the classes of `proto/__init__.py`.
`Feed` and `ZigFeed` are one byte to each parser; the second differs where the
source does: what it accepts as the end of a transmission, and which values of a
two-byte command it refuses.

*Simulator.* `Clock` is one round of the FPGA thread's loop: press, a tick of
every connector, the clock edge. `TargetStep` has one action per state of
`ByteTransmitter`, on the samples of `Sample.zig`; its result reaches the display
in the same tick. In the black box build the controller's FSM does not move and
only its queues, `busy` and `ack` do. `Press` is the display thread.

## The runs

| run | question | size |
|---|---|---|
| `i2c` | Does the controller keep its discipline under any user (any strobe, any word, any read in any cycle) and any target? | 78k states |
| `i2c_read_ack` | Finding: does it read on only after acknowledging? No. | |
| `writers` | Do the units implement `Delivery`, end, start the controller on nothing it would read on, and keep the scroll position right, when any byte may be refused and the OLED module strobes them as it does? Which words does a full queue drop? | 227k |
| `writers_start` | Finding: is the idle controller only ever started on a START? Not after some refusals. | |
| `writers_strobe` | Finding: is the controller strobed only when idle? No. | |
| `panel` | Is the OLED module a `Terminal`, for every stream of commands, with the blinking cursor? Do the printer and the commands take turns? Does the position stay on the screen? | 360k |
| `board` | Does every order of buttons play its sequences whole and to the end, on the real controller? | 100k |
| `button` | Is a bounce ignored, a long press reported, a resting input followed? | 2k |
| `timer_reset` | Finding: is the timer's output low when its input is? Not always. | |
| `flash` | Does the memory read back as the flash after power-up? Does `SPI_TEST` print the flash? Do the reader on its wires and its black box implement the same `ByteStream`? | 1.6k |
| `codec` | Do both parsers find what was composed, agree on every other short transmission, and do labels point at the bytes that Scroller patches? | 114k |
| `vsh` | From a key to the byte in the simulated display: is nothing ever misunderstood on the wires or by the black box, does the display show what the units were asked for, is the answer to `ID` the display's, does a key play? | 315k |

`vsh` closes a gap that `panel` leaves open. `Panel` takes for granted what a
unit's command does to the display; `DisplayAsTold` carries the same reduced units
along as histories and compares them with the simulated display after it has
been told byte by byte, by real units, through the real controller and the
sampled wires, or through the black box. `NoComplaint` has a point of its own: the
comment at `i2c_blackbox.cc:17-26` calls seven cycles of silence "a very magic
number", for which five would not do. With seven nothing is ever dropped or cut
short under the units as they are; with five (the mutant) it is.

`PressPlays` is stated as the code has it, and not as a user might want it: a key
pressed before the FPGA thread has looked overwrites the one pressed before, and a
key pressed while the sequencer plays is not heard.

Each property has a variant of the code that breaks it (`PROJECT.json`,
"mutants").

### Findings

* *Read on after a NACK* (`i2c_read_ack`). The acknowledgement of a byte read is
  chosen halfway through SCL's low period, the decision to read on when SCL has
  been high for a period. Data queued in between is read after a NACK. The OLED
  module queues its single read in time and does not meet this.
* *A word left behind is sent as an address* (`writers_start`). A unit that queues a
  START behind a byte goes on to queue the byte after it without looking at `ack`. If
  the byte before the START is refused, the START is discarded and the byte after it,
  which is always a control byte, stays in the queue when the bus has gone idle; the
  simulation of the controller asserts that none does (`sim_i2c.py:274-276`). The OLED
  module's guard for its next command (`in_fifo_w_rdy`) then never holds by itself. But
  only that guard looks: behind a refused `CLS` the OLED module strobes Locator at once;
  Locator's START is dropped by the full queue, the controller takes Clser's control
  byte for an address and a direction, and Locator's bytes follow. So it does behind a
  refused scroll. Nor do `PRINT`'s next character and the cursor's blink look at the
  queue. `NoWordLost`, `UnitsAddressFirst` and `Delivers` say how far that goes: no other
  word is ever dropped, what is sent says "write", and the rest of the script follows it
  as it should. It is also what empties the queue again.
* *A strobe while busy* (`writers_strobe`). `Clser` is done with its last byte
  still on the wire and `Locator` strobes the controller while it is busy, which
  the formal harness assumes away. It works, since the START is taken as a
  repeated START, unless that byte is refused. Locator is done as early only for
  `LOCATE 0 0` (below); the other units wait for the bus to go idle.
* *The timer's reset* (`timer_reset`). A full count beats a low input.

More observations are not runs, as no document or test says otherwise.
`LOCATE 0 0` makes `Locator` leave with its control byte on the wire; a unit
strobed just as that transfer ends finds its strobe ignored, and waits for ever.
`CommandsEnd` therefore has it as a hypothesis that `LOCATE 0 0` is not asked for:
without, it fails in `writers`, as `SequencesEnd` does on a board with buttons for
`LOCATE 0 0` and `CLS`. And
after `INIT` the text position is row 1, column 1, but the display's pointer is
at page 0, which is column 16; `Terminal` models this as a `pen` apart from the
position, and the sequences of the source always `LOCATE` after `INIT`. The
simulated flash chip (`spifr_whitebox.cc:89`) does not reset its bit count when a
read is broken off, so that a second `SPI_TEST` in that build prints the flash's
bytes shifted; the black box does not, and the real chip has nothing to do with
it. And the Zig parser calls a transmission valid that ends inside a command of
two bytes, where the tests' parser does not (`ParsersAgree` names that
difference, and the one value of `SetPreDischargePeriod` whose constructor
raises).

### Bounds

* `i2c`: three-bit bytes have a first, a middle and a last bit, and the FSM treats
  all middle bits alike. The divider runs for three cycles (12 MHz, 2 MHz), its
  smallest legal value with distinct half and full pulses. The proofs cover all
  other values. The words are a START for writing, one for reading, and a byte.
* `writers`: eight-bit bytes and sixteen rows, as in the code; three pages of two
  columns, since `Clser` treats the middle ones alike; four ROM commands: one of two
  parts, one of a single part, a character, and the scroll command with two of its
  eight rows. Locator is asked for a cell, a row, a column, both edges and
  nothing, by itself, behind Clser, behind a character and behind Scroller. The
  divider of three cycles is the fastest, which leaves the units least time.
* `panel`: two rows and two columns make every cell an edge and the third line
  feed a wrap of the memory. Commands include an unknown one; `ID` may get any
  answer, refusal included; `PRINT_BYTE` gets a byte of two different
  digits. There are four users, each with its set of commands
  for the whole run: one has all but the cursor's, the others blink between and
  during prints, clearings and moves.
* `board`: display of two rows and columns; five buttons, let go in any set while
  the OLED module rests or has just taken a byte; each command but `DISPLAY_ON`
  occurs, with a scroll and a count of zero.
* `button`: hold times of five and eight cycles, longer than every delay in it.
* `flash`: five bytes, an odd number so that the last word is half full, and all
  different under shifts; `SPI_TEST` asks for fewer bytes than there are and prints
  fewer than it asks for, as in the code. `Tres1TdpCycles` is four, which the reader
  only counts down.
* `codec`: up to four of ten elements: a command of each shape, data of one and two
  bytes, a label. Noise is up to four bytes out of ten, among them every control
  byte, the first bytes of both kinds of two-byte command, a value each refuses,
  and bytes that are no command.
* `vsh`: four text rows and columns (thirty-two display columns, four pages), eight
  bits to a byte and the source's own ROM commands, with the characters up to `9`;
  three keys, one of them for `ID`, line feed and `DISPLAY_OFF`. Three presses
  give every order and the overwriting of one by another. The characters' columns
  are made up, but no two look alike, so that the memory tells which was drawn.
  Keys come while the OLED module rests or has just taken a byte.

Histories (`script`, `taken`, `todo`, `shown`, `played`, ...) only observe. `todo`
is bounded by the one-byte queue in front of the module.

Restrictions on users: `Writers` strobes no unit while one is busy, which
`UnitsTakeTurns` shows of the OLED module, and strobes `Clser` and `LOCATE`'s Locator
only when the queue has room. `LOCATE`'s guard is looked at when the command is taken
and not again when its operands have come, but the queue cannot fill in between: no
unit is busy. `Panel`'s and `Board`'s displays acknowledge every
byte (in `Panel`, except to `ID`), and its users queue commands with the operands
they need, with rows and columns that are on the screen.

### Fairness

There is one assumption: the clock does not stop. Every FSM takes a step in each
cycle, so no component needs a fairness of its own. It is stated so that it never
makes an input happen: `I2C` is fair out of `IDLE`, `Writers` while a unit is
busy, `Board` for cycles in which no button is let go and no pulse of the cursor
falls, `ROMFill` out of `IDLE`, `Simulator` for the FPGA thread's loop and not for
the display thread, `Button` for its registers and not for its input (fairness of a whole step
would force a resting input to move, and `Settles`, which assumes that it rests,
would say nothing). `ROMFill` has one more: the printer, reduced to a number of
cycles there, comes to the end of a character, which `writers` and `panel` show of
the real one. Inputs are never fair: the display may refuse for ever, a
button may bounce for ever, no key need be pressed.

## The proofs

`GatewareProofs` proves of the controller, for every divider `ClkMax` that `Counter`'s own assertion
accepts (`ClkMaxAssumption`), every byte width (`LastBitAssumption`) and every set
of words the user may queue (`WordsAssumption`):

| theorem | property |
|---|---|
| `TypeCorrect` | registers keep their widths |
| `SclFollowsFsm` | SCL has the level of the FSM's state |
| `BitsSentInOrder` | a data bit on the wire is the bit `byte_ix` names |
| `PopsAreTakenWords` | a pop meets the word that was taken |
| `NackThenStop` | after a NACK nothing but STOP follows |
| `SdaHeldInByte` | in a write SDA is let go only at a byte's end |
| `SdaIsStable` | with SCL high, SDA moves for START, repeated START and STOP only |

They all follow from `Invariance`: `IInv` is inductive. The properties are not
inductive alone. That SDA is stable depends on what it was set to half a period
before, so `LineInv` says what the line carries in each state before and after
the divider's half pulse (`SecondHalf`); that the two agree needs `ClockInv`, by
which the divider runs exactly outside `IDLE`. That a pop meets a word needs that
no state which raises the strobe is entered with the strobe up (`PopInv`), and
that a byte's bit index is where the state says needs `ShiftInv`. `TickIInv` has a
step for each action, and `SdaStable` is then a property of a single step from
`IInv`.

and of the button, for every debounce and hold time that `Counter` accepts:

| theorem | property |
|---|---|
| `ButtonTypeCorrect` | registers and counters keep their ranges |
| `LongPressIsReported` | a press that lasted the hold time is `held` when `up` strobes |
| `DebouncedLevelHolds` | the debounced level changes only at the end of a stretch without bounces, or right after it has changed |

The histories say how long something has lasted, the counters only where in a
period they are. `ButtonInv` ties them: while a press is timed the count is its
length until the timer runs out, and from there it takes a cycle to the timer's
output and another to `held` (`HoldInv`); the debouncer's count is at most the
stretch in which its input has differed (`DebounceInv`), and the timer's output can
outlive the stretch only after a change, which is what the finding `timer_reset`
does not spoil.

`PanelProofs` proves, for every size of the screen up to 255
rows (`LastRowAssumption`, `LastColAssumption`, `ScreenAssumption`), and every set of
users whose commands, counts and characters are bytes (`UsersAssumption`):

| theorem | property |
|---|---|
| `UnitsAlternate` | no unit is strobed while one is busy, and `ID` drives the bus only while all are idle |
| `PositionStaysOnScreen` | position, cursor, the display's pointer and first line stay on the screen |
| `PanelIsATerminal` | `Renders`: module, units and display together implement `Terminal` |

None is written down anywhere in the code as a check. That the units take turns
follows from where the two FSMs are: `Strobing` and `Awaiting` say which unit a
state has just strobed or waits for, and `TurnsInv` that it is the only one.
`TurnsKept` is what each group of steps is shown to do, whoever is busy: a unit
strobed is waited for in the next cycle, and a unit waited for is so until it is no
longer busy. That the position stays on the screen rests on the queue: a position
is what `LOCATE`'s operands made it, so the FSM and whoever writes the queue must
agree on which byte is a command and which an operand. `Expecting` is what the FSM
takes the next byte for in each state, and `QueueInv` says that the word waiting
was queued as that, and the writer is ahead of the FSM by exactly that word. A
step of the FSM either stands still or takes a word (`Parses`); `StepQueue`
combines both with what the writer does in the same cycle.

`PanelIsATerminal` is a refinement, and an operation of the terminal takes the module
many cycles: it moves the position first, asks a unit, waits, asks the next one, and the
display changes in between. `RenderInv` says what there is on the display all the while,
by the operation `op` being carried out and the screen `sh` the terminal shows until
it is done: `Stage(sh, op)` is, for each state of the two FSMs, how much of `op` has
been done to `sh`, with what a unit has in hand as `InFlight` (asked or at work: not
there yet; no longer busy: there). The operations still owed to the user (`todo`) are
then the one in hand and what the byte in the queue asks for, `Doing(op) \o Waiting`,
which rests on `ScreenInv`'s agreement between FSM and queue. Scrolling needs the
lines' arithmetic: what is on the screen goes up by a row when the first line moves
on and the last is cleared (`ScrollShows`), provided the scroller's count of lines is
the display's (`AdjustedInv`). For each step of either FSM `StepComes` says what it
comes to, and there are five: nothing a terminal would show (`Silent`), an operation done
(`Performed`), an `ID` not answered or answered (`Failed`, `Answered`), or the cursor
drawn (`Blinked`); `StepRenders` shows each of them a step of `Terminal` or a stutter.

`WritersProofs` proves, for every divider and byte width, every size of the display
(`RowsAssumption`, `PagesAssumption`), every user and every list of ROM commands
with bytes in their parts and no empty part next to another (`CommandsAssumption`:
`Composer` opens a part for what it puts into it), of which one is the scroll
command (`ScrollAssumption`) and those the user asks for have an index and a first
part that is not empty (`IndicesAssumption`), that `WritersTypeOK` always holds
(`CountersHold`).

What bounds the counters of the units that read the ROM is what they find in it. So
the proof first says where everything is in `ROMContent` (`ROMLaid`, `PartLaid`:
index, then parts, each followed by the next one's length), for commands of any
number. `Walk` then ties a unit's state to that layout: which part it is in, how much
of it remains, and that `offset` is the byte behind what it has read. `BusInv` is
inductive with it: only one unit is not at rest (`AloneInv`), a request comes only when
all are (`AskedInv`, `FollowInv`), and a word on a unit's lines has room (`RoomInv`)
unless it is the unit's first START, since the queue takes a cycle to show itself full
and no unit puts words in two cycles running but for a START behind a part. That one
needs the ROM's content again: after a part's end ROMWriter queues a START without
looking at the queue, which is safe only because a part before another is never empty.

`DeliveryProofs` goes on to what arrives at the display, under these assumptions more:
the address has seven bits (`AddrAssumption`), every part that is not empty begins with
a control byte (`ControlAssumption`: `Cmd.compose` puts it there), and `SCROLL_OFFSETS`
are the offsets of the bytes they name in the scroll command's own parts, as
`rom/__init__.py` computes them (`OffsetsAssumption`). Nothing is assumed of when the
OLED module strobes a unit but that none is busy: the controller may be idle, may still
be sending or ending a transfer, and the queue may hold what a refused unit left.

| theorem | property |
|---|---|
| `DeliveryInvariance` | `DeliveryInv` always holds |
| `UnitsDeliver` | `Delivers`: the units on the controller implement `Delivery` |
| `NothingDropped` | `NoWordLost`: no word is dropped but a first START, for a control byte left behind |
| `TransfersAreWrites` | `UnitsAddressFirst`: the idle controller is started on a word, the unit's START or such a byte, that says "write" |
| `PositionFollows` | `ScrollFollowsDisplay`: the scroll position moves only with the display's |

`Delivers` is far from inductive: it compares what has been sent with a script, and
nothing in it says that a unit in the middle of a command has not been overtaken by
the controller. A unit gives the queue a word, then does something else for some
cycles (reads the ROM, counts, looks up a part's length); if the controller came to
the end of its byte meanwhile, it would find the queue empty and end the transfer,
and the rest of the command would go to a new one without an address. So the proof
is about rates:

* `LineInv` is the controller under users that only write, and `Ahead` the number of
  cycles, at least, until it decides on the acknowledgement of the byte it is
  sending. `LineMoves` sums up every step of it in six cases (`LineStep`).
* A unit's place in its script is a pair: `n` words given so far, the next in at most
  `lag` cycles (`LocAt`, `ClsAt`, `ROMAt` have one for each state). `Works` is what
  a step of any unit comes to: it puts its next word, gives it, or waits. For the
  units that read the ROM, the script is what `Walk` reads part by part; for Scroller
  with the bytes patched that it finds by counting (`OffsetsAssumption`).
* `Serves` ties both, in one of three ways. `Unsent`: nothing of the script is on the
  wire; the START is on its way, the controller is idle or still busy with what came
  before, or the queue holds the word that will go in its place. `Underway`: what is on
  the wire is the first `n` words but for one that waits, and either a word waits or the
  controller is `Ahead` by at least the `lag`; no unit lags by more than five cycles, and
  even the fastest divider that `Counter` allows gives six. `Stopping`: a byte was
  refused, and the one thing the unit may still put into the queue is a control byte.
* `LeftInv` is what remains between commands: an empty queue, or an idle controller and a
  control byte. `Opened` says that the script then is the unit's own with that byte for
  its first word. `OperandInv` and `ClearInv` hold Locator's operands and the histories to
  the request.

`DeliveryInv` is all of these with `BusInv`. Every clock cycle is then one of four
things (`Outcomes`): `Quiet`, a stutter; `Begun`, the abstract `Begin`; `Goes`,
`Deliver`, `Refuse` or a stutter; `Finished`, `End`. After a refusal `Delivery` promises
only that nothing more of the command is sent, and that what is left, if anything, is a
control byte: that something may be, and is then sent as an address, is the finding
`writers_start`. `NothingDropped` and `TransfersAreWrites`
follow from the three modes: a START without room is `Unsent` over a word left behind,
and a control byte's last bit is zero, which as a direction is a write, so that no unit
ever meets a controller that reads.

`BoardProofs` proves, for every screen, every ROM and every list of non-empty
sequences of bytes (`SequencesAssumption`: `Composer` gives lists of bytes, and a
button without commands has no entry), on the whole of `Board`:

| theorem | property |
|---|---|
| `SequencesArePlayed` | the OLED module takes a sequence's bytes in order, none left out or taken twice, and a sequence is over only when all of them are |

The sequencer looks at the queue, is shown the byte a cycle later and writes it in
the cycle after; the OLED module takes a byte in one cycle and pops it in the next. `PlayInv`
counts the bytes written (`Written`: those taken and the one in the queue) and ties
the ROM's offset, the bytes remaining, the byte shown and the byte about to be
written to that count; `QueueInv` is what keeps a byte from being taken twice: the
pop strobe is up only in the states entered by taking one. That sequences do not
run into each other in the sequencer's ROM is `SequencesLaid`. Nothing is assumed
of the display or the units, which may refuse or never answer: it is safety.

`FlashProofs` proves, for every image and every base address of 24 bits that the
reader's `addr` holds (`FlashAssumption`), and every number of bytes that
`SPI_TEST` reads and shows (`TestAssumption`, `TestsAssumption`):

| theorem | property |
|---|---|
| `ROMIsRead` | after power-up every byte of the memory reads as the flash has it |
| `TestIsShown` | `SPI_TEST` prints the digits of the flash's first bytes |
| `ReaderStreams` | the reader on the chip's wires, and the black box in its place, implement `ByteStream` |

`FlashInv` ties the reader's shift register, its counts and the chip's state to each
other bit by bit: what remains of the command in the shift register is what the
chip has not seen (`AddressOfBits`, `ByteOfBits`: a number is put together again
from the bits it is sent as), and while bytes come in, the byte in the register is
the first bits of the image's next (`StreamInv`, `PartInv`). `FillInv` is about
rates: a byte is stored before the next is there, and each word's halves end up in
their places whether the image has an even or an odd number of bytes.
`ReaderStreams` shows each cycle a step of `ByteStream` or a stutter. `TestInv`
follows the bytes of `SPI_TEST` from the reader's pulses through the queue to the
printer. For the reader, `TestsAssumption` asks for `SPI_TEST` at most once: the
simulated chip loses its place in a second (see above).

`CodecProofs` proves, for any number of elements of any kind the constructors
accept (`ElementsAssumption`), composed or mixed with any noise:

| theorem | property |
|---|---|
| `ParsersUnderstandTheSame` | both parsers make the same of any bytes, but for the difference named |
| `ComposedComesBack` | what was composed comes back from both, and ends validly |
| `OffsetsPoint` | a label's offset is where the byte it stands before is |

`ParsersInv` compares the two parsers register by register, and lets them part only
where Python's has raised. For a composed transmission, `TransmissionInv`
(`Tracks`, `Where`) says in which element's bytes the parser is, and that what it
has given out is the meaning of the elements before; the control bytes make it
hard, since whether one more follows (`continuation`) depends on what comes after.
`LabelsPoint` asks for a label with a byte behind it: one at the very end points
past the last byte.

Induction over the elements of a sequence, the bits of a number or the parts of a
ROM goes by `Recursion`'s lemma `Induct`, stated of a set of numbers: the library's
own theorem takes an operator, which the provers cannot instantiate. `FlattenIs`,
`Places` say with it what the fold of the community modules' `FlattenSeq` returns.

Model-checked only:

* liveness everywhere (`Progress`, `CommandsEnd`, `SequencesEnd`, `PressPlays`, ...), which
  is out of this prover's reach;
* `AddressFirst` and `BoardNoWordLost` on the board. They are stronger than what
  `TransfersAreWrites` and `NothingDropped` say of the units (a START each time, nothing
  dropped at all), and hold there because the board's display acknowledges every byte;
  with refusals both fail as `writers_start` does. A proof for `Board` would need the
  units' timing again with a display that never refuses, and the FSM's order of the
  units beside it;
* the properties of the simulator.

## Not modelled

* A display that refuses bytes is on the units (`writers`) and in the answers to `ID`
  (`panel`), not on the whole board: what a refusal leaves behind is the
  finding `writers_start`; without a cursor to blink, the OLED
  module may then wait for ever.
* `NULL_SEQUENCE`, an empty command at the end of the ROM: nothing asks ROMWriter for it.
* `LOCATE` beyond the screen and unknown commands wedge or wrap: the first is in no
  user's set, the second in `panel`'s, where nothing follows it.
* The display thread's drawing, the copies it takes under mutexes, the signal that
  stops the FPGA thread: the thread interleavings that reach the gateware are the
  key presses.
* The formal harness, but for the assertions it makes, which are properties of `i2c`;
  the simulation helpers and the tests, whose assertions are used as statements.
* Equality, printing and field validation of the codec's command objects.
* Clock stretching and arbitration: the code has neither.
* Build scripts, platform files, character bitmaps, drawing: no state of the
  running system. The pixel data of characters is replaced by distinct columns.

## Plan

Done, in this order: the controller with its proofs; the units on the controller;
the button; the OLED module as a terminal; the board; the flash, its fill and
`SPI_TEST`; the codec and the ROM's commands; the simulated target, the black box
and the threads; the proofs about the button and the OLED module; those about the
flash, the codec, the units on the controller and the board's sequences; that the
OLED module is a terminal; that the units on the controller deliver their scripts.

Left, by worth:

1. A refusing display on `Board`: what survives a NACK, and which commands wedge the
   module (the state space is that of `board` times the refusals).
2. `AddressFirst` and `BoardNoWordLost` as theorems.
