-------------------------------- MODULE Board ---------------------------------
(***************************************************************************)
(* All of the gateware, from the buttons to the two wires: the sequencer,  *)
(* the OLED module with its four units, and the I2C controller, clock      *)
(* cycle by clock cycle.                                                   *)
(***************************************************************************)
EXTENDS Bus, OLED, Top

CONSTANT Levels   \* the levels the display may give the data line

VARIABLES
  playing, played, \* history: the button last obeyed, and how many bytes of
                   \*   its sequence the OLED module has taken
  unblinking       \* the cursor's counter may show a pulse: the module has
                   \*   rested for a cycle since the last one

boardVars == <<i2cVars, unitVars, oledVars, topVars,
               playing, played, unblinking>>

ReadWord == [kind |-> "START", data |-> ByteOf(2 * Addr + R)]

\* The words ID queues, by the name OLED gives them.
OwnWord ==
  CASE own.w = "WRITE" -> StartWord
    [] own.w = "READ"  -> ReadWord
    [] own.w \in {"DATA", "none"} -> DataWord(0)

OwnUnit == [stb |-> own.stb, w_en |-> own.w_en, w |-> OwnWord]

\* What the controller shows the OLED module; a unit that is busy has it to
\* itself, and the module's end of the multiplexer then has the signals' inits.
OwnBus ==
  IF AnyBusy
  THEN [busy |-> 0, ack |-> 1, w_rdy |-> 0, r_rdy |-> 0, r_data |-> 0]
  ELSE [busy |-> busy, ack |-> ack,
        w_rdy |-> IF Writable(in_fifo) THEN 1 ELSE 0,
        r_rdy |-> IF Readable(out_fifo) THEN 1 ELSE 0,
        r_data |-> IF Readable(out_fifo)
                   THEN CHOOSE n \in 0 .. 2^(LastBit + 1) - 1 :
                          ByteOf(n) = out_fifo[1]
                   ELSE 0]

UnitsBusy == [locator |-> loc.busy, clser |-> cls.busy,
              rom_writer |-> wr.busy, scroller |-> scr.busy]

BoardInit ==
  /\ Init /\ UnitsInit(0) /\ OLEDInit /\ TopInit
  /\ playing = 1 /\ played = Len(ButtonSequences[1])
  /\ unblinking = TRUE

OwnREn == IF AnyBusy THEN 0 ELSE own.r_en

\* One cycle of all but the controller.  full is the cursor's pulse, released
\* the buttons let go.
CommandCycle(full, released) ==
  /\ UnitsStep(req)
  /\ OLEDStep(UnitsBusy, OwnBus, full, top.w_en, top.w)
  /\ TakeOperands(req', req # None)
  /\ TopStep(released, Writable(fifo_in))
  /\ IF top.fsm = "IDLE" /\ top'.fsm # "IDLE"
     THEN playing' \in released /\ First(playing') = top'.offset /\ played' = 0
     ELSE /\ UNCHANGED playing
          /\ played' = IF fifo_r_en = 1 THEN played + 1 ELSE played
  /\ unblinking' = (full = 0 /\ (unblinking \/ main = "IDLE"))

\* What is on the controller's end of the bus.
Owned == Owner(OwnUnit)

\* One cycle of the clock.
Cycle(sda_i, full, released) ==
  /\ Tick(Owned.stb, Owned.w_en, Owned.w, OwnREn, sda_i)
  /\ CommandCycle(full, released)

\* Buttons are let go while the OLED module rests or has just taken a byte.
Releases ==
  IF main \in {"IDLE", "START_STROBED_FIFO_IN_R_EN"}
  THEN SUBSET (DOMAIN ButtonSequences) ELSE {{}}

\* The counter runs half a second, a blink is drawn in milliseconds: when it is
\* over the module finds its queue before the next pulse finds the module.
Pulses == IF cursor.en = 1 /\ main = "IDLE" /\ unblinking THEN Bit ELSE {0}

BoardNext ==
  \E sda_i \in Levels, released \in Releases, full \in Pulses :
    Cycle(sda_i, full, released)

\* The clock does not stop, whether or not a button is let go or the cursor is
\* due.
QuietCycle == \E sda_i \in Levels : Cycle(sda_i, 0, {})

BoardSpec == BoardInit /\ [][BoardNext]_boardVars /\ WF_boardVars(QuietCycle)

-------------------------------------------------------------------------------
(***************************************************************************)
(* Properties.                                                             *)
(***************************************************************************)
\* The OLED module takes a sequence's bytes in order, none left out or taken
\* twice, and a sequence is over only when all of them are.
SequencePlayed ==
  /\ fifo_r_en = 1 =>
       Given /\ fifo_in = SubSeq(ButtonSequences[playing], played + 1, played + 1)
  /\ top.fsm = "IDLE" /\ top.w_en = 0 /\ ~Given =>
       played = Len(ButtonSequences[playing])

\* What the controller takes for an address is one: at the start of a transfer
\* the front of its queue is a START.
AddressFirst ==
  fsm = "IDLE" /\ Owned.stb = 1 => Queued /\ FrontWord.kind = "START"

\* A word is written to the controller's queue only when there is room.
BoardNoWordLost == Owned.w_en = 1 => Writable(in_fifo)

\* A sequence begun comes to its end, and the OLED module to rest.
SequencesEnd ==
  top.fsm # "IDLE" ~> (top.fsm = "IDLE" /\ main = "IDLE" /\ ~Given)
===============================================================================
