------------------------------- MODULE Scroller -------------------------------
(***************************************************************************)
(* The unit that scrolls the display by one text row,                      *)
(* sh1107/rtl/oled/scroller.py: a copy of ROMWriter that sends the scroll  *)
(* command, patched for the rows scrolled so far (adjusted).               *)
(***************************************************************************)
EXTENDS I2CUser, ROMImage

CONSTANTS
  OFFSET_SCROLL,               \* the index of the scroll command
  InitialHigherColumnAddress,  \* where SCROLL_OFFSETS says the patched bytes
  LowerColumnAddresses,        \*   are, counted over the whole command
  DisplayStartLine

ASSUME ScrollAssumption == OFFSET_SCROLL \in Nat /\ OFFSET_SCROLL + 1 \in DOMAIN Commands

VARIABLE scr                   \* the unit, with written and adjusted

Copy == INSTANCE ROMWriter WITH wr <- scr

ScrInit(adjusted) ==
  scr = IdleUnitWith([written |-> 0, adjusted |-> adjusted, addr |-> 0,
                      offset |-> 0, remain |-> 0])

\* rst is looked at in IDLE only; it and stb may come together.
ScrIdle(stb, rst) ==
  /\ scr.fsm = "IDLE"
  /\ LET s == [Copy!Forget(scr) EXCEPT !.written = 0,
                                       !.adjusted = IF rst = 1 THEN 0 ELSE @]
     IN  scr' = IF stb = 1
                THEN Goto([s EXCEPT !.busy = 1, !.addr = 4 * OFFSET_SCROLL],
                          "START_ADDRESSED_OFFSET0")
                ELSE s

\* The byte to send for the ROM's byte: the column address moves by eight
\* columns for each row scrolled, and the start line to the row after.
Patched(data) ==
  IF scr.written = InitialHigherColumnAddress
  THEN data + scr.adjusted \div 2
  ELSE IF scr.written \in LowerColumnAddresses
  THEN data + 8 * (scr.adjusted % 2)
  ELSE IF scr.written = DisplayStartLine + 1
  THEN IF scr.adjusted = Rows - 1 THEN 0 ELSE 8 + 8 * scr.adjusted
  ELSE data

Count(u) == [u EXCEPT !.written = @ + 1]

ScrSend ==
  /\ scr.fsm = "LOOP_HEAD" /\ scr.remain # 0
  /\ LET u == Strobe(scr, 0) IN
     scr' = IF Writable(in_fifo)
            THEN Goto(Count(Copy!NextByte(
                   PutData([u EXCEPT !.remain = @ - 1], Patched(rom_data)))),
                   "SEND_LATCHED_W_EN")
            ELSE u

\* Variant: the position moves on though the last byte was refused.
ScrFinishAnyway ==
  /\ scr.fsm = "FIN_WAIT_I2C_DONE"
  /\ scr' = IF busy = 0
            THEN Done([scr EXCEPT !.adjusted = (@ + 1) % Rows])
            ELSE scr

\* Variant: the position does not wrap.
ScrFinishUnwrapped ==
  /\ scr.fsm = "FIN_WAIT_I2C_DONE"
  /\ scr' = IF busy = 0 /\ ack = 1 /\ Writable(in_fifo)
            THEN Done([scr EXCEPT !.adjusted = @ + 1])
            ELSE Refused(scr)

\* adjusted moves on only if the last byte was acknowledged and nothing is left
\* in the queue.
ScrFinish ==
  /\ scr.fsm = "FIN_WAIT_I2C_DONE"
  /\ scr' = IF busy = 0 /\ ack = 1 /\ Writable(in_fifo)
            THEN Done([scr EXCEPT !.adjusted = (@ + 1) % Rows])
            ELSE Refused(scr)

\* One clock cycle.
ScrStep(stb, rst) ==
  \/ ScrIdle(stb, rst)
  \/ Copy!WrCommonStep
  \/ ScrSend
  \/ ScrFinish
===============================================================================
