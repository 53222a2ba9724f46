------------------------------ MODULE ROMWriter -------------------------------
(***************************************************************************)
(* The unit that sends a command of the ROM,                               *)
(* sh1107/rtl/oled/rom_writer.py: looks the command up in the index, then  *)
(* sends each part as a transmission of its own.  A byte addressed in one  *)
(* cycle is on rom_data in the next.  Scroller is a copy of this unit with *)
(* some bits added, so the steps take what the two differ in as an         *)
(* operand.                                                                *)
(***************************************************************************)
EXTENDS I2CUser, ROMImage

VARIABLE wr   \* the unit, with the ROM's address, offset and remain

WrInit == wr = IdleUnitWith([addr |-> 0, offset |-> 0, remain |-> 0])

\* What an idle unit knows of the ROM is left out (zero).
Forget(u) == [u EXCEPT !.addr = 0, !.offset = 0, !.remain = 0]

\* IDLE: look command index up when strobed.
WrIdle(stb, index) ==
  /\ wr.fsm = "IDLE"
  /\ wr' = IF stb = 1
           THEN Goto([Forget(wr) EXCEPT !.busy = 1, !.addr = 4 * index],
                     "START_ADDRESSED_OFFSET0")
           ELSE Forget(wr)

WrAddressedOffset0 ==
  /\ wr.fsm = "START_ADDRESSED_OFFSET0"
  /\ wr' = Goto([wr EXCEPT !.addr = @ + 1], "START_ADDRESSED_OFFSET1")

WrAddressedOffset1 ==
  /\ wr.fsm = "START_ADDRESSED_OFFSET1"
  /\ wr' = Goto([wr EXCEPT !.addr = @ + 1, !.offset = rom_data],
                "START_ADDRESSED_LEN0")

WrAddressedLen0 ==
  /\ wr.fsm = "START_ADDRESSED_LEN0"
  /\ wr' = Goto([wr EXCEPT !.addr = @ + 1, !.offset = @ + 256 * rom_data],
                "START_ADDRESSED_LEN1")

WrAddressedLen1 ==
  /\ wr.fsm = "START_ADDRESSED_LEN1"
  /\ wr' = Goto([wr EXCEPT !.addr = wr.offset, !.remain = rom_data],
                "START_ADDRESSED_DATA")

WrAddressedData ==
  /\ wr.fsm = "START_ADDRESSED_DATA"
  /\ wr' = Goto(PutStart([wr EXCEPT !.remain = @ + 256 * rom_data]),
                "ADDRESS_PERIPHERAL_LATCHED_W_EN")

WrAddressPeripheral ==
  /\ wr.fsm = "ADDRESS_PERIPHERAL_LATCHED_W_EN"
  /\ wr' = Goto(Strobe(Release(wr), 1), "LOOP_HEAD")

NextByte(u) == [u EXCEPT !.offset = @ + 1, !.addr = u.offset + 1]

\* The end of a part: its two bytes of length follow.
WrPartEnds ==
  /\ wr.fsm = "LOOP_HEAD" /\ wr.remain = 0
  /\ wr' = Goto(NextByte(Strobe(wr, 0)), "SEQ_BREAK_ADDRESSED_NEXTLEN1")

\* Queue the next byte as soon as there is room.
WrSend(data) ==
  /\ wr.fsm = "LOOP_HEAD" /\ wr.remain # 0
  /\ wr' = IF Writable(in_fifo)
           THEN Goto(NextByte(PutData([Strobe(wr, 0) EXCEPT !.remain = @ - 1], data)),
                     "SEND_LATCHED_W_EN")
           ELSE Strobe(wr, 0)

WrSendLatched ==
  /\ wr.fsm = "SEND_LATCHED_W_EN"
  /\ wr' = Goto(Release(wr), "SEND_WAIT_FOR_I2C")

WrWaitForI2C ==
  /\ wr.fsm = "SEND_WAIT_FOR_I2C"
  /\ wr' = IF Ready THEN Goto(wr, "LOOP_HEAD") ELSE Refused(wr)

WrNextLen0 ==
  /\ wr.fsm = "SEQ_BREAK_ADDRESSED_NEXTLEN1"
  /\ wr' = Goto(NextByte([wr EXCEPT !.remain = rom_data]),
                "SEQ_BREAK_ADDRESSED_FOLLOWING")

\* A next part starts with a repeated START; without one the command is done.
WrNextLen1 ==
  LET remain == wr.remain + 256 * rom_data IN
  /\ wr.fsm = "SEQ_BREAK_ADDRESSED_FOLLOWING"
  /\ wr' = IF remain = 0
           THEN Goto(wr, "FIN_WAIT_I2C_DONE")
           ELSE Goto(PutStart([wr EXCEPT !.remain = remain]),
                     "SEQ_BREAK_LATCHED_W_EN")

WrSeqBreakLatched ==
  /\ wr.fsm = "SEQ_BREAK_LATCHED_W_EN"
  /\ wr' = Goto(Release(wr), "LOOP_HEAD")

WrFinish ==
  /\ wr.fsm = "FIN_WAIT_I2C_DONE"
  /\ wr' = Refused(wr)

\* The steps that Scroller copies unchanged.
WrCommonStep ==
  \/ WrAddressedOffset0 \/ WrAddressedOffset1
  \/ WrAddressedLen0 \/ WrAddressedLen1 \/ WrAddressedData
  \/ WrAddressPeripheral \/ WrPartEnds
  \/ WrSendLatched \/ WrWaitForI2C
  \/ WrNextLen0 \/ WrNextLen1 \/ WrSeqBreakLatched

\* One clock cycle.
WrStep(stb, index) ==
  \/ WrIdle(stb, index)
  \/ WrCommonStep
  \/ WrSend(rom_data)
  \/ WrFinish
===============================================================================
