------------------------------- MODULE I2CUser --------------------------------
(***************************************************************************)
(* What the four units that write to the display have in common: how       *)
(* Locator, Clser, ROMWriter and Scroller (sh1107/rtl/oled/) use the bus   *)
(* of the I2C controller.                                                  *)
(*                                                                         *)
(* A unit is a record of its registers: its FSM's state, busy, and the     *)
(* bus's stb, in_fifo_w_en and in_fifo_w_data.  An operator below maps a   *)
(* unit to the unit after the clock edge, so that a step of a unit is      *)
(* written unit' = Goto(PutNext(unit, n), "state").  The data lines are    *)
(* read only while w_en is high, and are left out (zero) when it falls.    *)
(***************************************************************************)
EXTENDS I2C

CONSTANTS
  Addr,    \* the display's seven-bit address
  Rows     \* text rows, text columns and pages of the display: 16

ASSUME AddrAssumption == Addr \in 0 .. 127
ASSUME RowsAssumption == Rows \in Nat \ {0}

ByteOf(n) == [i \in 0 .. LastBit |-> (n \div 2^(LastBit - i)) % 2]

StartWord   == [kind |-> "START", data |-> ByteOf(2 * Addr + W)]
DataWord(n) == [kind |-> "DATA", data |-> ByteOf(n)]

IdleUnit ==
  [fsm |-> "IDLE", busy |-> 0, stb |-> 0, w_en |-> 0,
   w |-> [kind |-> "DATA", data |-> ZeroByte]]

\* An idle unit with registers of its own.
IdleUnitWith(own) ==
  [f \in DOMAIN IdleUnit \cup DOMAIN own |->
     IF f \in DOMAIN own THEN own[f] ELSE IdleUnit[f]]

Goto(u, state)  == [u EXCEPT !.fsm = state]
PutStart(u)     == [u EXCEPT !.w_en = 1, !.w = StartWord]
PutData(u, n)   == [u EXCEPT !.w_en = 1, !.w = DataWord(n)]
PutNext(u, n)   == [u EXCEPT !.w_en = 1, !.w.data = ByteOf(n)]  \* same kind
Release(u)      == [u EXCEPT !.w_en = 0, !.w.data = ZeroByte]
Strobe(u, bit)  == [u EXCEPT !.stb = bit]
Done(u)         == Goto([u EXCEPT !.busy = 0], "IDLE")

\* Variant: a refusal is not looked at.
ReadyAnyway == busy = 1 /\ Writable(in_fifo)

\* The condition on which a unit queues its next word, and what it does while
\* the condition fails: wait, or give up once the controller has gone idle.
Ready == busy = 1 /\ ack = 1 /\ Writable(in_fifo)
Refused(u) == IF busy = 0 THEN Done(u) ELSE u

\* ControlByte(False, "Command"), ControlByte(False, "Data") and the addressing
\* commands of sh1107/proto/__init__.py.
ControlCommand == 0
ControlData    == 64
SetLowerColumnAddress(n)  == n
SetHigherColumnAddress(n) == 16 + n
SetPageAddress(n)         == 176 + n
===============================================================================
