--------------------------------- MODULE SH1107 --------------------------------
(***************************************************************************)
(* The simulated display, vsh/src/SH1107.zig: registers, and a memory of a *)
(* byte for each column of each page.  A data byte goes where the page and *)
(* column address are, and moves one of them on.                           *)
(***************************************************************************)
EXTENDS Naturals, Sequences

CONSTANTS
  page_count,   \* 16
  i2c_width     \* 128

\* What a command only stores, under the command's name.
PowerOnRegisters ==
  [DisplayOn                    |-> <<0>>,
   SetDCDC                      |-> <<1>>,
   SetDisplayClockFrequency     |-> <<1, 5>>,
   SetPreDischargePeriod        |-> <<2, 2>>,
   SetVCOMDeselectLevel         |-> <<53>>,
   SetEntireDisplayOn           |-> <<0>>,
   SetDisplayReverse            |-> <<0>>,
   SetContrastControlRegister   |-> <<128>>,
   SetDisplayStartLine          |-> <<0>>,
   SetDisplayOffset             |-> <<0>>,
   SetMemoryAddressingMode      |-> <<0>>,
   SetMultiplexRatio            |-> <<128>>,
   SetSegmentRemap              |-> <<0>>,
   SetCommonOutputScanDirection |-> <<0>>]

PowerOn ==
  [regs |-> PowerOnRegisters, page |-> 0, column |-> 0, panicked |-> FALSE,
   ram |-> [p \in 0 .. page_count - 1 |-> [c \in 0 .. i2c_width - 1 |-> 0]]]

Powered(d)  == d.regs["DisplayOn"][1] = 1
Vertical(d) == d.regs["SetMemoryAddressingMode"][1] = 1
Flipped(d)  == d.regs["SetSegmentRemap"][1] = 1

\* A column address is the lower four bits and the higher three.
Do(d, c) ==
  CASE c.name = "SetLowerColumnAddress" ->
         [d EXCEPT !.column = (16 * (@ \div 16) + c.v[1]) % i2c_width]
    [] c.name = "SetHigherColumnAddress" ->
         [d EXCEPT !.column = ((@ % 16) + (16 * c.v[1])) % i2c_width]
    [] c.name = "SetPageAddress" -> [d EXCEPT !.page = c.v[1] % page_count]
    [] c.name = "Nop" -> d
    [] c.name \in {"ReadModifyWrite", "End"} -> [d EXCEPT !.panicked = TRUE]
    [] c.name \in DOMAIN d.regs -> [d EXCEPT !.regs[c.name] = c.v]

Reversed(b) ==
  LET Bit(i) == (b \div 2^i) % 2 IN
  128 * Bit(0) + 64 * Bit(1) + 32 * Bit(2) + 16 * Bit(3)
    + 8 * Bit(4) + 4 * Bit(5) + 2 * Bit(6) + Bit(7)

\* Variant: the page moves on in page mode, the column in vertical mode.
AdvancedSwapped(d) ==
  IF Vertical(d) THEN [d EXCEPT !.column = (@ + 1) % i2c_width]
                 ELSE [d EXCEPT !.page = (@ + 1) % page_count]

Advanced(d) ==
  IF Vertical(d) THEN [d EXCEPT !.page = (@ + 1) % page_count]
                 ELSE [d EXCEPT !.column = (@ + 1) % i2c_width]

Write(d, b) ==
  Advanced(IF Flipped(d)
           THEN [d EXCEPT !.ram[page_count - 1 - d.page][d.column] = Reversed(b)]
           ELSE [d EXCEPT !.ram[d.page][d.column] = b])
===============================================================================
