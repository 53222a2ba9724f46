------------------------------- MODULE Requests -------------------------------
(***************************************************************************)
(* What the OLED module asks of what it drives, sh1107/rtl/oled/: of its   *)
(* four units, a strobe together with the operands on the unit's other     *)
(* inputs; of its character printer, the two hexadecimal digits of a byte. *)
(* A strobe is high for one cycle, and a unit is busy from the next on.    *)
(***************************************************************************)
EXTENDS Naturals

None          == [unit |-> "none"]
Locate(r, c)  == [unit |-> "locator", row |-> r, col |-> c]
Clear         == [unit |-> "clser"]
Scroll        == [unit |-> "scroller"]

\* rst is the scroller's, raised together with the writing of INIT.
WriteROM(index, rst) == [unit |-> "rom_writer", index |-> index, rst |-> rst]

HexDigit(n)   == IF n > 9 THEN 65 + n - 10 ELSE 48 + n
FirstHalf(b)  == HexDigit(b \div 16)
SecondHalf(b) == HexDigit(b % 16)
===============================================================================
