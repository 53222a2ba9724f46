-------------------------------- MODULE MCI2C ---------------------------------
(***************************************************************************)
(* The I2C controller under every user and every target, with the bytes    *)
(* cut to three bits: enough for a first, a middle and a last bit.  The    *)
(* clock divider is the one of a 12 MHz clock and the 2 MHz bus of the     *)
(* simulator and of the code's own formal check.                           *)
(***************************************************************************)
EXTENDS I2C

MCByte(a, b, c) == [i \in 0 .. 2 |-> <<a, b, c>>[i + 1]]

MCWords ==
  {[kind |-> "START", data |-> MCByte(1, 0, W)],
   [kind |-> "START", data |-> MCByte(1, 0, R)],
   [kind |-> "DATA",  data |-> MCByte(0, 1, 1)]}
===============================================================================
