------------------------------- MODULE MCBoard --------------------------------
(***************************************************************************)
(* A board with a display of two text rows and columns, that acknowledges  *)
(* everything, and five buttons.  The characters of the ROM all look the   *)
(* same, and the bytes on the wire are cut to three bits: only their       *)
(* number, kind and direction count here.                                  *)
(***************************************************************************)
EXTENDS Board

MCCommands ==
  [k \in 1 .. OFFSET_CHAR + 96 |->
     IF k = OFFSET_SCROLL + 1 THEN << <<0, 1>>, <<2>> >>
     ELSE << <<64>> >>]

MCSequences ==
  << <<DISPLAY_OFF, CLS, INIT, LOCATE, 2, 1, PRINT, 2, 65, LF>>,
     <<ID, PRINT, 0>>, <<NOP, PRINT_BYTE, 161>>, <<CURSOR_ON>>, <<CURSOR_OFF>> >>
===============================================================================
