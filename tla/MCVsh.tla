--------------------------------- MODULE MCVsh ---------------------------------
(***************************************************************************)
(* The simulator with a display of thirty-two columns and four pages, and the  *)
(* ROM of sh1107/rom/ for it, with the characters up to the nine.          *)
(***************************************************************************)
EXTENDS Simulator

\* No two characters look alike, and the blank is blank.
MCCharColumns ==
  [k \in 1 .. 58 |-> [c \in 1 .. 8 |-> IF k = 33 THEN 0 ELSE (k + 29 * c) % 256]]

ROM == INSTANCE ROMCommands WITH Pages <- LastPage + 1

MCCommands            == ROM!ROMSequences
MCInitialHigherColumn == ROM!InitialHigherColumn
MCLowerColumns        == ROM!LowerColumns
MCStartLine           == ROM!StartLine

MCSequences ==
  << <<INIT, CLS, LOCATE, 4, 3, PRINT, 3, 49, 50, 51>>,
     <<PRINT, 2, LF, 52, ID, DISPLAY_OFF>>, <<LOCATE, 0, 2, PRINT_BYTE, 25>> >>

MCButtons == 1 .. Len(MCSequences)
===============================================================================
