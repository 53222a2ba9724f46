------------------------------- MODULE Terminal -------------------------------
(***************************************************************************)
(* What the OLED module promises the user of its commands: a text screen   *)
(* with a position, on which the operations are carried out in the order   *)
(* they were asked for, each once.                                         *)
(*                                                                         *)
(* pen is where the display writes next.  It is the position, but for what *)
(* INIT does: it sends the position home to row 1, column 1 and the        *)
(* display to the beginning of page 0, which is the last column.           *)
(***************************************************************************)
EXTENDS Naturals, Sequences

CONSTANTS
  LastRow, LastCol,
  Blank, CursorChar, CR, LF,
  Digits                \* the characters of hexadecimal digits

VARIABLES
  screen,               \* what is shown, by row and column
  pos, pen,             \* <<row, column>>
  blinking,             \* the cursor is on
  todo                  \* operations asked for and not yet done

vars == <<screen, pos, pen, blinking, todo>>

TextRows == 1 .. LastRow
TextCols == 1 .. LastCol

Blanks == [r \in TextRows |-> [c \in TextCols |-> Blank]]

Init ==
  /\ screen = Blanks
  /\ pos = <<1, 1>> /\ pen = <<1, LastCol>>
  /\ blinking = FALSE /\ todo = <<>>

Scrolled(s) == [r \in TextRows |-> IF r < LastRow THEN s[r + 1] ELSE Blanks[r]]
Written(s, char) == [s EXCEPT ![pen[1]][pen[2]] = char]

\* To column 1 of the next row, scrolling when there is none.
Advance(s) ==
  /\ pos' = <<IF pos[1] < LastRow THEN pos[1] + 1 ELSE LastRow, 1>>
  /\ screen' = IF pos[1] < LastRow THEN s ELSE Scrolled(s)

Char(char) ==
  /\ CASE char = CR -> pos' = <<pos[1], 1>> /\ UNCHANGED screen
       [] char = LF -> Advance(screen)
       [] OTHER -> IF pos[2] = LastCol THEN Advance(Written(screen, char))
                   ELSE /\ pos' = <<pos[1], pos[2] + 1>>
                        /\ screen' = Written(screen, char)
  /\ pen' = IF char = CR THEN <<pen[1], 1>> ELSE pos'

Goto(r, c) ==
  LET To(p) == <<IF r = 0 THEN p[1] ELSE r, IF c = 0 THEN p[2] ELSE c>> IN
  pos' = To(pos) /\ pen' = To(pen) /\ UNCHANGED screen

Clear == screen' = Blanks /\ pos' = <<1, 1>> /\ pen' = <<1, 1>>

\* INIT puts the display's start line back: the rows turn.
Reset ==
  /\ pos' = <<1, 1>> /\ pen' = <<1, LastCol>>
  /\ \E n \in TextRows : screen' = [r \in TextRows |-> screen[((r + n) % LastRow) + 1]]

\* The cursor is a character like others, and what it covers is lost.
Cursor(char) ==
  screen' = Written(screen, char) /\ pen' = pos /\ UNCHANGED pos

-------------------------------------------------------------------------------
(***************************************************************************)
(* The operations a user may ask for.  More may be asked for at any time,  *)
(* also while one is carried out.                                          *)
(***************************************************************************)
Do(op) ==
  CASE op.op = "char"   -> Char(op.char) /\ UNCHANGED blinking
    [] op.op = "locate" -> Goto(op.row, op.col) /\ UNCHANGED blinking
    [] op.op = "cls"    -> Clear /\ UNCHANGED blinking
    [] op.op = "init"   -> Reset /\ UNCHANGED blinking
    [] op.op = "power"  -> UNCHANGED <<screen, pos, pen, blinking>>
    [] op.op = "cursor" -> Cursor(op.char) /\ blinking' = (op.char = CursorChar)
    [] op.op = "id"     -> FALSE

Keeps(ops) == Len(todo') >= Len(ops) /\ SubSeq(todo', 1, Len(ops)) = ops

AskFor == Keeps(todo) /\ UNCHANGED <<screen, pos, pen, blinking>>

Perform == todo # <<>> /\ Do(Head(todo)) /\ Keeps(Tail(todo))

\* ID becomes the two digits of a byte, or nothing if the display does not
\* answer.
Identify ==
  /\ todo # <<>> /\ Head(todo).op = "id"
  /\ \/ Keeps(Tail(todo))
     \/ \E d, e \in Digits :
          Keeps(<<[op |-> "char", char |-> d], [op |-> "char", char |-> e]>>
                  \o Tail(todo))
  /\ UNCHANGED <<screen, pos, pen, blinking>>

\* While it is on the cursor may be drawn, or blanked, at any time.
Blink ==
  /\ blinking
  /\ \E char \in {CursorChar, Blank} : Cursor(char)
  /\ Keeps(todo) /\ UNCHANGED blinking

Next == AskFor \/ Perform \/ Identify \/ Blink

Spec == Init /\ [][Next]_vars
===============================================================================
