------------------------------- MODULE MCPanel --------------------------------
(***************************************************************************)
(* A display of two text rows and two columns: every position is an edge   *)
(* of the screen, and the third line feed comes back to the first line of  *)
(* the display's memory.  One user queues every command but the cursor's,  *)
(* the others have the cursor blink between and during theirs.             *)
(***************************************************************************)
EXTENDS Panel

MCUsers ==
  LET chars == {65, 10, 13} IN
  {[commands |-> {0, 1, 2, 3, 4, 5, 6, 9, 10, 99}, counts |-> {0, 2}, chars |-> chars],
   [commands |-> {6, 7, 8}, counts |-> {2}, chars |-> chars],
   [commands |-> {1, 4, 7, 8}, counts |-> {}, chars |-> {}],
   [commands |-> {5, 7, 8}, counts |-> {}, chars |-> {}]}
===============================================================================
