------------------------------ MODULE ByteStream ------------------------------
(***************************************************************************)
(* What a flash reader promises its user: asked for bytes, it is busy,     *)
(* hands them over one by one in order, each with a pulse of valid that is *)
(* over before the next, and is idle again only when all have been handed  *)
(* over.                                                                   *)
(***************************************************************************)
EXTENDS Naturals, Sequences

CONSTANT Requests      \* the sequences of bytes that may be asked for

VARIABLES
  busy, valid, data,   \* what the user sees; data is 0 but for a pulse
  todo                 \* the bytes still to be handed over

vars == <<busy, valid, data, todo>>

Silent == valid' = 0 /\ data' = 0

Init == busy = 0 /\ valid = 0 /\ data = 0 /\ todo = <<>>

Begin == busy = 0 /\ busy' = 1 /\ todo' \in Requests /\ Silent

Hand ==
  /\ busy = 1 /\ valid = 0 /\ todo # <<>>
  /\ valid' = 1 /\ data' = Head(todo) /\ todo' = Tail(todo)
  /\ UNCHANGED busy

Pause == Silent /\ UNCHANGED <<busy, todo>>

End == busy = 1 /\ todo = <<>> /\ busy' = 0 /\ Silent /\ UNCHANGED todo

Next == Begin \/ Hand \/ Pause \/ End

Spec == Init /\ [][Next]_vars
===============================================================================
