------------------------------- MODULE Delivery -------------------------------
(***************************************************************************)
(* What a unit that writes to the display promises its user: a command has *)
(* a script of words; they reach the wire in order, none lost, repeated or *)
(* made up; and the command ends with its whole script delivered, unless   *)
(* the display refused a byte, after which nothing more is delivered.      *)
(*                                                                         *)
(* A refused command may leave a word behind.  It is delivered in the      *)
(* place of the first word of the next command, and that is all it does.   *)
(***************************************************************************)
EXTENDS Naturals, Sequences

CONSTANTS
  Scripts,    \* the scripts a command may have
  Leavings    \* the words that a refused command may leave

VARIABLES
  active,           \* a command is under way
  script,           \* its words
  delivered,        \* those that have been put on the wire
  refused,          \* the display has refused a byte
  left              \* between commands: the word left behind, if there is one

Init ==
  /\ active = FALSE /\ script = <<>> /\ delivered = <<>> /\ refused = FALSE
  /\ left = <<>>

Begin ==
  /\ ~active /\ active'
  /\ \E s \in Scripts :
       script' = IF left = <<>> THEN s ELSE left \o Tail(s)
  /\ delivered' = <<>> /\ refused' = FALSE /\ left' = <<>>

Deliver ==
  /\ active /\ ~refused
  /\ Len(delivered) < Len(script)
  /\ delivered' = Append(delivered, script[Len(delivered) + 1])
  /\ UNCHANGED <<active, script, refused, left>>

Refuse ==
  /\ active /\ ~refused /\ refused'
  /\ UNCHANGED <<active, script, delivered, left>>

End ==
  /\ active /\ (refused \/ delivered = script)
  /\ active' = FALSE /\ script' = <<>> /\ delivered' = <<>> /\ refused' = FALSE
  /\ left' \in {<<>>} \cup (IF refused THEN {<<word>> : word \in Leavings} ELSE {})

Next == Begin \/ Deliver \/ Refuse \/ End

Spec == Init /\ [][Next]_<<active, script, delivered, refused, left>>
===============================================================================
