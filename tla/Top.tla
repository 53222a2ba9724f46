---------------------------------- MODULE Top ---------------------------------
(***************************************************************************)
(* The sequencer of sh1107/rtl/__init__.py: when a button is let go, the   *)
(* bytes of its sequence are written to the OLED module's command queue,   *)
(* one by one, as there is room.  All sequences lie in one ROM, whose read *)
(* port shows the byte addressed in the cycle before.                      *)
(***************************************************************************)
EXTENDS Naturals, Sequences
LOCAL INSTANCE SequencesExt

CONSTANT ButtonSequences  \* SEQUENCES; a button each

\* There is a button, every sequence has a byte at least, and nothing but bytes.
ASSUME SequencesAssumption ==
  /\ ButtonSequences \in Seq(Seq(0 .. 255)) /\ ButtonSequences # <<>>
  /\ \A i \in DOMAIN ButtonSequences : ButtonSequences[i] # <<>>

VARIABLES
  top,      \* the FSM, with offset, remain and fifo_in's w_en and w_data
  top_data  \* _rom_rd.data

topVars == <<top, top_data>>

TopROM == FlattenSeq(ButtonSequences)
First(i) == Len(FlattenSeq(SubSeq(ButtonSequences, 1, i - 1)))

TopInit ==
  /\ top = [fsm |-> "IDLE", offset |-> 0, remain |-> 0, w_en |-> 0, w |-> 0]
  /\ top_data = 0

\* Of several buttons let go in a cycle the last counts.
TopIdle(released, w_rdy) ==
  /\ top.fsm = "IDLE"
  /\ top' = IF w_rdy /\ released # {}
            THEN LET i == CHOOSE i \in released : \A j \in released : j <= i
                 IN  [top EXCEPT !.fsm = "LOOP_ADDRESSED", !.offset = First(i),
                                 !.remain = Len(ButtonSequences[i])]
            ELSE top

TopAddressed ==
  /\ top.fsm = "LOOP_ADDRESSED"
  /\ top' = [top EXCEPT !.fsm = "LOOP_AVAILABLE"]

\* Variant: a byte is written without a look at the queue.
TopAvailableUnchecked(w_rdy) ==
  /\ top.fsm = "LOOP_AVAILABLE"
  /\ top' = [top EXCEPT !.fsm = "LOOP_STROBED_W_EN", !.w_en = 1, !.w = top_data]

TopAvailable(w_rdy) ==
  /\ top.fsm = "LOOP_AVAILABLE"
  /\ top' = IF w_rdy
            THEN [top EXCEPT !.fsm = "LOOP_STROBED_W_EN", !.w_en = 1, !.w = top_data]
            ELSE top

\* Offset and remain are left out (zero) once the last byte is written.
TopStrobed ==
  /\ top.fsm = "LOOP_STROBED_W_EN"
  /\ LET written == [top EXCEPT !.w_en = 0, !.w = 0] IN
     top' = IF top.remain = 1
            THEN [written EXCEPT !.fsm = "IDLE", !.offset = 0, !.remain = 0]
            ELSE [written EXCEPT !.fsm = "LOOP_ADDRESSED", !.offset = @ + 1,
                                 !.remain = @ - 1]

\* One clock cycle; released is the set of buttons let go in it.
TopStep(released, w_rdy) ==
  /\ top_data' = TopROM[top.offset + 1]
  /\ TopIdle(released, w_rdy) \/ TopAddressed \/ TopAvailable(w_rdy) \/ TopStrobed
===============================================================================
