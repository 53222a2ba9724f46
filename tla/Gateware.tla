------------------------------- MODULE Gateware -------------------------------
(***************************************************************************)
(* What every gateware component of the controller is built from: one-bit  *)
(* signals, the counter and timer of sh1107/rtl/common/, and the one-word  *)
(* SyncFIFO of the Amaranth library.                                       *)
(*                                                                         *)
(* All gateware is one synchronous clock domain, so a step of a component  *)
(* is one clock cycle: every register takes its next value from the        *)
(* current values, whatever the order of the statements.                   *)
(***************************************************************************)
EXTENDS Naturals, Sequences

Bit == {0, 1}

(***************************************************************************)
(* Counter: max is clk_counter_max.  Elaboration refuses a max whose half  *)
(* target is not below its full target, so half and full never coincide.   *)
(***************************************************************************)
CounterMax(max) == max \in Nat /\ max \div 2 < max - 1

AtHalf(max, cnt) == cnt = max \div 2
AtFull(max, cnt) == cnt = max - 1

\* Variant: the count is not cut off at full.
CounterNextUncut(max, en, cnt) == IF en = 1 THEN cnt + 1 ELSE 0

CounterNext(max, en, cnt) ==
  IF en = 1 /\ ~AtFull(max, cnt) THEN cnt + 1 ELSE 0

(***************************************************************************)
(* Timer (sh1107/rtl/common/timer.py): a counter enabled by its input, and *)
(* a registered output.  Of two assignments in a cycle the later one, the  *)
(* output's rise, wins.                                                    *)
(***************************************************************************)
TimerOut(max, i, cnt, o) ==
  IF AtFull(max, cnt) THEN 1 ELSE IF i = 0 THEN 0 ELSE o

(***************************************************************************)
(* SyncFIFO of depth 1, as a sequence of at most one word.  w_rdy and      *)
(* r_rdy are functions of the level alone: a write to a full FIFO is lost, *)
(* even in the cycle in which its word is read out.                        *)
(***************************************************************************)
Fifo(W) == {<<>>} \cup {<<w>> : w \in W}

Readable(fifo) == fifo # <<>>
Writable(fifo) == fifo = <<>>

FifoNext(fifo, w_en, w, r_en) ==
  IF Writable(fifo) /\ w_en = 1 THEN <<w>>
  ELSE IF r_en = 1 THEN <<>>
  ELSE fifo
===============================================================================
