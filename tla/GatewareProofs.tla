---------------------------- MODULE GatewareProofs ----------------------------
(***************************************************************************)
(* Proofs about the two parts of the gateware that work by themselves: the *)
(* I2C controller, for every clock divider, every byte width and every set *)
(* of words, and the button, for every length of its two timers.           *)
(***************************************************************************)
EXTENDS I2C, Button, TLAPS

-------------------------------------------------------------------------------
(***************************************************************************)
(* The I2C controller: type correctness, the safety invariants and the     *)
(* stability of SDA.                                                       *)
(*                                                                         *)
(* None of the invariants is inductive alone.  What SDA does in a state    *)
(* depends on where the divider stands in the half period (before or after *)
(* its half pulse), and a pop strobe meets a word only because the two     *)
(* states that raise it are entered with the strobe down.  IInv adds both. *)
(***************************************************************************)
WriteBitStates == {"WRITE_DATA_BIT_SCL_LOW", "WRITE_DATA_BIT_SCL_HIGH"}
WriteAckStates == {"WRITE_ACK_BIT_SCL_LOW", "WRITE_ACK_BIT_SCL_HIGH"}
ReadStates ==
  {"READ_DATA_BIT_SCL_LOW", "READ_DATA_BIT_SCL_HIGH",
   "READ_DATA_BIT_LAST_SCL_HIGH"}
ReadAckStates == {"READ_ACK_BIT_SCL_LOW"}
AckStates == {"COMMON_ACK_BIT_SCL_HIGH"}
RepStates == {"REP_START_SCL_LOW", "REP_START_SCL_HIGH"}
FinStates == {"FIN_SCL_LOW", "FIN_SCL_HIGH"}

\* Past the half pulse of the current half period of SCL.
SecondHalf == cnt > ClkMax \div 2

\* The divider runs exactly while the FSM is out of IDLE, and the ACK bit is
\* sampled before its half period ends.
ClockInv ==
  /\ en = busy
  /\ busy = IF fsm = "IDLE" THEN 0 ELSE 1
  /\ fsm = "IDLE" => cnt = 0
  /\ fsm = "WRITE_ACK_BIT_SCL_HIGH" => ~SecondHalf

\* What the controller drives on SDA, by state and half of the half period.
LineInv ==
  /\ fsm = "IDLE" => sda_oe = 1 /\ sda_o = 1
  /\ fsm \in WriteBitStates \cup RepStates \cup FinStates => sda_oe = 1
  /\ fsm = "WRITE_DATA_BIT_SCL_LOW" /\ SecondHalf => sda_o = byte[byte_ix]
  /\ fsm = "WRITE_DATA_BIT_SCL_HIGH" => sda_o = byte[byte_ix]
  /\ fsm = "REP_START_SCL_LOW" /\ SecondHalf => sda_o = 1
  /\ fsm = "REP_START_SCL_HIGH" /\ SecondHalf => sda_o = 0
  /\ fsm = "REP_START_SCL_HIGH" /\ ~SecondHalf => sda_o = 1
  /\ fsm = "FIN_SCL_LOW" /\ SecondHalf => sda_o = 0
  /\ fsm = "FIN_SCL_HIGH" /\ SecondHalf => sda_o = 1
  /\ fsm = "FIN_SCL_HIGH" /\ ~SecondHalf => sda_o = 0
  /\ fsm = "START_WAIT_SCL" => sda_oe = 1

\* Which byte index and direction a state can have.
ShiftInv ==
  /\ fsm \in WriteAckStates \cup AckStates \cup ReadAckStates
       \cup {"READ_DATA_BIT_LAST_SCL_HIGH"} \cup FinStates
     => byte_ix = LastBit
  /\ fsm \in ReadStates \cup ReadAckStates => rw = R
  /\ fsm \in States \ (AckStates \cup FinStates \cup {"IDLE"}) => ack = 1
  /\ sda_oe = 0 => fsm \in WriteAckStates \cup AckStates \cup ReadStates
                             \cup ReadAckStates

\* A pop strobe is down in the states that may raise it.
PopInv ==
  /\ PopsTakenWord
  /\ fsm \in AckStates \cup {"IDLE"} => r_en = 0

IInv ==
  /\ TypeOK
  /\ ClockInv
  /\ SclMatchesFsm
  /\ LineInv
  /\ ShiftInv
  /\ PopInv

-------------------------------------------------------------------------------
\* The half pulse of the divider falls strictly before its full pulse.
LEMMA DividerFacts ==
  /\ ClkMax \in Nat
  /\ ClkMax \div 2 \in Nat
  /\ 1 <= ClkMax \div 2
  /\ ClkMax \div 2 < ClkMax - 1
  BY ClkMaxAssumption DEF CounterMax

\* What the queue holds after a cycle is a word it held or the one written.
LEMMA FifoType ==
  ASSUME NEW S, NEW fifo \in Fifo(S), NEW w \in S, NEW w_en, NEW r
  PROVE  FifoNext(fifo, w_en, w, r) \in Fifo(S)
  BY DEF Fifo, FifoNext

\* A FIFO that holds a word and is not read keeps it: the write is dropped.
LEMMA FifoKeeps ==
  ASSUME NEW fifo, Readable(fifo), NEW w, NEW w_en, NEW r_en_, r_en_ # 1
  PROVE  FifoNext(fifo, w_en, w, r_en_) = fifo
  BY DEF Readable, Writable, FifoNext

\* The divider counts up to its end and starts again, or rests at zero.
LEMMA CounterType ==
  ASSUME NEW c \in 0 .. ClkMax - 1, NEW e
  PROVE  /\ CounterNext(ClkMax, e, c) \in 0 .. ClkMax - 1
         /\ AtFull(ClkMax, c) => CounterNext(ClkMax, e, c) = 0
         /\ e = 1 /\ ~AtFull(ClkMax, c) => CounterNext(ClkMax, e, c) = c + 1
         /\ e # 1 => CounterNext(ClkMax, e, c) = 0
  BY DividerFacts DEF CounterNext, AtFull

\* The strengthened invariant holds after reset.
LEMMA InitIInv == Init => IInv
<1> SUFFICES ASSUME Init PROVE IInv
  OBVIOUS
<1>1. ZeroByte \in Byte
  BY LastBitAssumption DEF ZeroByte, Byte, Bit
<1>2. TypeOK
  BY <1>1, DividerFacts, LastBitAssumption
     DEF Init, TypeOK, States, Bit, W, Fifo
<1>3. ClockInv /\ SclMatchesFsm /\ LineInv /\ ShiftInv /\ PopInv
  BY DEF Init, ClockInv, SclMatchesFsm, LineInv, ShiftInv, PopInv, LowStates,
         PopsTakenWord, WriteBitStates, WriteAckStates, ReadStates,
         ReadAckStates, AckStates, RepStates, FinStates
<1> QED BY <1>2, <1>3 DEF IInv

-------------------------------------------------------------------------------
(***************************************************************************)
(* One clock cycle.                                                        *)
(***************************************************************************)
\* No cycle takes a register out of its width.
LEMMA TickType ==
  ASSUME TypeOK,
         NEW stb \in Bit, NEW w_en \in Bit, NEW out_r_en \in Bit,
         NEW sda_i \in Bit, NEW w_data \in Words,
         Tick(stb, w_en, w_data, out_r_en, sda_i)
  PROVE  TypeOK'
<1> USE DEF Bit
<1>1. /\ cnt' \in 0 .. ClkMax - 1
      /\ scl_o' \in Bit
  BY CounterType DEF TypeOK, Tick, SclNext
<1>2. /\ in_fifo' \in Fifo(Word)
      /\ out_fifo' \in Fifo(Byte)
  BY FifoType, WordsAssumption DEF TypeOK, Tick
<1>3. FsmStep(stb, sda_i)
  BY DEF Tick
<1>4. /\ ZeroByte \in Byte
      /\ byte \in Byte
      /\ WithBit(sda_i) \in Byte
      /\ Queued => FrontWord \in Word /\ FrontWord.data \in Byte
      /\ Queued => RwOf(FrontWord) \in Bit
  BY LastBitAssumption
     DEF TypeOK, ZeroByte, Byte, WithBit, Queued, Readable, FrontWord, Fifo, Word,
         RwOf
<1>5. byte[byte_ix] \in Bit
  BY DEF TypeOK, Byte
<1>6. /\ fsm' \in States
      /\ byte' \in Byte /\ byte_ix' \in 0 .. LastBit
      /\ out_w_data' \in Byte
      /\ en' \in Bit /\ sda_o' \in Bit /\ sda_oe' \in Bit
      /\ busy' \in Bit /\ ack' \in Bit /\ r_en' \in Bit /\ out_w_en' \in Bit
      /\ rw' \in Bit
  <2> USE LastBitAssumption, <1>4, <1>5
      DEF TypeOK, lineVars, statusVars, shiftVars, outVars, States, W, R
  <2>1. CASE Idle  BY <2>1 DEF Idle
  <2>2. CASE IdleStart  BY <2>2 DEF IdleStart, Latch
  <2>3. CASE StartWaitScl  BY <2>3 DEF StartWaitScl, Advance
  <2>4. CASE WriteDataBitLow  BY <2>4 DEF WriteDataBitLow, Advance
  <2>5. CASE WriteDataBitHigh  BY <2>5 DEF WriteDataBitHigh, Advance
  <2>6. CASE WriteAckBitLow  BY <2>6 DEF WriteAckBitLow, Advance
  <2>7. CASE WriteAckBitHigh(sda_i)  BY <2>7 DEF WriteAckBitHigh, Advance
  <2>8. CASE ReadDataBitLow  BY <2>8 DEF ReadDataBitLow, Advance
  <2>9. CASE ReadDataBitHigh(sda_i)  BY <2>9 DEF ReadDataBitHigh
  <2>10. CASE ReadDataBitLastHigh  BY <2>10 DEF ReadDataBitLastHigh, Advance
  <2>11. CASE ReadAckBitLow  BY <2>11 DEF ReadAckBitLow, Advance
  <2>12. CASE AckWait  BY <2>12 DEF AckWait
  <2>13. CASE NextWrite
    BY <2>13 DEF NextWrite, AckDone, Continues, Latch
  <2>14. CASE NextRead
    BY <2>14 DEF NextRead, AckDone, Continues, Latch
  <2>15. CASE RepeatStart
    BY <2>15 DEF RepeatStart, AckDone, Continues, Latch
  <2>16. CASE Finish  BY <2>16 DEF Finish, AckDone
  <2>17. CASE RepStartLow  BY <2>17 DEF RepStartLow, Advance
  <2>18. CASE RepStartHigh  BY <2>18 DEF RepStartHigh, Advance
  <2>19. CASE FinLow  BY <2>19 DEF FinLow, Advance
  <2>20. CASE FinHigh  BY <2>20 DEF FinHigh, Advance
  <2> QED
    BY <1>3, <2>1, <2>2, <2>3, <2>4, <2>5, <2>6, <2>7, <2>8, <2>9, <2>10,
       <2>11, <2>12, <2>13, <2>14, <2>15, <2>16, <2>17, <2>18, <2>19, <2>20
       DEF FsmStep
<1> QED
  BY <1>1, <1>2, <1>6 DEF TypeOK

\* Every cycle, whatever its inputs, preserves the strengthened invariant.
LEMMA TickIInv ==
  ASSUME IInv,
         NEW stb \in Bit, NEW w_en \in Bit, NEW out_r_en \in Bit,
         NEW sda_i \in Bit, NEW w_data \in Words,
         Tick(stb, w_en, w_data, out_r_en, sda_i)
  PROVE  IInv'
<1> DEFINE H == ClkMax \div 2
<1>1. /\ H \in Nat /\ 1 <= H /\ H < ClkMax - 1
      /\ ClkMax \in Nat
      /\ cnt \in 0 .. ClkMax - 1
      /\ byte_ix \in 0 .. LastBit /\ LastBit \in Nat \ {0}
  BY DividerFacts, LastBitAssumption DEF IInv, TypeOK
<1>2. /\ Half <=> cnt = H
      /\ Full <=> cnt = ClkMax - 1
      /\ SecondHalf <=> cnt > H
      /\ SecondHalf' <=> cnt' > H
  BY DEF Half, Full, AtHalf, AtFull, SecondHalf
<1>3. cnt' = IF en = 1 /\ ~Full THEN cnt + 1 ELSE 0
  BY DEF Tick, CounterNext, Full
<1>4. scl_o' = SclNext /\ FsmStep(stb, sda_i)
  BY DEF Tick
<1>5. TypeOK'
  BY TickType DEF IInv
<1>6. Queued /\ r_en # 1 => Queued' /\ FrontWord' = FrontWord
  BY FifoKeeps DEF Tick, Queued, FrontWord
<1> HIDE DEF H
<1>7. ClockInv' /\ SclMatchesFsm'
  <2> USE <1>1, <1>2, <1>3, <1>4
      DEF IInv, ClockInv, SclMatchesFsm, LowStates, SclNext, statusVars
  <2>1. CASE Idle
    BY <2>1 DEF Idle
  <2>2. CASE IdleStart
    BY <2>2 DEF IdleStart, Latch
  <2>3. CASE StartWaitScl
    BY <2>3 DEF StartWaitScl, Advance
  <2>4. CASE WriteDataBitLow
    BY <2>4 DEF WriteDataBitLow, Advance
  <2>5. CASE WriteDataBitHigh
    BY <2>5 DEF WriteDataBitHigh, Advance
  <2>6. CASE WriteAckBitLow
    BY <2>6 DEF WriteAckBitLow, Advance
  <2>7. CASE WriteAckBitHigh(sda_i)
    BY <2>7 DEF WriteAckBitHigh, Advance
  <2>8. CASE ReadDataBitLow
    BY <2>8 DEF ReadDataBitLow, Advance
  <2>9. CASE ReadDataBitHigh(sda_i)
    BY <2>9 DEF ReadDataBitHigh
  <2>10. CASE ReadDataBitLastHigh
    BY <2>10 DEF ReadDataBitLastHigh, Advance
  <2>11. CASE ReadAckBitLow
    BY <2>11 DEF ReadAckBitLow, Advance
  <2>12. CASE AckWait
    BY <2>12 DEF AckWait
  <2>13. CASE NextWrite
    BY <2>13 DEF NextWrite, AckDone, Continues, Latch
  <2>14. CASE NextRead
    BY <2>14 DEF NextRead, AckDone, Continues, Latch
  <2>15. CASE RepeatStart
    BY <2>15 DEF RepeatStart, AckDone, Continues, Latch
  <2>16. CASE Finish
    BY <2>16 DEF Finish, AckDone, Continues
  <2>17. CASE RepStartLow
    BY <2>17 DEF RepStartLow, Advance
  <2>18. CASE RepStartHigh
    BY <2>18 DEF RepStartHigh, Advance
  <2>19. CASE FinLow
    BY <2>19 DEF FinLow, Advance
  <2>20. CASE FinHigh
    BY <2>20 DEF FinHigh, Advance
  <2> QED
    BY <1>4, <2>1, <2>2, <2>3, <2>4, <2>5, <2>6, <2>7, <2>8, <2>9, <2>10,
       <2>11, <2>12, <2>13, <2>14, <2>15, <2>16, <2>17, <2>18, <2>19, <2>20
       DEF FsmStep
<1>8. LineInv'
  <2> USE <1>1, <1>2, <1>3
      DEF IInv, ClockInv, LineInv, WriteBitStates, RepStates, FinStates,
          lineVars, statusVars, shiftVars
  <2>1. CASE Idle
    BY <2>1 DEF Idle
  <2>2. CASE IdleStart
    BY <2>2 DEF IdleStart, Latch
  <2>3. CASE StartWaitScl
    BY <2>3 DEF StartWaitScl, Advance
  <2>4. CASE WriteDataBitLow
    BY <2>4 DEF WriteDataBitLow, Advance
  <2>5. CASE WriteDataBitHigh
    BY <2>5 DEF WriteDataBitHigh, Advance
  <2>6. CASE WriteAckBitLow
    BY <2>6 DEF WriteAckBitLow, Advance
  <2>7. CASE WriteAckBitHigh(sda_i)
    BY <2>7 DEF WriteAckBitHigh, Advance
  <2>8. CASE ReadDataBitLow
    BY <2>8 DEF ReadDataBitLow, Advance
  <2>9. CASE ReadDataBitHigh(sda_i)
    BY <2>9 DEF ReadDataBitHigh
  <2>10. CASE ReadDataBitLastHigh
    BY <2>10 DEF ReadDataBitLastHigh, Advance
  <2>11. CASE ReadAckBitLow
    BY <2>11 DEF ReadAckBitLow, Advance
  <2>12. CASE AckWait
    BY <2>12 DEF AckWait
  <2>13. CASE NextWrite
    BY <2>13 DEF NextWrite, AckDone, Continues, Latch
  <2>14. CASE NextRead
    BY <2>14 DEF NextRead, AckDone, Continues, Latch
  <2>15. CASE RepeatStart
    BY <2>15 DEF RepeatStart, AckDone, Continues, Latch
  <2>16. CASE Finish
    BY <2>16 DEF Finish, AckDone, Continues
  <2>17. CASE RepStartLow
    BY <2>17 DEF RepStartLow, Advance
  <2>18. CASE RepStartHigh
    BY <2>18 DEF RepStartHigh, Advance
  <2>19. CASE FinLow
    BY <2>19 DEF FinLow, Advance
  <2>20. CASE FinHigh
    BY <2>20 DEF FinHigh, Advance
  <2> QED
    BY <1>4, <2>1, <2>2, <2>3, <2>4, <2>5, <2>6, <2>7, <2>8, <2>9, <2>10,
       <2>11, <2>12, <2>13, <2>14, <2>15, <2>16, <2>17, <2>18, <2>19, <2>20
       DEF FsmStep
<1>9. ShiftInv'
  <2> USE <1>1, <1>2
      DEF IInv, LineInv, ShiftInv, States, WriteBitStates, WriteAckStates,
          ReadStates, ReadAckStates, AckStates, RepStates, FinStates,
          lineVars, statusVars, shiftVars, W, R
  <2>1. CASE Idle
    BY <2>1 DEF Idle
  <2>2. CASE IdleStart
    BY <2>2 DEF IdleStart, Latch
  <2>3. CASE StartWaitScl
    BY <2>3 DEF StartWaitScl, Advance
  <2>4. CASE WriteDataBitLow
    BY <2>4 DEF WriteDataBitLow, Advance
  <2>5. CASE WriteDataBitHigh
    BY <2>5 DEF WriteDataBitHigh, Advance
  <2>6. CASE WriteAckBitLow
    BY <2>6 DEF WriteAckBitLow, Advance
  <2>7. CASE WriteAckBitHigh(sda_i)
    BY <2>7 DEF WriteAckBitHigh, Advance
  <2>8. CASE ReadDataBitLow
    BY <2>8 DEF ReadDataBitLow, Advance
  <2>9. CASE ReadDataBitHigh(sda_i)
    BY <2>9 DEF ReadDataBitHigh
  <2>10. CASE ReadDataBitLastHigh
    BY <2>10 DEF ReadDataBitLastHigh, Advance
  <2>11. CASE ReadAckBitLow
    BY <2>11 DEF ReadAckBitLow, Advance
  <2>12. CASE AckWait
    BY <2>12 DEF AckWait
  <2>13. CASE NextWrite
    BY <2>13 DEF NextWrite, AckDone, Continues, Latch
  <2>14. CASE NextRead
    BY <2>14 DEF NextRead, AckDone, Continues, Latch
  <2>15. CASE RepeatStart
    BY <2>15 DEF RepeatStart, AckDone, Continues, Latch
  <2>16. CASE Finish
    BY <2>16 DEF Finish, AckDone, Continues
  <2>17. CASE RepStartLow
    BY <2>17 DEF RepStartLow, Advance
  <2>18. CASE RepStartHigh
    BY <2>18 DEF RepStartHigh, Advance
  <2>19. CASE FinLow
    BY <2>19 DEF FinLow, Advance
  <2>20. CASE FinHigh
    BY <2>20 DEF FinHigh, Advance
  <2> QED
    BY <1>4, <2>1, <2>2, <2>3, <2>4, <2>5, <2>6, <2>7, <2>8, <2>9, <2>10,
       <2>11, <2>12, <2>13, <2>14, <2>15, <2>16, <2>17, <2>18, <2>19, <2>20
       DEF FsmStep
<1>10. PopInv'
  <2> USE <1>2, <1>6
      DEF IInv, PopInv, PopsTakenWord, AckStates, shiftVars
  <2>1. CASE Idle
    BY <2>1 DEF Idle
  <2>2. CASE IdleStart
    BY <2>2 DEF IdleStart, Latch
  <2>3. CASE StartWaitScl
    BY <2>3 DEF StartWaitScl, Advance
  <2>4. CASE WriteDataBitLow
    BY <2>4 DEF WriteDataBitLow, Advance
  <2>5. CASE WriteDataBitHigh
    BY <2>5 DEF WriteDataBitHigh, Advance
  <2>6. CASE WriteAckBitLow
    BY <2>6 DEF WriteAckBitLow, Advance
  <2>7. CASE WriteAckBitHigh(sda_i)
    BY <2>7 DEF WriteAckBitHigh, Advance
  <2>8. CASE ReadDataBitLow
    BY <2>8 DEF ReadDataBitLow, Advance
  <2>9. CASE ReadDataBitHigh(sda_i)
    BY <2>9 DEF ReadDataBitHigh
  <2>10. CASE ReadDataBitLastHigh
    BY <2>10 DEF ReadDataBitLastHigh, Advance
  <2>11. CASE ReadAckBitLow
    BY <2>11 DEF ReadAckBitLow, Advance
  <2>12. CASE AckWait
    BY <2>12 DEF AckWait
  <2>13. CASE NextWrite
    BY <2>13 DEF NextWrite, AckDone, Continues, Latch
  <2>14. CASE NextRead
    BY <2>14 DEF NextRead, AckDone, Continues, Latch
  <2>15. CASE RepeatStart
    BY <2>15 DEF RepeatStart, AckDone, Continues, Latch
  <2>16. CASE Finish
    BY <2>16 DEF Finish, AckDone, Continues
  <2>17. CASE RepStartLow
    BY <2>17 DEF RepStartLow, Advance
  <2>18. CASE RepStartHigh
    BY <2>18 DEF RepStartHigh, Advance
  <2>19. CASE FinLow
    BY <2>19 DEF FinLow, Advance
  <2>20. CASE FinHigh
    BY <2>20 DEF FinHigh, Advance
  <2> QED
    BY <1>4, <2>1, <2>2, <2>3, <2>4, <2>5, <2>6, <2>7, <2>8, <2>9, <2>10,
       <2>11, <2>12, <2>13, <2>14, <2>15, <2>16, <2>17, <2>18, <2>19, <2>20
       DEF FsmStep
<1> QED
  BY <1>5, <1>7, <1>8, <1>9, <1>10 DEF IInv

\* The same for the whole next-state relation and for stuttering.
LEMMA NextIInv == IInv /\ [Next]_i2cVars => IInv'
<1> SUFFICES ASSUME IInv, [Next]_i2cVars PROVE IInv'
  OBVIOUS
<1>1. CASE Next
  BY <1>1, TickIInv DEF Next
<1>2. CASE UNCHANGED i2cVars
  BY <1>2
     DEF i2cVars, lineVars, statusVars, shiftVars, outVars, IInv, TypeOK,
         ClockInv, SclMatchesFsm, LineInv, ShiftInv, PopInv, PopsTakenWord,
         SecondHalf, Queued, Readable, FrontWord
<1> QED BY <1>1, <1>2

-------------------------------------------------------------------------------
(***************************************************************************)
(* Theorems.                                                               *)
(***************************************************************************)
\* The strengthened invariant holds in every reachable state.
THEOREM Invariance == Spec => []IInv
  BY InitIInv, NextIInv, PTL DEF Spec

\* Every register of the controller stays within its width.
THEOREM TypeCorrect == Spec => []TypeOK
<1>1. IInv => TypeOK
  BY DEF IInv
<1> QED BY Invariance, <1>1, PTL

\* scl_o never drifts from the level the FSM's state is named for.
THEOREM SclFollowsFsm == Spec => []SclMatchesFsm
<1>1. IInv => SclMatchesFsm
  BY DEF IInv
<1> QED BY Invariance, <1>1, PTL

\* Every bit the target samples is the bit of the word being sent.
THEOREM BitsSentInOrder == Spec => []BitOnWire
<1>1. IInv => BitOnWire
  BY DEF IInv, LineInv, BitOnWire, WriteBitStates
<1> QED BY Invariance, <1>1, PTL

\* Every pop meets a word, the one whose byte was taken.
THEOREM PopsAreTakenWords == Spec => []PopsTakenWord
<1>1. IInv => PopsTakenWord
  BY DEF IInv, PopInv
<1> QED BY Invariance, <1>1, PTL

\* A NACK is followed by STOP alone.
THEOREM NackThenStop == Spec => []NackEndsTransfer
<1>1. IInv => NackEndsTransfer
  BY DEF IInv, TypeOK, ShiftInv, States, AckStates, FinStates, NackEndsTransfer
<1> QED BY Invariance, <1>1, PTL

\* In a write SDA is let go at the end of a byte only.
THEOREM SdaHeldInByte == Spec => []SdaReleasedAfterLastBit
<1>1. IInv => SdaReleasedAfterLastBit
  BY DEF IInv, TypeOK, Bit, ShiftInv, WriteAckStates, AckStates, ReadStates,
         ReadAckStates, SdaReleasedAfterLastBit, W, R
<1> QED BY Invariance, <1>1, PTL

\* A cycle that ends with SCL high moves SDA for a condition only.
LEMMA TickSdaStable ==
  ASSUME IInv,
         NEW stb \in Bit, NEW w_en \in Bit, NEW out_r_en \in Bit,
         NEW sda_i \in Bit, NEW w_data \in Words,
         Tick(stb, w_en, w_data, out_r_en, sda_i),
         scl_o' = 1, SdaMoves
  PROVE  Condition
<1> DEFINE H == ClkMax \div 2
<1>1. /\ H \in Nat /\ 1 <= H /\ H < ClkMax - 1
      /\ ClkMax \in Nat
  BY DividerFacts
<1>2. /\ Half <=> cnt = H
      /\ Full <=> cnt = ClkMax - 1
      /\ SecondHalf <=> cnt > H
  BY DEF Half, Full, AtHalf, AtFull, SecondHalf
<1>3. scl_o' = SclNext /\ FsmStep(stb, sda_i)
  BY DEF Tick
<1> HIDE DEF H
<1> USE <1>1, <1>2, <1>3
    DEF IInv, SclMatchesFsm, LineInv, LowStates, SclNext, WriteBitStates,
        RepStates, FinStates, SdaMoves, Condition, lineVars
<1>11. CASE Idle
  BY <1>11 DEF Idle
<1>12. CASE IdleStart
  BY <1>12 DEF IdleStart, Latch
<1>13. CASE StartWaitScl
  BY <1>13 DEF StartWaitScl, Advance
<1>14. CASE WriteDataBitLow
  BY <1>14 DEF WriteDataBitLow, Advance
<1>15. CASE WriteDataBitHigh
  BY <1>15 DEF WriteDataBitHigh, Advance
<1>16. CASE WriteAckBitLow
  BY <1>16 DEF WriteAckBitLow, Advance
<1>17. CASE WriteAckBitHigh(sda_i)
  BY <1>17 DEF WriteAckBitHigh, Advance
<1>18. CASE ReadDataBitLow
  BY <1>18 DEF ReadDataBitLow, Advance
<1>19. CASE ReadDataBitHigh(sda_i)
  BY <1>19 DEF ReadDataBitHigh
<1>20. CASE ReadDataBitLastHigh
  BY <1>20 DEF ReadDataBitLastHigh, Advance
<1>21. CASE ReadAckBitLow
  BY <1>21 DEF ReadAckBitLow, Advance
<1>22. CASE AckWait
  BY <1>22 DEF AckWait
<1>23. CASE NextWrite
  BY <1>23 DEF NextWrite, AckDone, Continues, Latch
<1>24. CASE NextRead
  BY <1>24 DEF NextRead, AckDone, Continues, Latch
<1>25. CASE RepeatStart
  BY <1>25 DEF RepeatStart, AckDone, Continues, Latch
<1>26. CASE Finish
  BY <1>26 DEF Finish, AckDone, Continues
<1>27. CASE RepStartLow
  BY <1>27 DEF RepStartLow, Advance
<1>28. CASE RepStartHigh
  BY <1>28 DEF RepStartHigh, Advance
<1>29. CASE FinLow
  BY <1>29 DEF FinLow, Advance
<1>30. CASE FinHigh
  BY <1>30 DEF FinHigh, Advance
<1> QED
  BY <1>11, <1>12, <1>13, <1>14, <1>15, <1>16, <1>17, <1>18, <1>19, <1>20,
     <1>21, <1>22, <1>23, <1>24, <1>25, <1>26, <1>27, <1>28, <1>29, <1>30
     DEF FsmStep

\* With SCL high, SDA moves for START, repeated START and STOP alone.
THEOREM SdaIsStable == Spec => SdaStable
<1>1. ASSUME IInv, Next, scl_o' = 1, SdaMoves PROVE Condition
  BY <1>1, TickSdaStable DEF Next
<1>2. IInv /\ [Next]_i2cVars
        => [scl_o' = 1 /\ SdaMoves => Condition]_i2cVars
  BY <1>1
<1> QED BY Invariance, <1>2, PTL DEF Spec, SdaStable

-------------------------------------------------------------------------------
(***************************************************************************)
(* The button: the ranges of its registers, that a long press is reported, *)
(* and when the debounced level may change.                                *)
(*                                                                         *)
(* The histories say how long something has lasted; the counters say the   *)
(* same only up to where they wrap.  ButtonInv ties the two together.      *)
(***************************************************************************)
\* A press is being timed exactly while the level was high in the cycle before,
\* and the hold timer's count is its length, until it has run out; from there it
\* takes a cycle to the timer's output, and another to held.
HoldInv ==
  /\ holding = registered
  /\ registered = 1 =>
       /\ pressed >= 1
       /\ pressed <= HoldMax => hold_cnt = pressed - 1
       /\ pressed = HoldMax + 1 => hold_o = 1
       /\ pressed = HoldMax + 2 => held = 1

\* The timer counts cycles in which the input differs; when it has run out they
\* have lasted.  Its output outlives them only after a change.
DebounceInv ==
  /\ debounce_cnt <= streak
  /\ streak >= DebounceMax - 1 => calm = 0
  /\ timer_o = 1 => calm <= 1 \/ registered # o

ButtonInv == ButtonTypeOK /\ HoldInv /\ DebounceInv

-------------------------------------------------------------------------------
\* Both timers take three cycles at least.
LEMMA TimerFacts ==
  /\ DebounceMax \in Nat /\ DebounceMax >= 3
  /\ HoldMax \in Nat /\ HoldMax >= 3
  BY DebounceMaxAssumption, HoldMaxAssumption DEF CounterMax

LEMMA InitButton == ButtonInit => ButtonInv
  BY TimerFacts DEF ButtonInit, ButtonInv, ButtonTypeOK, HoldInv, DebounceInv, Bit

\* A counter stays below its maximum.
LEMMA CounterBound ==
  ASSUME NEW max \in Nat, max >= 3, NEW on \in Bit, NEW c \in 0 .. max - 1
  PROVE  CounterNext(max, on, c) \in 0 .. max - 1
  BY DEF CounterNext, AtFull

LEMMA StepButton ==
  ASSUME ButtonInv, [ButtonNext]_buttonVars
  PROVE  ButtonInv'
<1>1. CASE UNCHANGED buttonVars
  BY <1>1 DEF ButtonInv, ButtonTypeOK, HoldInv, DebounceInv, buttonVars,
              debounceVars, holdVars
<1>2. CASE ButtonNext
  <2> USE TimerFacts DEF Bit
  <2>1. ButtonTypeOK'
    <3>1. debounce_cnt' \in 0 .. DebounceMax - 1 /\ hold_cnt' \in 0 .. HoldMax - 1
      BY <1>2, CounterBound DEF ButtonInv, ButtonTypeOK, ButtonNext, Debounce, Hold,
                                TimerIn
    <3>2. timer_o' \in Bit /\ hold_o' \in Bit
      BY <1>2 DEF ButtonInv, ButtonTypeOK, ButtonNext, Debounce, Hold, TimerOut
    <3>3. i' \in Bit /\ o' \in Bit /\ registered' \in Bit
      BY <1>2 DEF ButtonInv, ButtonTypeOK, ButtonNext, Debounce
    <3>4. holding' \in Bit /\ held' \in Bit
      BY <1>2 DEF ButtonInv, ButtonTypeOK, ButtonNext, Hold
    <3>5. streak' \in 0 .. DebounceMax /\ calm' \in 0 .. 2
      BY <1>2 DEF ButtonInv, ButtonTypeOK, ButtonNext, Watch
    <3>6. pressed' \in 0 .. HoldMax + 2
      BY <1>2 DEF ButtonInv, ButtonTypeOK, ButtonNext, Watch
    <3> QED BY <3>1, <3>2, <3>3, <3>4, <3>5, <3>6 DEF ButtonTypeOK
  <2>2. HoldInv'
    <3>1. holding' = registered'
      BY <1>2 DEF ButtonInv, ButtonTypeOK, HoldInv, ButtonNext, Hold, Up, Down
    <3>2. CASE registered' = 0
      BY <3>1, <3>2 DEF HoldInv
    <3>3. CASE registered' = 1 /\ registered = 0
      <4>1. Down /\ pressed' = 1
        BY <1>2, <3>3 DEF ButtonNext, Watch, Down
      <4>2. hold_cnt' = 0
        BY <1>2, <3>3 DEF ButtonInv, HoldInv, ButtonNext, Hold, CounterNext
      <4> QED BY <3>1, <4>1, <4>2 DEF HoldInv
    <3>4. CASE registered' = 1 /\ registered = 1
      <4>1. ~Down /\ o = 1 /\ holding = 1
        BY <1>2, <3>4 DEF ButtonInv, HoldInv, ButtonNext, Down
      <4>2. pressed' = IF pressed < HoldMax + 2 THEN pressed + 1 ELSE HoldMax + 2
        BY <1>2, <4>1 DEF ButtonInv, ButtonTypeOK, ButtonNext, Watch
      <4>3. pressed' <= HoldMax => hold_cnt' = pressed' - 1
        BY <1>2, <3>4, <4>1, <4>2
           DEF ButtonInv, ButtonTypeOK, HoldInv, ButtonNext, Hold, CounterNext, AtFull
      <4>4. pressed' = HoldMax + 1 => hold_o' = 1
        BY <1>2, <3>4, <4>2
           DEF ButtonInv, ButtonTypeOK, HoldInv, ButtonNext, Hold, TimerOut, AtFull
      <4>5. pressed' = HoldMax + 2 => held' = 1
        BY <1>2, <3>4, <4>1, <4>2
           DEF ButtonInv, ButtonTypeOK, HoldInv, ButtonNext, Hold
      <4> QED BY <3>1, <3>4, <4>2, <4>3, <4>4, <4>5
              DEF ButtonInv, ButtonTypeOK, HoldInv
    <3> QED BY <3>2, <3>3, <3>4, <2>1 DEF ButtonInv, ButtonTypeOK
  <2>3. DebounceInv'
    <3>1. debounce_cnt' <= streak'
      BY <1>2 DEF ButtonInv, ButtonTypeOK, DebounceInv, ButtonNext, Debounce, Watch,
                  CounterNext, AtFull, TimerIn
    <3>2. streak' >= DebounceMax - 1 => calm' = 0
      BY <1>2 DEF ButtonNext, Watch
    <3>3. ASSUME timer_o' = 1
          PROVE  calm' <= 1 \/ registered' # o'
      <4>1. CASE AtFull(DebounceMax, debounce_cnt)
        <5>1. calm = 0
          BY <4>1 DEF ButtonInv, ButtonTypeOK, DebounceInv, AtFull
        <5> QED BY <1>2, <5>1 DEF ButtonNext, Watch
      <4>2. CASE ~AtFull(DebounceMax, debounce_cnt)
        <5>1. timer_o = 1 /\ i # o
          BY <1>2, <3>3, <4>2 DEF ButtonNext, Debounce, TimerOut, TimerIn
        <5> QED BY <1>2, <5>1 DEF ButtonNext, Debounce
      <4> QED BY <4>1, <4>2
    <3> QED BY <3>1, <3>2, <3>3 DEF DebounceInv
  <2> QED BY <2>1, <2>2, <2>3 DEF ButtonInv
<1> QED BY <1>1, <1>2

\* The counters, histories and lines of the button are tied together in every
\* reachable state.
THEOREM ButtonInvariance == ButtonSpec => []ButtonInv
  BY InitButton, StepButton, PTL DEF ButtonSpec

\* Every register keeps to its range: counters are cut off at their end.
THEOREM ButtonTypeCorrect == ButtonSpec => []ButtonTypeOK
<1>1. ButtonInv => ButtonTypeOK
  BY DEF ButtonInv
<1> QED BY <1>1, ButtonInvariance, PTL

\* A press held for the hold time is reported as held when up strobes, however
\* long the hold time is and whatever came before.
THEOREM LongPressIsReported == ButtonSpec => []HeldIsReported
<1>1. ButtonInv => HeldIsReported
  BY DEF ButtonInv, HoldInv, HeldIsReported, Up
<1> QED BY <1>1, ButtonInvariance, PTL

\* The debounced level changes at the end of a stretch without bounces, or right
\* after it has changed.
THEOREM DebouncedLevelHolds == ButtonSpec => DebounceHolds
<1>1. ButtonInv /\ [ButtonNext]_buttonVars =>
        [o' # o => calm <= 1 \/ registered # o]_buttonVars
  BY DEF ButtonInv, DebounceInv, ButtonTypeOK, Bit, ButtonNext, Debounce, buttonVars
<1> QED BY <1>1, ButtonInvariance, PTL DEF ButtonSpec, DebounceHolds
===============================================================================
