--------------------------------- MODULE I2C ----------------------------------
(***************************************************************************)
(* The I2C controller, sh1107/rtl/i2c/__init__.py.  A step is one cycle of *)
(* the system clock: the clock divider, the two FIFOs and one state of the *)
(* controller's FSM move together.                                         *)
(*                                                                         *)
(* The inputs of a cycle are the operands of Tick: stb, in_fifo_w_en,      *)
(* in_fifo_w_data and out_fifo_r_en from the bus's user, and sda_i from    *)
(* the wire.  A byte is the function of its bits, bit 0 being the MSB, the *)
(* first on the wire; the payload of a START word is address then rw, so   *)
(* rw is its last bit.                                                     *)
(***************************************************************************)
EXTENDS Gateware

CONSTANTS
  ClkMax,   \* clock cycles per half period of SCL (Counter's clk_counter_max)
  LastBit,  \* index of a byte's last bit: 7
  Words     \* the words a user may queue

Byte == [0 .. LastBit -> Bit]
Word == [kind : {"DATA", "START"}, data : Byte]

ASSUME ClkMaxAssumption == CounterMax(ClkMax)
ASSUME LastBitAssumption == LastBit \in Nat \ {0}
ASSUME WordsAssumption == Words \subseteq Word

VARIABLES
  fsm,                      \* the FSM's state
  en, cnt, scl_o,           \* the clock divider, and the clock line
  sda_o, sda_oe,            \* what the controller drives on the data line
  busy, ack,                \* status for the user
  rw, byte, byte_ix,        \* the byte on the wire
  r_en, in_fifo,            \* words from the user
  out_w_en, out_w_data, out_fifo  \* bytes for the user

lineVars   == <<sda_o, sda_oe>>
statusVars == <<en, busy, ack>>
shiftVars  == <<rw, byte, byte_ix>>
outVars    == <<out_w_en, out_w_data>>
i2cVars == <<fsm, cnt, scl_o, lineVars, statusVars, shiftVars, r_en, in_fifo,
             outVars, out_fifo>>

W == 0
R == 1
ZeroByte == [i \in 0 .. LastBit |-> 0]
RwOf(w)  == w.data[LastBit]

Half == AtHalf(ClkMax, cnt)
Full == AtFull(ClkMax, cnt)
Queued == Readable(in_fifo)
FrontWord  == in_fifo[1]

States ==
  {"IDLE", "START_WAIT_SCL",
   "WRITE_DATA_BIT_SCL_LOW", "WRITE_DATA_BIT_SCL_HIGH",
   "WRITE_ACK_BIT_SCL_LOW", "WRITE_ACK_BIT_SCL_HIGH",
   "READ_DATA_BIT_SCL_LOW", "READ_DATA_BIT_SCL_HIGH",
   "READ_DATA_BIT_LAST_SCL_HIGH", "READ_ACK_BIT_SCL_LOW",
   "COMMON_ACK_BIT_SCL_HIGH", "REP_START_SCL_LOW", "REP_START_SCL_HIGH",
   "FIN_SCL_LOW", "FIN_SCL_HIGH"}

TypeOK ==
  /\ fsm \in States
  /\ cnt \in 0 .. ClkMax - 1
  /\ en \in Bit /\ scl_o \in Bit /\ sda_o \in Bit /\ sda_oe \in Bit
  /\ busy \in Bit /\ ack \in Bit /\ r_en \in Bit /\ out_w_en \in Bit
  /\ rw \in Bit
  /\ byte \in Byte /\ byte_ix \in 0 .. LastBit
  /\ in_fifo \in Fifo(Word)
  /\ out_w_data \in Byte /\ out_fifo \in Fifo(Byte)

Init ==
  /\ fsm = "IDLE" /\ cnt = 0
  /\ scl_o = 1 /\ sda_o = 1 /\ sda_oe = 1
  /\ en = 0 /\ busy = 0 /\ ack = 1
  /\ rw = W /\ byte = ZeroByte /\ byte_ix = 0
  /\ r_en = 0 /\ in_fifo = <<>>
  /\ out_w_en = 0 /\ out_w_data = ZeroByte /\ out_fifo = <<>>

-------------------------------------------------------------------------------
(***************************************************************************)
(* The FSM.  Advance(from, on, to) waits in a state for a counter pulse.   *)
(***************************************************************************)
Advance(from, on, to) ==
  /\ fsm = from
  /\ fsm' = IF on THEN to ELSE from

\* Take the front word: pop it, and start on its byte.
Latch(b) ==
  /\ byte' = b
  /\ byte_ix' = 0
  /\ r_en' = 1

\* OR the sampled bit into the byte: byte | (sda_i << (7 - byte_ix)).
WithBit(sda_i) ==
  [byte EXCEPT ![byte_ix] = IF sda_i = 1 THEN 1 ELSE @]

Idle ==
  /\ fsm = "IDLE"
  /\ sda_oe' = 1 /\ sda_o' = 1
  /\ r_en' = 0
  /\ UNCHANGED <<fsm, statusVars, shiftVars, outVars>>

IdleStart ==
  /\ fsm = "IDLE" /\ Queued
  /\ busy' = 1 /\ ack' = 1 /\ en' = 1
  /\ sda_oe' = 1 /\ sda_o' = 0
  /\ rw' = RwOf(FrontWord) /\ Latch(FrontWord.data)
  /\ fsm' = "START_WAIT_SCL"
  /\ UNCHANGED outVars

\* Variant: the pop strobe is not taken back.
StartWaitSclHoldsPop ==
  /\ Advance("START_WAIT_SCL", Full, "WRITE_DATA_BIT_SCL_LOW")
  /\ UNCHANGED <<r_en, lineVars, statusVars, shiftVars, outVars>>

StartWaitScl ==
  /\ Advance("START_WAIT_SCL", Full, "WRITE_DATA_BIT_SCL_LOW")
  /\ r_en' = 0
  /\ UNCHANGED <<lineVars, statusVars, shiftVars, outVars>>

\* Variant: the least significant bit goes first.
WriteDataBitLowLsb ==
  /\ Advance("WRITE_DATA_BIT_SCL_LOW", Full, "WRITE_DATA_BIT_SCL_HIGH")
  /\ sda_o' = IF Half THEN byte[LastBit - byte_ix] ELSE sda_o
  /\ r_en' = 0
  /\ UNCHANGED <<sda_oe, statusVars, shiftVars, outVars>>

\* Variant: the bit is put out as SCL rises.
WriteDataBitLowLate ==
  /\ Advance("WRITE_DATA_BIT_SCL_LOW", Full, "WRITE_DATA_BIT_SCL_HIGH")
  /\ sda_o' = IF Full THEN byte[byte_ix] ELSE sda_o
  /\ r_en' = 0
  /\ UNCHANGED <<sda_oe, statusVars, shiftVars, outVars>>

WriteDataBitLow ==
  /\ Advance("WRITE_DATA_BIT_SCL_LOW", Full, "WRITE_DATA_BIT_SCL_HIGH")
  /\ sda_o' = IF Half THEN byte[byte_ix] ELSE sda_o
  /\ r_en' = 0
  /\ UNCHANGED <<sda_oe, statusVars, shiftVars, outVars>>

\* Variant: the bit index counts past the last bit.
WriteDataBitHighUnbounded ==
  /\ Advance("WRITE_DATA_BIT_SCL_HIGH", Full,
             IF byte_ix = LastBit THEN "WRITE_ACK_BIT_SCL_LOW"
                                  ELSE "WRITE_DATA_BIT_SCL_LOW")
  /\ sda_oe' = IF Full /\ byte_ix = LastBit THEN 0 ELSE sda_oe
  /\ byte_ix' = IF Full THEN byte_ix + 1 ELSE byte_ix
  /\ r_en' = 0
  /\ UNCHANGED <<sda_o, rw, byte, statusVars, outVars>>

\* Variant: SDA is let go after every bit.
WriteDataBitHighReleases ==
  /\ Advance("WRITE_DATA_BIT_SCL_HIGH", Full,
             IF byte_ix = LastBit THEN "WRITE_ACK_BIT_SCL_LOW"
                                  ELSE "WRITE_DATA_BIT_SCL_LOW")
  /\ sda_oe' = IF Full THEN 0 ELSE sda_oe
  /\ byte_ix' = IF Full /\ byte_ix # LastBit THEN byte_ix + 1 ELSE byte_ix
  /\ r_en' = 0
  /\ UNCHANGED <<sda_o, rw, byte, statusVars, outVars>>

WriteDataBitHigh ==
  /\ Advance("WRITE_DATA_BIT_SCL_HIGH", Full,
             IF byte_ix = LastBit THEN "WRITE_ACK_BIT_SCL_LOW"
                                  ELSE "WRITE_DATA_BIT_SCL_LOW")
  /\ sda_oe' = IF Full /\ byte_ix = LastBit THEN 0 ELSE sda_oe
  /\ byte_ix' = IF Full /\ byte_ix # LastBit THEN byte_ix + 1 ELSE byte_ix
  /\ r_en' = 0
  /\ UNCHANGED <<sda_o, rw, byte, statusVars, outVars>>

WriteAckBitLow ==
  /\ Advance("WRITE_ACK_BIT_SCL_LOW", Full, "WRITE_ACK_BIT_SCL_HIGH")
  /\ r_en' = 0
  /\ UNCHANGED <<lineVars, statusVars, shiftVars, outVars>>

WriteAckBitHigh(sda_i) ==
  /\ Advance("WRITE_ACK_BIT_SCL_HIGH", Half, "COMMON_ACK_BIT_SCL_HIGH")
  /\ ack' = IF Half THEN 1 - sda_i ELSE ack
  /\ r_en' = 0
  /\ UNCHANGED <<en, busy, lineVars, shiftVars, outVars>>

ReadDataBitLow ==
  /\ Advance("READ_DATA_BIT_SCL_LOW", Full, "READ_DATA_BIT_SCL_HIGH")
  /\ r_en' = 0
  /\ UNCHANGED <<lineVars, statusVars, shiftVars, outVars>>

\* Sample at half: shift the bit in, or hand over the byte with its last bit.
ReadDataBitHigh(sda_i) ==
  /\ fsm = "READ_DATA_BIT_SCL_HIGH"
  /\ r_en' = 0
  /\ UNCHANGED <<rw, lineVars, statusVars>>
  /\ \/ /\ Half /\ byte_ix # LastBit
        /\ byte_ix' = byte_ix + 1 /\ byte' = WithBit(sda_i)
        /\ UNCHANGED <<fsm, outVars>>
     \/ /\ Half /\ byte_ix = LastBit
        /\ out_w_data' = WithBit(sda_i) /\ out_w_en' = 1
        /\ fsm' = "READ_DATA_BIT_LAST_SCL_HIGH"
        /\ UNCHANGED <<byte, byte_ix>>
     \/ /\ ~Half
        /\ fsm' = IF Full THEN "READ_DATA_BIT_SCL_LOW" ELSE fsm
        /\ UNCHANGED <<byte, byte_ix, outVars>>

ReadDataBitLastHigh ==
  /\ Advance("READ_DATA_BIT_LAST_SCL_HIGH", Full, "READ_ACK_BIT_SCL_LOW")
  /\ out_w_en' = 0
  /\ r_en' = 0
  /\ UNCHANGED <<out_w_data, lineVars, statusVars, shiftVars>>

\* At half, take SDA back: low (ACK) if the queue asks for more data.
ReadAckBitLow ==
  /\ Advance("READ_ACK_BIT_SCL_LOW", Full, "COMMON_ACK_BIT_SCL_HIGH")
  /\ sda_oe' = IF Half THEN 1 ELSE sda_oe
  /\ sda_o' = IF ~Half THEN sda_o
              ELSE IF Queued /\ FrontWord.kind = "DATA" THEN 0 ELSE 1
  /\ r_en' = 0
  /\ UNCHANGED <<statusVars, shiftVars, outVars>>

-------------------------------------------------------------------------------
(***************************************************************************)
(* The end of an ACK bit, of a byte written or read: the front of the      *)
(* queue decides what follows.                                             *)
(***************************************************************************)
AckWait ==
  /\ fsm = "COMMON_ACK_BIT_SCL_HIGH" /\ ~Full
  /\ r_en' = 0
  /\ UNCHANGED <<fsm, lineVars, statusVars, shiftVars, outVars>>

AckDone ==
  /\ fsm = "COMMON_ACK_BIT_SCL_HIGH" /\ Full
  /\ UNCHANGED <<statusVars, outVars>>

\* Variant: a NACK is not looked at.
ContinuesAnyway(kind) == Queued /\ FrontWord.kind = kind

Continues(kind) == Queued /\ ack = 1 /\ FrontWord.kind = kind

NextWrite ==
  /\ AckDone
  /\ Continues("DATA") /\ rw = W
  /\ Latch(FrontWord.data)
  /\ sda_oe' = 1 /\ sda_o' = 0
  /\ fsm' = "WRITE_DATA_BIT_SCL_LOW"
  /\ UNCHANGED rw

NextRead ==
  /\ AckDone
  /\ Continues("DATA") /\ rw = R
  /\ Latch(ZeroByte)
  /\ sda_oe' = 0
  /\ fsm' = "READ_DATA_BIT_SCL_LOW"
  /\ UNCHANGED <<rw, sda_o>>

RepeatStart ==
  /\ AckDone
  /\ Continues("START") /\ rw = W
  /\ rw' = RwOf(FrontWord) /\ Latch(FrontWord.data)
  /\ sda_oe' = 1 /\ sda_o' = 0
  /\ fsm' = "REP_START_SCL_LOW"

\* A NACK, an empty queue, or a START queued behind a read: one word, if there
\* is one, is discarded.
Finish ==
  /\ AckDone
  /\ ~Continues("DATA") /\ ~(Continues("START") /\ rw = W)
  /\ r_en' = IF Queued THEN 1 ELSE 0
  /\ sda_oe' = 1
  /\ fsm' = "FIN_SCL_LOW"
  /\ UNCHANGED <<sda_o, shiftVars>>

RepStartLow ==
  /\ Advance("REP_START_SCL_LOW", Full, "REP_START_SCL_HIGH")
  /\ sda_o' = IF Half THEN 1 ELSE sda_o
  /\ r_en' = 0
  /\ UNCHANGED <<sda_oe, statusVars, shiftVars, outVars>>

RepStartHigh ==
  /\ Advance("REP_START_SCL_HIGH", Full, "WRITE_DATA_BIT_SCL_LOW")
  /\ sda_o' = IF Half THEN 0 ELSE sda_o
  /\ r_en' = 0
  /\ UNCHANGED <<sda_oe, statusVars, shiftVars, outVars>>

FinLow ==
  /\ Advance("FIN_SCL_LOW", Full, "FIN_SCL_HIGH")
  /\ sda_o' = IF Half THEN 0 ELSE sda_o
  /\ r_en' = 0
  /\ UNCHANGED <<sda_oe, statusVars, shiftVars, outVars>>

\* Variant: busy is not taken back.
FinHighStaysBusy ==
  /\ Advance("FIN_SCL_HIGH", Full, "IDLE")
  /\ sda_o' = IF Half THEN 1 ELSE sda_o
  /\ en' = IF Full THEN 0 ELSE en
  /\ r_en' = 0
  /\ UNCHANGED <<sda_oe, busy, ack, shiftVars, outVars>>

FinHigh ==
  /\ Advance("FIN_SCL_HIGH", Full, "IDLE")
  /\ sda_o' = IF Half THEN 1 ELSE sda_o
  /\ en' = IF Full THEN 0 ELSE en
  /\ busy' = IF Full THEN 0 ELSE busy
  /\ r_en' = 0
  /\ UNCHANGED <<sda_oe, ack, shiftVars, outVars>>

-------------------------------------------------------------------------------
\* Variant: the end of a transfer toggles SCL once more.
SclNextToggles ==
  IF Full THEN 1 - scl_o ELSE scl_o

\* SCL toggles on the divider's full pulse; IDLE and the end of FIN hold it high.
SclNext ==
  IF fsm = "IDLE" \/ (fsm = "FIN_SCL_HIGH" /\ Full) THEN 1
  ELSE IF Full THEN 1 - scl_o ELSE scl_o

FsmStep(stb, sda_i) ==
  \/ ~(stb = 1 /\ Queued) /\ Idle
  \/ stb = 1 /\ IdleStart
  \/ StartWaitScl
  \/ WriteDataBitLow \/ WriteDataBitHigh
  \/ WriteAckBitLow \/ WriteAckBitHigh(sda_i)
  \/ ReadDataBitLow \/ ReadDataBitHigh(sda_i) \/ ReadDataBitLastHigh
  \/ ReadAckBitLow
  \/ AckWait \/ NextWrite \/ NextRead \/ RepeatStart \/ Finish
  \/ RepStartLow \/ RepStartHigh
  \/ FinLow \/ FinHigh

\* One clock cycle with the given inputs.
Tick(stb, w_en, w_data, out_r_en, sda_i) ==
  /\ cnt' = CounterNext(ClkMax, en, cnt)
  /\ scl_o' = SclNext
  /\ in_fifo' = FifoNext(in_fifo, w_en, w_data, r_en)
  /\ out_fifo' = FifoNext(out_fifo, out_w_en, out_w_data, out_r_en)
  /\ FsmStep(stb, sda_i)

(***************************************************************************)
(* The controller under any user and any target: every cycle may strobe,   *)
(* queue any word, read the result FIFO, and find SDA at either level.     *)
(***************************************************************************)
Next ==
  \E stb, w_en, out_r_en, sda_i \in Bit : \E w_data \in Words :
    Tick(stb, w_en, w_data, out_r_en, sda_i)

Spec == Init /\ [][Next]_i2cVars

\* The clock does not stop.  Only out of IDLE does that matter: no user is made
\* to strobe.
FairSpec == Spec /\ WF_i2cVars(fsm # "IDLE" /\ Next)

-------------------------------------------------------------------------------
(***************************************************************************)
(* Safety.                                                                 *)
(***************************************************************************)
LowStates ==
  {"WRITE_DATA_BIT_SCL_LOW", "WRITE_ACK_BIT_SCL_LOW",
   "READ_DATA_BIT_SCL_LOW", "READ_ACK_BIT_SCL_LOW",
   "REP_START_SCL_LOW", "FIN_SCL_LOW"}

\* The clock line, toggled by the divider alone, never drifts from the level
\* the FSM's state is named for: the code's own formal check asserts
\* scl_o == formal_scl (sh1107/formal/__init__.py:136).
SclMatchesFsm == scl_o = IF fsm \in LowStates THEN 0 ELSE 1

\* While SCL is high in a data bit the target sees the bit of the word being
\* sent that byte_ix says, driven by the controller.
BitOnWire ==
  fsm = "WRITE_DATA_BIT_SCL_HIGH" => sda_oe = 1 /\ sda_o = byte[byte_ix]

\* A pop strobe always meets a word, and, unless it discards the word on the
\* way to STOP, the word popped is the one whose byte goes on the wire: a user
\* who refills the queue at any moment neither loses a word nor has it sent
\* twice.
PopsTakenWord ==
  r_en = 1 =>
    /\ Queued
    /\ fsm \in {"START_WAIT_SCL", "WRITE_DATA_BIT_SCL_LOW",
                "REP_START_SCL_LOW"} => byte = FrontWord.data

\* After a NACK nothing but STOP follows, whatever the user queues.
NackEndsTransfer ==
  ack = 0 => fsm \in {"COMMON_ACK_BIT_SCL_HIGH", "FIN_SCL_LOW",
                      "FIN_SCL_HIGH", "IDLE"}

\* The formal check's assertion (sh1107/formal/__init__.py:118-119): in a write
\* SDA is only let go once the last bit of a byte is reached.
SdaReleasedAfterLastBit == rw = W => sda_oe = 1 \/ byte_ix = LastBit

\* SDA never moves while SCL is or goes high, except for the START, repeated
\* START and STOP conditions the FSM means to make: a target can never mistake
\* a data bit for one of them (sh1107/formal/__init__.py:137-165).
SdaMoves == sda_o' # sda_o \/ sda_oe' # sda_oe

Condition ==
  /\ scl_o = 1 /\ sda_oe = 1 /\ sda_oe' = 1
  /\ \/ fsm \in {"IDLE", "REP_START_SCL_HIGH"} /\ sda_o' = 0
     \/ fsm = "FIN_SCL_HIGH" /\ sda_o' = 1

SdaStable == [][scl_o' = 1 /\ SdaMoves => Condition]_i2cVars

\* What a comment says of a byte read (sh1107/rtl/i2c/__init__.py:327): to read
\* on, the controller brings SDA low.  It is false: the acknowledgement is chosen
\* at half of SCL's low period, the continuation only once SCL has been high for
\* a whole period, and data queued between the two is read after a NACK.
ReadOnAcks ==
  [][/\ fsm = "COMMON_ACK_BIT_SCL_HIGH" /\ sda_oe = 1
     /\ fsm' = "READ_DATA_BIT_SCL_LOW"
     => sda_o = 0]_i2cVars

(***************************************************************************)
(* Liveness.                                                               *)
(***************************************************************************)
\* A busy controller always goes on to take another word or to go idle, so a
\* user waiting for room in the queue or for busy to fall is never stuck,
\* whatever the target answers.
Progress == busy = 1 ~> (busy = 0 \/ r_en = 1)
===============================================================================
