------------------------------ MODULE I2CConnector ------------------------------
(***************************************************************************)
(* The simulated display's end of the wires, vsh/src/I2CConnector.zig: it  *)
(* samples the lines once a tick, before the clock edge, and makes bytes   *)
(* of the edges between two samples (Sample.zig).  The level it gives the  *)
(* data line is there for the clock edge that follows.                     *)
(*                                                                         *)
(* The gateware drives SCL all the time, so scl_oe is left out.            *)
(***************************************************************************)
EXTENDS OLEDConnector

VARIABLES
  seen,      \* the lines as sampled before
  target     \* ByteTransmitter with addressed and sda_i

targetVars == <<seen, target>>

Lines == [scl_o |-> scl_o, sda_o |-> sda_o, sda_oe |-> sda_oe]

Stable(x)  == seen[x] = Lines[x]
High(x)    == seen[x] = 1 /\ Lines[x] = 1
Low(x)     == seen[x] = 0 /\ Lines[x] = 0
Rising(x)  == seen[x] = 0 /\ Lines[x] = 1
Falling(x) == seen[x] = 1 /\ Lines[x] = 0
AllStable  == \A x \in DOMAIN Lines : Stable(x)

TargetInit ==
  /\ seen = [x \in DOMAIN Lines |-> 0]
  /\ target = [state |-> "IDLE", rw |-> W, next_rw |-> W, bits |-> 0, byte |-> 0,
               addressed |-> FALSE, sda_i |-> 1]

-------------------------------------------------------------------------------
At(state) == target.state = state
Becomes(t, result) ==
  target' = t /\ heard' = [kind |-> result, byte |-> target.byte]

Passes(t) == Becomes(t, "Pass")

\* tick's part in an error and at the end of a transfer: a Fish.
Ended(t, result) ==
  Becomes([t EXCEPT !.sda_i = 1, !.addressed = FALSE, !.rw = W], result)

Erred == Ended([target EXCEPT !.state = "IDLE"], "Error")

\* prepareSendBit: the bit of byte that bits names, the most significant first.
SendBit(t) == [t EXCEPT !.sda_i = (t.byte \div 2^(LastBit - t.bits)) % 2]

TgtIdle ==
  /\ At("IDLE")
  /\ Passes(IF High("scl_o") /\ High("sda_oe") /\ Falling("sda_o")
            THEN [target EXCEPT !.state = "START_SDA_LOW", !.bits = 0, !.byte = 0,
                                !.sda_i = 1]
            ELSE target)

TgtStart ==
  /\ At("START_SDA_LOW")
  /\ Passes(IF Falling("scl_o") /\ High("sda_oe") /\ Low("sda_o")
            THEN [target EXCEPT !.state = "WAIT_BIT_SCL_RISE"]
            ELSE IF ~AllStable THEN [target EXCEPT !.state = "IDLE"] ELSE target)

\* SCL rises: a bit is taken, or the target's own is there to be.
TgtBitRise ==
  /\ At("WAIT_BIT_SCL_RISE") /\ target.rw = W
  /\ \/ /\ Rising("scl_o") /\ High("sda_oe") /\ Stable("sda_o")
        /\ Passes([target EXCEPT !.byte = (2 * @ + sda_o) % 2^(LastBit + 1),
                                 !.state = "WAIT_BIT_SCL_FALL"])
     \/ ~High("sda_oe") /\ Erred
     \/ ~(Rising("scl_o") /\ Stable("sda_o")) /\ High("sda_oe") /\ Passes(target)

TgtSentBitRise ==
  /\ At("WAIT_BIT_SCL_RISE") /\ target.rw = R
  /\ IF ~Low("sda_oe") THEN Erred
     ELSE Passes(IF Rising("scl_o")
                 THEN [target EXCEPT !.state = "WAIT_BIT_SCL_FALL"] ELSE target)

-------------------------------------------------------------------------------
(***************************************************************************)
(* SCL falls after a bit: the next one, or the acknowledgement.  If SDA    *)
(* moves before, the transfer is over or starts again.                     *)
(***************************************************************************)
Acknowledged(t) == [t EXCEPT !.state = "WAIT_ACK_SCL_RISE", !.sda_i = 0]

\* WriteAck: the first byte is an address, and counts if it is the target's.
TgtByte ==
  LET rw_bit == target.byte % 2
      mine   == target.byte \div 2 = Addr
      t      == [target EXCEPT !.addressed = TRUE]
  IN  CASE target.addressed     ->
             Becomes(Acknowledged([target EXCEPT
                       !.addressed = ~Unrecoverable(target.byte)]), "Byte")
        [] ~target.addressed /\ mine /\ rw_bit = W ->
             Becomes(Acknowledged(t), "AddressedWrite")
        [] ~target.addressed /\ mine /\ rw_bit = R ->
             Becomes([Acknowledged(t) EXCEPT !.next_rw = R, !.byte = Answer(display)],
                     "AddressedRead")
        [] ~target.addressed /\ ~mine ->
             Passes([target EXCEPT !.state = "WAIT_ACK_SCL_RISE"])

\* A stop or a repeated start must come with the first bit of a byte.
TgtMoves ==
  \/ /\ Rising("sda_o")
     /\ IF target.bits = 0 /\ target.byte = 0
        THEN Ended([target EXCEPT !.state = "IDLE"], "Fish") ELSE Erred
  \/ /\ Falling("sda_o")
     /\ Ended([target EXCEPT !.state = "START_SDA_LOW", !.bits = 0, !.byte = 0],
              "Fish")

TgtBitFall ==
  LET lets_go == Falling("scl_o") /\ Falling("sda_oe") /\ Stable("sda_o")
      falls   == Falling("scl_o") /\ High("sda_oe") /\ Stable("sda_o")
      moves   == High("scl_o") /\ High("sda_oe") /\ ~Stable("sda_o")
  IN
  /\ At("WAIT_BIT_SCL_FALL") /\ target.rw = W
  /\ \/ lets_go /\ target.bits = LastBit /\ TgtByte
     \/ lets_go /\ target.bits # LastBit /\ Erred
     \/ falls /\ target.bits = LastBit /\ Erred
     \/ /\ falls /\ target.bits # LastBit
        /\ Passes([target EXCEPT !.bits = @ + 1, !.state = "WAIT_BIT_SCL_RISE"])
     \/ moves /\ TgtMoves
     \/ ~lets_go /\ ~falls /\ ~moves /\ ~AllStable /\ Erred
     \/ AllStable /\ Passes(target)

\* Variant: the bit is chosen before the count has moved on.
TgtSentBitFallLate ==
  /\ At("WAIT_BIT_SCL_FALL") /\ target.rw = R
  /\ \/ /\ Falling("scl_o") /\ Low("sda_oe") /\ target.bits = LastBit
        /\ Passes([target EXCEPT !.state = "WAIT_ACK_SCL_RISE"])
     \/ /\ Falling("scl_o") /\ Low("sda_oe") /\ target.bits # LastBit
        /\ Passes([SendBit(target) EXCEPT !.bits = @ + 1, !.state = "WAIT_BIT_SCL_RISE"])
     \/ ~(Falling("scl_o") /\ Low("sda_oe")) /\ ~AllStable /\ Erred
     \/ AllStable /\ Passes(target)

TgtSentBitFall ==
  /\ At("WAIT_BIT_SCL_FALL") /\ target.rw = R
  /\ \/ /\ Falling("scl_o") /\ Low("sda_oe") /\ target.bits = LastBit
        /\ Passes([target EXCEPT !.state = "WAIT_ACK_SCL_RISE"])
     \/ /\ Falling("scl_o") /\ Low("sda_oe") /\ target.bits # LastBit
        /\ Passes(SendBit([target EXCEPT !.bits = @ + 1, !.state = "WAIT_BIT_SCL_RISE"]))
     \/ ~(Falling("scl_o") /\ Low("sda_oe")) /\ ~AllStable /\ Erred
     \/ AllStable /\ Passes(target)

-------------------------------------------------------------------------------
(***************************************************************************)
(* The acknowledgement: the target's of a byte written, the controller's   *)
(* of a byte read, which says whether there is another.                    *)
(***************************************************************************)
TgtAckRise ==
  /\ At("WAIT_ACK_SCL_RISE") /\ target.rw = W
  /\ \/ Falling("sda_oe") /\ Passes(target)
     \/ /\ Rising("scl_o") /\ Low("sda_oe")
        /\ Passes([target EXCEPT !.state = "WAIT_ACK_SCL_FALL"])
     \/ ~Falling("sda_oe") /\ ~(Rising("scl_o") /\ Low("sda_oe")) /\ ~AllStable
          /\ Erred
     \/ AllStable /\ Passes(target)

TgtReadAckRise ==
  LET acked == [target EXCEPT !.state = "WAIT_ACK_SCL_FALL"] IN
  /\ At("WAIT_ACK_SCL_RISE") /\ target.rw = R
  /\ \/ Rising("sda_oe") /\ Passes(target)
     \/ /\ Rising("scl_o") /\ High("sda_oe")
        /\ IF sda_o = 0
           THEN Becomes([acked EXCEPT !.byte = Answer(display)], "AddressedRead")
           ELSE Passes([acked EXCEPT !.next_rw = W])
     \/ ~Rising("sda_oe") /\ ~(Rising("scl_o") /\ High("sda_oe")) /\ ~AllStable
          /\ Erred
     \/ AllStable /\ Passes(target)

TgtAckFall ==
  LET t == [target EXCEPT !.state = "WAIT_BIT_SCL_RISE", !.bits = 0,
                          !.rw = target.next_rw] IN
  /\ At("WAIT_ACK_SCL_FALL")
  /\ IF Falling("scl_o")
     THEN Passes(IF t.rw = W THEN [t EXCEPT !.byte = 0, !.sda_i = 1] ELSE SendBit(t))
     ELSE IF ~Stable("scl_o") THEN Erred ELSE Passes(target)

\* One tick.
TargetStep ==
  /\ seen' = Lines
  /\ \/ TgtIdle \/ TgtStart \/ TgtBitRise \/ TgtSentBitRise
     \/ TgtBitFall \/ TgtSentBitFall
     \/ TgtAckRise \/ TgtReadAckRise \/ TgtAckFall
===============================================================================
