---------------------------- MODULE I2CBBConnector -----------------------------
(***************************************************************************)
(* The simulation without wires: the black box that stands for the I2C     *)
(* controller, vsh/i2c_blackbox.cc, and the connector that listens to what *)
(* is queued for it, vsh/src/I2CBBConnector.zig.                           *)
(*                                                                         *)
(* The black box shows the controller's in_fifo, out_fifo, busy and ack,   *)
(* and nothing else of it moves.  bus is what the user of the controller   *)
(* puts on its end, with a record's stb, w_en and w.                       *)
(***************************************************************************)
EXTENDS OLEDConnector

VARIABLES
  ticks,    \* ticks_until_done
  bb        \* the connector: stb and busy as sampled before, addressed (the
            \*   RW, or Nobody), latched, next_read, and its outputs

bbVars == <<ticks, bb>>

Nobody == 2

BBInit ==
  /\ ticks = 0
  /\ bb = [stb |-> 0, busy |-> 0, addressed |-> Nobody, latched |-> DataWord(0),
           next_read |-> 0, ack |-> 1, out_stb |-> 0, out |-> 0]

-------------------------------------------------------------------------------
(***************************************************************************)
(* The connector's tick, before the clock edge.                            *)
(***************************************************************************)
Sampled(bus) == [bb EXCEPT !.stb = bus.stb, !.busy = busy, !.out_stb = 0,
                           !.latched = IF bus.w_en = 1 THEN bus.w ELSE @]

Hears(b, result, n) == bb' = b /\ heard' = [kind |-> result, byte |-> n]

ValueOf(data) ==
  LET upto[i \in 0 .. LastBit] ==
        (IF i = 0 THEN 0 ELSE 2 * upto[i - 1]) + data[i]
  IN  upto[LastBit]

\* handleAddress: another's address is not acknowledged, and result is what
\* tick makes of it.
HandleAddress(b, result) ==
  IF ValueOf(b.latched.data) \div 2 # Addr
  THEN Hears([b EXCEPT !.ack = 0], result, 0)
  ELSE IF RwOf(b.latched) = W
  THEN Hears([b EXCEPT !.ack = 1, !.addressed = W], "AddressedWrite", 0)
  ELSE Hears([b EXCEPT !.ack = 1, !.addressed = R, !.next_read = Answer(display)],
             "AddressedRead", 0)

\* A word queued in a transfer.
BBWord(bus) ==
  LET b == Sampled(bus) IN
  /\ bus.w_en = 1 /\ bb.addressed # Nobody
  /\ \/ bus.w.kind = "START" /\ HandleAddress(b, "Fish")
     \/ bus.w.kind = "DATA" /\ bb.addressed = R
          /\ Hears([b EXCEPT !.out = bb.next_read, !.out_stb = 1], "Pass", 0)
     \/ bus.w.kind = "DATA" /\ bb.addressed = W
          /\ Hears([b EXCEPT !.addressed =
                      IF Unrecoverable(ValueOf(bus.w.data)) THEN Nobody ELSE @],
                   "Byte", ValueOf(bus.w.data))

\* The first transfer begins with the strobe; addressed stays from then on.
BBStrobe(bus) ==
  LET b == Sampled(bus) IN
  /\ bb.addressed = Nobody
  /\ IF bb.stb = 0 /\ bus.stb = 1 /\ b.latched.kind = "START"
     THEN HandleAddress(b, "Pass") ELSE Hears(b, "Pass", 0)

BBBusy(bus) ==
  /\ bb.addressed # Nobody /\ bus.w_en = 0
  /\ Hears(Sampled(bus), IF bb.busy = 1 /\ busy = 0 THEN "Fish" ELSE "Pass", 0)

BBTick(bus) == BBWord(bus) \/ BBStrobe(bus) \/ BBBusy(bus)

-------------------------------------------------------------------------------
(***************************************************************************)
(* The black box's clock edge: a transfer is over when nothing has been    *)
(* queued for TICKS_TO_WAIT cycles.                                        *)
(***************************************************************************)
\* Variant: five cycles, enough for the units' tight loops.
TICKS_TO_WAIT_TightLoop == 5

TICKS_TO_WAIT == 7

Kept == IF busy = 1 THEN <<>> ELSE in_fifo

\* A word that finds another in an idle controller is dropped.
Drops(bus) == bus.w_en = 1 /\ Kept # <<>>

BlackBox(bus, out_r_en) ==
  /\ ack' = bb'.ack
  /\ out_fifo' = IF bb'.out_stb = 1 THEN <<ByteOf(bb'.out)>>
                 ELSE IF out_r_en = 1 THEN <<>> ELSE out_fifo
  /\ LET left == (IF Queued THEN TICKS_TO_WAIT ELSE ticks) - 1 IN
     IF busy = 0
     THEN busy' = bus.stb /\ ticks' = IF bus.stb = 1 THEN TICKS_TO_WAIT ELSE 0
     ELSE busy' = (IF left = 0 THEN 0 ELSE 1) /\ ticks' = left
  /\ in_fifo' = IF bus.w_en = 1 /\ Kept = <<>> THEN <<bus.w>> ELSE Kept
  /\ UNCHANGED <<fsm, cnt, scl_o, lineVars, en, shiftVars, r_en, outVars>>
===============================================================================
