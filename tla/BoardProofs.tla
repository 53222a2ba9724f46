------------------------------ MODULE BoardProofs ------------------------------
(***************************************************************************)
(* Proofs about the whole gateware: whatever the buttons' sequences, the   *)
(* display and the ROM are, the OLED module takes the bytes of a sequence  *)
(* in order, none left out or taken twice.                                 *)
(*                                                                         *)
(* The sequencer looks at the queue and writes to it two cycles later,     *)
(* with the byte the ROM's port shows from the cycle before; the OLED      *)
(* module pops a byte in the cycle after it has taken it.  QueueInv says   *)
(* when a byte is popped, PlayInv where in the sequence both of them are.  *)
(***************************************************************************)
EXTENDS Board, Recursion

(***************************************************************************)
(* Where the sequences are in the ROM.                                     *)
(***************************************************************************)
LEMMA JoinedIs ==
  /\ TopROM = Flattened(ButtonSequences)
  /\ \A i : First(i) = Len(Flattened(SubSeq(ButtonSequences, 1, i - 1)))
  BY FlattenIs DEF TopROM, First

LEMMA SequencesLaid ==
  /\ \A i \in DOMAIN ButtonSequences :
       /\ ButtonSequences[i] \in Seq(0 .. 255) /\ Len(ButtonSequences[i]) \in Nat \ {0}
       /\ First(i) \in Nat
       /\ \A j \in 1 .. Len(ButtonSequences[i]) :
            TopROM[First(i) + j] = ButtonSequences[i][j]
  /\ \A i, k \in DOMAIN ButtonSequences : First(i) = First(k) => i = k
<1>1. PICK n, seqs, flat : /\ n = Len(ButtonSequences) /\ seqs = ButtonSequences
                           /\ flat = Flattened(ButtonSequences)
  OBVIOUS
<1>2. seqs \in Seq(Seq(0 .. 255)) /\ n \in Nat /\ DOMAIN seqs = 1 .. n
  BY <1>1, SequencesAssumption
<1>3. ASSUME NEW i \in 1 .. n
      PROVE  seqs[i] \in Seq(0 .. 255) /\ Len(seqs[i]) \in Nat \ {0}
  <2>1. seqs[i] \in Seq(0 .. 255) /\ seqs[i] # <<>>
    <3>1. i \in DOMAIN seqs /\ i \in 1 .. Len(seqs)
      BY <1>1, <1>2
    <3>2. seqs[i] \in Seq(0 .. 255)
      BY <1>2, <3>1, ElementOfSeq
    <3> QED BY <1>1, <3>1, <3>2, SequencesAssumption, Zenon
  <2>2. Len(seqs[i]) \in Nat /\ Len(seqs[i]) # 0
    BY <2>1, EmptySeq
  <2> QED BY <2>1, <2>2
<1>4. PICK st \in [0 .. n -> Nat] :
        /\ Placed(seqs, flat, st)
        /\ \A i \in 0 .. n : st[i] = Len(Flattened(SubSeq(seqs, 1, i)))
  BY <1>1, <1>2, Places
<1>5. TopROM = flat /\ \A i \in 1 .. n : First(i) = st[i - 1] /\ st[i - 1] \in Nat
  <2>1. TopROM = flat
    BY <1>1, JoinedIs
  <2>2. ASSUME NEW i \in 1 .. n PROVE First(i) = st[i - 1] /\ st[i - 1] \in Nat
    <3>1. i - 1 \in 0 .. n
      BY <1>2
    <3>2. First(i) = Len(Flattened(SubSeq(seqs, 1, i - 1)))
      BY <1>1, JoinedIs
    <3> QED BY <1>4, <3>1, <3>2
  <2> QED BY <2>1, <2>2
<1>6. ASSUME NEW i \in 1 .. n, NEW j \in 1 .. Len(seqs[i])
      PROVE  TopROM[First(i) + j] = seqs[i][j]
  <2>1. flat[st[i - 1] + j] = seqs[i][j]
    BY <1>1, <1>4 DEF Placed
  <2> QED BY <1>5, <2>1
<1>7. ASSUME NEW i \in 1 .. n, NEW k \in 1 .. n, i < k PROVE First(i) < First(k)
  <2>1. st[i] = st[i - 1] + Len(seqs[i])
    BY <1>1, <1>4 DEF Placed
  <2>2. i \in 0 .. n /\ k - 1 \in 0 .. n /\ i <= k - 1
    BY <1>2, <1>7
  <2>3. st[i] <= st[k - 1]
    BY <1>1, <1>4, <2>2 DEF Placed
  <2>4. PICK a, b, c, d : a = st[i - 1] /\ b = st[i] /\ c = st[k - 1] /\ d = Len(seqs[i])
    OBVIOUS
  <2>5. a \in Nat /\ b \in Nat /\ c \in Nat /\ d \in Nat \ {0} /\ b = a + d /\ b <= c
    BY <1>3, <1>4, <2>1, <2>2, <2>3, <2>4, <1>5
  <2>6. a < c
    BY <2>5
  <2> QED BY <1>5, <2>4, <2>6
<1>8. ASSUME NEW i \in 1 .. n, NEW k \in 1 .. n, First(i) = First(k) PROVE i = k
  <2>1. First(i) \in Nat /\ First(k) \in Nat
    BY <1>5
  <2>2. ~(First(i) < First(k)) /\ ~(First(k) < First(i))
    BY <1>8, <2>1
  <2>3. ~(i < k) /\ ~(k < i)
    BY <1>7, <2>2
  <2> QED BY <1>2, <2>3
<1> QED BY <1>1, <1>2, <1>3, <1>5, <1>6, <1>8

-------------------------------------------------------------------------------
(***************************************************************************)
(* The invariant.                                                          *)
(***************************************************************************)
\* The states in which the queue's word may be on its way out.
Popped ==
  {"START_STROBED_FIFO_IN_R_EN", "LOCATE_ROW_STROBED_R_EN",
   "LOCATE_COL_STROBED_R_EN", "PRINT_COUNT_STROBED_R_EN",
   "PRINT_DATA_CHPR_RUNNING", "PRINT_BYTE_STROBED_R_EN_CHPR_RUNNING"}

QueueInv == fifo_r_en = 0 \/ (fifo_r_en = 1 /\ Given /\ main \in Popped)

Playing == ButtonSequences[playing]

\* How many bytes of the sequence have been written, to the queue or beyond.
Written == IF Given THEN played + 1 ELSE played

TopStates == {"IDLE", "LOOP_ADDRESSED", "LOOP_AVAILABLE", "LOOP_STROBED_W_EN"}

TopRecord ==
  top = [fsm |-> top.fsm, offset |-> top.offset, remain |-> top.remain,
         w_en |-> top.w_en, w |-> top.w]

PlayInv ==
  /\ TopRecord /\ top.fsm \in TopStates
  /\ playing \in DOMAIN ButtonSequences /\ played \in Nat
  /\ Written <= Len(Playing)
  /\ Given => fifo_in = <<Playing[Written]>>
  /\ top.w_en = IF top.fsm = "LOOP_STROBED_W_EN" THEN 1 ELSE 0
  /\ top.fsm = "IDLE" => Written = Len(Playing)
  /\ top.fsm # "IDLE" =>
       /\ top.offset = First(playing) + Written
       /\ Written + top.remain = Len(Playing) /\ top.remain \in Nat \ {0}
  /\ top.fsm = "LOOP_AVAILABLE" => top_data = Playing[Written + 1]
  /\ top.fsm = "LOOP_STROBED_W_EN" => ~Given /\ top.w = Playing[Written + 1]

PlayedInv == QueueInv /\ PlayInv

-------------------------------------------------------------------------------
(***************************************************************************)
(* The steps.                                                              *)
(***************************************************************************)
\* The command FSM pops only what it has been given, and never in two cycles
\* running.
LEMMA Pops ==
  ASSUME NEW busy_, NEW bus_, NEW full, NEW w_en, NEW w_data,
         OLEDStep(busy_, bus_, full, w_en, w_data)
  PROVE  fifo_r_en' = 0 \/ (fifo_r_en' = 1 /\ Given /\ main \notin Popped /\ main' \in Popped)
<1> DEFINE Good == fifo_r_en' = 0
                   \/ (fifo_r_en' = 1 /\ Given /\ main \notin Popped /\ main' \in Popped)
<1> SUFFICES Good
  OBVIOUS
<1>1. CASE AtIdle(full, bus_.w_rdy)
  BY <1>1 DEF AtIdle, IdleBlinks, IdleTakes, IdleElse, Pass, Quiet, Pop, From, Popped
<1>2. CASE Start
  BY <1>2 DEF Start, BeginNop, BeginInit, BeginDisplay, BeginCls, BeginCursor, BeginOther,
              Unknown, Pass, Quiet, Ask
<1>3. CASE Cls(busy_) \/ WriteSingle(busy_)
  BY <1>3 DEF Cls, WriteSingle, AwaitUnit, Pass, Quiet, Ask
<1>4. CASE LocateStep(busy_)
  BY <1>4 DEF LocateStep, LocateRow, LocateCol, Starved, AwaitUnit, Pass, Quiet, Pop, From,
              Popped
<1>5. CASE PrintStep
  BY <1>5 DEF PrintStep, PrintCount, PrintCounted, PrintData, PrintedData, PrintByteFirst,
              SecondDigit, Starved, AwaitUnit, Pass, Quiet, Pop, From, Popped
<1>6. CASE IdStep(bus_)
  BY <1>6 DEF IdStep, Drive, IdQueue, IdReceive, IdReceived, IdFails, SecondDigit, AwaitUnit,
              Quiet
<1>7. CASE CursorStep
  BY <1>7 DEF CursorStep, CursorOnReset, CursorOffReset, Pass, Quiet
<1>8. CASE Chpr(busy_)
  BY <1>8 DEF Chpr, ChprReturn, ChprLine, ChprLineScrolls, ChprWrite, ChprStay, ChprAdvance,
              ChprAdvanceScrolls, ChprChain, ChprPass, ChprDone, Quiet, Ask
<1> HIDE DEF Good
<1> QED BY <1>1, <1>2, <1>3, <1>4, <1>5, <1>6, <1>7, <1>8 DEF OLEDStep

\* While no byte is being written and no sequence begins, a byte popped is the
\* one that counts as played.
LEMMA Rests ==
  ASSUME PlayedInv, top.fsm # "LOOP_STROBED_W_EN",
         fifo_in' = FifoNext(fifo_in, top.w_en, top.w, fifo_r_en),
         playing' = playing, played' = IF fifo_r_en = 1 THEN played + 1 ELSE played
  PROVE  /\ Playing' = Playing /\ played' \in Nat /\ Written' = Written
         /\ Given' => Given /\ fifo_in' = fifo_in
<1>1. top.w_en = 0 /\ played \in Nat
  BY DEF PlayedInv, PlayInv
<1>2. Playing' = Playing
  BY DEF Playing
<1>3. CASE fifo_r_en = 1
  <2>1. Given /\ fifo_in' = <<>> /\ played' = played + 1
    BY <1>1, <1>3 DEF PlayedInv, QueueInv, FifoNext, Given, Readable, Writable
  <2> QED BY <1>1, <1>2, <2>1 DEF Written, Given, Readable
<1>4. CASE fifo_r_en # 1
  <2>1. fifo_in' = fifo_in /\ played' = played
    BY <1>1, <1>4 DEF FifoNext, Writable
  <2> QED BY <1>1, <1>2, <2>1 DEF Written, Given, Readable
<1> QED BY <1>3, <1>4

LEMMA PlayedNext == PlayedInv /\ [BoardNext]_boardVars => PlayedInv'
<1> SUFFICES ASSUME PlayedInv, [BoardNext]_boardVars PROVE PlayedInv'
  OBVIOUS
<1>1. CASE UNCHANGED boardVars
  <2>1. UNCHANGED <<fifo_in, fifo_r_en, main, playing, played, top, top_data>>
    BY <1>1 DEF boardVars, oledVars, topVars
  <2> QED BY <2>1 DEF PlayedInv, QueueInv, PlayInv, TopRecord, Playing, Written, Given,
                      Readable
<1>2. CASE BoardNext
  <2>1. PICK sda_i \in Levels, released \in Releases, full \in Pulses :
          CommandCycle(full, released)
    BY <1>2 DEF BoardNext, Cycle
  <2>2. released \in SUBSET (DOMAIN ButtonSequences)
    <3>1. Releases \subseteq SUBSET (DOMAIN ButtonSequences)
      BY DEF Releases
    <3> QED BY <3>1
  <2>3. OLEDStep(UnitsBusy, OwnBus, full, top.w_en, top.w)
    BY <2>1 DEF CommandCycle
  <2>4. fifo_in' = FifoNext(fifo_in, top.w_en, top.w, fifo_r_en)
    BY <2>3 DEF OLEDStep
  <2>5. /\ top_data' = TopROM[top.offset + 1]
        /\ \/ TopIdle(released, Writable(fifo_in)) \/ TopAddressed
           \/ TopAvailable(Writable(fifo_in)) \/ TopStrobed
    BY <2>1 DEF CommandCycle, TopStep
  <2>6. IF top.fsm = "IDLE" /\ top'.fsm # "IDLE"
        THEN playing' \in released /\ First(playing') = top'.offset /\ played' = 0
        ELSE playing' = playing /\ played' = IF fifo_r_en = 1 THEN played + 1 ELSE played
    BY <2>1 DEF CommandCycle
  <2>7. /\ TopRecord /\ top.fsm \in TopStates
        /\ playing \in DOMAIN ButtonSequences /\ played \in Nat /\ Written \in Nat
        /\ Written <= Len(Playing) /\ Len(Playing) \in Nat
        /\ Given => fifo_in = <<Playing[Written]>>
        /\ top.w_en = IF top.fsm = "LOOP_STROBED_W_EN" THEN 1 ELSE 0
    BY SequencesLaid DEF PlayedInv, PlayInv, Playing, Written
  <2>8. QueueInv'
    <3>1. fifo_r_en' = 0 \/ (fifo_r_en' = 1 /\ Given /\ main \notin Popped /\ main' \in Popped)
      BY <2>3, Pops
    <3>2. CASE fifo_r_en' = 1 /\ Given /\ main \notin Popped /\ main' \in Popped
      <4>1. fifo_r_en = 0
        BY <3>2 DEF PlayedInv, QueueInv
      <4>2. fifo_in' = fifo_in
        BY <2>4, <3>2, <4>1 DEF FifoNext, Given, Readable, Writable
      <4> QED BY <3>2, <4>2 DEF QueueInv, Given
    <3> QED BY <3>1, <3>2 DEF QueueInv
  <2>9. CASE TopIdle(released, Writable(fifo_in)) /\ Writable(fifo_in) /\ released # {}
    <3>1. PICK i : i = CHOOSE k \in released : \A j \in released : j <= k
      OBVIOUS
    <3>2. i \in released /\ i \in DOMAIN ButtonSequences
      <4>1. DOMAIN ButtonSequences = 1 .. Len(ButtonSequences) /\ Len(ButtonSequences) \in Nat
        BY SequencesAssumption
      <4>2. \E k \in released : \A j \in released : j <= k
        BY <2>2, <2>9, <4>1, Largest
      <4> QED BY <2>2, <3>1, <4>2
    <3>3. /\ top.fsm = "IDLE"
          /\ top' = [top EXCEPT !.fsm = "LOOP_ADDRESSED", !.offset = First(i),
                                !.remain = Len(ButtonSequences[i])]
      BY <2>9, <3>1 DEF TopIdle
    <3>4. /\ TopRecord' /\ top'.fsm = "LOOP_ADDRESSED" /\ top'.offset = First(i)
          /\ top'.remain = Len(ButtonSequences[i]) /\ top'.w_en = 0 /\ top.w_en = 0
      BY <2>7, <3>3 DEF TopRecord
    <3>5. playing' = i /\ played' = 0
      <4>1. playing' \in released /\ First(playing') = First(i) /\ played' = 0
        BY <2>6, <3>3, <3>4
      <4> QED BY <2>2, <3>2, <4>1, SequencesLaid
    <3>6. fifo_in' = <<>> /\ ~Given'
      BY <2>4, <2>9, <3>4 DEF FifoNext, Writable, Given, Readable
    <3>7. Written' = 0 /\ Playing' = ButtonSequences[i]
      BY <3>5, <3>6 DEF Written, Playing
    <3>8. Len(ButtonSequences[i]) \in Nat \ {0} /\ First(i) \in Nat
      BY <3>2, SequencesLaid
    <3>9. PlayInv'
      BY <3>2, <3>4, <3>5, <3>6, <3>7, <3>8 DEF PlayInv, TopStates
    <3> QED BY <2>8, <3>9 DEF PlayedInv
  <2>10. CASE TopIdle(released, Writable(fifo_in)) /\ ~(Writable(fifo_in) /\ released # {})
    <3>1. top' = top /\ top.fsm = "IDLE"
      BY <2>10 DEF TopIdle
    <3>2. playing' = playing /\ played' = IF fifo_r_en = 1 THEN played + 1 ELSE played
      BY <2>6, <3>1
    <3>3. /\ Playing' = Playing /\ played' \in Nat /\ Written' = Written
          /\ Given' => Given /\ fifo_in' = fifo_in
      BY <2>4, <3>1, <3>2, Rests
    <3>4. Written = Len(Playing)
      BY <3>1 DEF PlayedInv, PlayInv
    <3>5. PlayInv'
      BY <2>7, <3>1, <3>2, <3>3, <3>4 DEF PlayInv, TopRecord
    <3> QED BY <2>8, <3>5 DEF PlayedInv
  <2>11. CASE TopAddressed
    <3>1. /\ top.fsm = "LOOP_ADDRESSED" /\ TopRecord' /\ top'.fsm = "LOOP_AVAILABLE"
          /\ top'.offset = top.offset /\ top'.remain = top.remain /\ top'.w_en = top.w_en
      BY <2>7, <2>11 DEF TopAddressed, TopRecord
    <3>2. playing' = playing /\ played' = IF fifo_r_en = 1 THEN played + 1 ELSE played
      BY <2>6, <3>1
    <3>3. /\ Playing' = Playing /\ played' \in Nat /\ Written' = Written
          /\ Given' => Given /\ fifo_in' = fifo_in
      BY <2>4, <3>1, <3>2, Rests
    <3>4. /\ top.offset = First(playing) + Written
          /\ Written + top.remain = Len(Playing) /\ top.remain \in Nat \ {0}
      BY <3>1 DEF PlayedInv, PlayInv
    <3>5. top_data' = Playing[Written + 1]
      <4>1. Written + 1 \in 1 .. Len(Playing) /\ First(playing) \in Nat
        BY <2>7, <3>4, SequencesLaid
      <4>2. (First(playing) + Written) + 1 = First(playing) + (Written + 1)
        BY <2>7, <4>1
      <4>3. TopROM[First(playing) + (Written + 1)] = Playing[Written + 1]
        BY <2>7, <4>1, SequencesLaid DEF Playing
      <4> QED BY <2>5, <3>4, <4>2, <4>3
    <3>6. PlayInv'
      BY <2>7, <3>1, <3>2, <3>3, <3>4, <3>5 DEF PlayInv, TopStates
    <3> QED BY <2>8, <3>6 DEF PlayedInv
  <2>12. CASE TopAvailable(Writable(fifo_in))
    <3>1. /\ top.fsm = "LOOP_AVAILABLE" /\ TopRecord'
          /\ top'.offset = top.offset /\ top'.remain = top.remain
          /\ IF Writable(fifo_in)
             THEN top'.fsm = "LOOP_STROBED_W_EN" /\ top'.w_en = 1 /\ top'.w = top_data
             ELSE top'.fsm = "LOOP_AVAILABLE" /\ top'.w_en = top.w_en
      BY <2>7, <2>12 DEF TopAvailable, TopRecord
    <3>2. playing' = playing /\ played' = IF fifo_r_en = 1 THEN played + 1 ELSE played
      BY <2>6, <3>1
    <3>3. /\ Playing' = Playing /\ played' \in Nat /\ Written' = Written
          /\ Given' => Given /\ fifo_in' = fifo_in
      BY <2>4, <3>1, <3>2, Rests
    <3>4. /\ top.offset = First(playing) + Written
          /\ Written + top.remain = Len(Playing) /\ top.remain \in Nat \ {0}
          /\ top_data = Playing[Written + 1]
      BY <3>1 DEF PlayedInv, PlayInv
    <3>5. top_data' = Playing[Written + 1]
      <4>1. Written + 1 \in 1 .. Len(Playing) /\ First(playing) \in Nat
        BY <2>7, <3>4, SequencesLaid
      <4>2. (First(playing) + Written) + 1 = First(playing) + (Written + 1)
        BY <2>7, <4>1
      <4>3. TopROM[First(playing) + (Written + 1)] = Playing[Written + 1]
        BY <2>7, <4>1, SequencesLaid DEF Playing
      <4> QED BY <2>5, <3>4, <4>2, <4>3
    <3>6. Writable(fifo_in) => ~Given'
      BY <3>3 DEF Writable, Given, Readable
    <3>7. PlayInv'
      <4>1. CASE Writable(fifo_in)
        BY <2>7, <3>1, <3>2, <3>3, <3>4, <3>5, <3>6, <4>1 DEF PlayInv, TopStates
      <4>2. CASE ~Writable(fifo_in)
        BY <2>7, <3>1, <3>2, <3>3, <3>4, <3>5, <4>2 DEF PlayInv, TopStates
      <4> QED BY <4>1, <4>2
    <3> QED BY <2>8, <3>7 DEF PlayedInv
  <2>13. CASE TopStrobed
    <3>1. /\ top.fsm = "LOOP_STROBED_W_EN" /\ TopRecord' /\ top'.w_en = 0
          /\ IF top.remain = 1
             THEN top'.fsm = "IDLE"
             ELSE /\ top'.fsm = "LOOP_ADDRESSED" /\ top'.offset = top.offset + 1
                  /\ top'.remain = top.remain - 1
      BY <2>7, <2>13 DEF TopStrobed, TopRecord
    <3>2. /\ top.offset = First(playing) + Written
          /\ Written + top.remain = Len(Playing) /\ top.remain \in Nat \ {0}
          /\ ~Given /\ top.w = Playing[Written + 1]
      BY <3>1 DEF PlayedInv, PlayInv
    <3>3. fifo_r_en # 1 /\ fifo_in = <<>>
      BY <3>2 DEF PlayedInv, QueueInv, Given, Readable
    <3>4. playing' = playing /\ played' = played /\ Playing' = Playing
      BY <2>6, <3>1, <3>3 DEF Playing
    <3>5. fifo_in' = <<top.w>> /\ Given'
      BY <2>4, <2>7, <3>1, <3>3 DEF FifoNext, Writable, Given, Readable
    <3>6. Written = played /\ Written' = Written + 1
      BY <3>2, <3>4, <3>5 DEF Written
    <3>7. First(playing) \in Nat
      BY <2>7, SequencesLaid
    <3>8. /\ Written' \in Nat /\ Written' <= Len(Playing)
          /\ top.remain = 1 => Written' = Len(Playing)
          /\ top.remain # 1 => /\ top.offset + 1 = First(playing) + Written'
                               /\ Written' + (top.remain - 1) = Len(Playing)
                               /\ top.remain - 1 \in Nat \ {0}
      <4>1. PICK w, v, l, f, o, r :
              /\ w = Written /\ v = Written' /\ l = Len(Playing) /\ f = First(playing)
              /\ o = top.offset /\ r = top.remain
        OBVIOUS
      <4>2. w \in Nat /\ v = w + 1 /\ f \in Nat /\ r \in Nat \ {0} /\ o = f + w /\ w + r = l
        BY <2>7, <3>2, <3>6, <3>7, <4>1
      <4>3. /\ v \in Nat /\ v <= l /\ (r = 1 => v = l)
            /\ r # 1 => o + 1 = f + v /\ v + (r - 1) = l /\ r - 1 \in Nat \ {0}
        BY <4>2
      <4> QED BY <4>1, <4>3
    <3>9. fifo_in' = <<Playing[Written']>>
      BY <3>2, <3>5, <3>6
    <3>10. PlayInv'
      <4>1. CASE top.remain = 1
        BY <2>7, <3>1, <3>4, <3>8, <3>9, <4>1 DEF PlayInv, TopStates
      <4>2. CASE top.remain # 1
        BY <2>7, <3>1, <3>4, <3>8, <3>9, <4>2 DEF PlayInv, TopStates
      <4> QED BY <4>1, <4>2
    <3> QED BY <2>8, <3>10 DEF PlayedInv
  <2> QED BY <2>5, <2>9, <2>10, <2>11, <2>12, <2>13
<1> QED BY <1>1, <1>2

LEMMA PlayedInit == BoardInit => PlayedInv
<1> SUFFICES ASSUME BoardInit PROVE PlayedInv
  OBVIOUS
<1>1. /\ fifo_in = <<>> /\ fifo_r_en = 0
      /\ top = [fsm |-> "IDLE", offset |-> 0, remain |-> 0, w_en |-> 0, w |-> 0]
      /\ playing = 1 /\ played = Len(ButtonSequences[1])
  BY DEF BoardInit, OLEDInit, TopInit
<1>2. 1 \in DOMAIN ButtonSequences
  BY SequencesAssumption
<1>3. Len(ButtonSequences[1]) \in Nat
  BY <1>2, SequencesLaid
<1>4. ~Given /\ Written = Len(Playing) /\ Len(Playing) \in Nat
  BY <1>1, <1>3 DEF Given, Readable, Written, Playing
<1> QED BY <1>1, <1>2, <1>3, <1>4 DEF PlayedInv, QueueInv, PlayInv, TopRecord, TopStates

-------------------------------------------------------------------------------
(***************************************************************************)
(* Theorems.                                                               *)
(***************************************************************************)
LEMMA OneOf ==
  ASSUME NEW S, NEW s \in Seq(S), NEW k \in 1 .. Len(s)
  PROVE  SubSeq(s, k, k) = <<s[k]>>
<1>1. PICK t : t = SubSeq(s, k, k)
  OBVIOUS
<1>2. k \in Int /\ \A i \in k .. k : s[i] \in S
  OBVIOUS
<1>3. t \in Seq(S) /\ Len(t) = 1 /\ \A i \in 1 .. 1 : t[i] = s[k]
  <2>1. /\ t \in Seq(S) /\ Len(t) = IF k <= k THEN k - k + 1 ELSE 0
        /\ \A i \in 1 .. k - k + 1 : t[i] = s[k + i - 1]
    BY <1>1, <1>2, SubSeqProperties
  <2> QED BY <2>1
<1>4. t = <<s[k]>>
  BY <1>3
<1> QED BY <1>1, <1>4

\* The sequencer and the command FSM agree, in every reachable state, on how far
\* into the sequence they are; of sh1107/rtl/__init__.py and oled/__init__.py.
THEOREM PlayedInvariance == BoardSpec => []PlayedInv
  BY PlayedInit, PlayedNext, PTL DEF BoardSpec

\* The OLED module takes a sequence's bytes in order, none left out or taken
\* twice, and a sequence is over only when all of them are: for any buttons and
\* sequences, whatever the display answers and however long the units take.
THEOREM SequencesArePlayed == BoardSpec => []SequencePlayed
<1>1. PlayedInv => SequencePlayed
  <2> SUFFICES ASSUME PlayedInv PROVE SequencePlayed
    OBVIOUS
  <2>1. /\ playing \in DOMAIN ButtonSequences /\ played \in Nat
        /\ Written <= Len(Playing) /\ Given => fifo_in = <<Playing[Written]>>
        /\ top.fsm = "IDLE" => Written = Len(Playing)
        /\ fifo_r_en = 1 => Given
    BY DEF PlayedInv, QueueInv, PlayInv
  <2>2. Playing \in Seq(0 .. 255) /\ Len(Playing) \in Nat
    BY <2>1, SequencesLaid DEF Playing
  <2>3. ASSUME Given PROVE fifo_in = SubSeq(Playing, played + 1, played + 1)
    <3>1. Written = played + 1
      BY <2>3 DEF Written
    <3>2. played + 1 \in 1 .. Len(Playing)
      <4>1. PICK n, k : n = Len(Playing) /\ k = played
        OBVIOUS
      <4>2. k \in Nat /\ n \in Nat
        BY <2>1, <2>2, <4>1
      <4>3. Written <= n /\ Written = k + 1
        <5>1. Written <= Len(Playing)
          BY DEF PlayedInv, PlayInv
        <5>2. Written <= n
          BY <4>1, <5>1
        <5>3. Written = k + 1
          BY <3>1, <4>1
        <5> QED BY <5>2, <5>3
      <4>4. k + 1 <= n
        BY <4>3
      <4>5. k + 1 \in 1 .. n
        BY <4>2, <4>4
      <4> QED BY <4>1, <4>5
    <3> QED BY <2>1, <2>2, <2>3, <3>1, <3>2, OneOf
  <2>4. ASSUME top.fsm = "IDLE", ~Given PROVE played = Len(Playing)
    BY <2>1, <2>4 DEF Written
  <2> QED BY <2>1, <2>3, <2>4 DEF SequencePlayed, Playing
<1> QED BY <1>1, PlayedInvariance, PTL
===============================================================================
