----------------------------- MODULE DeliveryProofs ----------------------------
(***************************************************************************)
(* The four writers on the real controller deliver: what Delivery promises *)
(* of a command comes about on the wire, whatever the command, the ROM,    *)
(* the clock divider, the bytes the display refuses and the cycle in which *)
(* a unit is strobed.                                                      *)
(*                                                                         *)
(* A unit and the controller go at rates of their own.  So the proof gives *)
(* each state of each unit its place in the command's script: how many     *)
(* words have been given to the queue (n), and in how many cycles the next *)
(* comes at the latest (lag).  A unit is then in one of three relations to *)
(* the controller (Serves): nothing of its script is on the wire, and the  *)
(* controller may still end an earlier transfer or hold a word left behind *)
(* (Unsent); or the controller is one word behind it, and looks for the    *)
(* next only at the end of a byte, which Ahead counts the cycles to and no *)
(* unit lags that long (Underway); or a byte was refused (Stopping), and   *)
(* the one word the unit may still queue is a START's control byte.  From  *)
(* there a clock cycle is one of four things, and each of them is a step   *)
(* of Delivery or none.                                                    *)
(***************************************************************************)
EXTENDS WritersProofs

-------------------------------------------------------------------------------
(***************************************************************************)
(* The scripts, and a unit in one.                                         *)
(***************************************************************************)
Spoken == {StartWord} \cup {DataWord(n) : n \in Nat}

IsScript(words) ==
  /\ words \in Seq(Spoken) /\ Len(words) >= 2
  /\ words[1] = StartWord /\ words[2] \in ControlWords

\* The unit's n-th word is on its lines, or has been given to the queue and the
\* next follows in lag cycles.
Offers(u, n, lag, words) ==
  n \in 1 .. Len(words) /\ lag = 1 /\ u.w_en = 1 /\ u.w = words[n] /\ u.stb = 0

Pauses(u, n, lag, words) ==
  /\ n \in 1 .. Len(words) /\ u.w_en = 0 /\ u.stb \in Bit /\ (u.stb = 1 => n = 1)
  /\ \/ lag \in 2 .. 5
     \/ lag = 0 /\ n = Len(words)

LEMMA ScriptFits ==
  ASSUME NEW u, NEW n, NEW lag, NEW words, IsScript(words),
         Offers(u, n, lag, words) \/ Pauses(u, n, lag, words)
  PROVE  Fits(u, n, lag, words)
<1>1. /\ Len(words) \in Nat /\ Len(words) >= 2 /\ words[1] = StartWord
      /\ words[2] \in ControlWords /\ words = [i \in 1 .. Len(words) |-> words[i]]
  BY LenProperties DEF IsScript
<1>2. ASSUME NEW i \in 1 .. Len(words) PROVE ForUser(words[i])
  <2>1. words[i] \in Spoken
    BY <1>2, ElementOfSeq DEF IsScript
  <2>2. PICK k : words[i] = StartWord \/ words[i] = DataWord(k)
    BY <2>1 DEF Spoken
  <2>3. DataWord(k).kind = "DATA"
    BY DEF DataWord
  <2> QED BY <2>2, <2>3 DEF ForUser
<1>3. n \in Nat /\ n # 0 /\ n \in 0 .. Len(words) /\ lag \in 0 .. 5
  BY <1>1 DEF Offers, Pauses
<1>4. CASE Offers(u, n, lag, words)
  BY <1>1, <1>2, <1>3, <1>4 DEF Offers, Fits, Bit
<1>5. CASE Pauses(u, n, lag, words)
  BY <1>1, <1>3, <1>5 DEF Pauses, Fits, Bit
<1> QED BY <1>4, <1>5

\* The control bytes of the units' own commands.
LEMMA ControlsAre ==
  DataWord(ControlCommand) \in ControlWords /\ DataWord(ControlData) \in ControlWords
BY DEF ControlWords, ControlBytes, ControlCommand, ControlData

\* A unit that looks for the acknowledgement in the cycle it queues a byte.
LEMMA Heeds ==
  ASSUME NEW u, NEW n, NEW v, NEW m, NEW words,
         v.fsm \notin {"LOOP_HEAD", "SEQ_BREAK_ADDRESSED_NEXTLEN1",
                       "SEQ_BREAK_ADDRESSED_FOLLOWING"},
         v.w_en = 0 \/ u.w_en = 1 \/ Ready \/ words[m] \in ControlWords
  PROVE  Minds(u, n, v, m, words)
  BY DEF Minds, Bold

LEMMA TransmissionIs ==
  ASSUME NEW bytes \in Seq(Nat)
  PROVE  /\ Transmission(bytes) \in Seq(Spoken)
         /\ Len(Transmission(bytes)) = Len(bytes) + 1
         /\ Transmission(bytes)[1] = StartWord
         /\ \A j \in 1 .. Len(bytes) : Transmission(bytes)[j + 1] = DataWord(bytes[j])
<1>1. PICK n, a, b, r : /\ n = Len(bytes) /\ a = <<StartWord>> /\ r = Transmission(bytes)
                        /\ b = [i \in DOMAIN bytes |-> DataWord(bytes[i])]
  OBVIOUS
<1>2. n \in Nat /\ DOMAIN bytes = 1 .. n /\ \A i \in 1 .. n : bytes[i] \in Nat
  BY <1>1, LenProperties, ElementOfSeq
<1>3. r = a \o b
  BY <1>1 DEF Transmission
<1>4. a \in Seq(Spoken) /\ Len(a) = 1 /\ a[1] = StartWord
  <2>1. StartWord \in Spoken
    BY DEF Spoken
  <2> QED BY <1>1, <2>1
<1>5. b \in Seq(Spoken) /\ Len(b) = n
  <2>1. \A i \in 1 .. n : DataWord(bytes[i]) \in Spoken
    BY <1>2 DEF Spoken
  <2>2. FunctionIsSeq(b, n, Spoken)
    BY <1>1, <1>2, <2>1 DEF FunctionIsSeq
  <2> QED BY <1>2, <2>2, ASequence
<1>6. /\ r \in Seq(Spoken) /\ Len(r) = Len(a) + Len(b)
      /\ \A j \in 1 .. Len(a) : r[j] = a[j]
      /\ \A j \in 1 .. Len(b) : r[Len(a) + j] = b[j]
  <2>1. a \in Seq(Spoken) /\ b \in Seq(Spoken) /\ r = a \o b
    BY <1>3, <1>4, <1>5
  <2> QED BY <2>1, JoinIs
<1>7. r[1] = StartWord /\ Len(r) = n + 1
  BY <1>2, <1>4, <1>5, <1>6
<1>8. ASSUME NEW j \in 1 .. n PROVE r[j + 1] = DataWord(bytes[j])
  <2>1. r[1 + j] = b[j] /\ 1 + j = j + 1
    BY <1>2, <1>4, <1>5, <1>6
  <2>2. b[j] = DataWord(bytes[j])
    BY <1>1, <1>2
  <2> QED BY <2>1, <2>2
<1> QED BY <1>1, <1>6, <1>7, <1>8

-------------------------------------------------------------------------------
(***************************************************************************)
(* Locator in its script.                                                  *)
(***************************************************************************)
\* How many words precede the row's.
PageWords(c) == IF c = 0 THEN 0 ELSE 1

LocSpelled(words, r, c, adjust) ==
  LET at == (r + (Rows - 1) + adjust) % Rows
      p  == PageWords(c)
  IN
  /\ IsScript(words)
  /\ Len(words) = 2 + p + (IF r = 0 THEN 0 ELSE 2)
  /\ words[2] = DataWord(ControlCommand)
  /\ c # 0 => words[3] = DataWord(SetPageAddress(0) + Rows - c)
  /\ r # 0 => /\ words[3 + p] = DataWord(SetLowerColumnAddress(8 * (at % 2)))
              /\ words[4 + p] = DataWord(SetHigherColumnAddress(at \div 2))

LEMMA LocWords ==
  ASSUME NEW r \in 0 .. Rows, NEW c \in 0 .. Rows, NEW adjust \in 0 .. Rows - 1
  PROVE  LocSpelled(LocatorScript(r, c, adjust), r, c, adjust)
<1>1. PICK at, page, low, high, words :
        /\ at = (r + (Rows - 1) + adjust) % Rows
        /\ page = SetPageAddress(Rows - c)
        /\ low = SetLowerColumnAddress((8 * at) % 16)
        /\ high = SetHigherColumnAddress((8 * at) \div 16)
        /\ words = LocatorScript(r, c, adjust)
  OBVIOUS
<1>2. Rows \in Nat /\ Rows # 0 /\ at \in Nat
  BY <1>1, RowsAssumption
<1>3. (8 * at) % 16 = 8 * (at % 2) /\ (8 * at) \div 16 = at \div 2
  BY <1>2
<1>4. /\ page \in Nat /\ low \in Nat /\ high \in Nat
      /\ page = SetPageAddress(0) + Rows - c
      /\ low = SetLowerColumnAddress(8 * (at % 2))
      /\ high = SetHigherColumnAddress(at \div 2)
  BY <1>1, <1>2, <1>3 DEF SetPageAddress, SetLowerColumnAddress, SetHigherColumnAddress
<1>5. r + Rows - 1 + adjust = r + (Rows - 1) + adjust
  BY <1>2
<1>6. words = Transmission(<<ControlCommand>> \o (IF c = 0 THEN <<>> ELSE <<page>>)
                             \o (IF r = 0 THEN <<>> ELSE <<low, high>>))
  BY <1>1, <1>5 DEF LocatorScript, ColumnBytes
<1>7. PICK a, b, d, ab, bytes :
        /\ a = <<ControlCommand>> /\ b = (IF c = 0 THEN <<>> ELSE <<page>>)
        /\ d = (IF r = 0 THEN <<>> ELSE <<low, high>>)
        /\ ab = a \o b /\ bytes = ab \o d
  OBVIOUS
<1>8. words = Transmission(bytes)
  BY <1>6, <1>7, Zenon
<1>85. /\ a \in Seq(Nat) /\ Len(a) = 1 /\ a[1] = ControlCommand
       /\ b \in Seq(Nat) /\ Len(b) = PageWords(c) /\ (c # 0 => b[1] = page)
       /\ d \in Seq(Nat) /\ Len(d) = (IF r = 0 THEN 0 ELSE 2)
       /\ r # 0 => d[1] = low /\ d[2] = high
  BY <1>4, <1>7 DEF ControlCommand, PageWords
<1>86. /\ ab \in Seq(Nat) /\ Len(ab) = Len(a) + Len(b)
       /\ \A j \in 1 .. Len(a) : ab[j] = a[j]
       /\ \A j \in 1 .. Len(b) : ab[Len(a) + j] = b[j]
  <2>1. a \in Seq(Nat) /\ b \in Seq(Nat) /\ ab = a \o b
    BY <1>7, <1>85
  <2> QED BY <2>1, JoinIs
<1>9. /\ bytes \in Seq(Nat) /\ Len(bytes) = Len(ab) + Len(d)
      /\ \A j \in 1 .. Len(ab) : bytes[j] = ab[j]
      /\ \A j \in 1 .. Len(d) : bytes[Len(ab) + j] = d[j]
  <2>1. ab \in Seq(Nat) /\ d \in Seq(Nat) /\ bytes = ab \o d
    BY <1>7, <1>85, <1>86
  <2> QED BY <2>1, JoinIs
<1>10. /\ words \in Seq(Spoken) /\ Len(words) = Len(bytes) + 1 /\ words[1] = StartWord
       /\ \A j \in 1 .. Len(bytes) : words[j + 1] = DataWord(bytes[j])
  BY <1>8, <1>9, TransmissionIs
<1>11. PICK p : p = PageWords(c)
  OBVIOUS
<1>12. p \in {0, 1} /\ (c # 0 => p = 1)
  BY <1>11 DEF PageWords
<1>13. /\ Len(bytes) = 1 + p + (IF r = 0 THEN 0 ELSE 2) /\ bytes[1] = ControlCommand
       /\ c # 0 => bytes[2] = page
       /\ r # 0 => bytes[2 + p] = low /\ bytes[3 + p] = high
  <2>1. Len(ab) = 1 + p
    BY <1>11, <1>85, <1>86
  <2>2. bytes[1] = ControlCommand
    <3>1. 1 \in 1 .. Len(a) /\ 1 \in 1 .. Len(ab)
      BY <1>12, <1>85, <2>1
    <3>2. ab[1] = a[1] /\ bytes[1] = ab[1]
      BY <1>86, <1>9, <3>1
    <3> QED BY <1>85, <3>2
  <2>3. ASSUME c # 0 PROVE bytes[2] = page
    <3>1. 2 \in 1 .. Len(ab) /\ 1 \in 1 .. Len(b) /\ Len(a) + 1 = 2
      BY <1>11, <1>12, <1>85, <2>1, <2>3
    <3>2. ab[Len(a) + 1] = b[1]
      BY <1>86, <3>1
    <3> QED BY <1>85, <1>9, <2>3, <3>1, <3>2
  <2>4. ASSUME r # 0 PROVE bytes[2 + p] = low /\ bytes[3 + p] = high
    <3>1. 1 \in 1 .. Len(d) /\ 2 \in 1 .. Len(d) /\ Len(ab) + 1 = 2 + p /\ Len(ab) + 2 = 3 + p
      BY <1>12, <1>85, <2>1, <2>4
    <3>2. bytes[Len(ab) + 1] = d[1] /\ bytes[Len(ab) + 2] = d[2]
      BY <1>9, <3>1
    <3> QED BY <1>85, <2>4, <3>1, <3>2
  <2>5. Len(bytes) = 1 + p + (IF r = 0 THEN 0 ELSE 2)
    BY <1>9, <1>85, <1>12, <2>1
  <2> QED BY <2>2, <2>3, <2>4, <2>5
<1>14. words[2] = DataWord(ControlCommand) /\ Len(words) = 2 + p + (IF r = 0 THEN 0 ELSE 2)
  <2>1. words[1 + 1] = DataWord(bytes[1])
    BY <1>10, <1>12, <1>13
  <2> QED BY <1>10, <1>12, <1>13, <2>1
<1>15. ASSUME c # 0 PROVE words[3] = DataWord(page)
  <2>1. 2 \in 1 .. Len(bytes) /\ bytes[2] = page
    BY <1>12, <1>13, <1>15
  <2>2. words[2 + 1] = DataWord(bytes[2])
    BY <1>10, <2>1
  <2> QED BY <2>1, <2>2
<1>16. ASSUME r # 0 PROVE words[3 + p] = DataWord(low) /\ words[4 + p] = DataWord(high)
  <2>1. 2 + p \in 1 .. Len(bytes) /\ 3 + p \in 1 .. Len(bytes)
    BY <1>12, <1>13, <1>16
  <2>2. words[(2 + p) + 1] = DataWord(bytes[2 + p]) /\ words[(3 + p) + 1] = DataWord(bytes[3 + p])
    BY <1>10, <2>1
  <2>3. (2 + p) + 1 = 3 + p /\ (3 + p) + 1 = 4 + p
    BY <1>12
  <2>4. words[3 + p] = DataWord(bytes[2 + p]) /\ words[4 + p] = DataWord(bytes[3 + p])
    BY <2>2, <2>3
  <2> QED BY <1>13, <1>16, <2>4
<1>17. IsScript(words)
  BY <1>10, <1>12, <1>13, <1>14, ControlsAre DEF IsScript
<1>18. /\ c # 0 => words[3] = DataWord(SetPageAddress(0) + Rows - c)
       /\ r # 0 => /\ words[3 + p] = DataWord(SetLowerColumnAddress(8 * (at % 2)))
                   /\ words[4 + p] = DataWord(SetHigherColumnAddress(at \div 2))
  BY <1>4, <1>15, <1>16, Zenon
<1> QED BY <1>1, <1>11, <1>14, <1>17, <1>18, Zenon DEF LocSpelled

\* A put of another byte behind a byte keeps the word's kind.
IsData(w) == w = [kind |-> "DATA", data |-> w.data]

LocAt(u, n, lag, words, r, c) ==
  LET p == PageWords(c)
      paused == IF n = Len(words) THEN 0 ELSE 2
  IN
  \/ u.fsm = "START_ADDR_STROBED_W_EN" /\ n = 1 /\ Offers(u, n, lag, words)
  \/ u.fsm = "START_ADDR_STROBED_STB" /\ n = 1 /\ lag = 2 /\ Pauses(u, n, lag, words)
  \/ /\ IsData(u.w) /\ Offers(u, n, lag, words)
     /\ \/ u.fsm = "START_CONTROL_STROBED_W_EN" /\ n = 2
        \/ u.fsm = "START_PAGE_STROBED_W_EN" /\ n = 3 /\ p = 1
        \/ u.fsm = "START_COL_LOWER_STROBED_W_EN" /\ n = 3 + p /\ r # 0
        \/ u.fsm = "START_COL_HIGHER_STROBED_W_EN" /\ n = 4 + p /\ r # 0
  \/ /\ IsData(u.w) /\ Pauses(u, n, lag, words) /\ u.stb = 0
     /\ \/ u.fsm = "START_CONTROL_UNSTROBED_W_EN" /\ n = 2 /\ lag = paused
        \/ u.fsm = "START_PAGE_UNSTROBED_W_EN" /\ n = 3 /\ p = 1 /\ lag = paused
        \/ u.fsm = "START_COL_LOWER_UNSTROBED_W_EN" /\ n = 3 + p /\ r # 0 /\ lag = 2
        \/ u.fsm = "START_COL_HIGHER_UNSTROBED_W_EN" /\ n = 4 + p /\ r # 0 /\ lag = 0

\* The steps that the units have in common.
LEMMA Gives ==
  ASSUME NEW u, NEW n, NEW lag, NEW words, NEW to, Offers(u, n, lag, words), n # 1,
         {"fsm", "busy", "stb", "w_en", "w"} \subseteq DOMAIN u, IsData(u.w)
  PROVE  LET v == Goto(Release(u), to) IN
         GivesWord(u, n, v, n) /\ v.fsm = to /\ v.w_en = 0 /\ v.stb = 0 /\ IsData(v.w)
<1>1. PICK v : v = Goto(Release(u), to)
  OBVIOUS
<1>2. v.fsm = to /\ v.w_en = 0 /\ v.stb = u.stb /\ v.w = [u.w EXCEPT !.data = ZeroByte]
  BY <1>1 DEF Goto, Release
<1>3. PICK d : u.w = [kind |-> "DATA", data |-> d]
  BY DEF IsData
<1>4. v.w = [kind |-> "DATA", data |-> ZeroByte]
  BY <1>2, <1>3
<1>5. IsData(v.w)
  BY <1>4 DEF IsData
<1> QED BY <1>1, <1>2, <1>5 DEF Offers, GivesWord

LEMMA PutsByte ==
  ASSUME NEW u, NEW n, NEW lag, NEW words, NEW to, NEW b, Pauses(u, n, lag, words), lag = 2,
         {"fsm", "busy", "stb", "w_en", "w"} \subseteq DOMAIN u, IsData(u.w), u.stb = 0,
         Ready, n + 1 \in 1 .. Len(words), words[n + 1] = DataWord(b)
  PROVE  LET v == Goto(PutNext(u, b), to) IN
         /\ PutsNext(u, n, lag, v, n + 1, 1) /\ Offers(v, n + 1, 1, words)
         /\ v.fsm = to /\ IsData(v.w)
<1>1. PICK v : v = Goto(PutNext(u, b), to)
  OBVIOUS
<1>2. v.fsm = to /\ v.w_en = 1 /\ v.stb = u.stb /\ v.w = [u.w EXCEPT !.data = ByteOf(b)]
  BY <1>1 DEF Goto, PutNext
<1>3. PICK d : u.w = [kind |-> "DATA", data |-> d]
  BY DEF IsData
<1>4. v.w = DataWord(b)
  BY <1>2, <1>3 DEF DataWord
<1>5. IsData(v.w)
  BY <1>4 DEF IsData, DataWord
<1>6. Writable(in_fifo)
  BY DEF Ready
<1> QED BY <1>1, <1>2, <1>4, <1>5, <1>6 DEF Pauses, Offers, PutsNext

LEMMA RefusedStops ==
  ASSUME NEW u, NEW n, NEW lag, NEW words, Pauses(u, n, lag, words), u.stb = 0,
         {"fsm", "busy", "stb", "w_en", "w"} \subseteq DOMAIN u, n \in Nat, n # 0, n # 1,
         ~Ready \/ lag = 0
  PROVE  \/ Stops(u, n, Refused(u), words)
         \/ Refused(u) = u /\ WaitsOn(u, n, lag, u, n, lag)
<1>1. CASE busy = 0
  <2>1. PICK v : v = Refused(u)
    OBVIOUS
  <2>2. v = [[u EXCEPT !.busy = 0] EXCEPT !.fsm = "IDLE"]
    BY <1>1, <2>1 DEF Refused, Done, Goto
  <2> QED BY <1>1, <2>1, <2>2 DEF Stops, Pauses
<1>2. CASE busy # 0
  BY <1>2 DEF Refused, WaitsOn, Pauses
<1> QED BY <1>1, <1>2

LEMMA StrobesFirst ==
  ASSUME NEW u, NEW n, NEW lag, NEW words, NEW to, Offers(u, n, lag, words), n = 1,
         {"fsm", "busy", "stb", "w_en", "w"} \subseteq DOMAIN u
  PROVE  LET v == Goto(Strobe(Release(u), 1), to) IN
         GivesWord(u, n, v, n) /\ v.fsm = to /\ v.w_en = 0 /\ v.stb = 1
<1>1. PICK v : v = Goto(Strobe(Release(u), 1), to)
  OBVIOUS
<1>2. v.fsm = to /\ v.w_en = 0 /\ v.stb = 1
  BY <1>1 DEF Goto, Release, Strobe
<1> QED BY <1>1, <1>2 DEF Offers, GivesWord

LEMMA PutsFirst ==
  ASSUME NEW u, NEW n, NEW lag, NEW words, NEW to, NEW b, Pauses(u, n, lag, words), lag = 2,
         {"fsm", "busy", "stb", "w_en", "w"} \subseteq DOMAIN u,
         Writable(in_fifo), n + 1 \in 1 .. Len(words), words[n + 1] = DataWord(b),
         NEW v, v = Goto(PutData(Strobe(u, 0), b), to)
  PROVE  /\ PutsNext(u, n, lag, v, n + 1, 1) /\ Offers(v, n + 1, 1, words)
         /\ v.fsm = to /\ IsData(v.w)
<1>2. v.fsm = to /\ v.w_en = 1 /\ v.stb = 0 /\ v.w = DataWord(b)
  BY DEF Goto, PutData, Strobe
<1>3. IsData(v.w)
  BY <1>2 DEF IsData, DataWord
<1> QED BY <1>2, <1>3 DEF Pauses, Offers, PutsNext

LEMMA LocGoes ==
  ASSUME NEW n, NEW lag, NEW words, NEW stb, Shape(loc, LocPutting),
         LocStep(stb, scr.adjusted), LocSpelled(words, row, col, scr.adjusted),
         LocAt(loc, n, lag, words, row, col), row \in 0 .. Rows, col \in 0 .. Rows
  PROVE  \/ Stops(loc, n, loc', words)
         \/ \E m, next : /\ LocAt(loc', m, next, words, row, col)
                         /\ Works(loc, n, lag, loc', m, next) /\ Minds(loc, n, loc', m, words)
<1>1. PICK p, at : p = PageWords(col) /\ at = (row + (Rows - 1) + scr.adjusted) % Rows
  OBVIOUS
<1>2. p \in {0, 1} /\ (p = 1 <=> col # 0) /\ (p = 0 <=> col = 0)
  BY <1>1 DEF PageWords
<1>3. /\ Len(words) = 2 + p + (IF row = 0 THEN 0 ELSE 2)
      /\ words[2] = DataWord(ControlCommand)
      /\ col # 0 => words[3] = DataWord(SetPageAddress(0) + Rows - col)
      /\ row # 0 => /\ words[3 + p] = DataWord(SetLowerColumnAddress(8 * (at % 2)))
                    /\ words[4 + p] = DataWord(SetHigherColumnAddress(at \div 2))
  BY <1>1 DEF LocSpelled
<1>4. {"fsm", "busy", "stb", "w_en", "w"} \subseteq DOMAIN loc
  BY DEF Shape
<1> DEFINE Good == \/ Stops(loc, n, loc', words)
                   \/ \E m, next : /\ LocAt(loc', m, next, words, row, col)
                                   /\ Works(loc, n, lag, loc', m, next)
                                   /\ Minds(loc, n, loc', m, words)
           paused == IF n = Len(words) THEN 0 ELSE 2
<1> SUFFICES Good
  OBVIOUS
<1>45. ASSUME NEW m, NEW next, LocAt(loc', m, next, words, row, col)
       PROVE  loc'.fsm \notin {"LOOP_HEAD", "SEQ_BREAK_ADDRESSED_NEXTLEN1",
                               "SEQ_BREAK_ADDRESSED_FOLLOWING"}
  BY <1>45 DEF LocAt
<1>5. ASSUME LocAt(loc', n, lag, words, row, col), WaitsOn(loc, n, lag, loc', n, lag)
      PROVE  Good
  <2>1. loc'.w_en = 0
    BY <1>5 DEF WaitsOn
  <2>2. Minds(loc, n, loc', n, words)
    BY <1>45, <1>5, <2>1, Heeds
  <2> QED BY <1>5, <2>2 DEF Works
<1>6. ASSUME NEW next, LocAt(loc', n, next, words, row, col), GivesWord(loc, n, loc', n)
      PROVE  Good
  <2>1. loc'.w_en = 0
    BY <1>6 DEF GivesWord
  <2>2. Minds(loc, n, loc', n, words)
    BY <1>45, <1>6, <2>1, Heeds
  <2> QED BY <1>6, <2>2 DEF Works
<1>7. ASSUME LocAt(loc', n + 1, 1, words, row, col), PutsNext(loc, n, lag, loc', n + 1, 1),
             Ready \/ words[n + 1] \in ControlWords
      PROVE  Good
  <2>1. Minds(loc, n, loc', n + 1, words)
    BY <1>45, <1>7, Heeds
  <2> QED BY <1>7, <2>1 DEF Works
<1>8. ASSUME loc' = Refused(loc), ~Ready \/ lag = 0, Pauses(loc, n, lag, words), loc.stb = 0,
             n # 1
      PROVE  Good
  <2>1. n \in Nat /\ n # 0
    BY <1>2, <1>3, <1>8 DEF Pauses
  <2>2. \/ Stops(loc, n, Refused(loc), words)
        \/ Refused(loc) = loc /\ WaitsOn(loc, n, lag, loc, n, lag)
    BY <1>4, <1>8, <2>1, RefusedStops
  <2>3. CASE Refused(loc) = loc /\ WaitsOn(loc, n, lag, loc, n, lag)
    BY <1>5, <1>8, <2>3
  <2> QED BY <1>8, <2>2, <2>3
<1>9. CASE LocAddrQueued
  <2>1. /\ loc.fsm = "START_ADDR_STROBED_W_EN"
        /\ loc' = Goto(Strobe(Release(loc), 1), "START_ADDR_STROBED_STB")
    BY <1>9 DEF LocAddrQueued
  <2>2. n = 1 /\ Offers(loc, n, lag, words)
    BY <2>1 DEF LocAt
  <2>3. /\ GivesWord(loc, n, loc', n) /\ loc'.fsm = "START_ADDR_STROBED_STB"
        /\ loc'.w_en = 0 /\ loc'.stb = 1
    BY <1>4, <2>1, <2>2, StrobesFirst
  <2>4. Pauses(loc', n, 2, words)
    BY <2>2, <2>3 DEF Pauses, Offers, Bit
  <2>5. LocAt(loc', n, 2, words, row, col)
    BY <2>2, <2>3, <2>4 DEF LocAt
  <2> QED BY <1>6, <2>3, <2>5
<1>95. ASSUME NEW to, NEW b, loc' = Goto(PutData(Strobe(loc, 0), b), to),
              Pauses(loc, n, lag, words), lag = 2, Writable(in_fifo),
              n + 1 \in 1 .. Len(words), words[n + 1] = DataWord(b)
       PROVE  /\ PutsNext(loc, n, lag, loc', n + 1, 1) /\ Offers(loc', n + 1, 1, words)
              /\ loc'.fsm = to /\ IsData(loc'.w)
  <2>1. PICK u, v : u = loc /\ v = loc'
    OBVIOUS
  <2>2. /\ Pauses(u, n, lag, words) /\ lag = 2 /\ Writable(in_fifo)
        /\ {"fsm", "busy", "stb", "w_en", "w"} \subseteq DOMAIN u
        /\ n + 1 \in 1 .. Len(words) /\ words[n + 1] = DataWord(b)
        /\ v = Goto(PutData(Strobe(u, 0), b), to)
    BY <1>4, <1>95, <2>1
  <2>3. /\ PutsNext(u, n, lag, v, n + 1, 1) /\ Offers(v, n + 1, 1, words)
        /\ v.fsm = to /\ IsData(v.w)
    BY <2>2, PutsFirst
  <2> QED BY <2>1, <2>3
<1>10. CASE LocControl
  <2>1. loc.fsm = "START_ADDR_STROBED_STB"
    BY <1>10 DEF LocControl
  <2>2. n = 1 /\ lag = 2 /\ Pauses(loc, n, lag, words)
    BY <2>1 DEF LocAt
  <2>3. CASE Writable(in_fifo)
    <3>1. loc' = Goto(PutData(Strobe(loc, 0), ControlCommand), "START_CONTROL_STROBED_W_EN")
      BY <1>10, <2>3 DEF LocControl
    <3>2. n + 1 = 2 /\ n + 1 \in 1 .. Len(words) /\ words[n + 1] = DataWord(ControlCommand)
      BY <1>2, <1>3, <2>2
    <3>3. /\ PutsNext(loc, n, lag, loc', n + 1, 1) /\ Offers(loc', n + 1, 1, words)
          /\ loc'.fsm = "START_CONTROL_STROBED_W_EN" /\ IsData(loc'.w)
      BY <1>95, <2>2, <2>3, <3>1, <3>2
    <3>4. LocAt(loc', n + 1, 1, words, row, col)
      BY <3>2, <3>3 DEF LocAt
    <3>5. words[n + 1] \in ControlWords
      BY <3>2, ControlsAre
    <3> QED BY <1>7, <3>3, <3>4, <3>5
  <2>4. CASE ~Writable(in_fifo)
    <3>1. loc' = Strobe(loc, 0)
      BY <1>10, <2>4 DEF LocControl
    <3>2. loc'.fsm = loc.fsm /\ loc'.w_en = loc.w_en /\ loc'.stb = 0
      BY <1>4, <3>1 DEF Strobe
    <3>3. Pauses(loc', n, lag, words) /\ WaitsOn(loc, n, lag, loc', n, lag)
      BY <2>2, <2>4, <3>2 DEF Pauses, WaitsOn, Bit, Queued, Readable, Writable
    <3>4. LocAt(loc', n, lag, words, row, col)
      BY <2>1, <2>2, <3>2, <3>3 DEF LocAt
    <3> QED BY <1>5, <3>3, <3>4
  <2> QED BY <2>3, <2>4
\* A byte has been given to the queue.
<1>11. ASSUME NEW to, loc' = Goto(Release(loc), to), Offers(loc, n, lag, words), n # 1, IsData(loc.w)
       PROVE  /\ GivesWord(loc, n, loc', n) /\ loc'.fsm = to /\ IsData(loc'.w)
              /\ loc'.stb = 0 /\ Pauses(loc', n, paused, words)
              /\ n = Len(words) => Pauses(loc', n, 0, words)
              /\ Pauses(loc', n, 2, words)
  <2>1. /\ GivesWord(loc, n, loc', n) /\ loc'.fsm = to /\ loc'.w_en = 0 /\ loc'.stb = 0
        /\ IsData(loc'.w)
    BY <1>4, <1>11, Gives
  <2>2. n \in 1 .. Len(words)
    BY <1>11 DEF Offers
  <2> QED BY <2>1, <2>2 DEF Pauses, Bit
<1>12. CASE LocStrobed("START_CONTROL_STROBED_W_EN", "START_CONTROL_UNSTROBED_W_EN")
  <2>1. /\ loc.fsm = "START_CONTROL_STROBED_W_EN"
        /\ loc' = Goto(Release(loc), "START_CONTROL_UNSTROBED_W_EN")
    BY <1>12 DEF LocStrobed
  <2>2. n = 2 /\ Offers(loc, n, lag, words) /\ IsData(loc.w)
    BY <2>1 DEF LocAt
  <2>3. LocAt(loc', n, paused, words, row, col) /\ GivesWord(loc, n, loc', n)
    BY <1>11, <2>1, <2>2 DEF LocAt
  <2> QED BY <1>6, <2>3
<1>13. CASE LocStrobed("START_PAGE_STROBED_W_EN", "START_PAGE_UNSTROBED_W_EN")
  <2>1. /\ loc.fsm = "START_PAGE_STROBED_W_EN"
        /\ loc' = Goto(Release(loc), "START_PAGE_UNSTROBED_W_EN")
    BY <1>13 DEF LocStrobed
  <2>2. n = 3 /\ p = 1 /\ Offers(loc, n, lag, words) /\ IsData(loc.w)
    BY <1>1, <2>1 DEF LocAt
  <2>3. LocAt(loc', n, paused, words, row, col) /\ GivesWord(loc, n, loc', n)
    BY <1>1, <1>11, <2>1, <2>2 DEF LocAt
  <2> QED BY <1>6, <2>3
<1>14. CASE LocStrobed("START_COL_LOWER_STROBED_W_EN", "START_COL_LOWER_UNSTROBED_W_EN")
  <2>1. /\ loc.fsm = "START_COL_LOWER_STROBED_W_EN"
        /\ loc' = Goto(Release(loc), "START_COL_LOWER_UNSTROBED_W_EN")
    BY <1>14 DEF LocStrobed
  <2>2. n = 3 + p /\ row # 0 /\ Offers(loc, n, lag, words) /\ IsData(loc.w)
    BY <1>1, <2>1 DEF LocAt
  <2>3. n # 1
    BY <1>2, <2>2
  <2>4. LocAt(loc', n, 2, words, row, col) /\ GivesWord(loc, n, loc', n)
    BY <1>1, <1>11, <2>1, <2>2, <2>3 DEF LocAt
  <2> QED BY <1>6, <2>4
<1>15. CASE LocStrobed("START_COL_HIGHER_STROBED_W_EN", "START_COL_HIGHER_UNSTROBED_W_EN")
  <2>1. /\ loc.fsm = "START_COL_HIGHER_STROBED_W_EN"
        /\ loc' = Goto(Release(loc), "START_COL_HIGHER_UNSTROBED_W_EN")
    BY <1>15 DEF LocStrobed
  <2>2. n = 4 + p /\ row # 0 /\ Offers(loc, n, lag, words) /\ IsData(loc.w)
    BY <1>1, <2>1 DEF LocAt
  <2>3. n # 1 /\ n = Len(words)
    BY <1>2, <1>3, <2>2
  <2>4. LocAt(loc', n, 0, words, row, col) /\ GivesWord(loc, n, loc', n)
    BY <1>1, <1>11, <2>1, <2>2, <2>3 DEF LocAt
  <2> QED BY <1>6, <2>4
\* The next byte is put.
<1>16. ASSUME NEW to, NEW b, loc' = Goto(PutNext(loc, b), to), Pauses(loc, n, lag, words),
              lag = 2, IsData(loc.w), loc.stb = 0, Ready, n + 1 \in 1 .. Len(words),
              words[n + 1] = DataWord(b)
       PROVE  /\ PutsNext(loc, n, lag, loc', n + 1, 1) /\ Offers(loc', n + 1, 1, words)
              /\ loc'.fsm = to /\ IsData(loc'.w)
  BY <1>4, <1>16, PutsByte
<1>17. ASSUME StartRow(scr.adjusted), Ready, Pauses(loc, n, lag, words), lag = 2,
              IsData(loc.w), loc.stb = 0, row # 0, n = 2 + p
       PROVE  Good
  <2>1. n + 1 = 3 + p /\ n + 1 \in 1 .. Len(words)
    BY <1>2, <1>3, <1>17
  <2>2. loc' = Goto(PutNext(loc, SetLowerColumnAddress(8 * (at % 2))),
                    "START_COL_LOWER_STROBED_W_EN")
    BY <1>1, <1>17 DEF StartRow, AdjustedRow
  <2>3. words[n + 1] = DataWord(SetLowerColumnAddress(8 * (at % 2)))
    BY <1>3, <1>17, <2>1
  <2>4. /\ PutsNext(loc, n, lag, loc', n + 1, 1) /\ Offers(loc', n + 1, 1, words)
        /\ loc'.fsm = "START_COL_LOWER_STROBED_W_EN" /\ IsData(loc'.w)
    BY <1>16, <1>17, <2>1, <2>2, <2>3
  <2>5. LocAt(loc', n + 1, 1, words, row, col)
    BY <1>1, <1>17, <2>1, <2>4 DEF LocAt
  <2> QED BY <1>7, <1>17, <2>4, <2>5
<1>18. CASE LocPage(scr.adjusted)
  <2>1. loc.fsm = "START_CONTROL_UNSTROBED_W_EN"
    BY <1>18 DEF LocPage
  <2>2. n = 2 /\ lag = paused /\ IsData(loc.w) /\ Pauses(loc, n, lag, words) /\ loc.stb = 0
    BY <2>1 DEF LocAt
  <2>3. CASE /\ Ready /\ col # 0
             /\ loc' = Goto(PutNext(loc, SetPageAddress(0) + Rows - col),
                            "START_PAGE_STROBED_W_EN")
    <3>1. n + 1 = 3 /\ n + 1 \in 1 .. Len(words) /\ lag = 2 /\ p = 1
      BY <1>2, <1>3, <2>2, <2>3
    <3>2. words[n + 1] = DataWord(SetPageAddress(0) + Rows - col)
      BY <1>3, <2>3, <3>1
    <3>3. /\ PutsNext(loc, n, lag, loc', n + 1, 1) /\ Offers(loc', n + 1, 1, words)
          /\ loc'.fsm = "START_PAGE_STROBED_W_EN" /\ IsData(loc'.w)
      BY <1>16, <2>2, <2>3, <3>1, <3>2
    <3>4. LocAt(loc', n + 1, 1, words, row, col)
      BY <1>1, <3>1, <3>3 DEF LocAt
    <3> QED BY <1>7, <2>3, <3>3, <3>4
  <2>4. CASE Ready /\ col = 0 /\ row # 0 /\ StartRow(scr.adjusted)
    <3>1. n = 2 + p /\ lag = 2
      BY <1>2, <1>3, <2>2, <2>4
    <3> HIDE DEF Good
    <3> QED BY <1>17, <2>2, <2>4, <3>1
  <2>5. CASE Ready /\ col = 0 /\ row = 0 /\ loc' = Done(loc)
    <3>1. n = Len(words) /\ loc.w_en = 0 /\ n \notin {0, 1}
      BY <1>2, <1>3, <2>2, <2>5 DEF Pauses
    <3>2. loc' = [[loc EXCEPT !.busy = 0] EXCEPT !.fsm = "IDLE"]
      BY <2>5 DEF Done, Goto
    <3>3. loc'.fsm = "IDLE" /\ loc'.busy = 0 /\ loc'.stb = 0
      BY <1>4, <2>2, <3>2
    <3> QED BY <2>2, <2>5, <3>1, <3>3 DEF Stops
  <2>6. CASE ~Ready /\ loc' = Refused(loc)
    BY <1>8, <2>2, <2>6
  <2> HIDE DEF Good
  <2> QED BY <1>18, <2>3, <2>4, <2>5, <2>6 DEF LocPage
<1>19. CASE LocColLower(scr.adjusted)
  <2>1. loc.fsm = "START_PAGE_UNSTROBED_W_EN"
    BY <1>19 DEF LocColLower
  <2>2. /\ n = 3 /\ p = 1 /\ lag = paused /\ IsData(loc.w)
        /\ Pauses(loc, n, lag, words) /\ loc.stb = 0
    BY <1>1, <2>1 DEF LocAt
  <2>3. CASE Ready /\ row # 0 /\ StartRow(scr.adjusted)
    <3>1. n = 2 + p /\ lag = 2
      BY <1>2, <1>3, <2>2, <2>3
    <3> HIDE DEF Good
    <3> QED BY <1>17, <2>2, <2>3, <3>1
  <2>4. CASE ~(Ready /\ row # 0) /\ loc' = Refused(loc)
    <3>1. ~Ready \/ lag = 0
      BY <1>2, <1>3, <2>2, <2>4
    <3>2. n # 1
      BY <2>2
    <3> QED BY <1>8, <2>2, <2>4, <3>1, <3>2
  <2> HIDE DEF Good
  <2> QED BY <1>19, <2>3, <2>4 DEF LocColLower
<1>20. CASE LocColHigher(scr.adjusted)
  <2>1. loc.fsm = "START_COL_LOWER_UNSTROBED_W_EN"
    BY <1>20 DEF LocColHigher
  <2>2. /\ n = 3 + p /\ row # 0 /\ lag = 2 /\ IsData(loc.w)
        /\ Pauses(loc, n, lag, words) /\ loc.stb = 0
    BY <1>1, <2>1 DEF LocAt
  <2>3. CASE /\ Ready
             /\ loc' = Goto(PutNext(loc, SetHigherColumnAddress(AdjustedRow(scr.adjusted) \div 2)),
                            "START_COL_HIGHER_STROBED_W_EN")
    <3>1. n + 1 = 4 + p /\ n + 1 \in 1 .. Len(words)
      BY <1>2, <1>3, <2>2
    <3>2. AdjustedRow(scr.adjusted) = at
      BY <1>1 DEF AdjustedRow
    <3>3. words[n + 1] = DataWord(SetHigherColumnAddress(AdjustedRow(scr.adjusted) \div 2))
      BY <1>3, <2>2, <3>1, <3>2
    <3>4. /\ PutsNext(loc, n, lag, loc', n + 1, 1) /\ Offers(loc', n + 1, 1, words)
          /\ loc'.fsm = "START_COL_HIGHER_STROBED_W_EN" /\ IsData(loc'.w)
      BY <1>16, <2>2, <2>3, <3>1, <3>3
    <3>5. LocAt(loc', n + 1, 1, words, row, col)
      BY <1>1, <2>2, <3>1, <3>4 DEF LocAt
    <3> QED BY <1>7, <2>3, <3>4, <3>5
  <2>4. CASE ~Ready /\ loc' = Refused(loc)
    <3>1. n # 1
      BY <1>2, <2>2
    <3> QED BY <1>8, <2>2, <2>4, <3>1
  <2> HIDE DEF Good
  <2> QED BY <1>20, <2>3, <2>4 DEF LocColHigher
<1>21. CASE LocFinish
  <2>1. loc.fsm = "START_COL_HIGHER_UNSTROBED_W_EN" /\ loc' = Refused(loc)
    BY <1>21 DEF LocFinish
  <2>2. lag = 0 /\ Pauses(loc, n, lag, words) /\ loc.stb = 0 /\ n = 4 + p
    BY <1>1, <2>1 DEF LocAt
  <2>3. n # 1
    BY <1>2, <2>2
  <2> QED BY <1>8, <2>1, <2>2, <2>3
<1>22. CASE LocIdle(stb)
  <2>1. loc.fsm = "IDLE"
    BY <1>22 DEF LocIdle
  <2> QED BY <2>1 DEF LocAt
<1> HIDE DEF Good
<1> QED BY <1>9, <1>10, <1>12, <1>13, <1>14, <1>15, <1>18, <1>19, <1>20, <1>21, <1>22 DEF LocStep

-------------------------------------------------------------------------------
(***************************************************************************)
(* Clser in its script.  The pages' parts of it start at pt.               *)
(***************************************************************************)
\* How many bytes of a page's first transmission set the column.
HomeBytes(page) == IF page = 0 THEN 2 ELSE 0

PageSpelled(words, at, page) ==
  LET h == HomeBytes(page) IN
  /\ words[at + 1] = StartWord /\ words[at + 2] = DataWord(ControlCommand)
  /\ page = 0 => /\ words[at + 3] = DataWord(SetLowerColumnAddress(0))
                 /\ words[at + 4] = DataWord(SetHigherColumnAddress(0))
  /\ words[at + 3 + h] = DataWord(SetPageAddress(page))
  /\ words[at + 4 + h] = StartWord
  /\ words[at + 5 + h] = DataWord(ControlData)
  /\ \A j \in 1 .. Columns : words[at + 5 + h + j] = DataWord(0)

ClsSpelled(words, pt) ==
  /\ IsScript(words) /\ pt \in [0 .. LastPage + 1 -> Nat] /\ pt[0] = 0
  /\ Len(words) = pt[LastPage + 1]
  /\ \A page \in 0 .. LastPage :
       /\ pt[page + 1] = pt[page] + 5 + HomeBytes(page) + Columns
       /\ pt[page + 1] <= Len(words)
       /\ PageSpelled(words, pt[page], page)

LEMMA PageIs ==
  ASSUME NEW page \in 0 .. LastPage
  PROVE  /\ PageScript(page) \in Seq(Spoken)
         /\ Len(PageScript(page)) = 5 + HomeBytes(page) + Columns
         /\ PageSpelled(PageScript(page), 0, page)
<1>1. PICK h, low, high, num :
        /\ h = HomeBytes(page) /\ low = SetLowerColumnAddress(0)
        /\ high = SetHigherColumnAddress(0) /\ num = SetPageAddress(page)
  OBVIOUS
<1>2. /\ page \in Nat /\ Columns \in Nat /\ h \in {0, 2} /\ (h = 2 <=> page = 0)
      /\ low \in Nat /\ high \in Nat /\ num \in Nat
      /\ ControlCommand \in Nat /\ ControlData \in Nat
  BY <1>1, PagesAssumption
     DEF HomeBytes, SetLowerColumnAddress, SetHigherColumnAddress, SetPageAddress,
         ControlCommand, ControlData
<1>3. ColumnBytes(0) = <<low, high>>
  <2>1. 0 % 16 = 0 /\ 0 \div 16 = 0
    OBVIOUS
  <2> QED BY <1>1, <2>1 DEF ColumnBytes
<1>4. PICK a, b, c, ab, abc, d, e, de, t, s, words :
        /\ a = <<ControlCommand>> /\ b = (IF page = 0 THEN <<low, high>> ELSE <<>>)
        /\ c = <<num>> /\ ab = a \o b /\ abc = ab \o c
        /\ d = <<ControlData>> /\ e = [i \in 1 .. Columns |-> 0] /\ de = d \o e
        /\ t = Transmission(abc) /\ s = Transmission(de) /\ words = t \o s
  OBVIOUS
<1>5. words = PageScript(page)
  <2>1. PageScript(page)
          = Transmission(<<ControlCommand>> \o (IF page = 0 THEN <<low, high>> ELSE <<>>) \o <<num>>)
              \o Transmission(<<ControlData>> \o [i \in 1 .. Columns |-> 0])
    BY <1>1, <1>3, Zenon DEF PageScript
  <2> QED BY <1>4, <2>1, Zenon
<1>6. /\ a \in Seq(Nat) /\ Len(a) = 1 /\ a[1] = ControlCommand
      /\ b \in Seq(Nat) /\ Len(b) = h /\ (page = 0 => b[1] = low /\ b[2] = high)
      /\ c \in Seq(Nat) /\ Len(c) = 1 /\ c[1] = num
      /\ d \in Seq(Nat) /\ Len(d) = 1 /\ d[1] = ControlData
  BY <1>1, <1>2, <1>4 DEF HomeBytes
<1>7. e \in Seq(Nat) /\ Len(e) = Columns /\ \A j \in 1 .. Columns : e[j] = 0
  <2>1. FunctionIsSeq(e, Columns, Nat)
    BY <1>4, <1>2 DEF FunctionIsSeq
  <2> QED BY <1>2, <1>4, <2>1, ASequence
<1>8. /\ ab \in Seq(Nat) /\ Len(ab) = Len(a) + Len(b)
      /\ \A j \in 1 .. Len(a) : ab[j] = a[j]
      /\ \A j \in 1 .. Len(b) : ab[Len(a) + j] = b[j]
  <2>1. a \in Seq(Nat) /\ b \in Seq(Nat) /\ ab = a \o b
    BY <1>4, <1>6
  <2> QED BY <2>1, JoinIs
<1>9. /\ abc \in Seq(Nat) /\ Len(abc) = Len(ab) + Len(c)
      /\ \A j \in 1 .. Len(ab) : abc[j] = ab[j]
      /\ \A j \in 1 .. Len(c) : abc[Len(ab) + j] = c[j]
  <2>1. ab \in Seq(Nat) /\ c \in Seq(Nat) /\ abc = ab \o c
    BY <1>4, <1>6, <1>8
  <2> QED BY <2>1, JoinIs
<1>10. /\ de \in Seq(Nat) /\ Len(de) = Len(d) + Len(e)
       /\ \A j \in 1 .. Len(d) : de[j] = d[j]
       /\ \A j \in 1 .. Len(e) : de[Len(d) + j] = e[j]
  <2>1. d \in Seq(Nat) /\ e \in Seq(Nat) /\ de = d \o e
    BY <1>4, <1>6, <1>7
  <2> QED BY <2>1, JoinIs
<1>11. /\ t \in Seq(Spoken) /\ Len(t) = Len(abc) + 1 /\ t[1] = StartWord
       /\ \A j \in 1 .. Len(abc) : t[j + 1] = DataWord(abc[j])
  BY <1>4, <1>9, TransmissionIs
<1>12. /\ s \in Seq(Spoken) /\ Len(s) = Len(de) + 1 /\ s[1] = StartWord
       /\ \A j \in 1 .. Len(de) : s[j + 1] = DataWord(de[j])
  BY <1>4, <1>10, TransmissionIs
<1>13. /\ words \in Seq(Spoken) /\ Len(words) = Len(t) + Len(s)
       /\ \A j \in 1 .. Len(t) : words[j] = t[j]
       /\ \A j \in 1 .. Len(s) : words[Len(t) + j] = s[j]
  <2>1. t \in Seq(Spoken) /\ s \in Seq(Spoken) /\ words = t \o s
    BY <1>4, <1>11, <1>12
  <2> QED BY <2>1, JoinIs
<1>14. /\ Len(ab) = 1 + h /\ Len(abc) = 2 + h /\ Len(t) = 3 + h
       /\ Len(de) = 1 + Columns /\ Len(s) = 2 + Columns
  BY <1>2, <1>6, <1>7, <1>8, <1>9, <1>10, <1>11, <1>12
<1>15. Len(words) = 5 + h + Columns
  BY <1>2, <1>13, <1>14
<1>16. words[1] = StartWord
  BY <1>2, <1>11, <1>13, <1>14
<1>17. ASSUME NEW j \in 1 .. 2 + h PROVE words[j + 1] = DataWord(abc[j])
  <2>1. j + 1 \in 1 .. Len(t) /\ j \in 1 .. Len(abc)
    BY <1>2, <1>14
  <2> QED BY <1>11, <1>13, <2>1
<1>18. words[2] = DataWord(ControlCommand)
  <2>1. abc[1] = ControlCommand
    BY <1>2, <1>6, <1>8, <1>9, <1>14
  <2>2. words[1 + 1] = DataWord(abc[1])
    BY <1>2, <1>17
  <2> QED BY <2>1, <2>2
<1>19. ASSUME page = 0 PROVE words[3] = DataWord(low) /\ words[4] = DataWord(high)
  <2>1. h = 2 /\ b[1] = low /\ b[2] = high
    BY <1>2, <1>6, <1>19
  <2>2. ab[1 + 1] = b[1] /\ ab[1 + 2] = b[2]
    BY <1>6, <1>8, <2>1
  <2>3. abc[2] = low /\ abc[3] = high
    BY <1>9, <1>14, <2>1, <2>2
  <2>4. words[2 + 1] = DataWord(abc[2]) /\ words[3 + 1] = DataWord(abc[3])
    BY <1>17, <2>1
  <2> QED BY <2>3, <2>4
<1>20. words[3 + h] = DataWord(num)
  <2>1. abc[(1 + h) + 1] = c[1]
    BY <1>6, <1>9, <1>14
  <2>2. (1 + h) + 1 = 2 + h /\ (2 + h) + 1 = 3 + h
    BY <1>2
  <2>3. words[(2 + h) + 1] = DataWord(abc[2 + h])
    BY <1>2, <1>17
  <2> QED BY <1>6, <2>1, <2>2, <2>3
<1>21. ASSUME NEW j \in 1 .. 2 + Columns PROVE words[(3 + h) + j] = s[j]
  BY <1>13, <1>14
<1>22. words[4 + h] = StartWord
  <2>1. words[(3 + h) + 1] = s[1] /\ (3 + h) + 1 = 4 + h
    BY <1>2, <1>21
  <2> QED BY <1>12, <2>1
<1>23. words[5 + h] = DataWord(ControlData)
  <2>1. words[(3 + h) + 2] = s[2] /\ (3 + h) + 2 = 5 + h
    BY <1>2, <1>21
  <2>2. s[1 + 1] = DataWord(de[1]) /\ de[1] = ControlData
    BY <1>2, <1>6, <1>10, <1>12, <1>14
  <2> QED BY <2>1, <2>2
<1>24. ASSUME NEW j \in 1 .. Columns PROVE words[5 + h + j] = DataWord(0)
  <2>1. (3 + h) + (j + 2) = 5 + h + j /\ (j + 1) + 1 = j + 2 /\ 1 + j = j + 1
    BY <1>2
  <2>2. j + 2 \in 1 .. 2 + Columns /\ j + 1 \in 1 .. Len(de) /\ j \in 1 .. Len(e)
    BY <1>2, <1>7, <1>14
  <2>3. words[(3 + h) + (j + 2)] = s[j + 2]
    BY <1>21, <2>2
  <2>4. s[(j + 1) + 1] = DataWord(de[j + 1])
    BY <1>12, <2>2
  <2>5. de[1 + j] = e[j] /\ e[j] = 0
    BY <1>6, <1>7, <1>10, <2>2
  <2> QED BY <2>1, <2>3, <2>4, <2>5
<1>25. PageSpelled(words, 0, page)
  <2>1. /\ 0 + 1 = 1 /\ 0 + 2 = 2 /\ 0 + 3 = 3 /\ 0 + 4 = 4 /\ 0 + 3 + h = 3 + h
        /\ 0 + 4 + h = 4 + h /\ 0 + 5 + h = 5 + h
        /\ \A j \in 1 .. Columns : 0 + 5 + h + j = 5 + h + j
    BY <1>2
  <2> QED BY <1>1, <1>16, <1>18, <1>19, <1>20, <1>22, <1>23, <1>24, <2>1, Zenon DEF PageSpelled
<1> QED BY <1>1, <1>5, <1>13, <1>15, <1>25

LEMMA ClsWords == \E pt : ClsSpelled(ClserScript, pt)
<1>1. PICK pages, seqs : pages = LastPage + 1 /\ seqs = [i \in 1 .. pages |-> PageScript(i - 1)]
  OBVIOUS
<1>2. LastPage \in Nat /\ pages \in Nat /\ pages # 0 /\ Columns \in Nat
  BY <1>1, PagesAssumption
<1>3. ASSUME NEW i \in 1 .. pages
      PROVE  /\ i - 1 \in 0 .. LastPage /\ seqs[i] = PageScript(i - 1)
             /\ seqs[i] \in Seq(Spoken)
             /\ Len(seqs[i]) = 5 + HomeBytes(i - 1) + Columns
             /\ PageSpelled(seqs[i], 0, i - 1)
  <2>1. i - 1 \in 0 .. LastPage /\ seqs[i] = PageScript(i - 1)
    BY <1>1, <1>2
  <2> QED BY <2>1, PageIs
<1>4. seqs \in Seq(Seq(Spoken)) /\ Len(seqs) = pages
  <2>1. FunctionIsSeq(seqs, pages, Seq(Spoken))
    BY <1>1, <1>3 DEF FunctionIsSeq
  <2> QED BY <1>1, <1>2, <2>1, ASequence
<1>5. PICK words : words = Flattened(seqs)
  OBVIOUS
<1>6. words = ClserScript
  BY <1>1, <1>5, JoinedIs, Zenon DEF ClserScript
<1>7. PICK pt \in [0 .. Len(seqs) -> Nat] : Placed(seqs, words, pt)
  BY <1>4, <1>5, Places
<1>8. /\ words \in Seq(Spoken) /\ pt \in [0 .. pages -> Nat] /\ pt[0] = 0
      /\ \A i \in 1 .. pages : pt[i] = pt[i - 1] + Len(seqs[i])
      /\ \A i, k \in 0 .. pages : i <= k => pt[i] <= pt[k]
      /\ Len(words) = pt[pages]
      /\ \A i \in 1 .. pages : \A j \in 1 .. Len(seqs[i]) : words[pt[i - 1] + j] = seqs[i][j]
  BY <1>4, <1>5, <1>7, Places DEF Placed
<1>9. ASSUME NEW page \in 0 .. LastPage
      PROVE  /\ pt[page + 1] = pt[page] + 5 + HomeBytes(page) + Columns
             /\ pt[page + 1] <= Len(words)
             /\ PageSpelled(words, pt[page], page)
  <2>1. PICK i, at, h, part : /\ i = page + 1 /\ at = pt[page] /\ h = HomeBytes(page)
                              /\ part = seqs[i]
    OBVIOUS
  <2>2. i \in 1 .. pages /\ i - 1 = page /\ i \in 0 .. pages /\ pages \in 0 .. pages /\ i <= pages
    BY <1>1, <1>2, <2>1
  <2>3. at \in Nat /\ h \in {0, 2} /\ (page = 0 => h = 2)
    BY <1>1, <1>2, <1>8, <2>1 DEF HomeBytes
  <2>4. Len(part) = 5 + h + Columns /\ PageSpelled(part, 0, page)
    BY <1>3, <2>1, <2>2
  <2>5. pt[page + 1] = at + Len(part) /\ pt[page + 1] <= Len(words)
    BY <1>8, <2>1, <2>2
  <2>6. ASSUME NEW j \in 1 .. 5 + h + Columns PROVE words[at + j] = part[j]
    BY <1>8, <2>1, <2>2, <2>4
  <2>7. /\ part[1] = StartWord /\ part[2] = DataWord(ControlCommand)
        /\ page = 0 => /\ part[3] = DataWord(SetLowerColumnAddress(0))
                       /\ part[4] = DataWord(SetHigherColumnAddress(0))
        /\ part[3 + h] = DataWord(SetPageAddress(page))
        /\ part[4 + h] = StartWord
        /\ part[5 + h] = DataWord(ControlData)
        /\ \A j \in 1 .. Columns : part[5 + h + j] = DataWord(0)
    <3>1. /\ 0 + 1 = 1 /\ 0 + 2 = 2 /\ 0 + 3 = 3 /\ 0 + 4 = 4 /\ 0 + 3 + h = 3 + h
          /\ 0 + 4 + h = 4 + h /\ 0 + 5 + h = 5 + h
          /\ \A j \in 1 .. Columns : 0 + 5 + h + j = 5 + h + j
      BY <1>2, <2>3
    <3> QED BY <2>1, <2>4, <3>1, Zenon DEF PageSpelled
  <2>8. /\ at + (3 + h) = at + 3 + h /\ at + (4 + h) = at + 4 + h /\ at + (5 + h) = at + 5 + h
        /\ \A j \in 1 .. Columns : at + (5 + h + j) = at + 5 + h + j
        /\ {1, 2, 3 + h, 4 + h, 5 + h} \subseteq 1 .. 5 + h + Columns
        /\ page = 0 => {3, 4} \subseteq 1 .. 5 + h + Columns
        /\ \A j \in 1 .. Columns : 5 + h + j \in 1 .. 5 + h + Columns
    BY <1>2, <2>3
  <2>9. /\ words[at + 1] = part[1] /\ words[at + 2] = part[2]
        /\ words[at + 3 + h] = part[3 + h] /\ words[at + 4 + h] = part[4 + h]
        /\ words[at + 5 + h] = part[5 + h]
        /\ page = 0 => words[at + 3] = part[3] /\ words[at + 4] = part[4]
    <3>1. /\ words[at + 1] = part[1] /\ words[at + 2] = part[2]
          /\ words[at + (3 + h)] = part[3 + h] /\ words[at + (4 + h)] = part[4 + h]
          /\ words[at + (5 + h)] = part[5 + h]
          /\ page = 0 => words[at + 3] = part[3] /\ words[at + 4] = part[4]
      BY <2>6, <2>8
    <3> QED BY <2>8, <3>1
  <2>10. ASSUME NEW j \in 1 .. Columns PROVE words[at + 5 + h + j] = DataWord(0)
    <3>1. words[at + (5 + h + j)] = part[5 + h + j]
      BY <2>6, <2>8
    <3> QED BY <2>7, <2>8, <3>1
  <2>11. PageSpelled(words, at, page)
    BY <2>1, <2>7, <2>9, <2>10, Zenon DEF PageSpelled
  <2>12. at + Len(part) = at + 5 + h + Columns
    BY <1>2, <2>3, <2>4
  <2> QED BY <2>1, <2>5, <2>11, <2>12
<1>10. IsScript(words)
  <2>1. 0 \in 0 .. LastPage
    BY <1>2
  <2>2. PageSpelled(words, pt[0], 0) /\ pt[0] = 0 /\ pt[0 + 1] <= Len(words)
        /\ pt[0 + 1] = pt[0] + 5 + HomeBytes(0) + Columns
    BY <1>8, <1>9, <2>1
  <2>3. words[0 + 1] = StartWord
    BY <2>2 DEF PageSpelled
  <2>4. words[0 + 2] \in ControlWords
    BY <2>2, ControlsAre DEF PageSpelled
  <2>5. 0 + 5 + 2 + Columns >= 2 /\ pt[0 + 1] = 0 + 5 + 2 + Columns /\ 0 + 5 + 2 + Columns <= Len(words)
    BY <1>2, <2>2 DEF HomeBytes
  <2>6. Len(words) >= 2
    BY <1>2, <1>8, <2>5
  <2> QED BY <1>8, <2>3, <2>4, <2>6 DEF IsScript
<1>11. ClsSpelled(words, pt)
  BY <1>1, <1>8, <1>9, <1>10 DEF ClsSpelled
<1> QED BY <1>6, <1>11

ClsAt(u, n, lag, words, pt) ==
  LET at == pt[u.page]
      h  == HomeBytes(u.page)
  IN
  \/ /\ u.fsm = "START_ADDR_STROBED_W_EN" /\ n = 1 /\ Offers(u, n, lag, words)
     /\ u.page = 0 /\ u.column = 0
  \/ /\ u.fsm = "START_ADDR_STROBED_STB" /\ n = at + 1 /\ lag = 2
     /\ Pauses(u, n, lag, words) /\ u.column = 0
  \/ /\ IsData(u.w) /\ Offers(u, n, lag, words)
     /\ \/ u.fsm = "START_CONTROL_STROBED_W_EN" /\ n = at + 2 /\ u.column = 0
        \/ u.fsm = "START_COL_LOWER_STROBED_W_EN" /\ u.page = 0 /\ n = at + 3 /\ u.column = 0
        \/ u.fsm = "START_COL_HIGHER_STROBED_W_EN" /\ u.page = 0 /\ n = at + 4 /\ u.column = 0
        \/ u.fsm = "LOOP_PAGE_STROBED_W_EN" /\ n = at + 3 + h /\ u.column = 0
        \/ u.fsm = "LOOP_CONTROL_STROBED_W_EN" /\ n = at + 5 + h + u.column
  \/ /\ Offers(u, n, lag, words) /\ u.column = 0
     /\ \/ u.fsm = "LOOP_ADDR_STROBED_W_EN" /\ n = at + 4 + h
        \/ u.fsm = "LOOP_NEXT_PAGE_ADDR_STROBED_W_EN" /\ n = at + 1 /\ n # 1
  \/ /\ IsData(u.w) /\ Pauses(u, n, lag, words) /\ u.stb = 0
     /\ \/ /\ u.fsm = "START_CONTROL_UNSTROBED_W_EN" /\ u.page = 0 /\ n = at + 2
           /\ lag = 2 /\ u.column = 0
        \/ /\ u.fsm = "START_COL_LOWER_UNSTROBED_W_EN" /\ u.page = 0 /\ n = at + 3
           /\ lag = 2 /\ u.column = 0
        \/ /\ u.fsm = "START_COL_HIGHER_UNSTROBED_W_EN" /\ n = at + 2 + h
           /\ lag = 2 /\ u.column = 0
        \/ /\ u.fsm = "LOOP_PAGE_UNSTROBED_W_EN" /\ n = at + 3 + h
           /\ lag = 2 /\ u.column = 0
        \/ /\ u.fsm = "LOOP_CONTROL_UNSTROBED_W_EN" /\ n = at + 5 + h + u.column
           /\ lag = IF u.column = Columns /\ u.page = LastPage THEN 4 ELSE 2
  \/ /\ u.fsm = "LOOP_ADDR_UNSTROBED_W_EN" /\ n = at + 4 + h /\ lag = 2
     /\ Pauses(u, n, lag, words) /\ u.stb = 0 /\ u.column = 0

ClsFields == {"fsm", "busy", "stb", "w_en", "w", "page", "column"}

LEMMA PutsAny ==
  ASSUME NEW u, NEW n, NEW lag, NEW words, NEW v, Pauses(u, n, lag, words), lag >= 2,
         Writable(in_fifo), v.w_en = 1, v.stb = 0, n + 1 \in 1 .. Len(words),
         v.w = words[n + 1]
  PROVE  PutsNext(u, n, lag, v, n + 1, 1) /\ Offers(v, n + 1, 1, words)
  BY DEF PutsNext, Offers, Pauses

LEMMA ClsGoes ==
  ASSUME NEW n, NEW lag, NEW words, NEW pt, NEW stb, ClsShape(cls), ClsStep(stb),
         ClsSpelled(words, pt), ClsAt(cls, n, lag, words, pt)
  PROVE  \/ Stops(cls, n, cls', words)
         \/ \E m, next : /\ ClsAt(cls', m, next, words, pt)
                         /\ Works(cls, n, lag, cls', m, next) /\ Minds(cls, n, cls', m, words)
<1>1. PICK at, h, page, column :
        at = pt[cls.page] /\ h = HomeBytes(cls.page) /\ page = cls.page /\ column = cls.column
  OBVIOUS
<1>2. /\ page \in 0 .. LastPage /\ column \in 0 .. Columns /\ ClsFields \subseteq DOMAIN cls
      /\ LastPage \in Nat /\ Columns \in Nat /\ h \in {0, 2} /\ (page = 0 <=> h = 2)
  BY <1>1, PagesAssumption DEF ClsShape, Shape, ClsCounts, ClsFields, HomeBytes
<1>3. /\ pt \in [0 .. LastPage + 1 -> Nat] /\ Len(words) = pt[LastPage + 1] /\ pt[0] = 0
      /\ pt[page + 1] = at + 5 + h + Columns /\ pt[page + 1] <= Len(words)
      /\ PageSpelled(words, at, page)
  BY <1>1, <1>2 DEF ClsSpelled
<1>4. at \in Nat /\ Len(words) \in Nat /\ at + 5 + h + Columns <= Len(words)
  <2>1. pt[page] \in Nat
    BY <1>2, <1>3
  <2> QED BY <1>1, <1>2, <1>3, <2>1
<1>5. /\ words[at + 1] = StartWord /\ words[at + 2] = DataWord(ControlCommand)
      /\ page = 0 => /\ words[at + 3] = DataWord(SetLowerColumnAddress(0))
                     /\ words[at + 4] = DataWord(SetHigherColumnAddress(0))
      /\ words[at + 3 + h] = DataWord(SetPageAddress(page))
      /\ words[at + 4 + h] = StartWord
      /\ words[at + 5 + h] = DataWord(ControlData)
      /\ \A j \in 1 .. Columns : words[at + 5 + h + j] = DataWord(0)
  BY <1>1, <1>3, Zenon DEF PageSpelled
<1> DEFINE Good == \/ Stops(cls, n, cls', words)
                   \/ \E m, next : /\ ClsAt(cls', m, next, words, pt)
                                   /\ Works(cls, n, lag, cls', m, next)
                                   /\ Minds(cls, n, cls', m, words)
<1> SUFFICES Good
  OBVIOUS
<1>55. ASSUME NEW m, NEW next, ClsAt(cls', m, next, words, pt)
       PROVE  cls'.fsm \notin {"LOOP_HEAD", "SEQ_BREAK_ADDRESSED_NEXTLEN1",
                               "SEQ_BREAK_ADDRESSED_FOLLOWING"}
  BY <1>55 DEF ClsAt
<1>6. ASSUME ClsAt(cls', n, lag, words, pt), WaitsOn(cls, n, lag, cls', n, lag)
      PROVE  Good
  <2>1. cls'.w_en = 0
    BY <1>6 DEF WaitsOn
  <2>2. Minds(cls, n, cls', n, words)
    BY <1>55, <1>6, <2>1, Heeds
  <2> QED BY <1>6, <2>2 DEF Works
<1>7. ASSUME NEW next, ClsAt(cls', n, next, words, pt), GivesWord(cls, n, cls', n)
      PROVE  Good
  <2>1. cls'.w_en = 0
    BY <1>7 DEF GivesWord
  <2>2. Minds(cls, n, cls', n, words)
    BY <1>55, <1>7, <2>1, Heeds
  <2> QED BY <1>7, <2>2 DEF Works
<1>8. ASSUME ClsAt(cls', n + 1, 1, words, pt), PutsNext(cls, n, lag, cls', n + 1, 1),
             Ready \/ words[n + 1] \in ControlWords
      PROVE  Good
  <2>1. Minds(cls, n, cls', n + 1, words)
    BY <1>55, <1>8, Heeds
  <2> QED BY <1>8, <2>1 DEF Works
<1>9. ASSUME cls' = Refused(cls), ~Ready, Pauses(cls, n, lag, words), cls.stb = 0, n # 1
      PROVE  Good
  <2>1. n \in Nat /\ n # 0 /\ {"fsm", "busy", "stb", "w_en", "w"} \subseteq DOMAIN cls
    BY <1>2, <1>4, <1>9 DEF Pauses, ClsFields
  <2>2. \/ Stops(cls, n, Refused(cls), words)
        \/ Refused(cls) = cls /\ WaitsOn(cls, n, lag, cls, n, lag)
    BY <1>9, <2>1, RefusedStops
  <2>3. CASE Refused(cls) = cls /\ WaitsOn(cls, n, lag, cls, n, lag)
    BY <1>6, <1>9, <2>3
  <2> QED BY <1>9, <2>2, <2>3
<1>10. CASE ClsAddrQueued
  <2>1. /\ cls.fsm = "START_ADDR_STROBED_W_EN"
        /\ cls' = Goto(Strobe(Release(cls), 1), "START_ADDR_STROBED_STB")
    BY <1>10 DEF ClsAddrQueued
  <2>2. n = 1 /\ Offers(cls, n, lag, words) /\ page = 0 /\ column = 0
    BY <1>1, <2>1 DEF ClsAt
  <2>3. /\ cls'.fsm = "START_ADDR_STROBED_STB" /\ cls'.page = page /\ cls'.column = column
        /\ cls'.w_en = 0 /\ cls'.stb = 1
    BY <1>1, <1>2, <2>1 DEF Goto, Strobe, Release, ClsFields
  <2>4. Pauses(cls', n, 2, words) /\ GivesWord(cls, n, cls', n)
    BY <2>2, <2>3 DEF Pauses, Offers, Bit, GivesWord
  <2>5. n = at + 1
    BY <1>1, <1>3, <2>2
  <2>6. ClsAt(cls', n, 2, words, pt)
    BY <1>1, <2>2, <2>3, <2>4, <2>5 DEF ClsAt
  <2> QED BY <1>7, <2>4, <2>6
<1>11. CASE ClsControl
  <2>1. cls.fsm = "START_ADDR_STROBED_STB"
    BY <1>11 DEF ClsControl
  <2>2. n = at + 1 /\ lag = 2 /\ Pauses(cls, n, lag, words) /\ column = 0
    BY <1>1, <2>1 DEF ClsAt
  <2>3. CASE Writable(in_fifo)
    <3>1. cls' = Goto(PutData(Strobe(cls, 0), ControlCommand), "START_CONTROL_STROBED_W_EN")
      BY <1>11, <2>3 DEF ClsControl
    <3>2. /\ cls'.fsm = "START_CONTROL_STROBED_W_EN" /\ cls'.page = page /\ cls'.column = column
          /\ cls'.w_en = 1 /\ cls'.stb = 0 /\ cls'.w = DataWord(ControlCommand)
      BY <1>1, <1>2, <3>1 DEF Goto, Strobe, PutData, ClsFields
    <3>3. n + 1 = at + 2 /\ n + 1 \in 1 .. Len(words)
      BY <1>2, <1>4, <2>2
    <3>4. cls'.w = words[n + 1]
      BY <1>5, <3>2, <3>3
    <3>5. PutsNext(cls, n, lag, cls', n + 1, 1) /\ Offers(cls', n + 1, 1, words)
      BY <2>2, <2>3, <3>2, <3>3, <3>4, PutsAny
    <3>6. IsData(cls'.w)
      BY <3>2 DEF IsData, DataWord
    <3>7. ClsAt(cls', n + 1, 1, words, pt)
      BY <1>1, <2>2, <3>2, <3>3, <3>5, <3>6 DEF ClsAt
    <3>8. words[n + 1] \in ControlWords
      BY <1>5, <3>3, ControlsAre
    <3> QED BY <1>8, <3>5, <3>7, <3>8
  <2>4. CASE ~Writable(in_fifo)
    <3>1. cls' = Strobe(cls, 0)
      BY <1>11, <2>4 DEF ClsControl
    <3>2. /\ cls'.fsm = cls.fsm /\ cls'.w_en = cls.w_en /\ cls'.stb = 0
          /\ cls'.page = page /\ cls'.column = column
      BY <1>1, <1>2, <3>1 DEF Strobe, ClsFields
    <3>3. Pauses(cls', n, lag, words) /\ WaitsOn(cls, n, lag, cls', n, lag)
      BY <2>2, <2>4, <3>2 DEF Pauses, WaitsOn, Bit, Queued, Readable, Writable
    <3>4. ClsAt(cls', n, lag, words, pt)
      BY <1>1, <2>1, <2>2, <3>2, <3>3 DEF ClsAt
    <3> QED BY <1>6, <3>3, <3>4
  <2> QED BY <2>3, <2>4
\* A word has been given to the queue.
<1>12. ASSUME NEW to, cls' = Goto(Release(cls), to), Offers(cls, n, lag, words), n # 1
       PROVE  /\ GivesWord(cls, n, cls', n) /\ cls'.fsm = to /\ cls'.stb = 0
              /\ Pauses(cls', n, 2, words) /\ Pauses(cls', n, 4, words)
              /\ cls'.page = page /\ cls'.column = column
              /\ IsData(cls.w) => IsData(cls'.w)
  <2>1. /\ cls'.fsm = to /\ cls'.w_en = 0 /\ cls'.stb = cls.stb
        /\ cls'.page = page /\ cls'.column = column
        /\ cls'.w = [cls.w EXCEPT !.data = ZeroByte]
    BY <1>1, <1>2, <1>12 DEF Goto, Release, ClsFields
  <2>2. /\ GivesWord(cls, n, cls', n) /\ cls'.stb = 0
        /\ Pauses(cls', n, 2, words) /\ Pauses(cls', n, 4, words)
    BY <1>12, <2>1 DEF Offers, GivesWord, Pauses, Bit
  <2>3. ASSUME IsData(cls.w) PROVE IsData(cls'.w)
    <3>1. PICK d : cls.w = [kind |-> "DATA", data |-> d]
      BY <2>3 DEF IsData
    <3>2. cls'.w = [kind |-> "DATA", data |-> ZeroByte]
      BY <2>1, <3>1
    <3> QED BY <3>2 DEF IsData
  <2> QED BY <2>1, <2>2, <2>3
<1>13. CASE ClsStrobed("START_CONTROL_STROBED_W_EN",
                       IF cls.page = 0 THEN "START_CONTROL_UNSTROBED_W_EN"
                                       ELSE "START_COL_HIGHER_UNSTROBED_W_EN")
  <2>1. /\ cls.fsm = "START_CONTROL_STROBED_W_EN"
        /\ cls' = Goto(Release(cls), IF page = 0 THEN "START_CONTROL_UNSTROBED_W_EN"
                                     ELSE "START_COL_HIGHER_UNSTROBED_W_EN")
    BY <1>1, <1>13 DEF ClsStrobed
  <2>2. n = at + 2 /\ column = 0 /\ Offers(cls, n, lag, words) /\ IsData(cls.w)
    BY <1>1, <2>1 DEF ClsAt
  <2>3. n # 1 /\ (page # 0 => n = at + 2 + h)
    BY <1>2, <1>4, <2>2
  <2>4. /\ GivesWord(cls, n, cls', n) /\ cls'.stb = 0 /\ Pauses(cls', n, 2, words)
        /\ cls'.page = page /\ cls'.column = column /\ IsData(cls'.w)
        /\ cls'.fsm = (IF page = 0 THEN "START_CONTROL_UNSTROBED_W_EN"
                       ELSE "START_COL_HIGHER_UNSTROBED_W_EN")
    BY <1>12, <2>1, <2>2, <2>3
  <2>5. ClsAt(cls', n, 2, words, pt)
    BY <1>1, <2>2, <2>3, <2>4 DEF ClsAt
  <2> QED BY <1>7, <2>4, <2>5
<1>14. CASE ClsStrobed("START_COL_LOWER_STROBED_W_EN", "START_COL_LOWER_UNSTROBED_W_EN")
  <2>1. /\ cls.fsm = "START_COL_LOWER_STROBED_W_EN"
        /\ cls' = Goto(Release(cls), "START_COL_LOWER_UNSTROBED_W_EN")
    BY <1>14 DEF ClsStrobed
  <2>2. n = at + 3 /\ page = 0 /\ column = 0 /\ Offers(cls, n, lag, words) /\ IsData(cls.w)
    BY <1>1, <2>1 DEF ClsAt
  <2>3. n # 1
    BY <1>4, <2>2
  <2>4. ClsAt(cls', n, 2, words, pt) /\ GivesWord(cls, n, cls', n)
    BY <1>1, <1>12, <2>1, <2>2, <2>3 DEF ClsAt
  <2> QED BY <1>7, <2>4
<1>15. CASE ClsStrobed("START_COL_HIGHER_STROBED_W_EN", "START_COL_HIGHER_UNSTROBED_W_EN")
  <2>1. /\ cls.fsm = "START_COL_HIGHER_STROBED_W_EN"
        /\ cls' = Goto(Release(cls), "START_COL_HIGHER_UNSTROBED_W_EN")
    BY <1>15 DEF ClsStrobed
  <2>2. n = at + 4 /\ page = 0 /\ column = 0 /\ Offers(cls, n, lag, words) /\ IsData(cls.w)
    BY <1>1, <2>1 DEF ClsAt
  <2>3. n # 1 /\ n = at + 2 + h
    BY <1>2, <1>4, <2>2
  <2>4. ClsAt(cls', n, 2, words, pt) /\ GivesWord(cls, n, cls', n)
    BY <1>1, <1>12, <2>1, <2>2, <2>3 DEF ClsAt
  <2> QED BY <1>7, <2>4
<1>16. CASE ClsStrobed("LOOP_PAGE_STROBED_W_EN", "LOOP_PAGE_UNSTROBED_W_EN")
  <2>1. /\ cls.fsm = "LOOP_PAGE_STROBED_W_EN"
        /\ cls' = Goto(Release(cls), "LOOP_PAGE_UNSTROBED_W_EN")
    BY <1>16 DEF ClsStrobed
  <2>2. n = at + 3 + h /\ column = 0 /\ Offers(cls, n, lag, words) /\ IsData(cls.w)
    BY <1>1, <2>1 DEF ClsAt
  <2>3. n # 1
    BY <1>2, <1>4, <2>2
  <2>4. ClsAt(cls', n, 2, words, pt) /\ GivesWord(cls, n, cls', n)
    BY <1>1, <1>12, <2>1, <2>2, <2>3 DEF ClsAt
  <2> QED BY <1>7, <2>4
<1>17. CASE ClsStrobed("LOOP_ADDR_STROBED_W_EN", "LOOP_ADDR_UNSTROBED_W_EN")
  <2>1. /\ cls.fsm = "LOOP_ADDR_STROBED_W_EN"
        /\ cls' = Goto(Release(cls), "LOOP_ADDR_UNSTROBED_W_EN")
    BY <1>17 DEF ClsStrobed
  <2>2. n = at + 4 + h /\ column = 0 /\ Offers(cls, n, lag, words)
    BY <1>1, <2>1 DEF ClsAt
  <2>3. n # 1
    BY <1>2, <1>4, <2>2
  <2>4. ClsAt(cls', n, 2, words, pt) /\ GivesWord(cls, n, cls', n)
    BY <1>1, <1>12, <2>1, <2>2, <2>3 DEF ClsAt
  <2> QED BY <1>7, <2>4
<1>18. CASE ClsStrobed("LOOP_CONTROL_STROBED_W_EN", "LOOP_CONTROL_UNSTROBED_W_EN")
  <2>1. /\ cls.fsm = "LOOP_CONTROL_STROBED_W_EN"
        /\ cls' = Goto(Release(cls), "LOOP_CONTROL_UNSTROBED_W_EN")
    BY <1>18 DEF ClsStrobed
  <2>2. n = at + 5 + h + column /\ Offers(cls, n, lag, words) /\ IsData(cls.w)
    BY <1>1, <2>1 DEF ClsAt
  <2>3. n # 1
    BY <1>2, <1>4, <2>2
  <2>4. PICK next : next = IF column = Columns /\ page = LastPage THEN 4 ELSE 2
    OBVIOUS
  <2>5. ClsAt(cls', n, next, words, pt) /\ GivesWord(cls, n, cls', n)
    BY <1>1, <1>12, <2>1, <2>2, <2>3, <2>4 DEF ClsAt
  <2> QED BY <1>7, <2>5
<1>19. CASE ClsStrobed("LOOP_NEXT_PAGE_ADDR_STROBED_W_EN", "START_ADDR_STROBED_STB")
  <2>1. /\ cls.fsm = "LOOP_NEXT_PAGE_ADDR_STROBED_W_EN"
        /\ cls' = Goto(Release(cls), "START_ADDR_STROBED_STB")
    BY <1>19 DEF ClsStrobed
  <2>2. n = at + 1 /\ n # 1 /\ column = 0 /\ Offers(cls, n, lag, words)
    BY <1>1, <2>1 DEF ClsAt
  <2>3. ClsAt(cls', n, 2, words, pt) /\ GivesWord(cls, n, cls', n)
    BY <1>1, <1>12, <2>1, <2>2 DEF ClsAt
  <2> QED BY <1>7, <2>3
\* The next byte is put.
<1>20. ASSUME NEW to, NEW b, cls' = Goto(PutNext(cls, b), to), Pauses(cls, n, lag, words),
              lag = 2, IsData(cls.w), cls.stb = 0, Ready, n + 1 \in 1 .. Len(words),
              words[n + 1] = DataWord(b)
       PROVE  /\ PutsNext(cls, n, lag, cls', n + 1, 1) /\ Offers(cls', n + 1, 1, words)
              /\ cls'.fsm = to /\ cls'.page = page /\ cls'.column = column /\ IsData(cls'.w)
  <2>1. /\ cls'.fsm = to /\ cls'.w_en = 1 /\ cls'.stb = cls.stb
        /\ cls'.page = page /\ cls'.column = column
        /\ cls'.w = [cls.w EXCEPT !.data = ByteOf(b)]
    BY <1>1, <1>2, <1>20 DEF Goto, PutNext, ClsFields
  <2>2. PICK d : cls.w = [kind |-> "DATA", data |-> d]
    BY <1>20 DEF IsData
  <2>3. cls'.w = DataWord(b)
    BY <2>1, <2>2 DEF DataWord
  <2>4. IsData(cls'.w)
    BY <2>3 DEF IsData, DataWord
  <2>5. Writable(in_fifo) /\ lag >= 2 /\ cls'.w = words[n + 1] /\ cls'.stb = 0
    BY <1>20, <2>1, <2>3 DEF Ready
  <2> QED BY <1>20, <2>1, <2>4, <2>5, PutsAny
<1>21. CASE ClsSend("START_CONTROL_UNSTROBED_W_EN", SetLowerColumnAddress(0),
                    "START_COL_LOWER_STROBED_W_EN")
  <2>1. /\ cls.fsm = "START_CONTROL_UNSTROBED_W_EN"
        /\ cls' = IF Ready THEN Goto(PutNext(cls, SetLowerColumnAddress(0)),
                                     "START_COL_LOWER_STROBED_W_EN")
                  ELSE Refused(cls)
    BY <1>21 DEF ClsSend
  <2>2. /\ n = at + 2 /\ lag = 2 /\ page = 0 /\ column = 0 /\ Pauses(cls, n, lag, words)
        /\ IsData(cls.w) /\ cls.stb = 0
    BY <1>1, <2>1 DEF ClsAt
  <2>3. CASE Ready
    <3>1. n + 1 = at + 3 /\ n + 1 \in 1 .. Len(words)
      BY <1>2, <1>4, <2>2
    <3>2. ClsAt(cls', n + 1, 1, words, pt) /\ PutsNext(cls, n, lag, cls', n + 1, 1)
      BY <1>1, <1>5, <1>20, <2>1, <2>2, <2>3, <3>1 DEF ClsAt
    <3> QED BY <1>8, <2>3, <3>2
  <2>4. n # 1
    BY <1>2, <1>4, <2>2
  <2> QED BY <1>9, <2>1, <2>2, <2>3, <2>4
<1>22. CASE ClsSend("START_COL_LOWER_UNSTROBED_W_EN", SetHigherColumnAddress(0),
                    "START_COL_HIGHER_STROBED_W_EN")
  <2>1. /\ cls.fsm = "START_COL_LOWER_UNSTROBED_W_EN"
        /\ cls' = IF Ready THEN Goto(PutNext(cls, SetHigherColumnAddress(0)),
                                     "START_COL_HIGHER_STROBED_W_EN")
                  ELSE Refused(cls)
    BY <1>22 DEF ClsSend
  <2>2. /\ n = at + 3 /\ lag = 2 /\ page = 0 /\ column = 0 /\ Pauses(cls, n, lag, words)
        /\ IsData(cls.w) /\ cls.stb = 0
    BY <1>1, <2>1 DEF ClsAt
  <2>3. CASE Ready
    <3>1. n + 1 = at + 4 /\ n + 1 \in 1 .. Len(words)
      BY <1>2, <1>4, <2>2
    <3>2. ClsAt(cls', n + 1, 1, words, pt) /\ PutsNext(cls, n, lag, cls', n + 1, 1)
      BY <1>1, <1>5, <1>20, <2>1, <2>2, <2>3, <3>1 DEF ClsAt
    <3> QED BY <1>8, <2>3, <3>2
  <2>4. n # 1
    BY <1>2, <1>4, <2>2
  <2> QED BY <1>9, <2>1, <2>2, <2>3, <2>4
<1>23. CASE ClsSend("START_COL_HIGHER_UNSTROBED_W_EN", SetPageAddress(cls.page),
                    "LOOP_PAGE_STROBED_W_EN")
  <2>1. /\ cls.fsm = "START_COL_HIGHER_UNSTROBED_W_EN"
        /\ cls' = IF Ready THEN Goto(PutNext(cls, SetPageAddress(page)), "LOOP_PAGE_STROBED_W_EN")
                  ELSE Refused(cls)
    BY <1>1, <1>23 DEF ClsSend
  <2>2. /\ n = at + 2 + h /\ lag = 2 /\ column = 0 /\ Pauses(cls, n, lag, words)
        /\ IsData(cls.w) /\ cls.stb = 0
    BY <1>1, <2>1 DEF ClsAt
  <2>3. CASE Ready
    <3>1. n + 1 = at + 3 + h /\ n + 1 \in 1 .. Len(words)
      BY <1>2, <1>4, <2>2
    <3>2. ClsAt(cls', n + 1, 1, words, pt) /\ PutsNext(cls, n, lag, cls', n + 1, 1)
      BY <1>1, <1>5, <1>20, <2>1, <2>2, <2>3, <3>1 DEF ClsAt
    <3> QED BY <1>8, <2>3, <3>2
  <2>4. n # 1
    BY <1>2, <1>4, <2>2
  <2> QED BY <1>9, <2>1, <2>2, <2>3, <2>4
<1>24. CASE ClsDataStart
  <2>1. /\ cls.fsm = "LOOP_PAGE_UNSTROBED_W_EN"
        /\ cls' = IF Ready THEN Goto(PutStart(cls), "LOOP_ADDR_STROBED_W_EN") ELSE Refused(cls)
    BY <1>24 DEF ClsDataStart
  <2>2. /\ n = at + 3 + h /\ lag = 2 /\ column = 0 /\ Pauses(cls, n, lag, words) /\ cls.stb = 0
    BY <1>1, <2>1 DEF ClsAt
  <2>3. CASE Ready
    <3>1. n + 1 = at + 4 + h /\ n + 1 \in 1 .. Len(words)
      BY <1>2, <1>4, <2>2
    <3>2. /\ cls'.fsm = "LOOP_ADDR_STROBED_W_EN" /\ cls'.page = page /\ cls'.column = column
          /\ cls'.w_en = 1 /\ cls'.stb = 0 /\ cls'.w = StartWord
      BY <1>1, <1>2, <2>1, <2>2, <2>3 DEF Goto, PutStart, ClsFields
    <3>3. Writable(in_fifo) /\ cls'.w = words[n + 1] /\ lag >= 2
      BY <1>5, <2>2, <2>3, <3>1, <3>2 DEF Ready
    <3>4. PutsNext(cls, n, lag, cls', n + 1, 1) /\ Offers(cls', n + 1, 1, words)
      BY <2>2, <3>1, <3>2, <3>3, PutsAny
    <3>5. ClsAt(cls', n + 1, 1, words, pt)
      BY <1>1, <2>2, <3>1, <3>2, <3>4 DEF ClsAt
    <3> QED BY <1>8, <2>3, <3>4, <3>5
  <2>4. n # 1
    BY <1>2, <1>4, <2>2
  <2> QED BY <1>9, <2>1, <2>2, <2>3, <2>4
<1>25. CASE ClsDataControl
  <2>1. /\ cls.fsm = "LOOP_ADDR_UNSTROBED_W_EN"
        /\ cls' = IF Writable(in_fifo) THEN Goto(PutData(cls, ControlData), "LOOP_CONTROL_STROBED_W_EN")
                  ELSE cls
    BY <1>25 DEF ClsDataControl
  <2>2. /\ n = at + 4 + h /\ lag = 2 /\ column = 0 /\ Pauses(cls, n, lag, words) /\ cls.stb = 0
    BY <1>1, <2>1 DEF ClsAt
  <2>3. CASE Writable(in_fifo)
    <3>1. n + 1 = at + 5 + h /\ n + 1 = at + 5 + h + 0 /\ n + 1 \in 1 .. Len(words)
      BY <1>2, <1>4, <2>2
    <3>2. /\ cls'.fsm = "LOOP_CONTROL_STROBED_W_EN" /\ cls'.page = page /\ cls'.column = column
          /\ cls'.w_en = 1 /\ cls'.stb = 0 /\ cls'.w = DataWord(ControlData)
      BY <1>1, <1>2, <2>1, <2>2, <2>3 DEF Goto, PutData, ClsFields
    <3>3. cls'.w = words[n + 1] /\ lag >= 2 /\ IsData(cls'.w)
      BY <1>5, <2>2, <3>1, <3>2 DEF IsData, DataWord
    <3>4. PutsNext(cls, n, lag, cls', n + 1, 1) /\ Offers(cls', n + 1, 1, words)
      BY <2>2, <2>3, <3>1, <3>2, <3>3, PutsAny
    <3>5. ClsAt(cls', n + 1, 1, words, pt)
      BY <1>1, <2>2, <3>1, <3>2, <3>3, <3>4 DEF ClsAt
    <3>6. words[n + 1] \in ControlWords
      BY <1>5, <3>1, ControlsAre
    <3> QED BY <1>8, <3>4, <3>5, <3>6
  <2>4. CASE ~Writable(in_fifo)
    <3>1. cls' = cls
      BY <2>1, <2>4
    <3>2. WaitsOn(cls, n, lag, cls', n, lag)
      BY <2>2, <2>4, <3>1 DEF Pauses, WaitsOn, Queued, Readable, Writable
    <3>3. ClsAt(cls', n, lag, words, pt)
      BY <3>1
    <3> QED BY <1>6, <3>2, <3>3
  <2> QED BY <2>3, <2>4
<1>26. CASE ClsLoop
  <2>1. cls.fsm = "LOOP_CONTROL_UNSTROBED_W_EN"
    BY <1>26 DEF ClsLoop
  <2>2. /\ n = at + 5 + h + column /\ lag = (IF column = Columns /\ page = LastPage THEN 4 ELSE 2)
        /\ Pauses(cls, n, lag, words) /\ IsData(cls.w) /\ cls.stb = 0
    BY <1>1, <2>1 DEF ClsAt
  <2>3. CASE /\ Ready /\ cls.column # Columns
             /\ cls' = Goto(PutNext([cls EXCEPT !.column = @ + 1], 0), "LOOP_CONTROL_STROBED_W_EN")
    <3>1. /\ cls'.fsm = "LOOP_CONTROL_STROBED_W_EN" /\ cls'.page = page
          /\ cls'.column = column + 1 /\ cls'.w_en = 1 /\ cls'.stb = 0
          /\ cls'.w = [cls.w EXCEPT !.data = ByteOf(0)]
      BY <1>1, <1>2, <2>2, <2>3 DEF Goto, PutNext, ClsFields
    <3>2. PICK d : cls.w = [kind |-> "DATA", data |-> d]
      BY <2>2 DEF IsData
    <3>3. cls'.w = DataWord(0)
      BY <3>1, <3>2 DEF DataWord
    <3>4. /\ n + 1 = at + 5 + h + (column + 1) /\ column + 1 \in 1 .. Columns
          /\ n + 1 \in 1 .. Len(words)
      <4>1. column \in 0 .. Columns /\ column # Columns
        BY <1>1, <1>2, <2>3
      <4>2. n = at + 5 + h + column /\ at + 5 + h + Columns <= Len(words)
        BY <1>4, <2>2
      <4> QED BY <1>2, <1>4, <4>1, <4>2
    <3>5. /\ cls'.w = words[n + 1] /\ lag >= 2 /\ IsData(cls'.w) /\ Writable(in_fifo)
      <4>1. words[at + 5 + h + (column + 1)] = DataWord(0)
        BY <1>5, <3>4
      <4>2. cls'.w = words[n + 1]
        BY <3>3, <3>4, <4>1
      <4>3. IsData(cls'.w) /\ lag >= 2
        BY <2>2, <3>3 DEF IsData, DataWord
      <4> QED BY <2>3, <4>2, <4>3 DEF Ready
    <3>6. PutsNext(cls, n, lag, cls', n + 1, 1) /\ Offers(cls', n + 1, 1, words)
      BY <2>2, <3>1, <3>4, <3>5, PutsAny
    <3>7. ClsAt(cls', n + 1, 1, words, pt)
      BY <1>1, <3>1, <3>4, <3>5, <3>6 DEF ClsAt
    <3> QED BY <1>8, <2>3, <3>6, <3>7
  <2>4. CASE /\ Ready /\ cls.column = Columns /\ cls.page # LastPage
             /\ cls' = Goto(PutStart([cls EXCEPT !.column = 0, !.page = @ + 1]),
                            "LOOP_NEXT_PAGE_ADDR_STROBED_W_EN")
    <3>1. /\ cls'.fsm = "LOOP_NEXT_PAGE_ADDR_STROBED_W_EN" /\ cls'.page = page + 1
          /\ cls'.column = 0 /\ cls'.w_en = 1 /\ cls'.stb = 0 /\ cls'.w = StartWord
      BY <1>1, <1>2, <2>2, <2>4 DEF Goto, PutStart, ClsFields
    <3>2. page + 1 \in 0 .. LastPage
      BY <1>1, <1>2, <2>4
    <3>3. n = pt[page + 1]
      BY <1>1, <1>3, <2>2, <2>4
    <3>4. words[n + 1] = StartWord /\ n + 5 <= Len(words)
      <4>1. PageSpelled(words, n, page + 1)
        BY <3>2, <3>3 DEF ClsSpelled
      <4>2. pt[(page + 1) + 1] = n + 5 + HomeBytes(page + 1) + Columns /\ pt[(page + 1) + 1] <= Len(words)
        BY <3>2, <3>3 DEF ClsSpelled
      <4>3. HomeBytes(page + 1) \in {0, 2}
        BY DEF HomeBytes
      <4> QED BY <1>2, <1>4, <2>2, <4>1, <4>2, <4>3 DEF PageSpelled
    <3>5. n + 1 \in 1 .. Len(words) /\ n + 1 # 1 /\ lag >= 2 /\ Writable(in_fifo)
          /\ cls'.w = words[n + 1]
      <4>1. lag >= 2 /\ n \in Nat /\ n # 0
        BY <1>2, <1>4, <2>2
      <4> QED BY <1>4, <2>4, <3>1, <3>4, <4>1 DEF Ready
    <3>6. PutsNext(cls, n, lag, cls', n + 1, 1) /\ Offers(cls', n + 1, 1, words)
      BY <2>2, <3>1, <3>5, PutsAny
    <3>7. ClsAt(cls', n + 1, 1, words, pt)
      BY <3>1, <3>3, <3>5, <3>6 DEF ClsAt
    <3> QED BY <1>8, <2>4, <3>6, <3>7
  <2>5. CASE Ready /\ cls.column = Columns /\ cls.page = LastPage /\ cls' = Done(cls)
    <3>1. n = Len(words) /\ cls.w_en = 0 /\ n \notin {0, 1}
      <4>1. column = Columns /\ page = LastPage
        BY <1>1, <2>5
      <4>2. n = pt[page + 1] /\ n = at + 5 + h + column
        BY <1>3, <2>2, <4>1
      <4>3. h \in {0, 2} /\ column \in Nat
        BY <1>1, <1>2 DEF HomeBytes
      <4>4. n \notin {0, 1}
        BY <1>4, <4>2, <4>3
      <4> QED BY <1>3, <2>2, <4>1, <4>2, <4>4 DEF Pauses
    <3>2. cls' = [[cls EXCEPT !.busy = 0] EXCEPT !.fsm = "IDLE"]
      BY <2>5 DEF Done, Goto
    <3>3. cls'.fsm = "IDLE" /\ cls'.busy = 0 /\ cls'.stb = 0
      BY <1>2, <2>2, <3>2 DEF ClsFields
    <3>4. Stops(cls, n, cls', words)
      BY <2>2, <2>5, <3>1, <3>3 DEF Stops
    <3> QED BY <3>4
  <2>6. CASE ~Ready /\ cls' = Refused(cls)
    <3>1. n # 1
      BY <1>2, <1>4, <2>2
    <3> QED BY <1>9, <2>2, <2>6, <3>1
  <2> HIDE DEF Good
  <2> QED BY <1>26, <2>3, <2>4, <2>5, <2>6 DEF ClsLoop
<1>27. CASE ClsIdle(stb)
  <2>1. cls.fsm = "IDLE"
    BY <1>27 DEF ClsIdle
  <2> QED BY <2>1 DEF ClsAt
<1> HIDE DEF Good
<1> QED BY <1>10, <1>11, <1>13, <1>14, <1>15, <1>16, <1>17, <1>18, <1>19, <1>21, <1>22, <1>23,
           <1>24, <1>25, <1>26, <1>27 DEF ClsStep

-------------------------------------------------------------------------------
(***************************************************************************)
(* The units that read the ROM: what they put on their lines.              *)
(***************************************************************************)
\* code is what the unit makes of the ROM's byte.
Hands(u, v, code) ==
  /\ v.stb = (IF u.fsm = "ADDRESS_PERIPHERAL_LATCHED_W_EN" THEN 1
              ELSE IF u.fsm = "LOOP_HEAD" THEN 0 ELSE u.stb)
  /\ v.fsm \in {"ADDRESS_PERIPHERAL_LATCHED_W_EN", "SEQ_BREAK_LATCHED_W_EN"} =>
       v.w = StartWord
  /\ v.fsm = "SEND_LATCHED_W_EN" => v.w = DataWord(code)
  /\ u.fsm = "LOOP_HEAD" /\ v.fsm = "LOOP_HEAD" => ~Writable(in_fifo)
  /\ u.fsm = "SEND_WAIT_FOR_I2C" /\ v.fsm = u.fsm => busy # 0 /\ ~Ready
  /\ u.fsm = "SEND_WAIT_FOR_I2C" /\ v.fsm = "LOOP_HEAD" => Ready
  /\ u.fsm = "FIN_WAIT_I2C_DONE" /\ v.fsm = u.fsm => busy # 0
  /\ u.fsm \in {"SEND_WAIT_FOR_I2C", "FIN_WAIT_I2C_DONE"} /\ v.fsm = "IDLE" => busy = 0

\* Scroller's count of bytes, and the position.
Counts(u, v) ==
  /\ v.written = (IF v.fsm = "SEND_LATCHED_W_EN" THEN u.written + 1 ELSE u.written)
  /\ v.adjusted = u.adjusted

LEMMA WrCommonHands ==
  ASSUME ROMShape(wr), WrCommonStep, NEW code
  PROVE  Hands(wr, wr', code)
<1>0. ROMFields \subseteq DOMAIN wr
  BY DEF ROMShape
<1> DEFINE Good == Hands(wr, wr', code)
<1> SUFFICES Good
  OBVIOUS
<1>1. CASE WrAddressedOffset0
  BY <1>0, <1>1
     DEF WrAddressedOffset0, Goto, Hands, ROMFields
<1>2. CASE WrAddressedOffset1
  BY <1>0, <1>2
     DEF WrAddressedOffset1, Goto, Hands, ROMFields
<1>3. CASE WrAddressedLen0
  BY <1>0, <1>3
     DEF WrAddressedLen0, Goto, Hands, ROMFields
<1>4. CASE WrAddressedLen1
  BY <1>0, <1>4
     DEF WrAddressedLen1, Goto, Hands, ROMFields
<1>5. CASE WrAddressedData
  BY <1>0, <1>5
     DEF WrAddressedData, Goto, PutStart, Hands, ROMFields
<1>6. CASE WrAddressPeripheral
  BY <1>0, <1>6
     DEF WrAddressPeripheral, Goto, Strobe, Release, Hands, ROMFields
<1>7. CASE WrPartEnds
  BY <1>0, <1>7
     DEF WrPartEnds, Goto, Strobe, NextByte, Hands, ROMFields
<1>8. CASE WrSendLatched
  BY <1>0, <1>8
     DEF WrSendLatched, Goto, Release, Hands, ROMFields
<1>9. CASE WrNextLen0
  BY <1>0, <1>9
     DEF WrNextLen0, Goto, NextByte, Hands, ROMFields
<1>10. CASE WrSeqBreakLatched
  BY <1>0, <1>10
     DEF WrSeqBreakLatched, Goto, Release, Hands, ROMFields
<1>11. CASE WrWaitForI2C
  <2>1. CASE Ready
    BY <1>0, <1>11, <2>1 DEF WrWaitForI2C, Goto, Hands, ROMFields
  <2>2. CASE ~Ready
    BY <1>0, <1>11, <2>2
       DEF WrWaitForI2C, Refused, Done, Goto, Hands, ROMFields
  <2> QED BY <2>1, <2>2
<1>12. CASE WrNextLen1
  <2>1. CASE wr.remain + 256 * rom_data = 0
    BY <1>0, <1>12, <2>1 DEF WrNextLen1, Goto, Hands, ROMFields
  <2>2. CASE wr.remain + 256 * rom_data # 0
    BY <1>0, <1>12, <2>2
       DEF WrNextLen1, Goto, PutStart, Hands, ROMFields
  <2> QED BY <2>1, <2>2
<1> HIDE DEF Good
<1> QED BY <1>1, <1>2, <1>3, <1>4, <1>5, <1>6, <1>7, <1>8, <1>9, <1>10, <1>11, <1>12
        DEF WrCommonStep

LEMMA CopyStart == Copy!StartWord = StartWord
  BY DEF Copy!StartWord, StartWord, Copy!ByteOf, ByteOf, Copy!W, W

LEMMA CopyCommonHands ==
  ASSUME ScrShape, Copy!WrCommonStep, NEW code
  PROVE  Hands(scr, scr', code) /\ Counts(scr, scr')
<1>0. ROMFields \cup {"written", "adjusted"} \subseteq DOMAIN scr
  BY DEF ScrShape, ROMShape
<1> DEFINE Good == Hands(scr, scr', code) /\ Counts(scr, scr')
<1> SUFFICES Good
  OBVIOUS
<1>1. CASE Copy!WrAddressedOffset0
  BY <1>0, <1>1
     DEF Copy!WrAddressedOffset0, Copy!Goto, Hands, ROMFields, Counts
<1>2. CASE Copy!WrAddressedOffset1
  BY <1>0, <1>2
     DEF Copy!WrAddressedOffset1, Copy!Goto, Hands, ROMFields, Counts
<1>3. CASE Copy!WrAddressedLen0
  BY <1>0, <1>3
     DEF Copy!WrAddressedLen0, Copy!Goto, Hands, ROMFields, Counts
<1>4. CASE Copy!WrAddressedLen1
  BY <1>0, <1>4
     DEF Copy!WrAddressedLen1, Copy!Goto, Hands, ROMFields, Counts
<1>5. CASE Copy!WrAddressedData
  BY <1>0, <1>5, CopyStart
     DEF Copy!WrAddressedData, Copy!Goto, Copy!PutStart, Hands, ROMFields, Counts
<1>6. CASE Copy!WrAddressPeripheral
  BY <1>0, <1>6
     DEF Copy!WrAddressPeripheral, Copy!Goto, Copy!Strobe, Copy!Release, Hands, ROMFields, Counts
<1>7. CASE Copy!WrPartEnds
  BY <1>0, <1>7
     DEF Copy!WrPartEnds, Copy!Goto, Copy!Strobe, Copy!NextByte, Hands, ROMFields, Counts
<1>8. CASE Copy!WrSendLatched
  BY <1>0, <1>8
     DEF Copy!WrSendLatched, Copy!Goto, Copy!Release, Hands, ROMFields, Counts
<1>9. CASE Copy!WrNextLen0
  BY <1>0, <1>9
     DEF Copy!WrNextLen0, Copy!Goto, Copy!NextByte, Hands, ROMFields, Counts
<1>10. CASE Copy!WrSeqBreakLatched
  BY <1>0, <1>10
     DEF Copy!WrSeqBreakLatched, Copy!Goto, Copy!Release, Hands, ROMFields, Counts
<1>11. CASE Copy!WrWaitForI2C
  <2>1. CASE Copy!Ready
    BY <1>0, <1>11, <2>1
       DEF Copy!WrWaitForI2C, Copy!Goto, Copy!Ready, Copy!Writable, Ready, Writable, Hands, ROMFields, Counts
  <2>2. CASE ~Copy!Ready
    BY <1>0, <1>11, <2>2
       DEF Copy!WrWaitForI2C, Copy!Refused, Copy!Done, Copy!Goto, Copy!Ready, Copy!Writable, Ready, Writable, Hands, ROMFields, Counts
  <2> QED BY <2>1, <2>2
<1>12. CASE Copy!WrNextLen1
  <2>1. CASE scr.remain + 256 * rom_data = 0
    BY <1>0, <1>12, <2>1 DEF Copy!WrNextLen1, Copy!Goto, Hands, ROMFields, Counts
  <2>2. CASE scr.remain + 256 * rom_data # 0
    BY <1>0, <1>12, <2>2, CopyStart
       DEF Copy!WrNextLen1, Copy!Goto, Copy!PutStart, Hands, ROMFields, Counts
  <2> QED BY <2>1, <2>2
<1> HIDE DEF Good
<1> QED BY <1>1, <1>2, <1>3, <1>4, <1>5, <1>6, <1>7, <1>8, <1>9, <1>10, <1>11, <1>12
        DEF Copy!WrCommonStep

LEMMA WrHands ==
  ASSUME NEW stb, NEW index, ROMShape(wr), WrStep(stb, index)
  PROVE  Hands(wr, wr', rom_data)
<1>0. ROMFields \subseteq DOMAIN wr
  BY DEF ROMShape
<1>1. CASE WrCommonStep
  BY <1>1, WrCommonHands
<1>2. CASE WrIdle(stb, index)
  BY <1>0, <1>2 DEF WrIdle, Forget, Goto, Hands, ROMFields
<1>3. CASE WrSend(rom_data)
  <2>1. CASE Writable(in_fifo)
    BY <1>0, <1>3, <2>1 DEF WrSend, Goto, NextByte, PutData, Strobe, Hands, ROMFields
  <2>2. CASE ~Writable(in_fifo)
    BY <1>0, <1>3, <2>2 DEF WrSend, Strobe, Hands, ROMFields
  <2> QED BY <2>1, <2>2
<1>4. CASE WrFinish
  BY <1>0, <1>4 DEF WrFinish, Refused, Done, Goto, Hands, ROMFields
<1> QED BY <1>1, <1>2, <1>3, <1>4 DEF WrStep

LEMMA ScrHands ==
  ASSUME NEW stb, NEW rst, ScrShape, ScrStep(stb, rst)
  PROVE  /\ Hands(scr, scr', Patched(rom_data))
         /\ scr.fsm # "IDLE" => Counts(scr, scr') \/ scr'.fsm = "IDLE"
         /\ scr.fsm = "IDLE" /\ stb = 1 => scr'.fsm = "START_ADDRESSED_OFFSET0"
         /\ scr.fsm = "IDLE" /\ scr'.fsm # "IDLE" => scr'.written = 0
         /\ scr.fsm = "IDLE" /\ rst # 1 => scr'.adjusted = scr.adjusted
<1>0. ROMFields \cup {"written", "adjusted"} \subseteq DOMAIN scr
  BY DEF ScrShape, ROMShape
<1> DEFINE Good ==
      /\ Hands(scr, scr', Patched(rom_data))
      /\ scr.fsm # "IDLE" => Counts(scr, scr') \/ scr'.fsm = "IDLE"
      /\ scr.fsm = "IDLE" /\ stb = 1 => scr'.fsm = "START_ADDRESSED_OFFSET0"
      /\ scr.fsm = "IDLE" /\ scr'.fsm # "IDLE" => scr'.written = 0
      /\ scr.fsm = "IDLE" /\ rst # 1 => scr'.adjusted = scr.adjusted
<1> SUFFICES Good
  OBVIOUS
<1>1. CASE Copy!WrCommonStep
  <2>1. scr.fsm # "IDLE"
    BY <1>1, CopyCommonMoves DEF CommonMoves, ScrShape
  <2> QED BY <1>1, <2>1, CopyCommonHands
<1>2. CASE ScrIdle(stb, rst)
  <2>1. PICK s : s = [Copy!Forget(scr) EXCEPT !.written = 0,
                                             !.adjusted = IF rst = 1 THEN 0 ELSE @]
    OBVIOUS
  <2>2. /\ scr.fsm = "IDLE" /\ DOMAIN s = DOMAIN scr /\ s.fsm = "IDLE" /\ s.written = 0
        /\ s.stb = scr.stb /\ (rst # 1 => s.adjusted = scr.adjusted)
    BY <1>0, <1>2, <2>1 DEF ScrIdle, ROMFields, Copy!Forget
  <2>3. CASE stb = 1
    <3>1. scr' = Goto([s EXCEPT !.busy = 1, !.addr = 4 * OFFSET_SCROLL],
                      "START_ADDRESSED_OFFSET0")
      BY <1>2, <2>1, <2>3 DEF ScrIdle
    <3>2. /\ scr'.fsm = "START_ADDRESSED_OFFSET0" /\ scr'.written = 0
          /\ scr'.adjusted = s.adjusted /\ scr'.stb = s.stb
      BY <1>0, <2>2, <3>1 DEF Goto, ROMFields
    <3> QED BY <2>2, <3>2 DEF Hands
  <2>4. CASE stb # 1
    <3>1. scr' = s
      BY <1>2, <2>1, <2>4 DEF ScrIdle
    <3> QED BY <2>2, <2>4, <3>1 DEF Hands
  <2> QED BY <2>3, <2>4
<1>3. CASE ScrSend
  <2>1. CASE Writable(in_fifo)
    BY <1>0, <1>3, <2>1
       DEF ScrSend, Goto, Copy!NextByte, PutData, Strobe, Count, Hands, Counts, ROMFields
  <2>2. CASE ~Writable(in_fifo)
    BY <1>0, <1>3, <2>2 DEF ScrSend, Strobe, Hands, Counts, ROMFields
  <2> QED BY <2>1, <2>2
<1>4. CASE ScrFinish
  BY <1>0, <1>4 DEF ScrFinish, Refused, Done, Goto, Hands, Counts, ROMFields
<1> HIDE DEF Good
<1> QED BY <1>1, <1>2, <1>3, <1>4 DEF ScrStep

-------------------------------------------------------------------------------
(***************************************************************************)
(* A script made of parts: part i's bytes follow their START, and end at   *)
(* st[i].                                                                  *)
(***************************************************************************)
PartSpelled(words, at, part) ==
  /\ words[at + 1] = StartWord
  /\ \A j \in 1 .. Len(part) : words[at + 1 + j] = DataWord(part[j])
  /\ Len(part) # 0 => words[at + 2] \in ControlWords

PartsSpelled(words, parts, st) ==
  /\ IsScript(words) /\ st \in [0 .. Len(parts) -> Nat] /\ st[0] = 0
  /\ Len(words) = st[Len(parts)]
  /\ \A i \in 1 .. Len(parts) :
       /\ st[i] = st[i - 1] + Len(parts[i]) + 1 /\ st[i] <= Len(words)
       /\ PartSpelled(words, st[i - 1], parts[i])

LEMMA PartsWords ==
  ASSUME NEW parts \in Seq(Seq(Nat)), Len(parts) # 0, Len(parts[1]) # 0,
         \A i \in 1 .. Len(parts) : Len(parts[i]) # 0 => parts[i][1] \in ControlBytes
  PROVE  \E st : PartsSpelled(PartsScript(parts), parts, st)
<1>1. PICK n, seqs : n = Len(parts) /\ seqs = [i \in DOMAIN parts |-> Transmission(parts[i])]
  OBVIOUS
<1>2. n \in Nat /\ n # 0 /\ DOMAIN parts = 1 .. n
  BY <1>1, LenProperties
<1>3. ASSUME NEW i \in 1 .. n
      PROVE  /\ seqs[i] \in Seq(Spoken) /\ Len(parts[i]) \in Nat
             /\ Len(seqs[i]) = Len(parts[i]) + 1 /\ seqs[i][1] = StartWord
             /\ \A j \in 1 .. Len(parts[i]) : seqs[i][j + 1] = DataWord(parts[i][j])
  <2>1. parts[i] \in Seq(Nat) /\ seqs[i] = Transmission(parts[i])
    BY <1>1, <1>2, ElementOfSeq
  <2>2. Len(parts[i]) \in Nat
    BY <2>1, LenProperties
  <2> QED BY <2>1, <2>2, TransmissionIs
<1>4. seqs \in Seq(Seq(Spoken)) /\ Len(seqs) = n
  <2>1. FunctionIsSeq(seqs, n, Seq(Spoken))
    BY <1>1, <1>2, <1>3 DEF FunctionIsSeq
  <2> QED BY <1>2, <2>1, ASequence
<1>5. PICK words : words = Flattened(seqs)
  OBVIOUS
<1>6. words = PartsScript(parts)
  BY <1>1, <1>5, JoinedIs, Zenon DEF PartsScript
<1>7. PICK st \in [0 .. Len(seqs) -> Nat] : Placed(seqs, words, st)
  BY <1>4, <1>5, Places
<1>8. /\ words \in Seq(Spoken) /\ st \in [0 .. n -> Nat] /\ st[0] = 0
      /\ \A i \in 1 .. n : st[i] = st[i - 1] + Len(seqs[i])
      /\ \A i, k \in 0 .. n : i <= k => st[i] <= st[k]
      /\ Len(words) = st[n]
      /\ \A i \in 1 .. n : \A j \in 1 .. Len(seqs[i]) : words[st[i - 1] + j] = seqs[i][j]
  BY <1>4, <1>5, <1>7, Places DEF Placed
<1>9. ASSUME NEW i \in 1 .. n
      PROVE  /\ st[i] = st[i - 1] + Len(parts[i]) + 1 /\ st[i] <= Len(words)
             /\ PartSpelled(words, st[i - 1], parts[i])
  <2>1. PICK at, part, s : at = st[i - 1] /\ part = parts[i] /\ s = seqs[i]
    OBVIOUS
  <2>2. /\ i - 1 \in 0 .. n /\ i \in 0 .. n /\ n \in 0 .. n /\ i <= n
    BY <1>2
  <2>3. at \in Nat /\ Len(part) \in Nat /\ Len(s) = Len(part) + 1
    BY <1>3, <1>8, <2>1, <2>2
  <2>4. st[i] = at + Len(s) /\ st[i] <= Len(words)
    BY <1>8, <2>1, <2>2
  <2>5. ASSUME NEW j \in 1 .. Len(part) + 1 PROVE words[at + j] = s[j]
    BY <1>8, <2>1, <2>3
  <2>6. words[at + 1] = StartWord
    <3>1. 1 \in 1 .. Len(part) + 1
      BY <2>3
    <3>2. words[at + 1] = s[1]
      BY <2>5, <3>1
    <3> QED BY <1>3, <2>1, <3>2
  <2>7. ASSUME NEW j \in 1 .. Len(part) PROVE words[at + 1 + j] = DataWord(part[j])
    <3>1. at + (j + 1) = at + 1 + j /\ j + 1 \in 1 .. Len(part) + 1
      BY <2>3
    <3>2. words[at + (j + 1)] = s[j + 1]
      BY <2>5, <3>1
    <3>3. s[j + 1] = DataWord(part[j])
      BY <1>3, <2>1
    <3> QED BY <3>1, <3>2, <3>3
  <2>8. st[i] = at + Len(part) + 1
    BY <2>3, <2>4
  <2>9. ASSUME Len(part) # 0 PROVE words[at + 2] \in ControlWords
    <3>1. 1 \in 1 .. Len(part) /\ at + 1 + 1 = at + 2
      BY <2>3, <2>9
    <3>2. words[at + 2] = DataWord(part[1])
      BY <2>7, <3>1
    <3>3. part[1] \in ControlBytes
      BY <1>1, <2>1, <2>9
    <3> QED BY <3>2, <3>3 DEF ControlWords
  <2> QED BY <2>1, <2>4, <2>6, <2>7, <2>8, <2>9 DEF PartSpelled
<1>10. IsScript(words)
  <2>1. 1 \in 1 .. n /\ 1 - 1 = 0
    BY <1>2
  <2>2. /\ words[0 + 1] = StartWord /\ st[1] = 0 + Len(parts[1]) + 1 /\ st[1] <= Len(words)
        /\ words[0 + 2] \in ControlWords
    BY <1>8, <1>9, <2>1 DEF PartSpelled
  <2>3. Len(parts[1]) \in Nat /\ Len(words) \in Nat
    BY <1>2, <1>3, <1>8, <2>1
  <2>4. Len(words) >= 2
    BY <2>2, <2>3
  <2> QED BY <1>8, <2>2, <2>4 DEF IsScript
<1>11. PartsSpelled(words, parts, st)
  BY <1>1, <1>8, <1>9, <1>10 DEF PartsSpelled
<1> QED BY <1>6, <1>11

-------------------------------------------------------------------------------
(***************************************************************************)
(* A unit that reads the ROM, in its script: in part i of the k-th         *)
(* command, of which parts has the bytes (patched, for Scroller).          *)
(***************************************************************************)
Alike(parts, k) ==
  /\ Len(parts) = Len(Commands[k])
  /\ \A i \in 1 .. Len(parts) : Len(parts[i]) = Len(Commands[k][i])

\* How soon the word behind the unit's last comes.
PauseOf(u, k, i) ==
  IF u.remain # 0 THEN (IF u.fsm = "LOOP_HEAD" THEN 2 ELSE 3)
  ELSE IF Following(k, i) = 0 THEN 0
  ELSE IF u.fsm = "LOOP_HEAD" THEN 4 ELSE 5

InPart(u, data, k, i, n, lag, words, st) ==
  /\ i \in DOMAIN Commands[k] /\ Within(u, TRUE, k, i) /\ n + u.remain = st[i]
  /\ \/ /\ u.fsm \in {"ADDRESS_PERIPHERAL_LATCHED_W_EN", "SEQ_BREAK_LATCHED_W_EN"}
        /\ Offers(u, n, lag, words) /\ u.remain = Len(Commands[k][i])
        /\ u.fsm = "ADDRESS_PERIPHERAL_LATCHED_W_EN" <=> n = 1
     \/ u.fsm = "SEND_LATCHED_W_EN" /\ Offers(u, n, lag, words) /\ n # 1
     \/ /\ u.fsm = "SEND_WAIT_FOR_I2C" /\ Pauses(u, n, lag, words)
        /\ u.stb = 0 /\ lag = PauseOf(u, k, i) /\ n # 1
     \/ /\ u.fsm = "LOOP_HEAD" /\ Pauses(u, n, lag, words)
        /\ data = ROMByte(u.addr) /\ lag = PauseOf(u, k, i)

BehindPart(u, data, k, i, n, lag, words, st) ==
  /\ i \in DOMAIN Commands[k] /\ PastPart(u, data, TRUE, k, i) /\ n = st[i]
  /\ Pauses(u, n, lag, words) /\ u.stb = 0
  /\ lag = IF Following(k, i) = 0 THEN 0
           ELSE IF u.fsm = "SEQ_BREAK_ADDRESSED_NEXTLEN1" THEN 3 ELSE 2

ROMAt(u, data, k, i, n, lag, words, st) ==
  \/ Finding(u, data, k) /\ i = 0 /\ n = 0 /\ lag = 2 /\ u.stb = 0
  \/ InPart(u, data, k, i, n, lag, words, st)
  \/ BehindPart(u, data, k, i, n, lag, words, st)
  \/ /\ u.fsm = "FIN_WAIT_I2C_DONE" /\ i \in Nat
     /\ n = Len(words) /\ lag = 0 /\ Pauses(u, n, lag, words) /\ u.stb = 0

LEMMA ROMFits ==
  ASSUME NEW u, NEW data, NEW k, NEW i, NEW n, NEW lag, NEW words, NEW st,
         ROMShape(u), IsScript(words), ROMAt(u, data, k, i, n, lag, words, st)
  PROVE  Fits(u, n, lag, words)
<1>1. Offers(u, n, lag, words) \/ Pauses(u, n, lag, words) => Fits(u, n, lag, words)
  BY ScriptFits
<1>2. CASE Finding(u, data, k) /\ n = 0 /\ lag = 2 /\ u.stb = 0
  <2>1. u.fsm \notin ROMPutting
    BY <1>2 DEF Finding, ROMPutting
  <2>2. u.w_en = 0
    BY <2>1 DEF ROMShape, Shape
  <2>3. /\ Len(words) \in Nat /\ Len(words) >= 2 /\ words[1] = StartWord
        /\ words[2] \in ControlWords /\ words = [j \in 1 .. Len(words) |-> words[j]]
    BY LenProperties DEF IsScript
  <2> QED BY <1>2, <2>2, <2>3 DEF Fits, Bit
<1> QED BY <1>1, <1>2 DEF ROMAt, InPart, BehindPart

\* What one more word in a part is, and where.
LEMMA PartHas ==
  ASSUME NEW k \in DOMAIN Commands, NEW i \in DOMAIN Commands[k], NEW words, NEW parts,
         NEW st, PartsSpelled(words, parts, st), Alike(parts, k)
  PROVE  /\ st[i - 1] \in Nat /\ st[i] \in Nat /\ Len(words) \in Nat
         /\ i \in Nat /\ i # 0 /\ Len(Commands[k][i]) \in Nat
         /\ st[i] = st[i - 1] + Len(Commands[k][i]) + 1 /\ st[i] <= Len(words)
         /\ words[st[i - 1] + 1] = StartWord
         /\ \A j \in 1 .. Len(Commands[k][i]) :
              words[st[i - 1] + 1 + j] = DataWord(parts[i][j])
         /\ Len(Commands[k][i]) # 0 => words[st[i - 1] + 2] \in ControlWords
         /\ Following(k, i) = 0 => st[i] = Len(words)
         /\ i = 1 => st[i - 1] = 0
<1>1. PICK m : m = Len(parts)
  OBVIOUS
<1>2. Commands[k] \in Seq(Seq(0 .. 255))
  BY CommandsAre
<1>3. m \in Nat /\ i \in 1 .. m
  BY <1>1, <1>2, LenProperties DEF Alike
<1>4. i - 1 \in 0 .. m /\ i \in 0 .. m /\ i \in Nat /\ i # 0
  BY <1>3
<1>5. st[i - 1] \in Nat /\ st[i] \in Nat
  BY <1>1, <1>4 DEF PartsSpelled
<1>6. Len(words) \in Nat
  BY LenProperties DEF PartsSpelled, IsScript
<1>7. /\ Len(parts[i]) = Len(Commands[k][i])
      /\ st[i] = st[i - 1] + Len(parts[i]) + 1 /\ st[i] <= Len(words)
      /\ PartSpelled(words, st[i - 1], parts[i])
  BY <1>1, <1>3 DEF PartsSpelled, Alike
<1>8. Len(Commands[k][i]) \in Nat /\ (Following(k, i) = 0 => i = Len(Commands[k]))
  BY PartLaid
<1>9. Following(k, i) = 0 => st[i] = Len(words)
  BY <1>8 DEF PartsSpelled, Alike
<1>10. i = 1 => st[i - 1] = 0
  <2>1. i = 1 => i - 1 = 0
    OBVIOUS
  <2> QED BY <2>1 DEF PartsSpelled
<1> QED BY <1>4, <1>5, <1>6, <1>7, <1>8, <1>9, <1>10 DEF PartSpelled

\* How many bytes a step queues.
Queuing(v) == IF v.fsm = "SEND_LATCHED_W_EN" THEN 1 ELSE 0

Proceeds(u, v, data2, k, i, n, lag, words, st) ==
  \/ Stops(u, n, v, words) /\ busy = 0
  \/ \E j, m, next : /\ ROMAt(v, data2, k, j, m, next, words, st)
                     /\ Works(u, n, lag, v, m, next) /\ Minds(u, n, v, m, words)
                     /\ m - j = n - i + Queuing(v)

LEMMA StartIsNone == StartWord \notin ControlWords
<1>1. ASSUME NEW b, StartWord = DataWord(b) PROVE FALSE
  <2>1. StartWord.kind = "START" /\ DataWord(b).kind = "DATA"
    BY DEF StartWord, DataWord
  <2> QED BY <1>1, <2>1
<1> QED BY <1>1 DEF ControlWords

LEMMA ROMFinds ==
  ASSUME NEW u, NEW v, NEW start, NEW index, NEW data, NEW data2, NEW code,
         NEW k \in DOMAIN Commands, NEW i, NEW n, NEW lag, NEW words, NEW parts, NEW st,
         ROMShape(u), ROMShape(v), Moves(u, v, start, index, data, Writable(in_fifo)),
         Hands(u, v, code), Puts(u, v, ROMPutting, Writable(in_fifo)),
         data2 = ROMByte(u.addr), PartsSpelled(words, parts, st), Alike(parts, k),
         Finding(u, data, k), i = 0, n = 0, lag = 2, u.stb = 0
  PROVE  Proceeds(u, v, data2, k, i, n, lag, words, st)
<1>1. u.fsm \in {"START_ADDRESSED_OFFSET0", "START_ADDRESSED_OFFSET1",
                 "START_ADDRESSED_LEN0", "START_ADDRESSED_LEN1", "START_ADDRESSED_DATA"}
  BY DEF Finding
<1>2. LooksUp(u, v, data)
  BY <1>1 DEF Moves, Forgets, Rests, Begins, Sends, EndsPart
<1>3. u.w_en = 0 /\ v.stb = 0
  BY <1>1 DEF ROMShape, Shape, ROMPutting, Hands
<1>4. CASE Finding(v, data2, k)
  <2>1. /\ v.fsm \notin ROMPutting /\ v.fsm # "SEND_LATCHED_W_EN"
        /\ v.fsm \notin {"LOOP_HEAD", "SEQ_BREAK_ADDRESSED_NEXTLEN1",
                         "SEQ_BREAK_ADDRESSED_FOLLOWING"}
    BY <1>4 DEF Finding, ROMPutting
  <2>2. v.w_en = 0 /\ Queuing(v) = 0
    BY <2>1 DEF ROMShape, Shape, Queuing
  <2>3. WaitsOn(u, n, lag, v, 0, 2)
    BY <1>3, <2>2 DEF WaitsOn
  <2>4. ROMAt(v, data2, k, 0, 0, 2, words, st)
    BY <1>3, <1>4 DEF ROMAt
  <2>5. Minds(u, n, v, 0, words)
    BY <2>1, <2>2, Heeds
  <2> QED BY <2>2, <2>3, <2>4, <2>5 DEF Proceeds, Works
<1>5. CASE /\ v.fsm = "ADDRESS_PERIPHERAL_LATCHED_W_EN"
           /\ v.remain = Len(Commands[k][1]) /\ \A room : Within(v, room, k, 1)
  <2>1. v.w_en = 1 /\ v.w = StartWord /\ Queuing(v) = 0
    BY <1>5 DEF ROMShape, Shape, ROMPutting, Hands, Queuing
  <2>2. 1 \in DOMAIN Commands[k]
    BY FirstPart
  <2>3. /\ st[1 - 1] = 0 /\ st[1] = st[1 - 1] + Len(Commands[k][1]) + 1
        /\ words[st[1 - 1] + 1] = StartWord /\ Len(Commands[k][1]) \in Nat
        /\ st[1] <= Len(words) /\ Len(words) \in Nat
    BY <2>2, PartHas
  <2>4. 1 + v.remain = st[1] /\ words[1] = StartWord /\ 1 \in 1 .. Len(words)
    BY <1>5, <2>3
  <2>5. Offers(v, 1, 1, words)
    BY <1>3, <2>1, <2>4 DEF Offers
  <2>6. PutsNext(u, n, lag, v, 1, 1)
    BY <1>3, <2>1 DEF PutsNext
  <2>7. InPart(v, data2, k, 1, 1, 1, words, st)
    BY <1>5, <2>2, <2>4, <2>5 DEF InPart
  <2>8. 1 - 1 = n - i + Queuing(v)
    BY <2>1
  <2>9. Minds(u, n, v, 1, words)
    BY <1>5 DEF Minds, Bold
  <2> QED BY <2>6, <2>7, <2>8, <2>9 DEF Proceeds, Works, ROMAt
<1> QED BY <1>2, <1>4, <1>5, WalkFinds

LEMMA ROMBehind ==
  ASSUME NEW u, NEW v, NEW start, NEW index, NEW data, NEW data2, NEW code,
         NEW k \in DOMAIN Commands, NEW i, NEW n, NEW lag, NEW words, NEW parts, NEW st,
         ROMShape(u), ROMShape(v), Moves(u, v, start, index, data, Writable(in_fifo)),
         Hands(u, v, code), Puts(u, v, ROMPutting, Writable(in_fifo)),
         data2 = ROMByte(u.addr), PartsSpelled(words, parts, st), Alike(parts, k),
         BehindPart(u, data, k, i, n, lag, words, st)
  PROVE  Proceeds(u, v, data2, k, i, n, lag, words, st)
<1>1. /\ i \in DOMAIN Commands[k] /\ PastPart(u, data, TRUE, k, i) /\ n = st[i]
      /\ Pauses(u, n, lag, words) /\ u.stb = 0
      /\ lag = IF Following(k, i) = 0 THEN 0
               ELSE IF u.fsm = "SEQ_BREAK_ADDRESSED_NEXTLEN1" THEN 3 ELSE 2
  BY DEF BehindPart
<1>2. u.fsm \in {"SEQ_BREAK_ADDRESSED_NEXTLEN1", "SEQ_BREAK_ADDRESSED_FOLLOWING"}
  BY <1>1 DEF PastPart
<1>3. EndsPart(u, v, data)
  BY <1>2 DEF Moves, Forgets, Rests, Begins, LooksUp, Sends
<1>4. /\ u.w_en = 0 /\ v.stb = 0 /\ n \in 1 .. Len(words) /\ u.fsm \notin ROMPutting
  BY <1>1, <1>2 DEF Pauses, Hands, ROMPutting
<1>5. /\ st[i] \in Nat /\ Len(words) \in Nat /\ i \in Nat
      /\ Following(k, i) = 0 => st[i] = Len(words)
  BY <1>1, PartHas
<1>6. Keeps(u, TRUE, TRUE)
  BY DEF Keeps
<1>7. CASE /\ u.fsm = "SEQ_BREAK_ADDRESSED_NEXTLEN1"
           /\ v.fsm = "SEQ_BREAK_ADDRESSED_FOLLOWING" /\ PastPart(v, data2, TRUE, k, i)
  <2>1. v.w_en = 0 /\ Queuing(v) = 0
    BY <1>7 DEF ROMShape, Shape, ROMPutting, Queuing
  <2>2. PICK next : next = IF Following(k, i) = 0 THEN 0 ELSE 2
    OBVIOUS
  <2>3. Pauses(v, n, next, words)
    BY <1>1, <1>4, <1>5, <2>1, <2>2 DEF Pauses, Bit
  <2>4. WaitsOn(u, n, lag, v, n, next)
    BY <1>1, <1>4, <1>7, <2>1, <2>2 DEF WaitsOn
  <2>5. BehindPart(v, data2, k, i, n, next, words, st)
    BY <1>1, <1>4, <1>7, <2>2, <2>3 DEF BehindPart
  <2>6. n - i = n - i + Queuing(v)
    BY <1>4, <1>5, <2>1
  <2>7. Minds(u, n, v, n, words)
    BY <1>4, <1>7, <2>1 DEF Minds, Bold
  <2> QED BY <2>4, <2>5, <2>6, <2>7 DEF Proceeds, Works, ROMAt
<1>8. CASE /\ u.fsm = "SEQ_BREAK_ADDRESSED_FOLLOWING" /\ Following(k, i) = 0
           /\ v.fsm = "FIN_WAIT_I2C_DONE"
  <2>1. v.w_en = 0 /\ Queuing(v) = 0
    BY <1>8 DEF ROMShape, Shape, ROMPutting, Queuing
  <2>2. n = Len(words) /\ lag = 0
    BY <1>1, <1>5, <1>8
  <2>3. Pauses(v, n, 0, words)
    BY <1>4, <2>1, <2>2 DEF Pauses, Bit
  <2>4. WaitsOn(u, n, lag, v, n, 0)
    BY <1>4, <2>1, <2>2 DEF WaitsOn
  <2>5. ROMAt(v, data2, k, i, n, 0, words, st)
    BY <1>4, <1>5, <1>8, <2>2, <2>3 DEF ROMAt
  <2>6. n - i = n - i + Queuing(v)
    BY <1>4, <1>5, <2>1
  <2>7. Minds(u, n, v, n, words)
    BY <1>8, <2>1, Heeds
  <2> QED BY <2>4, <2>5, <2>6, <2>7 DEF Proceeds, Works
<1>9. CASE /\ u.fsm = "SEQ_BREAK_ADDRESSED_FOLLOWING" /\ Following(k, i) # 0
           /\ v.fsm = "SEQ_BREAK_LATCHED_W_EN"
           /\ \E j \in DOMAIN Commands[k] :
                j = i + 1 /\ v.remain = Len(Commands[k][j]) /\ Within(v, TRUE, k, j)
  <2>1. PICK j \in DOMAIN Commands[k] :
          j = i + 1 /\ v.remain = Len(Commands[k][j]) /\ Within(v, TRUE, k, j)
    BY <1>9
  <2>2. v.w_en = 1 /\ v.w = StartWord /\ Writable(in_fifo) /\ Queuing(v) = 0
    BY <1>9 DEF ROMShape, Shape, ROMPutting, Firsts, Hands, Puts, Queuing
  <2>3. /\ j - 1 = i /\ st[j] = st[j - 1] + Len(Commands[k][j]) + 1
        /\ words[st[j - 1] + 1] = StartWord /\ Len(Commands[k][j]) \in Nat
        /\ st[j] <= Len(words)
    <3>1. j - 1 = i
      BY <1>5, <2>1
    <3> QED BY <3>1, PartHas
  <2>4. PICK m : m = n + 1
    OBVIOUS
  <2>5. /\ m + v.remain = st[j] /\ words[m] = StartWord /\ m \in 1 .. Len(words) /\ m # 1
    <3>1. PICK l : l = Len(Commands[k][j])
      OBVIOUS
    <3>2. st[j] = n + l + 1 /\ words[n + 1] = StartWord /\ l \in Nat /\ v.remain = l
      BY <1>1, <2>1, <2>3, <3>1
    <3>3. n \in Nat /\ n # 0 /\ n + l + 1 <= Len(words)
      BY <1>4, <1>5, <2>3, <3>2
    <3> QED BY <1>5, <2>4, <3>2, <3>3
  <2>6. Offers(v, m, 1, words)
    BY <1>4, <2>2, <2>5 DEF Offers
  <2>7. PutsNext(u, n, lag, v, m, 1)
    BY <1>1, <1>4, <1>9, <2>2, <2>4 DEF PutsNext
  <2>8. InPart(v, data2, k, j, m, 1, words, st)
    BY <1>9, <2>1, <2>5, <2>6 DEF InPart
  <2>9. m - j = n - i + Queuing(v)
    BY <1>4, <1>5, <2>1, <2>2, <2>4
  <2>10. Bold(u, n, words) \/ words[m] \in ControlWords
    <3>1. CASE n = 1
      BY <2>4, <3>1 DEF PartsSpelled, IsScript
    <3>2. CASE n # 1
      BY <1>4, <1>5, <1>9, <2>4, <2>5, <3>2, StartIsNone DEF Bold
    <3> QED BY <3>1, <3>2
  <2>11. Minds(u, n, v, m, words)
    BY <1>9, <2>10 DEF Minds, Bold
  <2> QED BY <2>7, <2>8, <2>9, <2>11 DEF Proceeds, Works, ROMAt
<1> QED
  <2>1. TRUE \in BOOLEAN
    OBVIOUS
  <2> QED BY <1>1, <1>3, <1>6, <1>7, <1>8, <1>9, <2>1, WalkOn

LEMMA ROMInPart ==
  ASSUME NEW u, NEW v, NEW start, NEW index, NEW data, NEW data2, NEW code,
         NEW k \in DOMAIN Commands, NEW i, NEW n, NEW lag, NEW words, NEW parts, NEW st,
         ROMShape(u), ROMShape(v), Moves(u, v, start, index, data, Writable(in_fifo)),
         Hands(u, v, code), Puts(u, v, ROMPutting, Writable(in_fifo)),
         data2 = ROMByte(u.addr), PartsSpelled(words, parts, st), Alike(parts, k),
         u.fsm = "LOOP_HEAD" /\ u.remain # 0 =>
           code = parts[i][Len(parts[i]) - u.remain + 1],
         InPart(u, data, k, i, n, lag, words, st)
  PROVE  Proceeds(u, v, data2, k, i, n, lag, words, st)
<1>1. i \in DOMAIN Commands[k] /\ Within(u, TRUE, k, i) /\ n + u.remain = st[i]
  BY DEF InPart
<1>2. u.fsm \in {"ADDRESS_PERIPHERAL_LATCHED_W_EN", "LOOP_HEAD", "SEND_LATCHED_W_EN",
                 "SEND_WAIT_FOR_I2C", "SEQ_BREAK_LATCHED_W_EN"}
  BY <1>1 DEF Within
<1>3. PICK l, f : l = Len(Commands[k][i]) /\ f = Following(k, i)
  OBVIOUS
<1>4. /\ st[i] \in Nat /\ Len(words) \in Nat /\ i \in Nat /\ l \in Nat
      /\ f = 0 => st[i] = Len(words)
      /\ st[i] = st[i - 1] + l + 1 /\ st[i - 1] \in Nat /\ st[i] <= Len(words)
      /\ \A j \in 1 .. l : words[st[i - 1] + 1 + j] = DataWord(parts[i][j])
      /\ l # 0 => words[st[i - 1] + 2] \in ControlWords
      /\ Len(parts[i]) = l
  <2>1. Len(parts[i]) = l
    <3>1. Commands[k] \in Seq(Seq(0 .. 255))
      BY CommandsAre
    <3>2. i \in 1 .. Len(parts)
      BY <1>1, <3>1, LenProperties DEF Alike
    <3> QED BY <1>3, <3>2 DEF Alike
  <2> QED BY <1>1, <1>3, <2>1, PartHas
<1>5. n \in 1 .. Len(words) /\ u.remain \in 0 .. l
  BY <1>1, <1>3 DEF InPart, Offers, Pauses, Within
<1>6. u.remain = 0 /\ f = 0 => n = Len(words)
  BY <1>1, <1>4, <1>5
<1>7. u.addr = u.offset /\ TRUE \in BOOLEAN /\ Keeps(u, TRUE, TRUE)
  BY <1>1 DEF Within, Keeps
<1>8. Rests(u, v) \/ Sends(u, v, Writable(in_fifo)) \/ EndsPart(u, v, data)
  BY <1>2 DEF Moves, Forgets, Begins, LooksUp
\* The word goes, or the queue is looked at again.
<1>9. ASSUME Within(v, TRUE, k, i), v.fsm \in {"LOOP_HEAD", "SEND_WAIT_FOR_I2C"},
             v.remain = u.remain, v.stb \in Bit, v.stb = 1 => n = 1,
             v.fsm = "SEND_WAIT_FOR_I2C" => v.stb = 0 /\ n # 1,
             v.fsm = "LOOP_HEAD" => data2 = ROMByte(v.addr),
             Works(u, n, lag, v, n, PauseOf(v, k, i)), Minds(u, n, v, n, words)
      PROVE  Proceeds(u, v, data2, k, i, n, lag, words, st)
  <2>1. PICK next : next = PauseOf(v, k, i)
    OBVIOUS
  <2>2. v.w_en = 0 /\ Queuing(v) = 0
    BY <1>9 DEF ROMShape, Shape, ROMPutting, Queuing
  <2>3. next \in 2 .. 5 \/ (next = 0 /\ n = Len(words))
    BY <1>3, <1>6, <1>9, <2>1 DEF PauseOf
  <2>4. Pauses(v, n, next, words)
    BY <1>5, <1>9, <2>2, <2>3 DEF Pauses
  <2>5. InPart(v, data2, k, i, n, next, words, st)
    BY <1>1, <1>9, <2>1, <2>4 DEF InPart
  <2>6. n - i = n - i + Queuing(v)
    BY <1>4, <1>5, <2>2
  <2> QED BY <1>9, <2>1, <2>5, <2>6 DEF Proceeds, ROMAt
<1>10. CASE Sends(u, v, Writable(in_fifo))
  <2>0. Within(v, TRUE, k, i)
    <3>1. Sends(u, v, TRUE)
      BY <1>10 DEF Sends
    <3> QED BY <1>1, <1>7, <3>1, WalkSends
  <2>1. CASE u.fsm \in {"ADDRESS_PERIPHERAL_LATCHED_W_EN", "SEQ_BREAK_LATCHED_W_EN"}
    <3>1. Becomes(v, "LOOP_HEAD", u.addr, u.offset, u.remain)
      BY <1>10, <2>1 DEF Sends
    <3>2. Offers(u, n, lag, words) /\ (u.fsm = "ADDRESS_PERIPHERAL_LATCHED_W_EN" <=> n = 1)
      BY <2>1 DEF InPart
    <3>3. v.fsm = "LOOP_HEAD" /\ v.remain = u.remain /\ v.addr = u.addr
      BY <3>1 DEF Becomes
    <3>4. v.stb = (IF n = 1 THEN 1 ELSE 0) /\ v.w_en = 0
      BY <2>1, <3>2, <3>3 DEF Hands, Offers, ROMShape, Shape, ROMPutting
    <3>5. GivesWord(u, n, v, n)
      BY <3>2, <3>4 DEF GivesWord, Offers
    <3>6. n = 1 \/ n >= Len(words) \/ words[n + 1] \in ControlWords
      <4>1. PICK from, end : from = st[i - 1] /\ end = st[i]
        OBVIOUS
      <4>2. n + l = end /\ end = from + l + 1 /\ from \in Nat /\ n \in Nat
        <5>1. u.remain = l
          BY <1>3, <2>1 DEF InPart
        <5>2. from \in Nat /\ end = from + l + 1
          BY <1>4, <4>1
        <5>3. n + l = end
          BY <1>1, <4>1, <5>1
        <5> QED BY <1>5, <5>2, <5>3
      <4>3. n + 1 = from + 2
        BY <1>4, <4>2
      <4>4. CASE l # 0
        BY <1>4, <4>1, <4>3, <4>4
      <4>5. CASE l = 0
        <5>1. u.remain = 0
          BY <1>5, <4>5
        <5>2. f = 0
          BY <1>1, <1>3, <2>1, <5>1 DEF Within
        <5> QED BY <1>5, <1>6, <5>1, <5>2
      <4> QED BY <4>4, <4>5
    <3>7. Minds(u, n, v, n, words)
      <4>1. ~Bold(v, n, words)
        BY <1>4, <1>5, <3>6 DEF Bold
      <4> QED BY <3>2, <4>1 DEF Minds, Offers
    <3> QED BY <1>9, <2>0, <3>3, <3>4, <3>5, <3>7 DEF Works, Bit
  <2>2. CASE u.fsm = "LOOP_HEAD"
    <3>1. u.remain # 0 /\ Writable(in_fifo) /\ v.fsm = "SEND_LATCHED_W_EN"
          /\ v.remain = u.remain - 1
      BY <1>10, <2>2 DEF Sends, Becomes
    <3>2. Pauses(u, n, lag, words) /\ lag = 2
      BY <2>2, <3>1 DEF InPart, PauseOf
    <3>3. v.w_en = 1 /\ v.stb = 0 /\ Queuing(v) = 1
      BY <2>2, <3>1 DEF Hands, ROMShape, Shape, ROMPutting, Queuing
    <3>4. PICK j, m : j = l - u.remain + 1 /\ m = n + 1
      OBVIOUS
    <3>5. /\ j \in 1 .. l /\ m = st[i - 1] + 1 + j /\ m \in 1 .. Len(words) /\ m # 1
          /\ m + v.remain = st[i]
      <4>1. PICK from, end, r, q :
              from = st[i - 1] /\ end = st[i] /\ r = u.remain /\ q = v.remain
        OBVIOUS
      <4>2. /\ from \in Nat /\ end = from + l + 1 /\ end <= Len(words) /\ l \in Nat
            /\ Len(words) \in Nat
        BY <1>4, <4>1
      <4>3. r \in 1 .. l /\ q = r - 1 /\ n + r = end /\ n \in 1 .. Len(words)
        BY <1>1, <1>4, <1>5, <3>1, <4>1
      <4>4. j = l - r + 1 /\ m = n + 1
        BY <3>4, <4>1
      <4>5. /\ j \in 1 .. l /\ m = from + 1 + j /\ m \in 1 .. Len(words) /\ m # 1
            /\ m + q = end
        BY <4>2, <4>3, <4>4
      <4> QED BY <4>1, <4>5
    <3>6. v.w = words[m]
      <4>1. words[m] = DataWord(parts[i][j])
        BY <1>4, <3>5
      <4>2. v.w = DataWord(code) /\ code = parts[i][j]
        BY <1>4, <2>2, <3>1, <3>4 DEF Hands
      <4> QED BY <4>1, <4>2
    <3>7. PutsNext(u, n, lag, v, m, 1) /\ Offers(v, m, 1, words)
      BY <3>1, <3>2, <3>3, <3>4, <3>5, <3>6 DEF PutsNext, Offers, Pauses
    <3>8. InPart(v, data2, k, i, m, 1, words, st)
      BY <1>1, <2>0, <3>1, <3>5, <3>7 DEF InPart
    <3>9. m - i = n - i + Queuing(v)
      BY <1>4, <1>5, <3>3, <3>4
    <3>10. Bold(u, n, words) \/ words[m] \in ControlWords
      <4>1. CASE n = 1
        <5>1. m = 2
          BY <3>4, <4>1
        <5> QED BY <5>1 DEF PartsSpelled, IsScript
      <4>2. CASE n # 1
        <5>1. n < Len(words) /\ n # 0 /\ u.w_en = 0
          BY <1>4, <1>5, <3>2, <3>4, <3>5 DEF Pauses
        <5> QED BY <2>2, <3>4, <4>2, <5>1 DEF Bold
      <4> QED BY <4>1, <4>2
    <3>11. Minds(u, n, v, m, words)
      BY <3>1, <3>10 DEF Minds, Bold
    <3> QED BY <3>7, <3>8, <3>9, <3>11 DEF Proceeds, Works, ROMAt
  <2>3. CASE u.fsm = "SEND_LATCHED_W_EN"
    <3>1. v.fsm = "SEND_WAIT_FOR_I2C" /\ v.remain = u.remain
      BY <1>10, <2>3 DEF Sends, Becomes
    <3>2. Offers(u, n, lag, words) /\ n # 1
      BY <2>3 DEF InPart
    <3>3. v.w_en = 0 /\ v.stb = 0
      BY <2>3, <3>1, <3>2 DEF Hands, Offers, ROMShape, Shape, ROMPutting
    <3>4. GivesWord(u, n, v, n)
      BY <3>2, <3>3 DEF GivesWord, Offers
    <3>5. Minds(u, n, v, n, words)
      BY <3>1, <3>3, Heeds
    <3> QED BY <1>9, <2>0, <3>1, <3>2, <3>3, <3>4, <3>5 DEF Works, Bit
  <2>4. CASE u.fsm = "SEND_WAIT_FOR_I2C"
    <3>1. Becomes(v, "LOOP_HEAD", u.addr, u.offset, u.remain)
      BY <1>10, <2>4 DEF Sends
    <3>2. Pauses(u, n, lag, words) /\ u.stb = 0 /\ lag = PauseOf(u, k, i)
      BY <2>4 DEF InPart
    <3>3. v.fsm = "LOOP_HEAD" /\ v.remain = u.remain /\ v.addr = u.addr
      BY <3>1 DEF Becomes
    <3>4. v.w_en = 0 /\ v.stb = 0 /\ u.w_en = 0
      BY <2>4, <3>2, <3>3 DEF Hands, Pauses, ROMShape, Shape, ROMPutting
    <3>5. PauseOf(v, k, i) < lag \/ (PauseOf(v, k, i) = 0 /\ lag = 0)
      BY <2>4, <3>2, <3>3 DEF PauseOf
    <3>6. WaitsOn(u, n, lag, v, n, PauseOf(v, k, i))
      BY <3>4, <3>5 DEF WaitsOn
    <3>7. Minds(u, n, v, n, words)
      BY <2>4, <3>3, <3>4 DEF Minds, Hands
    <3> QED BY <1>9, <2>0, <3>3, <3>4, <3>6, <3>7 DEF Works, Bit
  <2> QED BY <1>10, <2>1, <2>2, <2>3, <2>4 DEF Sends
<1>11. CASE EndsPart(u, v, data)
  <2>1. /\ u.fsm = "LOOP_HEAD" /\ u.remain = 0 /\ v.fsm = "SEQ_BREAK_ADDRESSED_NEXTLEN1"
    BY <1>2, <1>11 DEF EndsPart, Becomes
  <2>2. PastPart(v, data2, TRUE, k, i)
    BY <1>1, <1>7, <1>11, WalkEnds
  <2>3. Pauses(u, n, lag, words) /\ lag = (IF f = 0 THEN 0 ELSE 4)
    BY <1>3, <2>1 DEF InPart, PauseOf
  <2>4. v.w_en = 0 /\ v.stb = 0 /\ Queuing(v) = 0 /\ n = st[i] /\ u.w_en = 0
    BY <1>1, <1>4, <1>5, <2>1, <2>3 DEF Hands, ROMShape, Shape, ROMPutting, Queuing
  <2>5. PICK next : next = IF f = 0 THEN 0 ELSE 3
    OBVIOUS
  <2>6. Pauses(v, n, next, words)
    BY <1>4, <1>5, <2>4, <2>5 DEF Pauses, Bit
  <2>7. WaitsOn(u, n, lag, v, n, next)
    BY <2>3, <2>4, <2>5 DEF WaitsOn
  <2>8. BehindPart(v, data2, k, i, n, next, words, st)
    BY <1>1, <1>3, <2>1, <2>2, <2>4, <2>5, <2>6 DEF BehindPart
  <2>9. n - i = n - i + Queuing(v)
    BY <1>4, <1>5, <2>4
  <2>10. Minds(u, n, v, n, words)
    BY <2>1, <2>4 DEF Minds, Bold
  <2> QED BY <2>7, <2>8, <2>9, <2>10 DEF Proceeds, Works, ROMAt
<1>12. CASE Rests(u, v)
  <2>1. CASE u.fsm = "LOOP_HEAD"
    <3>1. /\ v.fsm = "LOOP_HEAD" /\ u.remain # 0 /\ v.remain = u.remain
          /\ v.addr = u.addr /\ v.offset = u.offset
      BY <1>12, <2>1 DEF Rests
    <3>2. Within(v, TRUE, k, i)
      BY <1>1, <2>1, <3>1 DEF Within
    <3>3. Pauses(u, n, lag, words) /\ lag = 2 /\ PauseOf(v, k, i) = 2
      BY <2>1, <3>1 DEF InPart, PauseOf
    <3>4. v.w_en = 0 /\ v.stb = 0 /\ u.w_en = 0 /\ Queued
      BY <2>1, <3>1 DEF Hands, ROMShape, Shape, ROMPutting, Queued, Readable, Writable
    <3>5. WaitsOn(u, n, lag, v, n, PauseOf(v, k, i))
      BY <3>4 DEF WaitsOn
    <3>6. Minds(u, n, v, n, words)
      BY <2>1, <3>4 DEF Minds, Bold
    <3> QED BY <1>9, <3>1, <3>2, <3>4, <3>5, <3>6 DEF Works, Bit
  <2>2. CASE u.fsm = "SEND_WAIT_FOR_I2C"
    <3>1. /\ v.fsm \in {u.fsm, "IDLE"} /\ v.remain = u.remain
          /\ v.addr = u.addr /\ v.offset = u.offset
      BY <1>12 DEF Rests
    <3>2. Pauses(u, n, lag, words) /\ u.stb = 0 /\ lag = PauseOf(u, k, i) /\ n # 1
      BY <2>2 DEF InPart
    <3>3. v.stb = 0 /\ v.w_en = 0 /\ u.w_en = 0
      BY <2>2, <3>1, <3>2 DEF Hands, ROMShape, Shape, ROMPutting
    <3>4. CASE v.fsm = "IDLE"
      BY <1>5, <2>2, <3>2, <3>3, <3>4 DEF Hands, ROMShape, Shape, Stops, Proceeds
    <3>5. CASE v.fsm = u.fsm
      <4>1. Within(v, TRUE, k, i)
        BY <1>1, <3>1, <3>5 DEF Within
      <4>2. PauseOf(v, k, i) = lag /\ busy # 0 /\ ~Ready
        BY <2>2, <3>1, <3>2, <3>5 DEF PauseOf, Hands
      <4>3. WaitsOn(u, n, lag, v, n, PauseOf(v, k, i))
        BY <3>3, <4>2 DEF WaitsOn
      <4>4. Minds(u, n, v, n, words)
        BY <2>2, <3>3, <3>5, Heeds
      <4> QED BY <1>9, <2>2, <3>1, <3>2, <3>3, <3>5, <4>1, <4>3, <4>4 DEF Works, Bit
    <3> QED BY <3>1, <3>4, <3>5
  <2> QED BY <1>2, <1>12, <2>1, <2>2 DEF Rests
<1> QED BY <1>8, <1>10, <1>11, <1>12

LEMMA ROMGoes ==
  ASSUME NEW u, NEW v, NEW start, NEW index, NEW data, NEW data2, NEW code,
         NEW k \in DOMAIN Commands, NEW i, NEW n, NEW lag, NEW words, NEW parts, NEW st,
         ROMShape(u), ROMShape(v), Moves(u, v, start, index, data, Writable(in_fifo)),
         Hands(u, v, code), Puts(u, v, ROMPutting, Writable(in_fifo)),
         data2 = ROMByte(u.addr), PartsSpelled(words, parts, st), Alike(parts, k),
         InPart(u, data, k, i, n, lag, words, st) /\ u.fsm = "LOOP_HEAD" /\ u.remain # 0 =>
           code = parts[i][Len(parts[i]) - u.remain + 1],
         ROMAt(u, data, k, i, n, lag, words, st)
  PROVE  Proceeds(u, v, data2, k, i, n, lag, words, st)
<1>1. CASE Finding(u, data, k) /\ i = 0 /\ n = 0 /\ lag = 2 /\ u.stb = 0
  BY <1>1, ROMFinds
<1>2. CASE InPart(u, data, k, i, n, lag, words, st)
  BY <1>2, ROMInPart
<1>3. CASE BehindPart(u, data, k, i, n, lag, words, st)
  BY <1>3, ROMBehind
<1>4. CASE /\ u.fsm = "FIN_WAIT_I2C_DONE" /\ i \in Nat
           /\ n = Len(words) /\ lag = 0 /\ Pauses(u, n, lag, words) /\ u.stb = 0
  <2>1. Rests(u, v)
    BY <1>4 DEF Moves, Forgets, Begins, LooksUp, Sends, EndsPart
  <2>2. v.fsm \in {u.fsm, "IDLE"}
    BY <2>1 DEF Rests
  <2>3. /\ v.stb = 0 /\ v.w_en = 0 /\ u.w_en = 0 /\ n \notin {0, 1} /\ n \in Nat
    <3>1. Len(words) \in Nat /\ Len(words) >= 2
      BY LenProperties DEF PartsSpelled, IsScript
    <3> QED BY <1>4, <2>2, <3>1 DEF Hands, ROMShape, Shape, ROMPutting, Pauses
  <2>4. CASE v.fsm = "IDLE"
    BY <1>4, <2>3, <2>4 DEF Hands, ROMShape, Shape, Stops, Proceeds
  <2>5. CASE v.fsm = u.fsm
    <3>1. WaitsOn(u, n, lag, v, n, 0) /\ Queuing(v) = 0
      BY <1>4, <2>3, <2>5 DEF WaitsOn, Queuing
    <3>2. Pauses(v, n, 0, words)
      BY <1>4, <2>3 DEF Pauses, Bit
    <3>3. ROMAt(v, data2, k, i, n, 0, words, st)
      BY <1>4, <2>3, <2>5, <3>2 DEF ROMAt
    <3>4. n - i = n - i + Queuing(v)
      BY <1>4, <2>3, <3>1
    <3>5. Minds(u, n, v, n, words)
      BY <1>4, <2>3, <2>5, Heeds
    <3> QED BY <3>1, <3>3, <3>4, <3>5 DEF Proceeds, Works
  <2> QED BY <2>2, <2>4, <2>5
<1> QED BY <1>1, <1>2, <1>3, <1>4 DEF ROMAt

-------------------------------------------------------------------------------
(***************************************************************************)
(* Scroller's patches: its script is the scroll command's, with some bytes *)
(* changed that it finds by counting the bytes it sends.                   *)
(***************************************************************************)
\* How many bytes are before a part, in a script with the parts' STARTs too.
LEMMA BeforeIs ==
  ASSUME NEW words, NEW parts, NEW st,
         PartsSpelled(words, parts, st), Alike(parts, OFFSET_SCROLL + 1)
  PROVE  /\ \A i \in DOMAIN Commands[OFFSET_SCROLL + 1] :
              Before(i) \in Nat /\ st[i - 1] = Before(i) + (i - 1)
         /\ Before(1) = 0
         /\ \A i, j \in DOMAIN Commands[OFFSET_SCROLL + 1] :
              i < j => Before(i) + Len(Commands[OFFSET_SCROLL + 1][i]) <= Before(j)
<1>1. PICK k, cmd, m : k = OFFSET_SCROLL + 1 /\ cmd = Commands[k] /\ m = Len(cmd)
  OBVIOUS
<1>2. k \in DOMAIN Commands /\ k \in 1 .. Len(Commands)
  BY <1>1, ScrollAssumption, CommandsAre
<1>3. cmd \in Seq(Seq(0 .. 255)) /\ cmd # <<>>
  BY <1>1, <1>2, CommandsAre, CommandsAssumption
<1>4. m \in Nat /\ DOMAIN cmd = 1 .. m /\ m # 0 /\ cmd \in Seq(Seq(0 .. 255))
  BY <1>1, <1>3, LenProperties, EmptySeq
<1>5. PICK bt \in [0 .. Len(cmd) -> Nat] :
        /\ Placed(cmd, Flattened(cmd), bt)
        /\ \A i \in 0 .. Len(cmd) : bt[i] = Len(Flattened(SubSeq(cmd, 1, i)))
  BY <1>4, Places
<1>6. /\ bt[0] = 0 /\ \A i \in 1 .. m : bt[i] = bt[i - 1] + Len(cmd[i])
      /\ \A i, j \in 0 .. m : i <= j => bt[i] <= bt[j]
      /\ \A i \in 0 .. m : bt[i] \in Nat
  BY <1>1, <1>5 DEF Placed
<1>7. ASSUME NEW i \in 1 .. m PROVE Before(i) = bt[i - 1] /\ i - 1 \in 0 .. m
  <2>1. i - 1 \in 0 .. m
    BY <1>4
  <2>2. bt[i - 1] = Len(Flattened(SubSeq(cmd, 1, i - 1)))
    BY <1>1, <1>5, <2>1
  <2>3. Before(i) = Len(Concatenation(SubSeq(cmd, 1, i - 1)))
    BY <1>1, Zenon DEF Before
  <2> QED BY <2>1, <2>2, <2>3, JoinedIs
<1>8. st[0] = 0 /\ \A i \in 1 .. m : st[i] = st[i - 1] + Len(cmd[i]) + 1
  BY <1>1 DEF PartsSpelled, Alike
<1>9. \A i \in 1 .. m : Len(cmd[i]) \in Nat
  BY <1>4, ElementOfSeq, LenProperties
<1>10. \A i \in 0 .. m : st[i] = bt[i] + i
  <2> DEFINE S == {i \in Nat : i \in 0 .. m => st[i] = bt[i] + i}
  <2>1. 0 \in S
    <3>1. st[0] = 0 /\ bt[0] = 0 /\ 0 + 0 = 0
      BY <1>6, <1>8
    <3> QED BY <3>1
  <2>2. ASSUME NEW i \in Nat, i \in S PROVE i + 1 \in S
    <3> SUFFICES ASSUME i + 1 \in 0 .. m PROVE st[i + 1] = bt[i + 1] + (i + 1)
      OBVIOUS
    <3>1. i + 1 \in 1 .. m /\ (i + 1) - 1 = i /\ i \in 0 .. m
      BY <1>4
    <3>2. PICK l : l = Len(cmd[i + 1])
      OBVIOUS
    <3>3. l \in Nat /\ st[i + 1] = st[i] + l + 1 /\ bt[i + 1] = bt[i] + l
      BY <1>6, <1>8, <1>9, <3>1, <3>2
    <3>4. st[i] = bt[i] + i /\ bt[i] \in Nat
      BY <1>6, <2>2, <3>1
    <3> QED BY <3>3, <3>4
  <2>3. Nat \subseteq S
    <3> HIDE DEF S
    <3> QED BY <2>1, <2>2, Induct
  <2> QED BY <1>4, <2>3
<1>11. ASSUME NEW i \in 1 .. m PROVE Before(i) \in Nat /\ st[i - 1] = Before(i) + (i - 1)
  BY <1>6, <1>7, <1>10
<1>12. Before(1) = 0
  <2>1. 1 \in 1 .. m /\ 1 - 1 = 0
    BY <1>4
  <2> QED BY <1>6, <1>7, <2>1
<1>13. ASSUME NEW i \in 1 .. m, NEW j \in 1 .. m, i < j
       PROVE  Before(i) + Len(cmd[i]) <= Before(j)
  <2>1. i <= j - 1 /\ i \in 0 .. m /\ j - 1 \in 0 .. m
    BY <1>4, <1>13
  <2>2. bt[i] <= bt[j - 1] /\ bt[i] = bt[i - 1] + Len(cmd[i])
    BY <1>6, <2>1
  <2> QED BY <1>7, <2>2
<1> QED BY <1>1, <1>4, <1>11, <1>12, <1>13

\* The bytes of the parts, for adjust rows scrolled.
Adjusted(parts, cmd, adjust) ==
  \A i \in DOMAIN cmd : \A j \in DOMAIN cmd[i] :
    parts[i][j] =
      IF i = 1 /\ j = 4 THEN cmd[i][j] + adjust \div 2
      ELSE IF i \in 2 .. Len(cmd) - 1 /\ j = 2 THEN cmd[i][j] + 8 * (adjust % 2)
      ELSE IF i = Len(cmd) /\ j = 4
      THEN IF adjust = Rows - 1 THEN 0 ELSE 8 + 8 * adjust
      ELSE cmd[i][j]

LEMMA SeqOfMore ==
  ASSUME NEW S, NEW T, S \subseteq T, NEW s, s \in Seq(S)
  PROVE  s \in Seq(T) /\ DOMAIN s = 1 .. Len(s) /\ Len(s) \in Nat
<1>1. PICK n : n = Len(s)
  OBVIOUS
<1>2. n \in Nat /\ DOMAIN s = 1 .. n /\ s \in [1 .. n -> S]
  BY <1>1, LenProperties
<1>3. FunctionIsSeq(s, n, T)
  BY <1>2 DEF FunctionIsSeq
<1>4. s \in Seq(T)
  BY <1>2, <1>3, ASequence
<1> QED BY <1>1, <1>2, <1>4

\* A part with one byte changed.
WithByte(s, place, b) == [s EXCEPT ![place] = b]

LEMMA OneByteChanged ==
  ASSUME NEW s \in Seq(Nat), NEW place, NEW b \in Nat
  PROVE  /\ WithByte(s, place, b) \in Seq(Nat) /\ Len(WithByte(s, place, b)) = Len(s)
         /\ \A j \in 1 .. Len(s) :
              WithByte(s, place, b)[j] = IF j = place THEN b ELSE s[j]
<1>1. PICK r, n : r = WithByte(s, place, b) /\ n = Len(s)
  OBVIOUS
<1>2. n \in Nat /\ DOMAIN s = 1 .. n /\ \A j \in 1 .. n : s[j] \in Nat
  BY <1>1, LenProperties, ElementOfSeq
<1>3. r = [j \in 1 .. n |-> IF j = place THEN b ELSE s[j]]
  BY <1>1, <1>2 DEF WithByte
<1>4. FunctionIsSeq(r, n, Nat)
  BY <1>2, <1>3 DEF FunctionIsSeq
<1>5. r \in Seq(Nat) /\ Len(r) = n
  BY <1>2, <1>4, ASequence
<1> QED BY <1>1, <1>2, <1>3, <1>5

LEMMA ScrollPartsAre ==
  ASSUME NEW adjust \in 0 .. Rows - 1
  PROVE  /\ ScrollParts(adjust) \in Seq(Seq(Nat)) /\ Len(ScrollParts(adjust)) # 0
         /\ Len(ScrollParts(adjust)[1]) # 0
         /\ \A i \in 1 .. Len(ScrollParts(adjust)) :
              Len(ScrollParts(adjust)[i]) # 0 => ScrollParts(adjust)[i][1] \in ControlBytes
         /\ Alike(ScrollParts(adjust), OFFSET_SCROLL + 1)
         /\ Adjusted(ScrollParts(adjust), Commands[OFFSET_SCROLL + 1], adjust)
<1>1. PICK k, cmd, last, parts : /\ k = OFFSET_SCROLL + 1 /\ cmd = Commands[k]
                                 /\ last = Len(cmd) /\ parts = ScrollParts(adjust)
  OBVIOUS
<1>2. k \in DOMAIN Commands /\ k \in 1 .. Len(Commands)
  BY <1>1, ScrollAssumption, CommandsAre
<1>3. cmd \in Seq(Seq(0 .. 255))
  BY <1>1, <1>2, CommandsAre
<1>4. last \in Nat /\ DOMAIN cmd = 1 .. last /\ last >= 2
  BY <1>1, <1>3, LenProperties, OffsetsAssumption
<1>5. Rows \in Nat /\ Rows # 0 /\ adjust \in Nat
  BY RowsAssumption
<1>6. PICK high, line : /\ high = ColumnBytes(8 * adjust)[2]
                        /\ line = 8 * ((adjust + 1) % Rows)
  OBVIOUS
<1>7. high = 16 + adjust \div 2 /\ line = (IF adjust = Rows - 1 THEN 0 ELSE 8 + 8 * adjust)
      /\ high \in Nat /\ line \in Nat
  <2>1. high = 16 + (8 * adjust) \div 16
    BY <1>6 DEF ColumnBytes, SetHigherColumnAddress
  <2>2. (8 * adjust) \div 16 = adjust \div 2 /\ adjust \div 2 \in Nat
    BY <1>5
  <2>3. CASE adjust = Rows - 1
    <3>1. (adjust + 1) % Rows = 0
      BY <1>5, <2>3
    <3> QED BY <1>6, <2>1, <2>2, <2>3, <3>1
  <2>4. CASE adjust # Rows - 1
    <3>1. (adjust + 1) % Rows = adjust + 1
      BY <1>5, <2>4
    <3> QED BY <1>5, <1>6, <2>1, <2>2, <2>4, <3>1
  <2> QED BY <2>3, <2>4
<1>8. parts = [i \in DOMAIN cmd |->
                 IF i = 1 THEN [cmd[1] EXCEPT ![4] = high]
                 ELSE IF i = last THEN [cmd[i] EXCEPT ![4] = line]
                 ELSE [cmd[i] EXCEPT ![2] = ColumnBytes(8 * adjust + cmd[i][2])[1]]]
  BY <1>1, <1>6, Zenon DEF ScrollParts
<1>9. /\ Len(cmd[1]) >= 4 /\ cmd[1][4] = 16
      /\ \A i \in 2 .. last - 1 : Len(cmd[i]) >= 2 /\ cmd[i][2] \in 0 .. 7
      /\ Len(cmd[last]) >= 4
  <2>1. SetHigherColumnAddress(0) = 16
    BY DEF SetHigherColumnAddress
  <2> QED BY <1>1, <2>1, OffsetsAssumption
<1>10. ASSUME NEW d \in 0 .. 7
       PROVE  ColumnBytes(8 * adjust + d)[1] = d + 8 * (adjust % 2) /\ adjust % 2 \in Nat
  <2>1. (8 * adjust + d) % 16 = d + 8 * (adjust % 2) /\ adjust % 2 \in Nat
    BY <1>5
  <2> QED BY <2>1 DEF ColumnBytes, SetLowerColumnAddress
<1>11. ASSUME NEW i \in 1 .. last
       PROVE  /\ cmd[i] \in Seq(Nat) /\ DOMAIN cmd[i] = 1 .. Len(cmd[i])
              /\ Len(cmd[i]) \in Nat
  <2>1. cmd[i] \in Seq(0 .. 255)
    BY <1>3, <1>4, ElementOfSeq
  <2>2. PICK t, bytes : t = cmd[i] /\ bytes = 0 .. 255
    OBVIOUS
  <2>3. t \in Seq(bytes) /\ bytes \subseteq Nat
    BY <2>1, <2>2
  <2>4. t \in Seq(Nat) /\ DOMAIN t = 1 .. Len(t) /\ Len(t) \in Nat
    BY <2>3, SeqOfMore
  <2> QED BY <2>2, <2>4
<1>13. ASSUME NEW i \in 1 .. last
       PROVE  /\ parts[i] \in Seq(Nat) /\ Len(parts[i]) = Len(cmd[i])
              /\ \A j \in 1 .. Len(cmd[i]) :
                   parts[i][j] =
                     IF i = 1 /\ j = 4 THEN cmd[i][j] + adjust \div 2
                     ELSE IF i \in 2 .. last - 1 /\ j = 2 THEN cmd[i][j] + 8 * (adjust % 2)
                     ELSE IF i = last /\ j = 4 THEN line ELSE cmd[i][j]
  <2>1. CASE i = 1
    <3>1. parts[i] = [cmd[i] EXCEPT ![4] = high] /\ i # last
      BY <1>4, <1>8, <2>1
    <3>2. high = cmd[i][4] + adjust \div 2
      BY <1>7, <1>9, <2>1
    <3>3. PICK t : t = cmd[i]
      OBVIOUS
    <3>4. t \in Seq(Nat) /\ parts[i] = [t EXCEPT ![4] = high]
      BY <1>11, <3>1, <3>3
    <3>5. /\ parts[i] \in Seq(Nat) /\ Len(parts[i]) = Len(t)
          /\ \A j \in 1 .. Len(t) : parts[i][j] = IF j = 4 THEN high ELSE t[j]
      <4>1. high \in Nat
        BY <1>7
      <4>2. PICK r : r = parts[i]
        OBVIOUS
      <4>3. r = WithByte(t, 4, high) /\ t \in Seq(Nat)
        BY <3>4, <4>2 DEF WithByte
      <4>4. /\ r \in Seq(Nat) /\ Len(r) = Len(t)
            /\ \A j \in 1 .. Len(t) : r[j] = IF j = 4 THEN high ELSE t[j]
        BY OneByteChanged, <4>1, <4>3
      <4> QED BY <4>2, <4>4
    <3>6. i \notin 2 .. last - 1
      BY <1>4, <2>1
    <3> QED BY <2>1, <3>1, <3>2, <3>3, <3>5, <3>6, Zenon
  <2>2. CASE i = last
    <3>1. parts[i] = [cmd[i] EXCEPT ![4] = line] /\ i # 1
      BY <1>4, <1>8, <2>2
    <3>2. PICK t : t = cmd[i]
      OBVIOUS
    <3>3. t \in Seq(Nat) /\ parts[i] = [t EXCEPT ![4] = line]
      BY <1>11, <3>1, <3>2
    <3>4. /\ parts[i] \in Seq(Nat) /\ Len(parts[i]) = Len(t)
          /\ \A j \in 1 .. Len(t) : parts[i][j] = IF j = 4 THEN line ELSE t[j]
      <4>1. line \in Nat
        BY <1>7
      <4>2. PICK r : r = parts[i]
        OBVIOUS
      <4>3. r = WithByte(t, 4, line) /\ t \in Seq(Nat)
        BY <3>3, <4>2 DEF WithByte
      <4>4. /\ r \in Seq(Nat) /\ Len(r) = Len(t)
            /\ \A j \in 1 .. Len(t) : r[j] = IF j = 4 THEN line ELSE t[j]
        BY OneByteChanged, <4>1, <4>3
      <4> QED BY <4>2, <4>4
    <3>5. i \notin 2 .. last - 1
      BY <1>4, <2>2
    <3> QED BY <2>2, <3>1, <3>2, <3>4, <3>5, Zenon
  <2>3. CASE i # 1 /\ i # last
    <3>1. PICK low : low = ColumnBytes(8 * adjust + cmd[i][2])[1]
      OBVIOUS
    <3>2. parts[i] = [cmd[i] EXCEPT ![2] = low] /\ i \in 2 .. last - 1
      BY <1>4, <1>8, <2>3, <3>1
    <3>3. PICK d : d = cmd[i][2]
      OBVIOUS
    <3>4. d \in 0 .. 7 /\ low = ColumnBytes(8 * adjust + d)[1]
      BY <1>9, <3>1, <3>2, <3>3
    <3>5. low = d + 8 * (adjust % 2) /\ adjust % 2 \in Nat
      BY <1>10, <3>4
    <3>6. low \in Nat
      BY <3>4, <3>5
    <3>7. PICK t : t = cmd[i]
      OBVIOUS
    <3>8. t \in Seq(Nat) /\ parts[i] = [t EXCEPT ![2] = low]
      BY <1>11, <3>2, <3>7
    <3>9. /\ parts[i] \in Seq(Nat) /\ Len(parts[i]) = Len(t)
          /\ \A j \in 1 .. Len(t) : parts[i][j] = IF j = 2 THEN low ELSE t[j]
      <4>1. PICK r : r = parts[i]
        OBVIOUS
      <4>2. r = WithByte(t, 2, low) /\ t \in Seq(Nat)
        BY <3>8, <4>1 DEF WithByte
      <4>3. /\ r \in Seq(Nat) /\ Len(r) = Len(t)
            /\ \A j \in 1 .. Len(t) : r[j] = IF j = 2 THEN low ELSE t[j]
        BY OneByteChanged, <3>6, <4>2
      <4> QED BY <4>1, <4>3
    <3> QED BY <2>3, <3>2, <3>3, <3>5, <3>7, <3>9, Zenon
  <2> QED BY <2>1, <2>2, <2>3
<1>14. parts \in Seq(Seq(Nat)) /\ Len(parts) = last
  <2>1. FunctionIsSeq(parts, last, Seq(Nat))
    <3>1. DOMAIN parts = 1 .. last /\ parts = [i \in 1 .. last |-> parts[i]]
      BY <1>4, <1>8
    <3> QED BY <1>13, <3>1 DEF FunctionIsSeq
  <2> QED BY <1>4, <2>1, ASequence
<1>15. Alike(parts, k)
  BY <1>1, <1>13, <1>14 DEF Alike
<1>16. Adjusted(parts, cmd, adjust)
  <2>1. \A i \in DOMAIN cmd : \A j \in DOMAIN cmd[i] :
          parts[i][j] =
            IF i = 1 /\ j = 4 THEN cmd[i][j] + adjust \div 2
            ELSE IF i \in 2 .. last - 1 /\ j = 2 THEN cmd[i][j] + 8 * (adjust % 2)
            ELSE IF i = last /\ j = 4
            THEN IF adjust = Rows - 1 THEN 0 ELSE 8 + 8 * adjust ELSE cmd[i][j]
    BY <1>4, <1>7, <1>11, <1>13, ZenonT(30)
  <2>2. last = Len(cmd)
    BY <1>1
  <2> QED BY <2>1, <2>2, ZenonT(30) DEF Adjusted
<1>17. Len(parts) # 0 /\ Len(parts[1]) # 0
  <2>1. 1 \in 1 .. last
    BY <1>4
  <2>2. Len(parts[1]) = Len(cmd[1]) /\ Len(cmd[1]) \in Nat
    BY <1>11, <1>13, <2>1
  <2> QED BY <1>4, <1>9, <1>14, <2>2
<1>18. ASSUME NEW i \in 1 .. last, Len(parts[i]) # 0 PROVE parts[i][1] \in ControlBytes
  <2>1. Len(cmd[i]) # 0 /\ cmd[i] # <<>> /\ 1 \in 1 .. Len(cmd[i])
    BY <1>11, <1>13, <1>18, EmptySeq
  <2>2. cmd[i][1] \in ControlBytes
    BY <1>1, <1>2, <1>4, <2>1, ControlAssumption
  <2>3. parts[i][1] = cmd[i][1]
    BY <1>13, <2>1
  <2> QED BY <2>2, <2>3
<1> QED BY <1>1, <1>14, <1>15, <1>16, <1>17, <1>18, Zenon

\* Scroller finds the bytes to patch: written counts to them.
LEMMA PatchedIs ==
  ASSUME NEW words, NEW st, scr.adjusted \in 0 .. Rows - 1,
         NEW i \in DOMAIN Commands[OFFSET_SCROLL + 1],
         NEW j \in DOMAIN Commands[OFFSET_SCROLL + 1][i],
         PartsSpelled(words, ScrollParts(scr.adjusted), st),
         scr.written = Before(i) + (j - 1)
  PROVE  Patched(Commands[OFFSET_SCROLL + 1][i][j]) = ScrollParts(scr.adjusted)[i][j]
<1>1. PICK cmd, last, parts, adjust, w, d :
        /\ cmd = Commands[OFFSET_SCROLL + 1] /\ last = Len(cmd)
        /\ parts = ScrollParts(scr.adjusted) /\ adjust = scr.adjusted /\ w = scr.written
        /\ d = cmd[i][j]
  OBVIOUS
<1>2. Adjusted(parts, cmd, adjust) /\ Alike(parts, OFFSET_SCROLL + 1)
  BY <1>1, ScrollPartsAre
<1>3. /\ \A a \in DOMAIN cmd : Before(a) \in Nat
      /\ Before(1) = 0
      /\ \A a, b \in DOMAIN cmd : a < b => Before(a) + Len(cmd[a]) <= Before(b)
  BY <1>1, <1>2, BeforeIs
<1>4. /\ last \in Nat /\ DOMAIN cmd = 1 .. last /\ last >= 2
      /\ \A a \in 1 .. last : Len(cmd[a]) \in Nat /\ DOMAIN cmd[a] = 1 .. Len(cmd[a])
  <2>1. cmd \in Seq(Seq(0 .. 255))
    BY <1>1, ScrollAssumption, CommandsAre
  <2>2. \A a \in 1 .. Len(cmd) : cmd[a] \in Seq(0 .. 255)
    BY <2>1, ElementOfSeq
  <2> QED BY <1>1, <2>1, <2>2, LenProperties, OffsetsAssumption
<1>5. /\ Len(cmd[1]) >= 4 /\ InitialHigherColumnAddress = 3
      /\ \A a \in 2 .. last - 1 : Len(cmd[a]) >= 2
      /\ LowerColumnAddresses = {Before(a) + 1 : a \in 2 .. last - 1}
      /\ DisplayStartLine + 1 = Before(last) + 3 /\ Len(cmd[last]) >= 4
  BY <1>1, OffsetsAssumption
<1>6. i \in 1 .. last /\ j \in 1 .. Len(cmd[i]) /\ w = Before(i) + (j - 1)
  BY <1>1, <1>4
\* A position in the command is in one part only.
<1>7. ASSUME NEW a \in 1 .. last, NEW b \in Nat, b < Len(cmd[a]), w = Before(a) + b
      PROVE  i = a /\ j = b + 1
  <2>1. PICK l, la, p, pa : l = Len(cmd[i]) /\ la = Len(cmd[a]) /\ p = Before(i) /\ pa = Before(a)
    OBVIOUS
  <2>2. /\ l \in Nat /\ la \in Nat /\ p \in Nat /\ pa \in Nat
        /\ i < a => p + l <= pa
        /\ a < i => pa + la <= p
        /\ j \in 1 .. l /\ b < la /\ p + (j - 1) = pa + b
    BY <1>3, <1>4, <1>6, <1>7, <2>1
  <2>3. i = a
    BY <1>6, <2>2
  <2> QED BY <2>1, <2>2, <2>3
<1>8. w = InitialHigherColumnAddress <=> i = 1 /\ j = 4
  <2>1. ASSUME w = 3 PROVE i = 1 /\ j = 4
    <3>1. 1 \in 1 .. last /\ 3 \in Nat /\ 3 < Len(cmd[1]) /\ w = Before(1) + 3
      BY <1>3, <1>4, <1>5, <2>1
    <3>2. i = 1 /\ j = 3 + 1
      BY <1>7, <3>1
    <3> QED BY <3>2
  <2>2. ASSUME i = 1, j = 4 PROVE w = 3
    BY <1>3, <1>6, <2>2
  <2> QED BY <1>5, <2>1, <2>2
<1>9. w \in LowerColumnAddresses <=> i \in 2 .. last - 1 /\ j = 2
  <2>1. ASSUME w \in LowerColumnAddresses PROVE i \in 2 .. last - 1 /\ j = 2
    <3>1. PICK a \in 2 .. last - 1 : w = Before(a) + 1
      BY <1>5, <2>1
    <3>2. a \in 1 .. last /\ 1 \in Nat /\ 1 < Len(cmd[a])
      BY <1>4, <1>5
    <3>3. i = a /\ j = 1 + 1
      BY <1>7, <3>1, <3>2
    <3> QED BY <3>3
  <2>2. ASSUME i \in 2 .. last - 1, j = 2 PROVE w \in LowerColumnAddresses
    <3>1. w = Before(i) + 1
      BY <1>6, <2>2
    <3> QED BY <1>5, <2>2, <3>1
  <2> QED BY <2>1, <2>2
<1>10. w = DisplayStartLine + 1 <=> i = last /\ j = 4
  <2>1. ASSUME w = Before(last) + 3 PROVE i = last /\ j = 4
    <3>1. last \in 1 .. last /\ 3 \in Nat /\ 3 < Len(cmd[last])
      BY <1>4, <1>5
    <3>2. i = last /\ j = 3 + 1
      BY <1>7, <2>1, <3>1
    <3> QED BY <3>2
  <2>2. ASSUME i = last, j = 4 PROVE w = Before(last) + 3
    BY <1>6, <2>2
  <2> QED BY <1>5, <2>1, <2>2
<1>11. parts[i][j] = IF i = 1 /\ j = 4 THEN d + adjust \div 2
                    ELSE IF i \in 2 .. last - 1 /\ j = 2 THEN d + 8 * (adjust % 2)
                    ELSE IF i = last /\ j = 4
                    THEN IF adjust = Rows - 1 THEN 0 ELSE 8 + 8 * adjust ELSE d
  <2>1. i \in DOMAIN cmd /\ j \in DOMAIN cmd[i]
    BY <1>1
  <2>2. parts[i][j] = IF i = 1 /\ j = 4 THEN cmd[i][j] + adjust \div 2
                      ELSE IF i \in 2 .. Len(cmd) - 1 /\ j = 2
                      THEN cmd[i][j] + 8 * (adjust % 2)
                      ELSE IF i = Len(cmd) /\ j = 4
                      THEN IF adjust = Rows - 1 THEN 0 ELSE 8 + 8 * adjust
                      ELSE cmd[i][j]
    BY <1>2, <2>1, Zenon DEF Adjusted
  <2>3. last = Len(cmd) /\ d = cmd[i][j]
    BY <1>1
  <2> QED BY <2>2, <2>3, Zenon
<1>12. Patched(d) = IF w = InitialHigherColumnAddress THEN d + adjust \div 2
                    ELSE IF w \in LowerColumnAddresses THEN d + 8 * (adjust % 2)
                    ELSE IF w = DisplayStartLine + 1
                    THEN IF adjust = Rows - 1 THEN 0 ELSE 8 + 8 * adjust ELSE d
  BY <1>1, Zenon DEF Patched
<1> QED BY <1>1, <1>8, <1>9, <1>10, <1>11, <1>12, Zenon

-------------------------------------------------------------------------------
(***************************************************************************)
(* The two units' steps in their scripts.                                  *)
(***************************************************************************)
LEMMA ByteAt ==
  ASSUME NEW u, NEW data, NEW k \in DOMAIN Commands, NEW i, NEW n, NEW lag, NEW words,
         NEW st, NEW j, InPart(u, data, k, i, n, lag, words, st), u.fsm = "LOOP_HEAD",
         u.remain # 0, j = Len(Commands[k][i]) - u.remain + 1
  PROVE  /\ i \in DOMAIN Commands[k] /\ j \in DOMAIN Commands[k][i]
         /\ data = Commands[k][i][j]
<1>1. PICK l, from, r : l = Len(Commands[k][i]) /\ from = PartStart(k, i) /\ r = u.remain
  OBVIOUS
<1>2. i \in DOMAIN Commands[k]
  BY DEF InPart
<1>3. l \in Nat /\ from \in Nat
      /\ \A b \in 1 .. l : ROMByte(from + (b - 1)) = Commands[k][i][b]
  BY <1>1, <1>2, PartLaid
<1>4. /\ data = ROMByte(u.addr) /\ u.addr = u.offset /\ u.offset \in Nat
      /\ r \in 0 .. l /\ u.offset + r = from + l
  BY <1>1 DEF InPart, Within, PartEnd, Pauses
<1>5. j \in 1 .. l /\ u.addr = from + (j - 1)
  <2>1. PICK a : a = u.addr
    OBVIOUS
  <2>2. j = l - r + 1 /\ r # 0
    BY <1>1
  <2>3. a \in Nat /\ a + r = from + l /\ r \in 0 .. l
    BY <1>4, <2>1
  <2>4. j \in 1 .. l /\ a = from + (j - 1)
    BY <1>3, <2>2, <2>3
  <2> QED BY <2>1, <2>4
<1>6. j \in DOMAIN Commands[k][i]
  <2>1. Commands[k] \in Seq(Seq(0 .. 255))
    BY CommandsAre
  <2>2. Commands[k][i] \in Seq(0 .. 255)
    BY <1>2, <2>1, ElementOfSeq, LenProperties
  <2> QED BY <1>1, <1>5, <2>2, LenProperties
<1> QED BY <1>2, <1>3, <1>4, <1>5, <1>6

LEMMA WrGoes ==
  ASSUME NEW stb, NEW index, NEW k \in DOMAIN Commands, NEW i, NEW n, NEW lag, NEW words,
         NEW st, ROMShape(wr), WrStep(stb, index),
         Puts(wr, wr', ROMPutting, Writable(in_fifo)), rom_data' = ROMByte(wr.addr),
         PartsSpelled(words, Commands[k], st), ROMAt(wr, rom_data, k, i, n, lag, words, st)
  PROVE  Proceeds(wr, wr', rom_data', k, i, n, lag, words, st)
<1>1. /\ ROMShape(wr') /\ Hands(wr, wr', rom_data)
      /\ Moves(wr, wr', stb, index, rom_data, Writable(in_fifo))
  BY WrMoves, WrHands
<1>2. ASSUME InPart(wr, rom_data, k, i, n, lag, words, st), wr.fsm = "LOOP_HEAD",
             wr.remain # 0
      PROVE  rom_data = Commands[k][i][Len(Commands[k][i]) - wr.remain + 1]
  BY <1>2, ByteAt
<1>3. Alike(Commands[k], k)
  BY DEF Alike
<1> QED BY <1>1, <1>2, <1>3, ROMGoes

LEMMA ScrGoes ==
  ASSUME NEW stb, NEW rst, NEW i, NEW n, NEW lag, NEW words, NEW st,
         ScrShape, scr.adjusted \in 0 .. Rows - 1, ScrStep(stb, rst),
         Puts(scr, scr', ROMPutting, Writable(in_fifo)), rom_data' = ROMByte(scr.addr),
         PartsSpelled(words, ScrollParts(scr.adjusted), st),
         ROMAt(scr, rom_data, OFFSET_SCROLL + 1, i, n, lag, words, st),
         scr.written = n - i
  PROVE  Proceeds(scr, scr', rom_data', OFFSET_SCROLL + 1, i, n, lag, words, st)
<1>1. /\ ROMShape(scr') /\ Hands(scr, scr', Patched(rom_data)) /\ ROMShape(scr)
      /\ Moves(scr, scr', stb, OFFSET_SCROLL, rom_data, Writable(in_fifo))
  BY ScrMoves, ScrHands DEF ScrShape
<1>2. PICK k, parts : k = OFFSET_SCROLL + 1 /\ parts = ScrollParts(scr.adjusted)
  OBVIOUS
<1>3. k \in DOMAIN Commands /\ Alike(parts, k)
  BY <1>2, ScrollAssumption, ScrollPartsAre
<1>4. ASSUME InPart(scr, rom_data, k, i, n, lag, words, st), scr.fsm = "LOOP_HEAD",
             scr.remain # 0
      PROVE  Patched(rom_data) = parts[i][Len(parts[i]) - scr.remain + 1]
  <2>1. PICK j, l, r : /\ j = Len(Commands[k][i]) - scr.remain + 1
                       /\ l = Len(Commands[k][i]) /\ r = scr.remain
    OBVIOUS
  <2>2. /\ i \in DOMAIN Commands[k] /\ j \in DOMAIN Commands[k][i]
        /\ rom_data = Commands[k][i][j]
    BY <1>3, <1>4, <2>1, ByteAt
  <2>3. /\ st[i - 1] \in Nat /\ st[i] = st[i - 1] + l + 1 /\ l \in Nat /\ i \in Nat
    BY <1>2, <1>3, <2>1, <2>2, PartHas
  <2>4. Before(i) \in Nat /\ st[i - 1] = Before(i) + (i - 1)
    BY <1>2, <1>3, <2>2, BeforeIs
  <2>5. n + r = st[i] /\ r \in 0 .. l /\ n \in Nat
    BY <1>4, <2>1 DEF InPart, Within, Pauses
  <2>6. n - i = Before(i) + (j - 1)
    <3>1. PICK b, a, e : b = Before(i) /\ a = st[i - 1] /\ e = st[i]
      OBVIOUS
    <3>2. b \in Nat /\ a = b + (i - 1) /\ e = a + l + 1 /\ n + r = e /\ j = l - r + 1
      BY <2>1, <2>3, <2>4, <2>5, <3>1
    <3>3. n - i = b + (j - 1)
      BY <2>3, <2>5, <3>2
    <3> QED BY <3>1, <3>3
  <2>7. Patched(Commands[k][i][j]) = parts[i][j]
    <3>1. scr.written = Before(i) + (j - 1)
      BY <2>6
    <3> QED BY <1>2, <2>2, <3>1, PatchedIs
  <2>8. Len(parts[i]) = l
    <3>1. Commands[k] \in Seq(Seq(0 .. 255))
      BY <1>3, CommandsAre
    <3>2. i \in 1 .. Len(parts)
      BY <1>3, <2>2, <3>1, LenProperties DEF Alike
    <3> QED BY <1>3, <2>1, <3>2 DEF Alike
  <2>9. j = Len(parts[i]) - scr.remain + 1
    BY <2>1, <2>8
  <2> QED BY <2>2, <2>7, <2>9
<1> QED BY <1>1, <1>2, <1>3, <1>4, ROMGoes

-------------------------------------------------------------------------------
(***************************************************************************)
(* A script whose first START may have been dropped, for a word that waits *)
(* in the queue.                                                           *)
(***************************************************************************)
Opened(opened, words) ==
  \E first \in {StartWord} \cup ControlWords : opened = <<first>> \o Tail(words)

LEMMA OpenedIs ==
  ASSUME NEW words, IsScript(words), NEW first
  PROVE  /\ Len(words) \in Nat /\ Len(<<first>> \o Tail(words)) = Len(words)
         /\ <<first>> \o Tail(words)
              = [i \in 1 .. Len(words) |-> IF i = 1 THEN first ELSE words[i]]
<1>1. PICK l, t, s, o : /\ l = Len(words) /\ t = Tail(words) /\ s = <<first>>
                        /\ o = <<first>> \o Tail(words)
  OBVIOUS
<1>2. words \in Seq(Spoken) /\ l \in Nat /\ l >= 2 /\ words # <<>>
  BY <1>1, LenProperties, EmptySeq DEF IsScript
<1>3. t \in Seq(Spoken) /\ Len(t) = l - 1 /\ \A i \in 1 .. l - 1 : t[i] = words[i + 1]
  BY <1>1, <1>2, HeadTailProperties
<1>4. Len(s) = 1 /\ s[1] = first /\ s \in Seq(Spoken \cup {first})
  BY <1>1
<1>5. t \in Seq(Spoken \cup {first})
  BY <1>3, SeqOfMore
<1>6. /\ Len(o) = 1 + (l - 1) /\ o \in Seq(Spoken \cup {first})
      /\ \A i \in 1 .. 1 + (l - 1) : o[i] = IF i <= 1 THEN s[i] ELSE t[i - 1]
  BY <1>1, <1>3, <1>4, <1>5, ConcatProperties
<1>7. Len(o) = l /\ o = [i \in 1 .. l |-> o[i]]
  BY <1>2, <1>6, LenProperties
<1>8. ASSUME NEW i \in 1 .. l PROVE o[i] = IF i = 1 THEN first ELSE words[i]
  <2>1. CASE i = 1
    BY <1>2, <1>4, <1>6, <2>1
  <2>2. CASE i # 1
    <3>1. i - 1 \in 1 .. l - 1 /\ (i - 1) + 1 = i /\ i \in 1 .. 1 + (l - 1) /\ ~(i <= 1)
      BY <1>2, <2>2
    <3>2. o[i] = t[i - 1] /\ t[i - 1] = words[(i - 1) + 1]
      BY <1>3, <1>6, <3>1
    <3> QED BY <2>2, <3>1, <3>2
  <2> QED BY <2>1, <2>2
<1> QED BY <1>1, <1>2, <1>7, <1>8

\* What such a script is, for a unit that is in the one that it was made from.
LEMMA Transfers ==
  ASSUME NEW words, IsScript(words), NEW opened, Opened(opened, words)
  PROVE  /\ Len(words) \in Nat /\ Len(words) >= 2 /\ Len(opened) = Len(words)
         /\ opened = [i \in 1 .. Len(opened) |-> opened[i]]
         /\ opened[1] \in {StartWord} \cup ControlWords
         /\ \A i \in 2 .. Len(words) : opened[i] = words[i]
<1>1. PICK first \in {StartWord} \cup ControlWords : opened = <<first>> \o Tail(words)
  BY DEF Opened
<1>2. /\ Len(words) \in Nat /\ Len(opened) = Len(words)
      /\ opened = [i \in 1 .. Len(words) |-> IF i = 1 THEN first ELSE words[i]]
  BY <1>1, OpenedIs
<1>3. Len(words) >= 2
  BY DEF IsScript
<1> QED BY <1>2, <1>3

LEMMA FitsOpened ==
  ASSUME NEW words, IsScript(words), NEW opened, Opened(opened, words),
         NEW u, NEW n, NEW lag, Fits(u, n, lag, words)
  PROVE  Fits(u, n, lag, opened)
<1>1. PICK l : l = Len(words)
  OBVIOUS
<1>2. /\ l \in Nat /\ l >= 2 /\ Len(opened) = l
      /\ opened = [i \in 1 .. Len(opened) |-> opened[i]]
      /\ opened[1] \in {StartWord} \cup ControlWords
      /\ \A i \in 2 .. l : opened[i] = words[i]
  BY <1>1, Transfers
<1>3. opened[2] \in ControlWords
  BY <1>2 DEF IsScript
<1>4. u.w_en = 1 => u.w = (IF n = 1 THEN StartWord ELSE opened[n])
  <2>1. n \in 0 .. l /\ (u.w_en = 1 => n # 0 /\ u.w = (IF n = 1 THEN StartWord ELSE words[n]))
    BY <1>1 DEF Fits
  <2>2. n # 0 /\ n # 1 => n \in 2 .. l
    BY <1>2, <2>1
  <2> QED BY <1>2, <2>1, <2>2
<1> QED BY <1>1, <1>2, <1>3, <1>4 DEF Fits

LEMMA MindsOpened ==
  ASSUME NEW words, IsScript(words), NEW opened, Opened(opened, words),
         NEW u, NEW n, NEW lag, NEW v, NEW m, NEW next,
         Fits(u, n, lag, words), Fits(v, m, next, words),
         Works(u, n, lag, v, m, next), Minds(u, n, v, m, words)
  PROVE  Minds(u, n, v, m, opened)
<1>1. PICK l : l = Len(words)
  OBVIOUS
<1>2. l \in Nat /\ Len(opened) = l /\ \A i \in 2 .. l : opened[i] = words[i]
  BY <1>1, Transfers
<1>3. n \in 0 .. l /\ m \in 0 .. l
  BY <1>1 DEF Fits
<1>4. ASSUME NEW x, NEW k, k \in 0 .. l PROVE Bold(x, k, words) <=> Bold(x, k, opened)
  <2>1. k \notin {0, 1} /\ k < l => k + 1 \in 2 .. l
    BY <1>2, <1>4
  <2> QED BY <1>1, <1>2, <2>1 DEF Bold
<1>5. u.w_en = 0 /\ v.w_en = 1 /\ n # 0 => m \in 2 .. l
  <2>1. u.w_en = 0 /\ v.w_en = 1 => m = n + 1
    BY DEF Works, PutsNext, GivesWord, WaitsOn
  <2> QED BY <1>2, <1>3, <2>1
<1>6. /\ u.w_en = 0 /\ v.w_en = 1 /\ n # 0 =>
           Ready \/ Bold(u, n, words) \/ words[m] \in ControlWords
      /\ Bold(v, m, words) => u.w_en = 0 /\ (Ready \/ Bold(u, n, words))
  BY DEF Minds
<1>7. /\ Bold(u, n, words) <=> Bold(u, n, opened)
      /\ Bold(v, m, words) <=> Bold(v, m, opened)
  BY <1>3, <1>4
<1>8. u.w_en = 0 /\ v.w_en = 1 /\ n # 0 =>
        Ready \/ Bold(u, n, opened) \/ opened[m] \in ControlWords
  BY <1>2, <1>5, <1>6, <1>7
<1>9. Bold(v, m, opened) => u.w_en = 0 /\ (Ready \/ Bold(u, n, opened))
  BY <1>6, <1>7
<1> QED BY <1>8, <1>9 DEF Minds

\* A step of a unit in the script is one in the script as it is sent.
LEMMA Carries ==
  ASSUME NEW words, IsScript(words), Opened(script, words),
         NEW u, NEW n, NEW lag, NEW v, NEW m, NEW next, OnBus(u, n), Records,
         Fits(u, n, lag, words), Fits(v, m, next, words), Serves(u, n, lag),
         Works(u, n, lag, v, m, next), Minds(u, n, v, m, words)
  PROVE  Serves(v, m, next)' /\ Forwards
<1>1. Fits(u, n, lag, script) /\ Fits(v, m, next, script)
  BY FitsOpened
<1>2. Minds(u, n, v, m, script)
  BY MindsOpened
<1> QED BY <1>1, <1>2, Served

\* A unit's last step of a command.
Finishes(v) ==
  /\ v.fsm = "IDLE" /\ v.stb = 0 /\ (refused \/ taken = script)
  /\ Queued' => refused /\ fsm' = "IDLE" /\ FrontWord' \in ControlWords

LEMMA Closes ==
  ASSUME NEW words, IsScript(words), Opened(script, words),
         NEW u, NEW n, NEW lag, NEW v, OnBus(u, n), Fits(u, n, lag, words),
         Serves(u, n, lag), Stops(u, n, v, words)
  PROVE  Finishes(v)
<1>1. Fits(u, n, lag, script)
  BY FitsOpened
<1>2. Stops(u, n, v, script)
  BY Transfers DEF Stops
<1>3. LineInv
  BY DEF OnBus
<1> QED BY <1>1, <1>2, <1>3, Ended, Leaves DEF Finishes, Stops

LEMMA HasBus ==
  ASSUME LineInv, NEW u, NEW n, NEW lag, NEW sda_i \in Bit,
         Tick(u.stb, u.w_en, u.w, 0, sda_i), NEW words, IsScript(words), Opened(script, words),
         Fits(u, n, lag, words), Serves(u, n, lag),
         u.w_en = 1 /\ n # 1 => Writable(in_fifo)
  PROVE  OnBus(u, n)
<1>0. Fits(u, n, lag, script)
  BY FitsOpened
<1>1. u.w_en = 1 => ForUser(u.w)
  BY <1>0 DEF Fits
<1>2. ASSUME fsm = "IDLE", u.stb = 1, Queued PROVE RwOf(FrontWord) = W
  <2>1. n = 1 /\ script[1] \in {StartWord} \cup ControlWords
    BY <1>0, <1>2 DEF Fits
  <2>2. FrontWord = script[1]
    BY <1>2 DEF Serves, Stopping, Unsent, Underway
  <2> QED BY <2>1, <2>2, StartWrites
<1>3. PICK stb, w_en, w : stb = u.stb /\ w_en = u.w_en /\ w = u.w
  OBVIOUS
<1>4. LineInv' /\ LineStep(stb)
  <2>1. Tick(stb, w_en, w, 0, sda_i) /\ (w_en = 1 => ForUser(w))
    BY <1>1, <1>3
  <2>2. fsm = "IDLE" /\ stb = 1 /\ Queued => RwOf(FrontWord) = W
    BY <1>2, <1>3
  <2> QED BY <2>1, <2>2, LineMoves
<1>5. in_fifo' = FifoNext(in_fifo, u.w_en, u.w, r_en)
  BY DEF Tick
<1> QED BY <1>3, <1>4, <1>5 DEF OnBus

\* The predicates of a unit that is given as a constant, of the unit itself.
LEMMA ServesUnit ==
  ASSUME NEW v, NEW m, NEW next
  PROVE  /\ v = loc' /\ Serves(v, m, next)' => Serves(loc, m, next)'
         /\ v = cls' /\ Serves(v, m, next)' => Serves(cls, m, next)'
         /\ v = wr' /\ Serves(v, m, next)' => Serves(wr, m, next)'
         /\ v = scr' /\ Serves(v, m, next)' => Serves(scr, m, next)'
  BY DEF Serves, Stopping, Unsent, Underway, Waits, Bold, ControlWords

-------------------------------------------------------------------------------
(***************************************************************************)
(* Each unit's command under way.                                          *)
(***************************************************************************)
LocServed ==
  \E words, n, lag :
    /\ Opened(script, words) /\ LocSpelled(words, row, col, scr.adjusted)
    /\ LocAt(loc, n, lag, words, row, col) /\ Serves(loc, n, lag)

ClsServed ==
  \E words, pt, n, lag :
    /\ Opened(script, words) /\ ClsSpelled(words, pt)
    /\ ClsAt(cls, n, lag, words, pt) /\ Serves(cls, n, lag)

WrServed ==
  \E k \in DOMAIN Commands : \E words, st, i, n, lag :
    /\ Opened(script, words) /\ PartsSpelled(words, Commands[k], st)
    /\ ROMAt(wr, rom_data, k, i, n, lag, words, st) /\ Serves(wr, n, lag)

ScrServed ==
  \E words, st, i, n, lag :
    /\ Opened(script, words) /\ PartsSpelled(words, ScrollParts(scr.adjusted), st)
    /\ ROMAt(scr, rom_data, OFFSET_SCROLL + 1, i, n, lag, words, st)
    /\ scr.written = n - i /\ Serves(scr, n, lag)

LEMMA LocFits ==
  ASSUME NEW u, NEW n, NEW lag, NEW words, NEW r, NEW c, NEW adjust,
         LocSpelled(words, r, c, adjust), LocAt(u, n, lag, words, r, c)
  PROVE  /\ IsScript(words) /\ Fits(u, n, lag, words) /\ u.fsm # "IDLE"
         /\ u.fsm \in Firsts => n = 1
<1>1. IsScript(words) /\ (Offers(u, n, lag, words) \/ Pauses(u, n, lag, words))
  BY DEF LocSpelled, LocAt
<1> QED BY <1>1, ScriptFits DEF LocAt, Firsts

LEMMA ClsFits ==
  ASSUME NEW u, NEW n, NEW lag, NEW words, NEW pt, ClsSpelled(words, pt),
         ClsAt(u, n, lag, words, pt)
  PROVE  /\ IsScript(words) /\ Fits(u, n, lag, words) /\ u.fsm # "IDLE"
         /\ u.fsm \in Firsts => n = 1
<1>1. IsScript(words) /\ (Offers(u, n, lag, words) \/ Pauses(u, n, lag, words))
  BY DEF ClsSpelled, ClsAt
<1> QED BY <1>1, ScriptFits DEF ClsAt, Firsts

LEMMA ROMBusy ==
  ASSUME NEW u, NEW data, NEW k, NEW i, NEW n, NEW lag, NEW words, NEW st,
         ROMAt(u, data, k, i, n, lag, words, st)
  PROVE  u.fsm # "IDLE" /\ (u.fsm \in Firsts => n = 1)
<1>1. ASSUME Finding(u, data, k) PROVE u.fsm # "IDLE" /\ u.fsm \notin Firsts
  BY <1>1 DEF Finding, Firsts
<1>2. ASSUME InPart(u, data, k, i, n, lag, words, st)
      PROVE  u.fsm # "IDLE" /\ (u.fsm \in Firsts => n = 1)
  BY <1>2 DEF InPart, Firsts
<1>3. ASSUME BehindPart(u, data, k, i, n, lag, words, st)
      PROVE  u.fsm # "IDLE" /\ u.fsm \notin Firsts
  BY <1>3 DEF BehindPart, PastPart, Firsts
<1> QED BY <1>1, <1>2, <1>3 DEF ROMAt, Firsts

LEMMA HasRoom ==
  ASSUME NEW u, NEW n, NEW putting, Shape(u, putting), Roomy(u, putting),
         u.fsm \in Firsts => n = 1
  PROVE  u.w_en = 1 /\ n # 1 => Writable(in_fifo)
  BY DEF Shape, Roomy

LEMMA LocServes ==
  ASSUME LineInv, LocServed, NEW stb, NEW sda_i \in Bit, Shape(loc, LocPutting),
         LocStep(stb, scr.adjusted), row \in 0 .. Rows, col \in 0 .. Rows,
         Tick(loc.stb, loc.w_en, loc.w, 0, sda_i), Roomy(loc, LocPutting),
         UNCHANGED <<row, col>>, scr'.adjusted = scr.adjusted
  PROVE  /\ LineInv'
         /\ \/ Finishes(loc')
            \/ loc'.fsm # "IDLE" /\ (Records => LocServed' /\ Forwards)
<1>1. PICK words, n, lag :
        /\ Opened(script, words) /\ LocSpelled(words, row, col, scr.adjusted)
        /\ LocAt(loc, n, lag, words, row, col) /\ Serves(loc, n, lag)
  BY DEF LocServed
<1>2. IsScript(words) /\ Fits(loc, n, lag, words) /\ (loc.fsm \in Firsts => n = 1)
  BY <1>1, LocFits
<1>3. loc.w_en = 1 /\ n # 1 => Writable(in_fifo)
  BY <1>2, HasRoom
<1>4. OnBus(loc, n)
  BY <1>1, <1>2, <1>3, HasBus
<1>5. LineInv'
  BY <1>4 DEF OnBus
<1>6. CASE Stops(loc, n, loc', words)
  <2>1. PICK v : v = loc'
    OBVIOUS
  <2>2. Finishes(v)
    BY <1>1, <1>2, <1>4, <1>6, <2>1, Closes
  <2> QED BY <1>5, <2>1, <2>2
<1>7. CASE \E m, next : /\ LocAt(loc', m, next, words, row, col)
                        /\ Works(loc, n, lag, loc', m, next) /\ Minds(loc, n, loc', m, words)
  <2>1. PICK m, next : /\ LocAt(loc', m, next, words, row, col)
                       /\ Works(loc, n, lag, loc', m, next) /\ Minds(loc, n, loc', m, words)
    BY <1>7
  <2>2. PICK v : v = loc'
    OBVIOUS
  <2>3. Fits(v, m, next, words) /\ v.fsm # "IDLE"
    BY <1>1, <2>1, <2>2, LocFits
  <2>4. ASSUME Records PROVE LocServed' /\ Forwards
    <3>1. Serves(v, m, next)' /\ Forwards
      BY <1>1, <1>2, <1>4, <2>1, <2>2, <2>3, <2>4, Carries
    <3>2. Serves(loc, m, next)'
      BY <2>2, <3>1, ServesUnit
    <3>3. Opened(script, words)'
      BY <1>1, <2>4 DEF Records, Opened, ControlWords
    <3>4. LocAt(loc, m, next, words, row, col)'
      BY <2>1 DEF LocAt, Offers, Pauses
    <3>5. LocSpelled(words, row, col, scr.adjusted)'
      BY <1>1 DEF LocSpelled
    <3> QED BY <3>1, <3>2, <3>3, <3>4, <3>5 DEF LocServed
  <2> QED BY <1>5, <2>2, <2>3, <2>4
<1> QED BY <1>1, <1>6, <1>7, LocGoes

LEMMA ClsServes ==
  ASSUME LineInv, ClsServed, NEW stb, NEW sda_i \in Bit, ClsShape(cls), ClsStep(stb),
         Tick(cls.stb, cls.w_en, cls.w, 0, sda_i), Roomy(cls, ClsPutting)
  PROVE  /\ LineInv'
         /\ \/ Finishes(cls')
            \/ cls'.fsm # "IDLE" /\ (Records => ClsServed' /\ Forwards)
<1>1. PICK words, pt, n, lag :
        /\ Opened(script, words) /\ ClsSpelled(words, pt)
        /\ ClsAt(cls, n, lag, words, pt) /\ Serves(cls, n, lag)
  BY DEF ClsServed
<1>2. IsScript(words) /\ Fits(cls, n, lag, words) /\ (cls.fsm \in Firsts => n = 1)
  BY <1>1, ClsFits
<1>3. cls.w_en = 1 /\ n # 1 => Writable(in_fifo)
  BY <1>2, HasRoom DEF ClsShape
<1>4. OnBus(cls, n)
  BY <1>1, <1>2, <1>3, HasBus
<1>5. LineInv'
  BY <1>4 DEF OnBus
<1>6. CASE Stops(cls, n, cls', words)
  <2>1. PICK v : v = cls'
    OBVIOUS
  <2>2. Finishes(v)
    BY <1>1, <1>2, <1>4, <1>6, <2>1, Closes
  <2> QED BY <1>5, <2>1, <2>2
<1>7. CASE \E m, next : /\ ClsAt(cls', m, next, words, pt)
                        /\ Works(cls, n, lag, cls', m, next) /\ Minds(cls, n, cls', m, words)
  <2>1. PICK m, next : /\ ClsAt(cls', m, next, words, pt)
                       /\ Works(cls, n, lag, cls', m, next) /\ Minds(cls, n, cls', m, words)
    BY <1>7
  <2>2. PICK v : v = cls'
    OBVIOUS
  <2>3. Fits(v, m, next, words) /\ v.fsm # "IDLE"
    BY <1>1, <2>1, <2>2, ClsFits
  <2>4. ASSUME Records PROVE ClsServed' /\ Forwards
    <3>1. Serves(v, m, next)' /\ Forwards
      BY <1>1, <1>2, <1>4, <2>1, <2>2, <2>3, <2>4, Carries
    <3>2. Serves(cls, m, next)'
      BY <2>2, <3>1, ServesUnit
    <3>3. Opened(script, words)'
      BY <1>1, <2>4 DEF Records, Opened, ControlWords
    <3>4. ClsAt(cls, m, next, words, pt)'
      BY <2>1 DEF ClsAt, Offers, Pauses
    <3>5. ClsSpelled(words, pt)'
      BY <1>1 DEF ClsSpelled
    <3> QED BY <1>1, <3>1, <3>2, <3>3, <3>4 DEF ClsServed
  <2> QED BY <1>5, <2>2, <2>3, <2>4
<1> QED BY <1>1, <1>6, <1>7, ClsGoes

LEMMA ROMAtUnit ==
  ASSUME NEW k, NEW i, NEW n, NEW lag, NEW words, NEW st
  PROVE  /\ ROMAt(wr', rom_data', k, i, n, lag, words, st) =>
              ROMAt(wr, rom_data, k, i, n, lag, words, st)'
         /\ ROMAt(scr', rom_data', k, i, n, lag, words, st) =>
              ROMAt(scr, rom_data, k, i, n, lag, words, st)'
  BY Zenon DEF ROMAt, InPart, BehindPart, Finding, Within, PastPart, PauseOf, Offers, Pauses

LEMMA WrServes ==
  ASSUME LineInv, WrServed, NEW stb, NEW index, NEW sda_i \in Bit, ROMShape(wr),
         WrStep(stb, index), Puts(wr, wr', ROMPutting, Writable(in_fifo)),
         rom_data' = ROMByte(wr.addr),
         Tick(wr.stb, wr.w_en, wr.w, 0, sda_i), Roomy(wr, ROMPutting)
  PROVE  /\ LineInv'
         /\ \/ Finishes(wr')
            \/ wr'.fsm # "IDLE" /\ (Records => WrServed' /\ Forwards)
<1>0. PICK k \in DOMAIN Commands : \E words, st, i, n, lag :
        /\ Opened(script, words) /\ PartsSpelled(words, Commands[k], st)
        /\ ROMAt(wr, rom_data, k, i, n, lag, words, st) /\ Serves(wr, n, lag)
  BY DEF WrServed
<1>1. PICK words, st, i, n, lag :
        /\ Opened(script, words) /\ PartsSpelled(words, Commands[k], st)
        /\ ROMAt(wr, rom_data, k, i, n, lag, words, st) /\ Serves(wr, n, lag)
  BY <1>0
<1>2. IsScript(words) /\ Fits(wr, n, lag, words) /\ (wr.fsm \in Firsts => n = 1)
  <2>1. IsScript(words)
    BY <1>1 DEF PartsSpelled
  <2> QED BY <1>1, <2>1, ROMFits, ROMBusy
<1>3. wr.w_en = 1 /\ n # 1 => Writable(in_fifo)
  BY <1>2, HasRoom DEF ROMShape
<1>4. OnBus(wr, n)
  BY <1>1, <1>2, <1>3, HasBus
<1>5. LineInv'
  BY <1>4 DEF OnBus
<1>6. CASE Stops(wr, n, wr', words)
  <2>1. PICK v : v = wr'
    OBVIOUS
  <2>2. Finishes(v)
    BY <1>1, <1>2, <1>4, <1>6, <2>1, Closes
  <2> QED BY <1>5, <2>1, <2>2
<1>7. CASE \E j, m, next : /\ ROMAt(wr', rom_data', k, j, m, next, words, st)
                           /\ Works(wr, n, lag, wr', m, next) /\ Minds(wr, n, wr', m, words)
  <2>1. PICK j, m, next : /\ ROMAt(wr', rom_data', k, j, m, next, words, st)
                          /\ Works(wr, n, lag, wr', m, next) /\ Minds(wr, n, wr', m, words)
    BY <1>7
  <2>2. PICK v, data2 : v = wr' /\ data2 = rom_data'
    OBVIOUS
  <2>3. Fits(v, m, next, words) /\ v.fsm # "IDLE"
    <3>1. ROMShape(v)
      BY <2>2, WrMoves
    <3>2. ROMAt(v, data2, k, j, m, next, words, st)
      BY <2>1, <2>2
    <3> QED BY <1>2, <3>1, <3>2, ROMFits, ROMBusy
  <2>4. ASSUME Records PROVE WrServed' /\ Forwards
    <3>1. Serves(v, m, next)' /\ Forwards
      BY <1>1, <1>2, <1>4, <2>1, <2>2, <2>3, <2>4, Carries
    <3>2. Serves(wr, m, next)'
      BY <2>2, <3>1, ServesUnit
    <3>3. Opened(script, words)'
      BY <1>1, <2>4 DEF Records, Opened, ControlWords
    <3>4. ROMAt(wr, rom_data, k, j, m, next, words, st)'
      BY <2>1, ROMAtUnit
    <3>5. PartsSpelled(words, Commands[k], st)
      BY <1>1
    <3> QED BY <3>1, <3>2, <3>3, <3>4, <3>5 DEF WrServed
  <2> QED BY <1>5, <2>2, <2>3, <2>4
<1>8. Proceeds(wr, wr', rom_data', k, i, n, lag, words, st)
  BY <1>1, WrGoes
<1> QED BY <1>6, <1>7, <1>8 DEF Proceeds

LEMMA ScrServes ==
  ASSUME LineInv, ScrServed, NEW stb, NEW rst, NEW sda_i \in Bit, ScrShape,
         scr.adjusted \in 0 .. Rows - 1, ScrStep(stb, rst),
         Puts(scr, scr', ROMPutting, Writable(in_fifo)), rom_data' = ROMByte(scr.addr),
         Tick(scr.stb, scr.w_en, scr.w, 0, sda_i), Roomy(scr, ROMPutting)
  PROVE  /\ LineInv'
         /\ \/ Finishes(scr')
            \/ scr'.fsm # "IDLE" /\ (Records => ScrServed' /\ Forwards)
<1>1. PICK words, st, i, n, lag :
        /\ Opened(script, words) /\ PartsSpelled(words, ScrollParts(scr.adjusted), st)
        /\ ROMAt(scr, rom_data, OFFSET_SCROLL + 1, i, n, lag, words, st)
        /\ scr.written = n - i /\ Serves(scr, n, lag)
  BY DEF ScrServed
<1>15. PICK k : k = OFFSET_SCROLL + 1
  OBVIOUS
<1>2. /\ IsScript(words) /\ Fits(scr, n, lag, words) /\ (scr.fsm \in Firsts => n = 1)
      /\ scr.fsm # "IDLE"
  <2>1. IsScript(words) /\ ROMShape(scr)
    BY <1>1 DEF PartsSpelled, ScrShape
  <2> QED BY <1>1, <2>1, ROMFits, ROMBusy
<1>3. scr.w_en = 1 /\ n # 1 => Writable(in_fifo)
  BY <1>2, HasRoom DEF ScrShape, ROMShape
<1>4. OnBus(scr, n)
  BY <1>1, <1>2, <1>3, HasBus
<1>5. LineInv'
  BY <1>4 DEF OnBus
<1>6. CASE Stops(scr, n, scr', words)
  <2>1. PICK v : v = scr'
    OBVIOUS
  <2>2. Finishes(v)
    BY <1>1, <1>2, <1>4, <1>6, <2>1, Closes
  <2> QED BY <1>5, <2>1, <2>2
<1>7. CASE \E j, m, next : /\ ROMAt(scr', rom_data', k, j, m, next, words, st)
                           /\ Works(scr, n, lag, scr', m, next)
                           /\ Minds(scr, n, scr', m, words)
                           /\ m - j = n - i + Queuing(scr')
  <2>1. PICK j, m, next : /\ ROMAt(scr', rom_data', k, j, m, next, words, st)
                          /\ Works(scr, n, lag, scr', m, next)
                          /\ Minds(scr, n, scr', m, words)
                          /\ m - j = n - i + Queuing(scr')
    BY <1>7
  <2>2. PICK v, data2 : v = scr' /\ data2 = rom_data'
    OBVIOUS
  <2>3. Fits(v, m, next, words) /\ v.fsm # "IDLE"
    <3>1. ROMShape(v)
      BY <2>2, ScrMoves DEF ScrShape
    <3>2. ROMAt(v, data2, k, j, m, next, words, st)
      BY <2>1, <2>2
    <3> QED BY <1>2, <3>1, <3>2, ROMFits, ROMBusy
  <2>35. Counts(scr, scr')
    BY <1>2, <2>2, <2>3, ScrHands
  <2>36. scr'.adjusted = scr.adjusted /\ scr'.written = m - j
    <3>1. PICK a, b, c, d : a = scr.written /\ b = scr'.written /\ c = n - i /\ d = m - j
      OBVIOUS
    <3>2. scr'.adjusted = scr.adjusted /\ b = (IF scr'.fsm = "SEND_LATCHED_W_EN" THEN a + 1 ELSE a)
      BY <2>35, <3>1 DEF Counts
    <3>3. a = c /\ d = c + (IF scr'.fsm = "SEND_LATCHED_W_EN" THEN 1 ELSE 0)
      BY <1>1, <2>1, <3>1 DEF Queuing
    <3>4. b = d
      BY <3>2, <3>3
    <3> QED BY <3>1, <3>2, <3>4
  <2>4. ASSUME Records PROVE ScrServed' /\ Forwards
    <3>1. Serves(v, m, next)' /\ Forwards
      BY <1>1, <1>2, <1>4, <2>1, <2>2, <2>3, <2>4, Carries
    <3>2. Serves(scr, m, next)'
      BY <2>2, <3>1, ServesUnit
    <3>3. Opened(script, words)'
      BY <1>1, <2>4 DEF Records, Opened, ControlWords
    <3>4. ROMAt(scr, rom_data, k, j, m, next, words, st)'
      BY <2>1, ROMAtUnit
    <3>5. PartsSpelled(words, ScrollParts(scr.adjusted), st)'
      BY <1>1, <2>36 DEF PartsSpelled, ScrollParts
    <3>6. ROMAt(scr, rom_data, OFFSET_SCROLL + 1, j, m, next, words, st)'
      BY <1>15, <3>4
    <3>7. (scr.written = m - j)'
      BY <2>36
    <3> QED BY <3>1, <3>2, <3>3, <3>5, <3>6, <3>7 DEF ScrServed
  <2> QED BY <1>5, <2>2, <2>3, <2>4
<1>8. Proceeds(scr, scr', rom_data', k, i, n, lag, words, st)
  BY <1>1, <1>15, ScrGoes
<1> QED BY <1>6, <1>7, <1>8 DEF Proceeds

-------------------------------------------------------------------------------
(***************************************************************************)
(* The step in which a unit is strobed.                                    *)
(***************************************************************************)
\* The queue is the units' own, and holds at most what a refused one has left.
Calm ==
  /\ LineInv /\ LineInv' /\ LineStep(0)
  /\ \E w : in_fifo' = FifoNext(in_fifo, 0, w, r_en)
  /\ Queued => fsm = "IDLE" /\ FrontWord \in ControlWords
  /\ taken = <<>> /\ ~refused
  /\ ~AllIdle' => /\ taken' = (IF Takes THEN Append(taken, FrontWord) ELSE taken)
                  /\ refused' = (refused \/ Refuses)

Fresh == taken' = <<>> /\ ~refused'

LEMMA OpeningIs ==
  ASSUME LineInv, Queued => FrontWord \in ControlWords, NEW words, IsScript(words)
  PROVE  /\ Opened(Opening \o Tail(words), words)
         /\ (Opening \o Tail(words))[1] = (IF Queued THEN FrontWord ELSE StartWord)
<1>1. PICK first : first = (IF Queued THEN FrontWord ELSE StartWord)
  OBVIOUS
<1>2. Opening = <<first>> /\ first \in {StartWord} \cup ControlWords
  BY <1>1 DEF Opening, LineInv, Queued, Readable
<1>3. PICK opened : opened = <<first>> \o Tail(words)
  OBVIOUS
<1>4. Len(words) \in Nat /\ opened = [i \in 1 .. Len(words) |-> IF i = 1 THEN first ELSE words[i]]
  BY <1>3, OpenedIs
<1>5. opened[1] = first
  BY <1>4 DEF IsScript
<1> QED BY <1>1, <1>2, <1>3, <1>5 DEF Opened

LEMMA Begin ==
  ASSUME Calm, NEW words, IsScript(words), script' = Opening \o Tail(words),
         NEW v, NEW n, NEW lag, v.stb = 0, (n = 1 /\ v.w_en = 1) \/ (n = 0 /\ v.w_en = 0),
         ~AllIdle'
  PROVE  Opened(script, words)' /\ Serves(v, n, lag)' /\ Fresh
<1>1. /\ LineInv /\ LineInv' /\ LineStep(0)
      /\ Queued => fsm = "IDLE" /\ FrontWord \in ControlWords
      /\ taken = <<>> /\ ~refused
      /\ taken' = (IF Takes THEN Append(taken, FrontWord) ELSE taken)
      /\ refused' = (refused \/ Refuses)
  BY DEF Calm
<1>2. PICK w : in_fifo' = FifoNext(in_fifo, 0, w, r_en)
  BY DEF Calm
<1>3. Opened(script', words) /\ script'[1] = (IF Queued THEN FrontWord ELSE StartWord)
  BY <1>1, OpeningIs
<1>4. Unsent(v, n)' /\ taken' = <<>> /\ ~refused'
  BY <1>1, <1>2, <1>3, Opens
<1>5. Opened(script, words)'
  BY <1>3 DEF Opened, ControlWords
<1> QED BY <1>4, <1>5 DEF Serves, Fresh

LEMMA LocBegins ==
  ASSUME Calm, Shape(loc, LocPutting), LocStep(1, scr.adjusted), loc.fsm = "IDLE", loc.stb = 0,
         row' \in 0 .. Rows, col' \in 0 .. Rows, scr'.adjusted \in 0 .. Rows - 1,
         script' = Opening \o Tail(LocatorScript(row', col', scr'.adjusted))
  PROVE  LocServed' /\ loc'.fsm # "IDLE" /\ Fresh
<1>1. /\ loc'.fsm = "START_ADDR_STROBED_W_EN" /\ loc'.w_en = 1 /\ loc'.stb = 0
      /\ loc'.w = StartWord
  <2>1. LocIdle(1)
    BY DEF LocStep, LocIdle, LocAddrQueued, LocControl, LocStrobed, LocPage, LocColLower,
           LocColHigher, LocFinish
  <2>2. {"fsm", "busy", "stb", "w_en", "w"} \subseteq DOMAIN loc
    BY DEF Shape
  <2>3. loc' = Goto(PutStart([loc EXCEPT !.busy = 1]), "START_ADDR_STROBED_W_EN")
    BY <2>1 DEF LocIdle
  <2> QED BY <2>2, <2>3 DEF Goto, PutStart
<1>2. PICK v, words, r, c, adjust :
        /\ v = loc' /\ words = LocatorScript(row', col', scr'.adjusted)
        /\ r = row' /\ c = col' /\ adjust = scr'.adjusted
  OBVIOUS
<1>3. LocSpelled(words, r, c, adjust)
  BY <1>2, LocWords
<1>4. IsScript(words) /\ words[1] = StartWord /\ 1 \in 1 .. Len(words)
  <2>1. IsScript(words) /\ Len(words) \in Nat /\ Len(words) # 0 /\ words[1] = StartWord
    BY <1>3, LenProperties DEF LocSpelled, IsScript
  <2> QED BY <2>1
<1>5. LocAt(v, 1, 1, words, r, c)
  BY <1>1, <1>2, <1>4 DEF LocAt, Offers
<1>6. ~AllIdle'
  BY <1>1 DEF AllIdle, AtRest
<1>7. Opened(script, words)' /\ Serves(v, 1, 1)' /\ Fresh
  <2>1. script' = Opening \o Tail(words)
    BY <1>2
  <2> QED BY <1>1, <1>2, <1>4, <1>6, <2>1, Begin
<1>8. Serves(loc, 1, 1)'
  BY <1>2, <1>7, ServesUnit
<1>9. LocAt(loc, 1, 1, words, row, col)'
  BY <1>2, <1>5 DEF LocAt, Offers, Pauses
<1>10. LocSpelled(words, row, col, scr.adjusted)'
  BY <1>2, <1>3 DEF LocSpelled
<1> QED BY <1>1, <1>7, <1>8, <1>9, <1>10 DEF LocServed

LEMMA ClsBegins ==
  ASSUME Calm, ClsShape(cls), ClsStep(1), cls.fsm = "IDLE", cls.stb = 0,
         script' = Opening \o Tail(ClserScript)
  PROVE  ClsServed' /\ cls'.fsm # "IDLE" /\ Fresh
<1>1. /\ cls'.fsm = "START_ADDR_STROBED_W_EN" /\ cls'.w_en = 1 /\ cls'.stb = 0
      /\ cls'.w = StartWord /\ cls'.page = 0 /\ cls'.column = 0
  <2>1. ClsIdle(1)
    BY DEF ClsStep, ClsIdle, ClsAddrQueued, ClsControl, ClsStrobed, ClsSend, ClsDataStart,
           ClsDataControl, ClsLoop
  <2>2. {"fsm", "busy", "stb", "w_en", "w", "page", "column"} \subseteq DOMAIN cls
    BY DEF ClsShape, Shape
  <2>3. PICK c : c = [cls EXCEPT !.page = 0, !.column = 0]
    OBVIOUS
  <2>4. cls' = Goto(PutStart([c EXCEPT !.busy = 1]), "START_ADDR_STROBED_W_EN")
    BY <2>1, <2>3 DEF ClsIdle
  <2> QED BY <2>2, <2>3, <2>4 DEF Goto, PutStart
<1>2. PICK v, words : v = cls' /\ words = ClserScript
  OBVIOUS
<1>3. PICK pt : ClsSpelled(words, pt)
  BY <1>2, ClsWords
<1>4. IsScript(words) /\ words[1] = StartWord /\ 1 \in 1 .. Len(words)
  <2>1. IsScript(words) /\ Len(words) \in Nat /\ Len(words) # 0 /\ words[1] = StartWord
    BY <1>3, LenProperties DEF ClsSpelled, IsScript
  <2> QED BY <2>1
<1>5. ClsAt(v, 1, 1, words, pt)
  BY <1>1, <1>2, <1>4 DEF ClsAt, Offers
<1>6. ~AllIdle'
  BY <1>1 DEF AllIdle, AtRest
<1>7. Opened(script, words)' /\ Serves(v, 1, 1)' /\ Fresh
  <2>1. script' = Opening \o Tail(words)
    BY <1>2
  <2> QED BY <1>1, <1>2, <1>4, <1>6, <2>1, Begin
<1>8. Serves(cls, 1, 1)'
  BY <1>2, <1>7, ServesUnit
<1>9. ClsAt(cls, 1, 1, words, pt)'
  BY <1>2, <1>5 DEF ClsAt, Offers, Pauses
<1>10. ClsSpelled(words, pt)'
  BY <1>3 DEF ClsSpelled
<1> QED BY <1>1, <1>7, <1>8, <1>9, <1>10 DEF ClsServed

\* A unit that reads the ROM looks its command up first.
LEMMA Looks ==
  ASSUME NEW u, NEW v, NEW index \in Nat, NEW data, NEW data2, NEW room \in BOOLEAN,
         NEW code, NEW words, NEW st, Moves(u, v, 1, index, data, room), Hands(u, v, code),
         u.fsm = "IDLE", u.stb = 0, v.fsm = "START_ADDRESSED_OFFSET0"
  PROVE  ROMAt(v, data2, index + 1, 0, 0, 2, words, st)
<1>1. Begins(u, v, index)
  BY DEF Moves, Forgets, Becomes, Rests, LooksUp, Sends, EndsPart
<1>2. 0 \in 0 .. Len(ROMContent)
  BY ROMLaid
<1>3. (index + 1) - 1 = index
  OBVIOUS
<1>4. v.addr = 4 * ((index + 1) - 1)
  BY <1>1, <1>3 DEF Begins, Becomes
<1>5. Finding(v, data2, index + 1)
  BY <1>1, <1>2, <1>4 DEF Begins, Becomes, Finding
<1>6. v.stb = 0
  BY DEF Hands
<1> QED BY <1>5, <1>6 DEF ROMAt

LEMMA BytesCount == \A a \in 0 .. 255 : a \in Nat
OBVIOUS

LEMMA CommandBytes ==
  ASSUME NEW k \in DOMAIN Commands, Commands[k][1] # <<>>
  PROVE  /\ Commands[k] \in Seq(Seq(Nat)) /\ Len(Commands[k]) # 0 /\ Len(Commands[k][1]) # 0
         /\ \A i \in 1 .. Len(Commands[k]) :
              Len(Commands[k][i]) # 0 => Commands[k][i][1] \in ControlBytes
<1>1. PICK parts, n : parts = Commands[k] /\ n = Len(parts)
  OBVIOUS
<1>2. /\ parts \in Seq(Seq(0 .. 255)) /\ n \in Nat /\ n # 0 /\ DOMAIN parts = 1 .. n
      /\ parts = [i \in 1 .. n |-> parts[i]]
  BY <1>1, CommandsAre, LenProperties
<1>3. ASSUME NEW i \in 1 .. n PROVE parts[i] \in Seq(Nat)
  <2>1. PICK p : p = parts[i]
    OBVIOUS
  <2>2. p \in Seq(0 .. 255)
    BY <1>2, <2>1, ElementOfSeq
  <2>3. /\ Len(p) \in Nat /\ p = [j \in 1 .. Len(p) |-> p[j]]
        /\ \A j \in 1 .. Len(p) : p[j] \in 0 .. 255
    BY <2>2, LenProperties, ElementOfSeq
  <2>4. \A j \in 1 .. Len(p) : p[j] \in Nat
    BY <2>3, BytesCount, Zenon
  <2>5. FunctionIsSeq(p, Len(p), Nat)
    BY <2>3, <2>4 DEF FunctionIsSeq
  <2>6. p \in Seq(Nat)
    BY <2>3, <2>5, ASequence
  <2> QED BY <2>1, <2>6
<1>4. FunctionIsSeq(parts, n, Seq(Nat))
  BY <1>2, <1>3 DEF FunctionIsSeq
<1>5. parts \in Seq(Seq(Nat))
  BY <1>2, <1>4, ASequence
<1>6. Len(parts[1]) # 0
  <2>1. 1 \in 1 .. n
    BY <1>2
  <2>2. parts[1] \in Seq(Nat) /\ parts[1] # <<>>
    BY <1>1, <1>3, <2>1
  <2> QED BY <2>2, EmptySeq
<1>7. ASSUME NEW i \in 1 .. n, Len(parts[i]) # 0 PROVE parts[i][1] \in ControlBytes
  <2>1. parts[i] \in Seq(Nat)
    BY <1>3, <1>7
  <2>2. parts[i] # <<>>
    BY <1>7, <2>1, EmptySeq
  <2>3. parts[i] # <<>> /\ i \in DOMAIN parts
    BY <1>2, <1>7, <2>2
  <2> QED BY <1>1, <2>3, ControlAssumption
<1> QED BY <1>1, <1>2, <1>5, <1>6, <1>7

LEMMA WrBegins ==
  ASSUME Calm, ROMShape(wr), NEW index \in Nat, index + 1 \in DOMAIN Commands,
         Commands[index + 1][1] # <<>>, WrStep(1, index), wr.fsm = "IDLE", wr.stb = 0,
         script' = Opening \o Tail(PartsScript(Commands[index + 1]))
  PROVE  WrServed' /\ wr'.fsm # "IDLE" /\ Fresh
<1>1. wr'.fsm = "START_ADDRESSED_OFFSET0"
  <2>1. WrIdle(1, index)
    BY DEF WrStep, WrCommonStep, WrAddressedOffset0, WrAddressedOffset1, WrAddressedLen0,
           WrAddressedLen1, WrAddressedData, WrAddressPeripheral, WrPartEnds, WrSendLatched,
           WrWaitForI2C, WrNextLen0, WrNextLen1, WrSeqBreakLatched, WrSend, WrFinish
  <2>2. ROMFields \subseteq DOMAIN wr
    BY DEF ROMShape
  <2>3. wr' = Goto([Forget(wr) EXCEPT !.busy = 1, !.addr = 4 * index],
                   "START_ADDRESSED_OFFSET0")
    BY <2>1 DEF WrIdle
  <2> QED BY <2>2, <2>3 DEF Goto, Forget, ROMFields
<1>2. PICK v, words, data2, k, room :
        /\ v = wr' /\ words = PartsScript(Commands[index + 1]) /\ data2 = rom_data'
        /\ k = index + 1 /\ room = Writable(in_fifo)
  OBVIOUS
<1>3. /\ ROMShape(v) /\ Moves(wr, v, 1, index, rom_data, room)
      /\ Hands(wr, v, rom_data)
  BY <1>2, WrMoves, WrHands
<1>4. room \in BOOLEAN
  BY <1>2 DEF Writable
<1>5. PICK st : PartsSpelled(words, Commands[k], st)
  <2>1. PICK parts : parts = Commands[k]
    OBVIOUS
  <2>2. /\ parts \in Seq(Seq(Nat)) /\ Len(parts) # 0 /\ Len(parts[1]) # 0
        /\ \A i \in 1 .. Len(parts) : Len(parts[i]) # 0 => parts[i][1] \in ControlBytes
    BY <1>2, <2>1, CommandBytes
  <2> QED BY <1>2, <2>1, <2>2, PartsWords
<1>6. ROMAt(v, data2, k, 0, 0, 2, words, st)
  BY <1>1, <1>2, <1>3, <1>4, Looks
<1>7. IsScript(words)
  BY <1>5 DEF PartsSpelled
<1>8. v.w_en = 0 /\ v.stb = 0
  BY <1>1, <1>2, <1>3 DEF ROMShape, Shape, ROMPutting, Hands
<1>9. ~AllIdle'
  BY <1>1 DEF AllIdle, AtRest
<1>10. Opened(script, words)' /\ Serves(v, 0, 2)' /\ Fresh
  <2>1. script' = Opening \o Tail(words)
    BY <1>2
  <2> QED BY <1>7, <1>8, <1>9, <2>1, Begin
<1>11. Serves(wr, 0, 2)'
  BY <1>2, <1>10, ServesUnit
<1>12. ROMAt(wr, rom_data, k, 0, 0, 2, words, st)'
  BY <1>2, <1>6, ROMAtUnit
<1>13. PartsSpelled(words, Commands[k], st) /\ k \in DOMAIN Commands
  BY <1>2, <1>5
<1> QED BY <1>1, <1>10, <1>11, <1>12, <1>13 DEF WrServed

LEMMA ScrBegins ==
  ASSUME Calm, ScrShape, scr.adjusted \in 0 .. Rows - 1, NEW rst, rst # 1,
         ScrStep(1, rst), scr.fsm = "IDLE", scr.stb = 0,
         script' = Opening \o Tail(PartsScript(ScrollParts(scr.adjusted)))
  PROVE  ScrServed' /\ scr'.fsm # "IDLE" /\ Fresh
<1>1. /\ scr'.fsm = "START_ADDRESSED_OFFSET0" /\ scr'.written = 0
      /\ scr'.adjusted = scr.adjusted
  BY ScrHands
<1>2. PICK v, words, data2, k, room :
        /\ v = scr' /\ words = PartsScript(ScrollParts(scr.adjusted)) /\ data2 = rom_data'
        /\ k = OFFSET_SCROLL + 1 /\ room = Writable(in_fifo)
  OBVIOUS
<1>3. /\ ROMShape(v) /\ Moves(scr, v, 1, OFFSET_SCROLL, rom_data, room)
      /\ Hands(scr, v, Patched(rom_data))
  BY <1>2, ScrMoves, ScrHands DEF ScrShape
<1>4. room \in BOOLEAN /\ OFFSET_SCROLL \in Nat
  BY <1>2, ScrollAssumption DEF Writable
<1>5. PICK st : PartsSpelled(words, ScrollParts(scr.adjusted), st)
  <2>1. PICK parts : parts = ScrollParts(scr.adjusted)
    OBVIOUS
  <2>2. /\ parts \in Seq(Seq(Nat)) /\ Len(parts) # 0 /\ Len(parts[1]) # 0
        /\ \A i \in 1 .. Len(parts) : Len(parts[i]) # 0 => parts[i][1] \in ControlBytes
    BY <2>1, ScrollPartsAre
  <2> QED BY <1>2, <2>1, <2>2, PartsWords
<1>6. ROMAt(v, data2, k, 0, 0, 2, words, st)
  BY <1>1, <1>2, <1>3, <1>4, Looks
<1>7. IsScript(words)
  BY <1>5 DEF PartsSpelled
<1>8. v.w_en = 0 /\ v.stb = 0
  BY <1>1, <1>2, <1>3 DEF ROMShape, Shape, ROMPutting, Hands
<1>9. ~AllIdle'
  BY <1>1 DEF AllIdle, AtRest
<1>10. Opened(script, words)' /\ Serves(v, 0, 2)' /\ Fresh
  <2>1. script' = Opening \o Tail(words)
    BY <1>2
  <2> QED BY <1>7, <1>8, <1>9, <2>1, Begin
<1>11. Serves(scr, 0, 2)'
  BY <1>2, <1>10, ServesUnit
<1>12. ROMAt(scr, rom_data, k, 0, 0, 2, words, st)'
  BY <1>2, <1>6, ROMAtUnit
<1>13. PartsSpelled(words, ScrollParts(scr.adjusted), st)'
  BY <1>1, <1>5 DEF PartsSpelled, ScrollParts
<1>14. (scr.written = 0 - 0)'
  BY <1>1
<1>15. ROMAt(scr, rom_data, OFFSET_SCROLL + 1, 0, 0, 2, words, st)'
  BY <1>2, <1>12
<1> QED BY <1>1, <1>10, <1>11, <1>13, <1>14, <1>15 DEF ScrServed

-------------------------------------------------------------------------------
(***************************************************************************)
(* The inductive invariant of the deliveries.                              *)
(***************************************************************************)
ServesInv ==
  /\ ~AtRest(loc) => LocServed
  /\ ~AtRest(cls) => ClsServed
  /\ ~AtRest(wr) => WrServed
  /\ ~AtRest(scr) => ScrServed

RestsInv ==
  /\ AtRest(loc) => loc.stb = 0
  /\ AtRest(cls) => cls.stb = 0
  /\ AtRest(wr) => wr.stb = 0
  /\ AtRest(scr) => scr.stb = 0

\* Between commands the queue holds at most a word that a refused one has left,
\* and then the controller is idle.
LeftInv == AllIdle /\ Queued => fsm = "IDLE" /\ FrontWord \in ControlWords

\* Locator has its operands when it is strobed.
OperandInv == req.unit = "locator" => row = req.row /\ col = req.col

\* Between commands the history is empty.
ClearInv ==
  /\ refused \in BOOLEAN
  /\ ~AnyBusy => taken = <<>> /\ script = <<>> /\ ~refused

DeliveryInv ==
  /\ BusInv /\ LineInv /\ ServesInv /\ RestsInv /\ LeftInv /\ OperandInv /\ ClearInv

-------------------------------------------------------------------------------
(***************************************************************************)
(* A step: nothing, a command's first, one of its steps, or its last.      *)
(***************************************************************************)
Cycle(sda_i) == DeliveryInv /\ BusInv' /\ sda_i \in Bit /\ Gateware(sda_i) /\ User

Quiet ==
  /\ AllIdle /\ AllIdle' /\ req = None
  /\ in_fifo' = in_fifo /\ (fsm = "IDLE" => fsm' = "IDLE")

Begun == AllIdle /\ ~AllIdle' /\ req # None /\ Fresh

Goes == ~AllIdle /\ ~AllIdle' /\ req = None /\ Forwards

Finished ==
  /\ ~AllIdle /\ AllIdle' /\ req = None /\ (refused \/ taken = script)
  /\ Queued' => refused /\ fsm' = "IDLE" /\ FrontWord' \in ControlWords

LEMMA UnitsDo ==
  ASSUME NEW sda_i, Gateware(sda_i)
  PROVE  /\ LocStep(Strobed(req, "locator"), scr.adjusted)
         /\ ClsStep(Strobed(req, "clser"))
         /\ WrStep(Strobed(req, "rom_writer"),
                   IF Strobed(req, "rom_writer") = 1 THEN req.index ELSE 0)
         /\ ScrStep(Strobed(req, "scroller"),
                    IF Strobed(req, "rom_writer") = 1 THEN req.rst ELSE 0)
         /\ rom_data' = ROMByte(ROMAddr)
         /\ Tick(Owner(IdleUnit).stb, Owner(IdleUnit).w_en, Owner(IdleUnit).w, 0, sda_i)
         /\ History
  BY DEF Gateware, UnitsStep, ReadPort

LEMMA LocRests ==
  ASSUME NEW stb, stb # 1, NEW adjust, AtRest(loc), LocStep(stb, adjust)
  PROVE  loc' = loc
  BY DEF AtRest, LocStep, LocIdle, LocAddrQueued, LocControl, LocStrobed, LocPage,
         LocColLower, LocColHigher, LocFinish

LEMMA ClsRests ==
  ASSUME NEW stb, stb # 1, AtRest(cls), ClsStep(stb), ClsShape(cls)
  PROVE  AtRest(cls') /\ cls'.stb = cls.stb
<1>1. ClsIdle(stb)
  BY DEF AtRest, ClsStep, ClsIdle, ClsAddrQueued, ClsControl, ClsStrobed, ClsSend,
         ClsDataStart, ClsDataControl, ClsLoop
<1>2. cls' = [cls EXCEPT !.page = 0, !.column = 0]
  BY <1>1 DEF ClsIdle
<1>3. {"fsm", "stb", "page", "column"} \subseteq DOMAIN cls
  BY DEF ClsShape, Shape
<1> QED BY <1>2, <1>3 DEF AtRest

LEMMA WrRests ==
  ASSUME NEW stb, stb # 1, NEW index, AtRest(wr), WrStep(stb, index), ROMShape(wr)
  PROVE  AtRest(wr') /\ wr'.stb = wr.stb
<1>1. WrIdle(stb, index)
  BY DEF AtRest, WrStep, WrIdle, WrCommonStep, WrAddressedOffset0, WrAddressedOffset1,
         WrAddressedLen0, WrAddressedLen1, WrAddressedData, WrAddressPeripheral, WrPartEnds,
         WrSendLatched, WrWaitForI2C, WrNextLen0, WrNextLen1, WrSeqBreakLatched, WrSend,
         WrFinish
<1>2. wr' = Forget(wr)
  BY <1>1 DEF WrIdle
<1>3. ROMFields \subseteq DOMAIN wr
  BY DEF ROMShape
<1> QED BY <1>2, <1>3 DEF AtRest, Forget, ROMFields

LEMMA ScrRests ==
  ASSUME NEW stb, stb # 1, NEW rst, AtRest(scr), ScrStep(stb, rst), ScrShape
  PROVE  /\ AtRest(scr') /\ scr'.stb = scr.stb
         /\ rst # 1 => scr'.adjusted = scr.adjusted
         /\ rst = 1 => scr'.adjusted = 0
<1>1. ScrIdle(stb, rst)
  BY DEF AtRest, ScrStep, ScrIdle, ScrSend, ScrFinish, Copy!WrCommonStep,
         Copy!WrAddressedOffset0, Copy!WrAddressedOffset1, Copy!WrAddressedLen0,
         Copy!WrAddressedLen1, Copy!WrAddressedData, Copy!WrAddressPeripheral,
         Copy!WrPartEnds, Copy!WrSendLatched, Copy!WrWaitForI2C, Copy!WrNextLen0,
         Copy!WrNextLen1, Copy!WrSeqBreakLatched
<1>2. scr' = [Copy!Forget(scr) EXCEPT !.written = 0, !.adjusted = IF rst = 1 THEN 0 ELSE @]
  BY <1>1 DEF ScrIdle
<1>3. ROMFields \cup {"written", "adjusted"} \subseteq DOMAIN scr
  BY DEF ScrShape, ROMShape
<1>4. PICK s : s = Copy!Forget(scr)
  OBVIOUS
<1>5. /\ DOMAIN s = DOMAIN scr /\ s.fsm = scr.fsm /\ s.stb = scr.stb
      /\ s.adjusted = scr.adjusted
  BY <1>3, <1>4 DEF Copy!Forget, ROMFields
<1>6. scr' = [s EXCEPT !.written = 0, !.adjusted = IF rst = 1 THEN 0 ELSE @]
  BY <1>2, <1>4
<1> QED BY <1>3, <1>5, <1>6 DEF AtRest, ROMFields

\* While a unit works nothing is asked for, and the others rest.
LEMMA WhileBusy ==
  ASSUME NEW sda_i, Cycle(sda_i), ~AllIdle
  PROVE  /\ req = None /\ req' = None
         /\ ~AtRest(loc) => UNCHANGED <<row, col>>
         /\ LocStep(0, scr.adjusted) /\ ClsStep(0) /\ WrStep(0, 0) /\ ScrStep(0, 0)
         /\ AtRest(loc) => AtRest(loc') /\ loc'.stb = loc.stb
         /\ AtRest(cls) => AtRest(cls') /\ cls'.stb = cls.stb
         /\ AtRest(wr) => AtRest(wr') /\ wr'.stb = wr.stb
         /\ AtRest(scr) => /\ AtRest(scr') /\ scr'.stb = scr.stb
                           /\ scr'.adjusted = scr.adjusted
         /\ ~AllIdle' => Records
<1>1. BusInv /\ Gateware(sda_i) /\ User
  BY DEF Cycle, DeliveryInv
<1>2. req = None
  BY <1>1 DEF BusInv, AskedInv
<1>3. /\ Strobed(req, "locator") = 0 /\ Strobed(req, "clser") = 0
      /\ Strobed(req, "rom_writer") = 0 /\ Strobed(req, "scroller") = 0
  BY <1>2 DEF Strobed, None
<1>4. /\ LocStep(0, scr.adjusted) /\ ClsStep(0) /\ WrStep(0, 0) /\ ScrStep(0, 0) /\ History
  BY <1>1, <1>3, UnitsDo
<1>5. Shape(loc, LocPutting) /\ ClsShape(cls) /\ ROMShape(wr) /\ ScrShape
  BY <1>1 DEF BusInv, ShapesInv
<1>6. ~Free
  BY <1>1, OwnerIs DEF Free
<1>7. Work /\ TakeOperands(req', req # None)
  BY <1>1, <1>6 DEF User, Ask, Draw, GoOn
<1>8. req' = None /\ (~AtRest(loc) => UNCHANGED <<row, col>>)
  BY <1>5, <1>7 DEF Work, TakeOperands, None, Shape, AtRest
<1>9. AnyBusy' <=> ~AllIdle'
  <2>1. (BusInv => (AnyBusy <=> ~AllIdle))'
    BY OwnerIs, PTL
  <2> QED BY <2>1 DEF Cycle
<1>10. ASSUME ~AllIdle' PROVE Records
  <2>1. AnyBusy'
    BY <1>9, <1>10
  <2>2. script' = script /\ taken' = (IF Takes THEN Append(taken, FrontWord) ELSE taken)
    BY <1>2, <1>4, <2>1 DEF History
  <2>3. refused' = (AnyBusy' /\ (refused \/ Refuses))
    BY <1>4 DEF History
  <2>4. refused' = (refused \/ Refuses)
    BY <2>1, <2>3, Zenon
  <2> QED BY <2>2, <2>4 DEF Records
<1>11. /\ AtRest(loc) => AtRest(loc') /\ loc'.stb = loc.stb
       /\ AtRest(cls) => AtRest(cls') /\ cls'.stb = cls.stb
       /\ AtRest(wr) => AtRest(wr') /\ wr'.stb = wr.stb
       /\ AtRest(scr) => /\ AtRest(scr') /\ scr'.stb = scr.stb
                         /\ scr'.adjusted = scr.adjusted
  <2>1. AtRest(loc) => AtRest(loc') /\ loc'.stb = loc.stb
    BY <1>4, LocRests
  <2> QED BY <1>4, <1>5, <2>1, ClsRests, WrRests, ScrRests
<1> QED BY <1>2, <1>4, <1>8, <1>10, <1>11

\* The step that a unit at work makes decides that of all.
LEMMA LocWorks ==
  ASSUME NEW sda_i, Cycle(sda_i), ~AtRest(loc)
  PROVE  LineInv' /\ ServesInv' /\ RestsInv' /\ (Goes \/ Finished)
<1>1. /\ BusInv /\ LineInv /\ LocServed /\ RestsInv /\ sda_i \in Bit /\ Gateware(sda_i)
  BY DEF Cycle, DeliveryInv, ServesInv
<1>2. AtRest(cls) /\ AtRest(wr) /\ AtRest(scr) /\ ~AllIdle
  BY <1>1 DEF BusInv, AloneInv, AllIdle
<1>3. /\ req = None /\ UNCHANGED <<row, col>> /\ LocStep(0, scr.adjusted)
      /\ AtRest(cls') /\ cls'.stb = cls.stb /\ AtRest(wr') /\ wr'.stb = wr.stb
      /\ AtRest(scr') /\ scr'.stb = scr.stb
      /\ scr'.adjusted = scr.adjusted /\ (~AllIdle' => Records)
  BY <1>2, WhileBusy
<1>4. Owner(IdleUnit) = loc
  BY <1>1, OwnerIs
<1>5. /\ Tick(loc.stb, loc.w_en, loc.w, 0, sda_i)
      /\ Shape(loc, LocPutting) /\ row \in 0 .. Rows /\ col \in 0 .. Rows
      /\ Roomy(loc, LocPutting)
  BY <1>1, <1>4, UnitsDo DEF BusInv, ShapesInv, CellInv, RoomInv
<1>6. /\ LineInv'
      /\ \/ Finishes(loc')
         \/ loc'.fsm # "IDLE" /\ (Records => LocServed' /\ Forwards)
  BY <1>1, <1>3, <1>5, LocServes
<1>7. cls'.stb = 0 /\ wr'.stb = 0 /\ scr'.stb = 0
  BY <1>1, <1>2, <1>3 DEF RestsInv
<1>8. CASE Finishes(loc')
  BY <1>2, <1>3, <1>6, <1>7, <1>8
     DEF Finishes, Finished, ServesInv, RestsInv, AllIdle, AtRest
<1>9. CASE loc'.fsm # "IDLE" /\ (Records => LocServed' /\ Forwards)
  BY <1>2, <1>3, <1>6, <1>7, <1>9 DEF Goes, ServesInv, RestsInv, AllIdle, AtRest
<1> QED BY <1>6, <1>8, <1>9

LEMMA ClsWorks ==
  ASSUME NEW sda_i, Cycle(sda_i), ~AtRest(cls)
  PROVE  LineInv' /\ ServesInv' /\ RestsInv' /\ (Goes \/ Finished)
<1>1. /\ BusInv /\ LineInv /\ ClsServed /\ RestsInv /\ sda_i \in Bit /\ Gateware(sda_i)
  BY DEF Cycle, DeliveryInv, ServesInv
<1>2. AtRest(loc) /\ AtRest(wr) /\ AtRest(scr) /\ ~AllIdle
  BY <1>1 DEF BusInv, AloneInv, AllIdle
<1>3. /\ req = None /\ ClsStep(0)
      /\ AtRest(loc') /\ loc'.stb = loc.stb /\ AtRest(wr') /\ wr'.stb = wr.stb
      /\ AtRest(scr') /\ scr'.stb = scr.stb
      /\ (~AllIdle' => Records)
  BY <1>2, WhileBusy
<1>4. Owner(IdleUnit) = cls
  BY <1>1, OwnerIs
<1>5. Tick(cls.stb, cls.w_en, cls.w, 0, sda_i) /\ ClsShape(cls) /\ Roomy(cls, ClsPutting)
  BY <1>1, <1>4, UnitsDo DEF BusInv, ShapesInv, RoomInv
<1>6. /\ LineInv'
      /\ \/ Finishes(cls')
         \/ cls'.fsm # "IDLE" /\ (Records => ClsServed' /\ Forwards)
  BY <1>1, <1>3, <1>5, ClsServes
<1>7. loc'.stb = 0 /\ wr'.stb = 0 /\ scr'.stb = 0
  BY <1>1, <1>2, <1>3 DEF RestsInv
<1>8. CASE Finishes(cls')
  BY <1>2, <1>3, <1>6, <1>7, <1>8
     DEF Finishes, Finished, ServesInv, RestsInv, AllIdle, AtRest
<1>9. CASE cls'.fsm # "IDLE" /\ (Records => ClsServed' /\ Forwards)
  BY <1>2, <1>3, <1>6, <1>7, <1>9 DEF Goes, ServesInv, RestsInv, AllIdle, AtRest
<1> QED BY <1>6, <1>8, <1>9

LEMMA WalkPuts ==
  ASSUME NEW u, NEW v, NEW data, NEW index, NEW room \in BOOLEAN,
         NEW room2 \in BOOLEAN, Walk(u, data, room), Moves(u, v, 0, index, data, room),
         Keeps(u, room, room2)
  PROVE  Puts(u, v, ROMPutting, room)
<1>1. PICK data2, start : data2 = ROMByte(u.addr) /\ start = 0
  OBVIOUS
<1>2. Moves(u, v, start, index, data, room) /\ start # 1
  BY <1>1
<1> QED BY <1>1, <1>2, WalkGoes

LEMMA WrWorks ==
  ASSUME NEW sda_i, Cycle(sda_i), ~AtRest(wr)
  PROVE  LineInv' /\ ServesInv' /\ RestsInv' /\ (Goes \/ Finished)
<1>1. /\ BusInv /\ LineInv /\ WrServed /\ RestsInv /\ sda_i \in Bit /\ Gateware(sda_i)
  BY DEF Cycle, DeliveryInv, ServesInv
<1>2. AtRest(loc) /\ AtRest(cls) /\ AtRest(scr) /\ ~AllIdle
  BY <1>1 DEF BusInv, AloneInv, AllIdle
<1>3. /\ req = None /\ WrStep(0, 0)
      /\ AtRest(loc') /\ loc'.stb = loc.stb /\ AtRest(cls') /\ cls'.stb = cls.stb
      /\ AtRest(scr') /\ scr'.stb = scr.stb
      /\ (~AllIdle' => Records)
  BY <1>2, WhileBusy
<1>4. Owner(IdleUnit) = wr /\ ROMAddr = wr.addr
  BY <1>1, OwnerIs
<1>5. /\ Tick(wr.stb, wr.w_en, wr.w, 0, sda_i) /\ ROMShape(wr) /\ Roomy(wr, ROMPutting)
      /\ rom_data' = ROMByte(wr.addr)
  BY <1>1, <1>4, UnitsDo DEF BusInv, ShapesInv, RoomInv
<1>55. Puts(wr, wr', ROMPutting, Writable(in_fifo))
  <2>1. PICK room, room2, v, index :
          room = Writable(in_fifo) /\ room2 = Writable(in_fifo)' /\ v = wr' /\ index = 0
    OBVIOUS
  <2>2. Keeps(wr, room, room2)
    BY <1>1, <2>1, RoomKept
  <2>3. Moves(wr, v, 0, index, rom_data, room)
    BY <1>3, <1>5, <2>1, WrMoves
  <2>4. Walk(wr, rom_data, room)
    BY <1>1, <2>1 DEF BusInv, WalksInv
  <2>5. room \in BOOLEAN /\ room2 \in BOOLEAN
    BY <2>1 DEF Writable
  <2>6. Puts(wr, v, ROMPutting, room)
    BY <2>2, <2>3, <2>4, <2>5, WalkPuts
  <2> QED BY <2>1, <2>6
<1>6. /\ LineInv'
      /\ \/ Finishes(wr')
         \/ wr'.fsm # "IDLE" /\ (Records => WrServed' /\ Forwards)
  BY <1>1, <1>3, <1>5, <1>55, WrServes
<1>7. loc'.stb = 0 /\ cls'.stb = 0 /\ scr'.stb = 0
  BY <1>1, <1>2, <1>3 DEF RestsInv
<1>8. CASE Finishes(wr')
  BY <1>2, <1>3, <1>6, <1>7, <1>8
     DEF Finishes, Finished, ServesInv, RestsInv, AllIdle, AtRest
<1>9. CASE wr'.fsm # "IDLE" /\ (Records => WrServed' /\ Forwards)
  BY <1>2, <1>3, <1>6, <1>7, <1>9 DEF Goes, ServesInv, RestsInv, AllIdle, AtRest
<1> QED BY <1>6, <1>8, <1>9

LEMMA ScrWorks ==
  ASSUME NEW sda_i, Cycle(sda_i), ~AtRest(scr)
  PROVE  LineInv' /\ ServesInv' /\ RestsInv' /\ (Goes \/ Finished)
<1>1. /\ BusInv /\ LineInv /\ ScrServed /\ RestsInv /\ sda_i \in Bit /\ Gateware(sda_i)
  BY DEF Cycle, DeliveryInv, ServesInv
<1>2. AtRest(loc) /\ AtRest(cls) /\ AtRest(wr) /\ ~AllIdle
  BY <1>1 DEF BusInv, AloneInv, AllIdle
<1>3. /\ req = None /\ ScrStep(0, 0)
      /\ AtRest(loc') /\ loc'.stb = loc.stb /\ AtRest(cls') /\ cls'.stb = cls.stb
      /\ AtRest(wr') /\ wr'.stb = wr.stb
      /\ (~AllIdle' => Records)
  BY <1>2, WhileBusy
<1>4. Owner(IdleUnit) = scr /\ ROMAddr = scr.addr
  BY <1>1, OwnerIs
<1>5. /\ Tick(scr.stb, scr.w_en, scr.w, 0, sda_i) /\ ScrShape /\ scr.adjusted \in 0 .. Rows - 1
      /\ Roomy(scr, ROMPutting) /\ rom_data' = ROMByte(scr.addr)
  BY <1>1, <1>4, UnitsDo DEF BusInv, ShapesInv, RoomInv
<1>55. Puts(scr, scr', ROMPutting, Writable(in_fifo))
  <2>1. PICK room, room2, v, index : /\ room = Writable(in_fifo) /\ room2 = Writable(in_fifo)'
                                     /\ v = scr' /\ index = OFFSET_SCROLL
    OBVIOUS
  <2>2. Keeps(scr, room, room2)
    BY <1>1, <2>1, RoomKept
  <2>3. Moves(scr, v, 0, index, rom_data, room)
    BY <1>3, <1>5, <2>1, ScrMoves
  <2>4. Walk(scr, rom_data, room)
    BY <1>1, <2>1 DEF BusInv, WalksInv
  <2>5. room \in BOOLEAN /\ room2 \in BOOLEAN
    BY <2>1 DEF Writable
  <2>6. Puts(scr, v, ROMPutting, room)
    BY <2>2, <2>3, <2>4, <2>5, WalkPuts
  <2> QED BY <2>1, <2>6
<1>6. /\ LineInv'
      /\ \/ Finishes(scr')
         \/ scr'.fsm # "IDLE" /\ (Records => ScrServed' /\ Forwards)
  BY <1>1, <1>3, <1>5, <1>55, ScrServes
<1>7. loc'.stb = 0 /\ cls'.stb = 0 /\ wr'.stb = 0
  BY <1>1, <1>2, <1>3 DEF RestsInv
<1>8. CASE Finishes(scr')
  BY <1>2, <1>3, <1>6, <1>7, <1>8
     DEF Finishes, Finished, ServesInv, RestsInv, AllIdle, AtRest
<1>9. CASE scr'.fsm # "IDLE" /\ (Records => ScrServed' /\ Forwards)
  BY <1>2, <1>3, <1>6, <1>7, <1>9 DEF Goes, ServesInv, RestsInv, AllIdle, AtRest
<1> QED BY <1>6, <1>8, <1>9

\* With all units at rest the OLED module's own end of the bus is quiet.
LEMMA IdleOwner ==
  ASSUME BusInv, AllIdle
  PROVE  Owner(IdleUnit).stb = 0 /\ Owner(IdleUnit).w_en = 0
<1>1. loc.busy = 0 /\ cls.busy = 0 /\ wr.busy = 0 /\ scr.busy = 0
  BY DEF BusInv, ShapesInv, ClsShape, ROMShape, ScrShape, Shape, AllIdle, AtRest
<1>2. Owner(IdleUnit) = IdleUnit
  BY <1>1 DEF Owner
<1> QED BY <1>2 DEF IdleUnit

LEMMA IdleLine ==
  ASSUME NEW sda_i, Cycle(sda_i), AllIdle
  PROVE  /\ LineInv' /\ LineStep(0)
         /\ \E w : in_fifo' = FifoNext(in_fifo, 0, w, r_en)
<1>1. BusInv /\ LineInv /\ sda_i \in Bit /\ Gateware(sda_i)
  BY DEF Cycle, DeliveryInv
<1>2. PICK stb, w_en, w : /\ stb = Owner(IdleUnit).stb /\ w_en = Owner(IdleUnit).w_en
                          /\ w = Owner(IdleUnit).w
  OBVIOUS
<1>3. stb = 0 /\ w_en = 0
  BY <1>1, <1>2, IdleOwner
<1>4. Tick(stb, w_en, w, 0, sda_i)
  BY <1>1, <1>2, UnitsDo
<1>5. LineInv' /\ LineStep(stb)
  BY <1>1, <1>3, <1>4, LineMoves
<1>6. in_fifo' = FifoNext(in_fifo, w_en, w, r_en)
  BY <1>4 DEF Tick
<1> QED BY <1>3, <1>5, <1>6


LEMMA Quiets ==
  ASSUME NEW sda_i, Cycle(sda_i), AllIdle, req = None
  PROVE  LineInv' /\ ServesInv' /\ RestsInv' /\ Quiet
<1>1. BusInv /\ LineInv /\ RestsInv /\ LeftInv /\ Gateware(sda_i)
  BY DEF Cycle, DeliveryInv
<1>2. /\ Strobed(req, "locator") = 0 /\ Strobed(req, "clser") = 0
      /\ Strobed(req, "rom_writer") = 0 /\ Strobed(req, "scroller") = 0
  BY DEF Strobed, None
<1>3. LocStep(0, scr.adjusted) /\ ClsStep(0) /\ WrStep(0, 0) /\ ScrStep(0, 0)
  BY <1>1, <1>2, UnitsDo
<1>4. /\ ClsShape(cls) /\ ROMShape(wr) /\ ScrShape
      /\ AtRest(loc) /\ AtRest(cls) /\ AtRest(wr) /\ AtRest(scr)
  BY <1>1 DEF BusInv, ShapesInv, AllIdle
<1>5. /\ loc' = loc /\ AtRest(cls') /\ cls'.stb = cls.stb
      /\ AtRest(wr') /\ wr'.stb = wr.stb /\ AtRest(scr') /\ scr'.stb = scr.stb
  BY <1>3, <1>4, LocRests, ClsRests, WrRests, ScrRests
<1>6. LineInv' /\ LineStep(0)
  BY IdleLine
<1>7. AllIdle'
  BY <1>4, <1>5 DEF AllIdle, AtRest
<1>8. RestsInv'
  BY <1>1, <1>4, <1>5 DEF RestsInv, AtRest
<1>9. ServesInv'
  BY <1>7 DEF ServesInv, AllIdle
<1>10. in_fifo' = in_fifo /\ (fsm = "IDLE" => fsm' = "IDLE")
  <2>1. PICK w : in_fifo' = FifoNext(in_fifo, 0, w, r_en)
    BY IdleLine
  <2>2. r_en # 1
    BY <1>1 DEF LineInv, LeftInv
  <2>3. in_fifo' = in_fifo
    BY <2>1, <2>2 DEF FifoNext
  <2>4. fsm = "IDLE" => fsm' = "IDLE"
    BY <1>6 DEF LineStep, Sending
  <2> QED BY <2>3, <2>4
<1> QED BY <1>6, <1>7, <1>8, <1>9, <1>10 DEF Quiet

\* What holds in the cycle of a request.
LEMMA Asks ==
  ASSUME NEW sda_i, Cycle(sda_i), req # None
  PROVE  /\ AllIdle /\ Asked(req) /\ Calm /\ script' = Opening \o Tail(ScriptOf(req))
         /\ AtRest(loc) /\ AtRest(cls) /\ AtRest(wr) /\ AtRest(scr)
         /\ loc.stb = 0 /\ cls.stb = 0 /\ wr.stb = 0 /\ scr.stb = 0
<1>1. /\ BusInv /\ RestsInv /\ LeftInv /\ ClearInv /\ LineInv /\ Gateware(sda_i) /\ History
  BY UnitsDo DEF Cycle, DeliveryInv
<1>2. Asked(req) /\ AllIdle
  BY <1>1 DEF BusInv, AskedInv
<1>3. AtRest(loc) /\ AtRest(cls) /\ AtRest(wr) /\ AtRest(scr)
  BY <1>2 DEF AllIdle
<1>4. loc.stb = 0 /\ cls.stb = 0 /\ wr.stb = 0 /\ scr.stb = 0
  BY <1>1, <1>3 DEF RestsInv
<1>5. /\ LineInv' /\ LineStep(0)
      /\ \E w : in_fifo' = FifoNext(in_fifo, 0, w, r_en)
  BY <1>2, IdleLine
<1>6. Queued => fsm = "IDLE" /\ FrontWord \in ControlWords
  BY <1>1, <1>2 DEF LeftInv
<1>7. taken = <<>> /\ ~refused
  BY <1>1, <1>2, OwnerIs DEF ClearInv
<1>8. AnyBusy' <=> ~AllIdle'
  <2>1. (BusInv => (AnyBusy <=> ~AllIdle))'
    BY OwnerIs, PTL
  <2> QED BY <2>1 DEF Cycle
<1>9. ASSUME ~AllIdle'
      PROVE  /\ taken' = (IF Takes THEN Append(taken, FrontWord) ELSE taken)
             /\ refused' = (refused \/ Refuses)
  <2>1. AnyBusy'
    BY <1>8, <1>9
  <2>2. taken' = (IF Takes THEN Append(taken, FrontWord) ELSE taken)
    BY <1>1, <2>1 DEF History
  <2>3. refused' = (AnyBusy' /\ (refused \/ Refuses))
    BY <1>1 DEF History
  <2>4. refused' = (refused \/ Refuses)
    BY <2>1, <2>3, Zenon
  <2> QED BY <2>2, <2>4
<1>10. Calm
  BY <1>1, <1>5, <1>6, <1>7, <1>9 DEF Calm
<1>11. script' = Opening \o Tail(ScriptOf(req))
  BY <1>1 DEF History
<1> QED BY <1>2, <1>3, <1>4, <1>10, <1>11

LEMMA Strobings ==
  ASSUME NEW sda_i, Cycle(sda_i), req # None
  PROVE  LineInv' /\ ServesInv' /\ RestsInv' /\ Begun
<1>1. /\ AllIdle /\ Asked(req) /\ Calm /\ script' = Opening \o Tail(ScriptOf(req))
      /\ AtRest(loc) /\ AtRest(cls) /\ AtRest(wr) /\ AtRest(scr)
      /\ loc.stb = 0 /\ cls.stb = 0 /\ wr.stb = 0 /\ scr.stb = 0
  BY Asks
<1>2. BusInv /\ BusInv' /\ OperandInv /\ Gateware(sda_i) /\ User
  BY DEF Cycle, DeliveryInv
<1>3. /\ Shape(loc, LocPutting) /\ ClsShape(cls) /\ ROMShape(wr) /\ ScrShape
      /\ scr.adjusted \in 0 .. Rows - 1
  BY <1>2 DEF BusInv, ShapesInv
<1>4. LineInv'
  BY <1>1 DEF Calm
<1>5. /\ req.unit = "locator" =>
           /\ Strobed(req, "locator") = 1 /\ Strobed(req, "clser") = 0
           /\ Strobed(req, "rom_writer") = 0 /\ Strobed(req, "scroller") = 0
      /\ req.unit = "clser" =>
           /\ Strobed(req, "locator") = 0 /\ Strobed(req, "clser") = 1
           /\ Strobed(req, "rom_writer") = 0 /\ Strobed(req, "scroller") = 0
      /\ req.unit = "rom_writer" =>
           /\ Strobed(req, "locator") = 0 /\ Strobed(req, "clser") = 0
           /\ Strobed(req, "rom_writer") = 1 /\ Strobed(req, "scroller") = 0
      /\ req.unit = "scroller" =>
           /\ Strobed(req, "locator") = 0 /\ Strobed(req, "clser") = 0
           /\ Strobed(req, "rom_writer") = 0 /\ Strobed(req, "scroller") = 1
  BY DEF Strobed
<1>6. CASE req.unit = "locator"
  <2>1. LocStep(1, scr.adjusted) /\ ClsStep(0) /\ WrStep(0, 0) /\ ScrStep(0, 0)
    BY <1>2, <1>5, <1>6, UnitsDo
  <2>2. /\ AtRest(cls') /\ cls'.stb = 0 /\ AtRest(wr') /\ wr'.stb = 0
        /\ AtRest(scr') /\ scr'.stb = 0 /\ scr'.adjusted = scr.adjusted
    BY <1>1, <1>3, <2>1, ClsRests, WrRests, ScrRests
  <2>3. row = req.row /\ col = req.col /\ row \in 0 .. Rows /\ col \in 0 .. Rows
    BY <1>2, <1>6 DEF OperandInv, BusInv, CellInv
  <2>4. row' = row /\ col' = col
    <3>1. ~Free
      BY DEF Free
    <3>2. req' = None /\ TakeOperands(req', req # None)
      BY <1>2, <3>1 DEF User, Work, Ask, Draw, GoOn
    <3> QED BY <3>2 DEF TakeOperands, None
  <2>5. script' = Opening \o Tail(LocatorScript(row', col', scr'.adjusted))
    BY <1>1, <1>6, <2>2, <2>3, <2>4 DEF ScriptOf
  <2>6. LocServed' /\ loc'.fsm # "IDLE" /\ Fresh
    BY <1>1, <1>3, <2>1, <2>2, <2>3, <2>4, <2>5, LocBegins DEF AtRest
  <2>7. ServesInv' /\ RestsInv' /\ ~AllIdle'
    BY <1>1, <2>2, <2>6 DEF ServesInv, RestsInv, AtRest, AllIdle
  <2> QED BY <1>1, <1>4, <2>6, <2>7 DEF Begun
<1>7. CASE req.unit = "clser"
  <2>1. LocStep(0, scr.adjusted) /\ ClsStep(1) /\ WrStep(0, 0) /\ ScrStep(0, 0)
    BY <1>2, <1>5, <1>7, UnitsDo
  <2>2. loc' = loc /\ AtRest(wr') /\ wr'.stb = 0 /\ AtRest(scr') /\ scr'.stb = 0
    BY <1>1, <1>3, <2>1, LocRests, WrRests, ScrRests
  <2>3. script' = Opening \o Tail(ClserScript)
    BY <1>1, <1>7 DEF ScriptOf
  <2>4. ClsServed' /\ cls'.fsm # "IDLE" /\ Fresh
    BY <1>1, <1>3, <2>1, <2>3, ClsBegins DEF AtRest
  <2>5. ServesInv' /\ RestsInv' /\ ~AllIdle'
    BY <1>1, <2>2, <2>4 DEF ServesInv, RestsInv, AtRest, AllIdle
  <2> QED BY <1>1, <1>4, <2>4, <2>5 DEF Begun
<1>8. CASE req.unit = "rom_writer"
  <2>1. PICK index, rst : index = req.index /\ rst = req.rst
    OBVIOUS
  <2>2. /\ index \in Nat /\ index + 1 \in DOMAIN Commands
        /\ Commands[index + 1][1] # <<>>
    BY <1>1, <1>8, <2>1, AskedUnits
  <2>3. LocStep(0, scr.adjusted) /\ ClsStep(0) /\ WrStep(1, index) /\ ScrStep(0, rst)
    BY <1>2, <1>5, <1>8, <2>1, UnitsDo
  <2>4. loc' = loc /\ AtRest(cls') /\ cls'.stb = 0 /\ AtRest(scr') /\ scr'.stb = 0
    BY <1>1, <1>3, <2>3, LocRests, ClsRests, ScrRests
  <2>5. script' = Opening \o Tail(PartsScript(Commands[index + 1]))
    BY <1>1, <1>8, <2>1 DEF ScriptOf
  <2>6. WrServed' /\ wr'.fsm # "IDLE" /\ Fresh
    BY <1>1, <1>3, <2>2, <2>3, <2>5, WrBegins DEF AtRest
  <2>7. ServesInv' /\ RestsInv' /\ ~AllIdle'
    BY <1>1, <2>4, <2>6 DEF ServesInv, RestsInv, AtRest, AllIdle
  <2> QED BY <1>1, <1>4, <2>6, <2>7 DEF Begun
<1>9. CASE req.unit = "scroller"
  <2>1. LocStep(0, scr.adjusted) /\ ClsStep(0) /\ WrStep(0, 0) /\ ScrStep(1, 0)
    BY <1>2, <1>5, <1>9, UnitsDo
  <2>2. loc' = loc /\ AtRest(cls') /\ cls'.stb = 0 /\ AtRest(wr') /\ wr'.stb = 0
    BY <1>1, <1>3, <2>1, LocRests, ClsRests, WrRests
  <2>3. script' = Opening \o Tail(PartsScript(ScrollParts(scr.adjusted)))
    BY <1>1, <1>9 DEF ScriptOf
  <2>4. PICK rst : rst = 0
    OBVIOUS
  <2>5. ScrServed' /\ scr'.fsm # "IDLE" /\ Fresh
    BY <1>1, <1>3, <2>1, <2>3, <2>4, ScrBegins DEF AtRest
  <2>6. ServesInv' /\ RestsInv' /\ ~AllIdle'
    BY <1>1, <2>2, <2>5 DEF ServesInv, RestsInv, AtRest, AllIdle
  <2> QED BY <1>1, <1>4, <2>5, <2>6 DEF Begun
<1> QED BY <1>1, <1>6, <1>7, <1>8, <1>9, AskedUnits

LEMMA Outcomes ==
  ASSUME NEW sda_i, Cycle(sda_i)
  PROVE  LineInv' /\ ServesInv' /\ RestsInv' /\ (Quiet \/ Begun \/ Goes \/ Finished)
<1>1. CASE AllIdle
  BY <1>1, Quiets, Strobings
<1>2. CASE ~AllIdle
  BY <1>2, LocWorks, ClsWorks, WrWorks, ScrWorks DEF AllIdle
<1> QED BY <1>1, <1>2

\* How the history ends with the command.
LEMMA HistoryGoes ==
  ASSUME NEW sda_i, Cycle(sda_i)
  PROVE  /\ refused' \in BOOLEAN
         /\ AnyBusy <=> ~AllIdle
         /\ AnyBusy' <=> ~AllIdle'
         /\ AllIdle' => taken' = <<>> /\ ~refused'
         /\ AllIdle' /\ req = None => script' = <<>>
         /\ ~AllIdle' /\ req = None => script' = script
         /\ req # None => script' = Opening \o Tail(ScriptOf(req))
<1>1. BusInv /\ BusInv' /\ History
  BY UnitsDo DEF Cycle, DeliveryInv
<1>2. AnyBusy <=> ~AllIdle
  BY <1>1, OwnerIs
<1>3. AnyBusy' <=> ~AllIdle'
  <2>1. (BusInv => (AnyBusy <=> ~AllIdle))'
    BY OwnerIs, PTL
  <2> QED BY <1>1, <2>1
<1>4. refused' = (AnyBusy' /\ (refused \/ Refuses))
  BY <1>1 DEF History
<1>5. refused' \in BOOLEAN /\ (AllIdle' => ~refused')
  BY <1>3, <1>4, Zenon
<1>6. /\ AllIdle' => taken' = <<>>
      /\ AllIdle' /\ req = None => script' = <<>>
      /\ ~AllIdle' /\ req = None => script' = script
      /\ req # None => script' = Opening \o Tail(ScriptOf(req))
  BY <1>1, <1>3 DEF History
<1> QED BY <1>2, <1>3, <1>5, <1>6

\* The rest of the invariant follows from what kind of step it was.
LEMMA RestGoes ==
  ASSUME NEW sda_i, Cycle(sda_i)
  PROVE  LeftInv' /\ OperandInv' /\ ClearInv'
<1>1. LeftInv /\ User
  BY DEF Cycle, DeliveryInv
<1>2. Quiet \/ Begun \/ Goes \/ Finished
  BY Outcomes
<1>3. /\ refused' \in BOOLEAN /\ (AnyBusy' <=> ~AllIdle')
      /\ AllIdle' => taken' = <<>> /\ ~refused'
      /\ AllIdle' /\ req = None => script' = <<>>
  BY HistoryGoes
<1>4. ClearInv'
  <2>1. AllIdle' => req = None
    BY <1>2 DEF Quiet, Begun, Goes, Finished
  <2> QED BY <1>3, <2>1 DEF ClearInv
<1>5. OperandInv'
  BY <1>1 DEF OperandInv, User, TakeOperands
<1>6. (FrontWord \in ControlWords)' <=> FrontWord' \in ControlWords
  BY DEF ControlWords
<1>7. LeftInv'
  <2>1. CASE Quiet
    <3>1. Queued' = Queued /\ FrontWord' = FrontWord
      BY <2>1 DEF Quiet, Queued, Readable, FrontWord
    <3> QED BY <1>1, <1>6, <2>1, <3>1 DEF LeftInv, Quiet
  <2>2. CASE Finished
    BY <1>6, <2>2 DEF LeftInv, Finished
  <2> QED BY <1>2, <2>1, <2>2 DEF LeftInv, Begun, Goes
<1> QED BY <1>4, <1>5, <1>7

LEMMA DeliveryInit == WritersInit => DeliveryInv
<1> SUFFICES ASSUME WritersInit PROVE DeliveryInv
  OBVIOUS
<1>1. UnitsInit(0)
  BY DEF WritersInit
<1>2. BusInv
  BY BusInit
<1>3. /\ AtRest(loc) /\ AtRest(cls) /\ AtRest(wr) /\ AtRest(scr)
      /\ loc.stb = 0 /\ cls.stb = 0 /\ wr.stb = 0 /\ scr.stb = 0
  <2>1. /\ loc = IdleUnit /\ cls = IdleUnitWith([page |-> 0, column |-> 0])
        /\ wr = IdleUnitWith([addr |-> 0, offset |-> 0, remain |-> 0])
        /\ scr = IdleUnitWith([written |-> 0, adjusted |-> 0, addr |-> 0,
                               offset |-> 0, remain |-> 0])
    BY <1>1 DEF UnitsInit, LocInit, ClsInit, WrInit, ScrInit
  <2> QED BY <2>1 DEF AtRest, IdleUnit, IdleUnitWith
<1>4. ServesInv /\ RestsInv /\ AllIdle
  BY <1>3 DEF ServesInv, RestsInv, AllIdle
<1>5. /\ fsm = "IDLE" /\ cnt = 0 /\ en = 0 /\ busy = 0 /\ ack = 1 /\ rw = W
      /\ r_en = 0 /\ in_fifo = <<>> /\ ~Queued
  BY DEF WritersInit, Init, Queued, Readable
<1>6. LineInv
  <2>1. fsm \in WriteStates /\ 0 \in 0 .. ClkMax - 1
    BY <1>5, ClkMaxAssumption DEF WriteStates, CounterMax
  <2> QED BY <1>5, <2>1 DEF LineInv, Bit
<1>7. LeftInv /\ OperandInv /\ ClearInv
  <2>1. req = None /\ taken = <<>> /\ script = <<>> /\ refused = FALSE
    BY DEF WritersInit
  <2> QED BY <1>5, <2>1 DEF LeftInv, OperandInv, ClearInv, None
<1> QED BY <1>2, <1>4, <1>6, <1>7 DEF DeliveryInv

LEMMA Stutters ==
  ASSUME DeliveryInv, UNCHANGED vars
  PROVE  DeliveryInv'
<1>1. BusInv'
  BY BusNext DEF DeliveryInv
<1>2. /\ UNCHANGED <<fsm, cnt, en, busy, ack, rw, byte_ix, r_en, in_fifo>>
      /\ UNCHANGED <<loc, row, col, cls, wr, scr, rom_data>>
      /\ UNCHANGED <<req, script, taken, refused>>
  BY DEF vars, i2cVars, lineVars, statusVars, shiftVars, unitVars
<1>3. /\ UNCHANGED FrontWord /\ UNCHANGED Queued /\ UNCHANGED Sending /\ UNCHANGED Ahead
  BY <1>2 DEF FrontWord, Queued, Readable, Sending, Ahead
<1>4. LineInv'
  BY <1>2, <1>3 DEF DeliveryInv, LineInv
<1>5. RestsInv' /\ LeftInv' /\ OperandInv' /\ ClearInv'
  BY <1>2, <1>3
     DEF DeliveryInv, RestsInv, LeftInv, OperandInv, ClearInv, ControlWords, AtRest, AllIdle,
         AnyBusy
<1>6. ServesInv'
  <2>0. ASSUME NEW n, NEW lag
        PROVE  /\ Serves(loc, n, lag) => Serves(loc, n, lag)'
               /\ Serves(cls, n, lag) => Serves(cls, n, lag)'
               /\ Serves(wr, n, lag) => Serves(wr, n, lag)'
               /\ Serves(scr, n, lag) => Serves(scr, n, lag)'
    BY <1>2, <1>3 DEF Serves, Stopping, Unsent, Underway, Waits, Bold, ControlWords
  <2>01. ASSUME NEW words PROVE Opened(script, words) => Opened(script, words)'
    BY <1>2 DEF Opened, ControlWords
  <2>1. ASSUME LocServed PROVE LocServed'
    <3>1. PICK words, n, lag :
            /\ Opened(script, words) /\ LocSpelled(words, row, col, scr.adjusted)
            /\ LocAt(loc, n, lag, words, row, col) /\ Serves(loc, n, lag)
      BY <2>1 DEF LocServed
    <3>2. (LocSpelled(words, row, col, scr.adjusted))'
      BY <1>2, <3>1 DEF LocSpelled
    <3>3. LocAt(loc, n, lag, words, row, col)'
      BY <1>2, <3>1 DEF LocAt, Offers, Pauses
    <3> QED BY <2>0, <2>01, <3>1, <3>2, <3>3 DEF LocServed
  <2>2. ASSUME ClsServed PROVE ClsServed'
    <3>1. PICK words, pt, n, lag :
            /\ Opened(script, words) /\ ClsSpelled(words, pt)
            /\ ClsAt(cls, n, lag, words, pt) /\ Serves(cls, n, lag)
      BY <2>2 DEF ClsServed
    <3>2. ClsSpelled(words, pt)'
      BY <3>1 DEF ClsSpelled
    <3>3. ClsAt(cls, n, lag, words, pt)'
      BY <1>2, <3>1 DEF ClsAt, Offers, Pauses
    <3> QED BY <2>0, <2>01, <3>1, <3>2, <3>3 DEF ClsServed
  <2>3. ASSUME WrServed PROVE WrServed'
    <3>0. PICK k \in DOMAIN Commands : \E words, st, i, n, lag :
            /\ Opened(script, words) /\ PartsSpelled(words, Commands[k], st)
            /\ ROMAt(wr, rom_data, k, i, n, lag, words, st) /\ Serves(wr, n, lag)
      BY <2>3 DEF WrServed
    <3>1. PICK words, st, i, n, lag :
            /\ Opened(script, words) /\ PartsSpelled(words, Commands[k], st)
            /\ ROMAt(wr, rom_data, k, i, n, lag, words, st) /\ Serves(wr, n, lag)
      BY <3>0
    <3>2. PartsSpelled(words, Commands[k], st)'
      BY <3>1 DEF PartsSpelled
    <3>3. ROMAt(wr, rom_data, k, i, n, lag, words, st)'
      BY <1>2, <3>1, ROMAtUnit
    <3> QED BY <2>0, <2>01, <3>1, <3>2, <3>3 DEF WrServed
  <2>4. ASSUME ScrServed PROVE ScrServed'
    <3>1. PICK words, st, i, n, lag :
            /\ Opened(script, words) /\ PartsSpelled(words, ScrollParts(scr.adjusted), st)
            /\ ROMAt(scr, rom_data, OFFSET_SCROLL + 1, i, n, lag, words, st)
            /\ scr.written = n - i /\ Serves(scr, n, lag)
      BY <2>4 DEF ScrServed
    <3>2. PartsSpelled(words, ScrollParts(scr.adjusted), st)'
      BY <1>2, <3>1 DEF PartsSpelled, ScrollParts
    <3>3. ROMAt(scr, rom_data, OFFSET_SCROLL + 1, i, n, lag, words, st)'
      BY <1>2, <3>1, ROMAtUnit
    <3>4. (scr.written = n - i)'
      BY <1>2, <3>1
    <3> QED BY <2>0, <2>01, <3>1, <3>2, <3>3, <3>4 DEF ScrServed
  <2>5. ServesInv
    BY DEF DeliveryInv
  <2> QED BY <1>2, <2>1, <2>2, <2>3, <2>4, <2>5 DEF ServesInv, AtRest
<1> QED BY <1>1, <1>4, <1>5, <1>6 DEF DeliveryInv

LEMMA DeliveryNext == DeliveryInv /\ [WritersNext]_vars => DeliveryInv'
<1> SUFFICES ASSUME DeliveryInv, [WritersNext]_vars PROVE DeliveryInv'
  OBVIOUS
<1>1. CASE UNCHANGED vars
  BY <1>1, Stutters
<1>2. CASE WritersNext
  <2>1. PICK sda_i \in Bit : Gateware(sda_i) /\ User
    BY <1>2 DEF WritersNext
  <2>2. BusInv'
    BY <1>2, BusNext DEF DeliveryInv
  <2>3. Cycle(sda_i)
    BY <2>1, <2>2 DEF Cycle
  <2>4. LineInv' /\ ServesInv' /\ RestsInv' /\ LeftInv' /\ OperandInv' /\ ClearInv'
    BY <2>3, Outcomes, RestGoes
  <2> QED BY <2>2, <2>4 DEF DeliveryInv
<1> QED BY <1>1, <1>2

\* Whatever the OLED module asks for, whenever it strobes a unit and whatever the
\* display refuses: what the unit at work still has to say is what is missing from
\* the wire, the I2C controller is behind it by no more than it can catch up with,
\* and between commands the queue holds at most a control byte that a refused
\* unit has left (rtl/oled/, rtl/i2c/).
THEOREM DeliveryInvariance == WritersSpec => []DeliveryInv
<1> QED BY DeliveryInit, DeliveryNext, PTL DEF WritersSpec

-------------------------------------------------------------------------------
(***************************************************************************)
(* The units implement the delivery.                                       *)
(***************************************************************************)
LEMMA ScriptIs ==
  ASSUME NEW r, Asked(r), scr.adjusted \in 0 .. Rows - 1
  PROVE  IsScript(ScriptOf(r)) /\ ScriptOf(r) \in Scripts
<1>1. CASE r.unit = "locator"
  <2>1. r.row \in 0 .. Rows /\ r.col \in 0 .. Rows
    BY <1>1, AskedUnits
  <2>2. PICK words : words = LocatorScript(r.row, r.col, scr.adjusted)
    OBVIOUS
  <2>3. IsScript(words)
    BY <2>1, <2>2, LocWords DEF LocSpelled
  <2> QED BY <1>1, <2>1, <2>2, <2>3 DEF ScriptOf, Scripts
<1>2. CASE r.unit = "clser"
  <2>1. IsScript(ClserScript)
    BY ClsWords DEF ClsSpelled
  <2> QED BY <1>2, <2>1 DEF ScriptOf, Scripts
<1>3. CASE r.unit = "rom_writer"
  <2>1. PICK k : k = r.index + 1
    OBVIOUS
  <2>2. k \in DOMAIN Commands /\ Commands[k][1] # <<>>
    BY <1>3, <2>1, AskedUnits
  <2>3. PICK parts : parts = Commands[k]
    OBVIOUS
  <2>4. /\ parts \in Seq(Seq(Nat)) /\ Len(parts) # 0 /\ Len(parts[1]) # 0
        /\ \A i \in 1 .. Len(parts) : Len(parts[i]) # 0 => parts[i][1] \in ControlBytes
    BY <2>2, <2>3, CommandBytes
  <2>5. IsScript(PartsScript(parts))
    BY <2>4, PartsWords DEF PartsSpelled
  <2> QED BY <1>3, <2>1, <2>2, <2>3, <2>5 DEF ScriptOf, Scripts
<1>4. CASE r.unit = "scroller"
  <2>1. PICK parts : parts = ScrollParts(scr.adjusted)
    OBVIOUS
  <2>2. /\ parts \in Seq(Seq(Nat)) /\ Len(parts) # 0 /\ Len(parts[1]) # 0
        /\ \A i \in 1 .. Len(parts) : Len(parts[i]) # 0 => parts[i][1] \in ControlBytes
    BY <2>1, ScrollPartsAre
  <2>3. IsScript(PartsScript(parts))
    BY <2>2, PartsWords DEF PartsSpelled
  <2> QED BY <1>4, <2>1, <2>3 DEF ScriptOf, Scripts
<1> QED BY <1>1, <1>2, <1>3, <1>4, AskedUnits

\* A command begins with its script, or with the word left behind in place of the
\* script's START.
LEMMA OpeningSays ==
  ASSUME LineInv, NEW words, IsScript(words)
  PROVE  Opening \o Tail(words)
           = IF in_fifo = <<>> THEN words ELSE in_fifo \o Tail(words)
<1>1. Queued <=> in_fifo # <<>>
  BY DEF LineInv, Queued, Readable
<1>2. CASE in_fifo # <<>>
  BY <1>1, <1>2 DEF Opening
<1>3. CASE in_fifo = <<>>
  <2>1. Opening = <<StartWord>>
    BY <1>1, <1>3 DEF Opening
  <2>2. PICK n, opened : n = Len(words) /\ opened = <<StartWord>> \o Tail(words)
    OBVIOUS
  <2>3. opened = [i \in 1 .. n |-> IF i = 1 THEN StartWord ELSE words[i]]
    BY <2>2, OpenedIs
  <2>4. words = [i \in 1 .. n |-> words[i]] /\ words[1] = StartWord
    BY <2>2, LenProperties DEF IsScript
  <2>5. opened = words
    BY <2>3, <2>4
  <2> QED BY <1>3, <2>1, <2>2, <2>5
<1> QED BY <1>2, <1>3

Left == IF AnyBusy THEN <<>> ELSE in_fifo

LEMMA Ships ==
  ASSUME DeliveryInv, [WritersNext]_vars
  PROVE  [Promise!Next]_<<AnyBusy, script, taken, refused, Left>>
<1>1. CASE UNCHANGED vars
  <2>1. UNCHANGED <<loc, cls, wr, scr, in_fifo, script, taken, refused>>
    BY <1>1 DEF vars, unitVars, i2cVars
  <2> QED BY <2>1 DEF AnyBusy, Left
<1>2. CASE WritersNext
  <2>1. PICK sda_i \in Bit : Gateware(sda_i) /\ User
    BY <1>2 DEF WritersNext
  <2>2. Cycle(sda_i)
    BY <1>2, <2>1, BusNext DEF Cycle, DeliveryInv
  <2>3. Quiet \/ Begun \/ Goes \/ Finished
    BY <2>2, Outcomes
  <2>4. /\ refused' \in BOOLEAN
        /\ AnyBusy <=> ~AllIdle
        /\ AnyBusy' <=> ~AllIdle'
        /\ AllIdle' => taken' = <<>> /\ ~refused'
        /\ AllIdle' /\ req = None => script' = <<>>
        /\ ~AllIdle' /\ req = None => script' = script
        /\ req # None => script' = Opening \o Tail(ScriptOf(req))
    BY <2>2, HistoryGoes
  <2>5. /\ refused \in BOOLEAN /\ AnyBusy \in BOOLEAN /\ AnyBusy' \in BOOLEAN
        /\ ~AnyBusy => taken = <<>> /\ script = <<>> /\ ~refused
    BY DEF DeliveryInv, ClearInv, AnyBusy
  <2>6. /\ Left = IF AnyBusy THEN <<>> ELSE in_fifo
        /\ Left' = IF AnyBusy' THEN <<>> ELSE in_fifo'
    BY DEF Left
  <2>7. CASE Quiet
    <3>1. /\ AnyBusy' = AnyBusy /\ script' = script /\ taken' = taken /\ refused' = refused
          /\ Left' = Left
      BY <2>4, <2>5, <2>6, <2>7 DEF Quiet
    <3> QED BY <3>1
  <2>8. CASE Begun
    <3>1. PICK s : s = ScriptOf(req)
      OBVIOUS
    <3>2. IsScript(s) /\ s \in Scripts
      <4>1. Asked(req) /\ scr.adjusted \in 0 .. Rows - 1
        BY <2>8 DEF Begun, DeliveryInv, BusInv, AskedInv, ShapesInv
      <4> QED BY <3>1, <4>1, ScriptIs
    <3>3. ~AnyBusy /\ AnyBusy' /\ taken' = <<>> /\ refused' = FALSE
      BY <2>4, <2>8 DEF Begun, Fresh
    <3>4. script' = IF Left = <<>> THEN s ELSE Left \o Tail(s)
      <4>1. script' = Opening \o Tail(s)
        BY <2>4, <2>8, <3>1 DEF Begun
      <4>2. LineInv
        BY DEF DeliveryInv
      <4> QED BY <2>6, <3>2, <3>3, <4>1, <4>2, OpeningSays
    <3>5. Left' = <<>>
      BY <2>6, <3>3
    <3>6. Promise!Begin
      BY <3>2, <3>3, <3>4, <3>5 DEF Promise!Begin, Left
    <3> QED BY <3>6 DEF Promise!Next
  <2>9. CASE Goes
    <3>1. AnyBusy /\ AnyBusy' = AnyBusy /\ script' = script /\ Left' = Left
      BY <2>4, <2>5, <2>6, <2>9 DEF Goes
    <3>2. CASE taken' = taken /\ (refused' <=> refused)
      BY <2>4, <2>5, <3>1, <3>2
    <3>3. CASE /\ ~refused /\ Len(taken) < Len(script)
               /\ taken' = Append(taken, script[Len(taken) + 1]) /\ ~refused'
      <4>1. refused' = refused
        BY <2>4, <2>5, <3>3
      <4> QED BY <3>1, <3>3, <4>1 DEF Promise!Next, Promise!Deliver, Left
    <3>4. CASE ~refused /\ refused' /\ UNCHANGED taken
      BY <3>1, <3>4 DEF Promise!Next, Promise!Refuse, Left
    <3> QED BY <2>9, <3>2, <3>3, <3>4 DEF Goes, Forwards
  <2>10. CASE Finished
    <3>1. AnyBusy /\ (refused \/ taken = script)
      BY <2>4, <2>10 DEF Finished
    <3>2. AnyBusy' = FALSE /\ script' = <<>> /\ taken' = <<>> /\ refused' = FALSE
      BY <2>4, <2>5, <2>10 DEF Finished
    <3>3. \/ Left' = <<>>
          \/ refused /\ \E word \in ControlWords : Left' = <<word>>
      <4>1. in_fifo' = <<>> \/ (Queued' /\ in_fifo' = <<FrontWord'>>)
        <5>1. LineInv'
          BY <2>2, Outcomes
        <5> QED BY <5>1 DEF LineInv, Queued, Readable
      <4>2. Queued' => refused /\ FrontWord' \in ControlWords
        BY <2>10 DEF Finished
      <4> QED BY <2>6, <3>2, <4>1, <4>2
    <3>4. Left' \in {<<>>} \cup
             (IF refused THEN {<<word>> : word \in {DataWord(b) : b \in ControlBytes}} ELSE {})
      BY <3>3 DEF ControlWords
    <3> QED BY <3>1, <3>2, <3>4 DEF Promise!Next, Promise!End, Left
  <2> QED BY <2>3, <2>7, <2>8, <2>9, <2>10
<1> QED BY <1>1, <1>2

\* Locator, Clser, ROMWriter and Scroller deliver: the words of a command reach
\* the wire in order, none lost, repeated or made up, and the command ends with
\* all of them sent, unless the display refused a byte; of a refused one at most a
\* control byte is left, and that takes the place of the next one's START.
THEOREM UnitsDeliver == WritersSpec => Delivers
<1>1. WritersInit => Promise!Init
  <2> SUFFICES ASSUME WritersInit PROVE Promise!Init
    OBVIOUS
  <2>1. DeliveryInv /\ ClearInv
    BY DeliveryInit DEF DeliveryInv
  <2>2. AllIdle
    <3>1. UnitsInit(0)
      BY DEF WritersInit
    <3> QED BY <3>1
            DEF AllIdle, UnitsInit, LocInit, ClsInit, WrInit, ScrInit, AtRest, IdleUnit,
                IdleUnitWith
  <2>3. AnyBusy = FALSE
    BY <2>1, <2>2, OwnerIs DEF AnyBusy, DeliveryInv
  <2>4. script = <<>> /\ taken = <<>> /\ refused = FALSE /\ in_fifo = <<>>
    BY DEF WritersInit, Init
  <2> QED BY <2>3, <2>4 DEF Promise!Init
<1>2. DeliveryInv /\ [WritersNext]_vars
        => [Promise!Next]_<<AnyBusy, script, taken, refused, IF AnyBusy THEN <<>> ELSE in_fifo>>
  BY Ships DEF Left
<1> QED BY <1>1, <1>2, DeliveryInvariance, PTL DEF WritersSpec, Delivers, Promise!Spec

LEMMA ScrTurns ==
  ASSUME NEW stb, NEW rst, ScrShape, ScrStep(stb, rst), scr'.adjusted # scr.adjusted
  PROVE  \/ /\ scr.fsm = "IDLE" /\ rst = 1
            /\ stb # 1 => scr'.adjusted = 0
         \/ /\ scr.fsm = "FIN_WAIT_I2C_DONE" /\ scr'.fsm = "IDLE" /\ ack = 1
            /\ scr'.adjusted = (scr.adjusted + 1) % Rows
<1>0. ROMFields \cup {"written", "adjusted"} \subseteq DOMAIN scr
  BY DEF ScrShape, ROMShape
<1>1. CASE ScrIdle(stb, rst)
  <2>1. scr.fsm = "IDLE" /\ rst = 1
    BY <1>1, ScrHands DEF ScrIdle
  <2>2. ASSUME stb # 1 PROVE scr'.adjusted = 0
    BY <1>0, <2>1, <2>2, ScrRests DEF AtRest
  <2> QED BY <2>1, <2>2
<1>2. CASE Copy!WrCommonStep
  BY <1>2, CopyCommonHands DEF Counts
<1>3. CASE ScrSend
  <2>1. scr'.adjusted = scr.adjusted
    BY <1>0, <1>3
       DEF ScrSend, Goto, Count, Copy!NextByte, NextByte, PutData, Strobe, ROMFields
  <2> QED BY <2>1
<1>4. CASE ScrFinish
  <2>1. CASE busy = 0 /\ ack = 1 /\ Writable(in_fifo)
    <3>1. scr' = Done([scr EXCEPT !.adjusted = (@ + 1) % Rows])
      BY <1>4, <2>1 DEF ScrFinish
    <3>2. scr'.fsm = "IDLE" /\ scr'.adjusted = (scr.adjusted + 1) % Rows
      BY <1>0, <3>1 DEF Done, Goto, ROMFields
    <3> QED BY <1>4, <2>1, <3>2 DEF ScrFinish
  <2>2. CASE ~(busy = 0 /\ ack = 1 /\ Writable(in_fifo))
    <3>1. scr' = Refused(scr)
      BY <1>4, <2>2 DEF ScrFinish
    <3>2. scr'.adjusted = scr.adjusted
      BY <1>0, <3>1 DEF Refused, Done, Goto, ROMFields
    <3> QED BY <3>2
  <2> QED BY <2>1, <2>2
<1> QED BY <1>1, <1>2, <1>3, <1>4 DEF ScrStep

\* The position turns only when the last byte was not refused, and then all were
\* acknowledged: a refusal keeps ack low until the next transfer.
LEMMA Turns ==
  ASSUME NEW sda_i, Cycle(sda_i), scr'.adjusted # scr.adjusted
  PROVE  \/ scr'.adjusted = 0 /\ req.unit = "rom_writer"
         \/ taken = script /\ ~refused /\ scr'.adjusted = (scr.adjusted + 1) % Rows
<1>1. /\ BusInv /\ LineInv /\ ServesInv /\ RestsInv /\ Gateware(sda_i)
      /\ ScrShape
  BY DEF Cycle, DeliveryInv, BusInv, ShapesInv
<1>2. PICK ss, rst : /\ ss = Strobed(req, "scroller")
                     /\ rst = (IF Strobed(req, "rom_writer") = 1 THEN req.rst ELSE 0)
  OBVIOUS
<1>3. ScrStep(ss, rst)
  BY <1>1, <1>2, UnitsDo
<1>4. CASE scr.fsm = "IDLE" /\ rst = 1 /\ (ss # 1 => scr'.adjusted = 0)
  <2>1. req.unit = "rom_writer"
    BY <1>2, <1>4 DEF Strobed
  <2>2. ss # 1
    BY <1>2, <2>1 DEF Strobed
  <2> QED BY <1>4, <2>1, <2>2
<1>5. CASE /\ scr.fsm = "FIN_WAIT_I2C_DONE" /\ scr'.fsm = "IDLE" /\ ack = 1
           /\ scr'.adjusted = (scr.adjusted + 1) % Rows
  <2>1. ~AtRest(scr) /\ AtRest(scr') /\ ScrServed
    BY <1>1, <1>5 DEF AtRest, ServesInv
  <2>2. Finished
    <3>1. Goes \/ Finished
      BY <2>1, ScrWorks
    <3>2. AtRest(loc) /\ AtRest(cls) /\ AtRest(wr)
      BY <1>1, <2>1 DEF BusInv, AloneInv
    <3>3. ~AllIdle
      BY <2>1 DEF AllIdle
    <3>4. AtRest(loc') /\ AtRest(cls') /\ AtRest(wr')
      BY <3>2, <3>3, WhileBusy DEF AtRest
    <3>5. AllIdle'
      BY <2>1, <3>4 DEF AllIdle, AtRest
    <3> QED BY <3>1, <3>5 DEF Goes
  <2>3. ~refused
    <3>1. PICK words, st, i, n, lag : Serves(scr, n, lag)
      BY <2>1 DEF ScrServed
    <3>2. refused => ack = 0
      BY <3>1 DEF Serves, Stopping
    <3> QED BY <1>5, <3>2
  <2> QED BY <1>5, <2>2, <2>3 DEF Finished
<1> QED BY <1>1, <1>3, <1>4, <1>5, ScrTurns

\* Scroller's copy of the scroll position moves only with the display's: when the
\* whole scroll command is on the wire and every byte of it acknowledged, or when
\* the initialisation command resets it.
THEOREM PositionFollows == WritersSpec => ScrollFollowsDisplay
<1> DEFINE Follows ==
      scr'.adjusted # scr.adjusted =>
        \/ scr'.adjusted = 0 /\ req.unit = "rom_writer"
        \/ taken = script /\ ~refused
             /\ scr'.adjusted = (scr.adjusted + 1) % Rows
<1>1. DeliveryInv /\ [WritersNext]_vars => [Follows]_vars
  <2> SUFFICES ASSUME DeliveryInv, WritersNext PROVE Follows
    OBVIOUS
  <2>1. PICK sda_i \in Bit : Gateware(sda_i) /\ User
    BY DEF WritersNext
  <2>2. Cycle(sda_i)
    BY <2>1, BusNext DEF Cycle, DeliveryInv
  <2> QED BY <2>2, Turns
<1> HIDE DEF Follows
<1>2. WritersSpec => [][Follows]_vars
  BY <1>1, DeliveryInvariance, PTL DEF WritersSpec
<1> QED BY <1>2 DEF ScrollFollowsDisplay, Follows

\* The unit at work has its place in a script that it serves.
LEMMA AtWork ==
  ASSUME DeliveryInv, ~AllIdle
  PROVE  \E n, lag : /\ Fits(Owner(IdleUnit), n, lag, script)
                     /\ Serves(Owner(IdleUnit), n, lag)
                     /\ Owner(IdleUnit).w_en = 1 /\ n # 1 => Writable(in_fifo)
<1>1. BusInv /\ ServesInv /\ ShapesInv /\ RoomInv
  BY DEF DeliveryInv, BusInv
<1>2. CASE ~AtRest(loc)
  <2>1. PICK words, n, lag :
          /\ Opened(script, words) /\ LocSpelled(words, row, col, scr.adjusted)
          /\ LocAt(loc, n, lag, words, row, col) /\ Serves(loc, n, lag)
    BY <1>1, <1>2 DEF ServesInv, LocServed
  <2>2. IsScript(words) /\ Fits(loc, n, lag, words) /\ (loc.fsm \in Firsts => n = 1)
    BY <2>1, LocFits
  <2>3. Fits(loc, n, lag, script)
    BY <2>1, <2>2, FitsOpened
  <2>4. loc.w_en = 1 /\ n # 1 => Writable(in_fifo)
    BY <1>1, <2>2, HasRoom DEF ShapesInv, RoomInv
  <2> QED BY <1>1, <1>2, <2>1, <2>3, <2>4, OwnerIs
<1>3. CASE ~AtRest(cls)
  <2>1. PICK words, pt, n, lag :
          /\ Opened(script, words) /\ ClsSpelled(words, pt)
          /\ ClsAt(cls, n, lag, words, pt) /\ Serves(cls, n, lag)
    BY <1>1, <1>3 DEF ServesInv, ClsServed
  <2>2. IsScript(words) /\ Fits(cls, n, lag, words) /\ (cls.fsm \in Firsts => n = 1)
    BY <2>1, ClsFits
  <2>3. Fits(cls, n, lag, script)
    BY <2>1, <2>2, FitsOpened
  <2>4. cls.w_en = 1 /\ n # 1 => Writable(in_fifo)
    BY <1>1, <2>2, HasRoom DEF ShapesInv, ClsShape, RoomInv
  <2> QED BY <1>1, <1>3, <2>1, <2>3, <2>4, OwnerIs
<1>4. CASE ~AtRest(wr)
  <2>0. PICK k \in DOMAIN Commands : \E words, st, i, n, lag :
          /\ Opened(script, words) /\ PartsSpelled(words, Commands[k], st)
          /\ ROMAt(wr, rom_data, k, i, n, lag, words, st) /\ Serves(wr, n, lag)
    BY <1>1, <1>4 DEF ServesInv, WrServed
  <2>1. PICK words, st, i, n, lag :
          /\ Opened(script, words) /\ PartsSpelled(words, Commands[k], st)
          /\ ROMAt(wr, rom_data, k, i, n, lag, words, st) /\ Serves(wr, n, lag)
    BY <2>0
  <2>2. IsScript(words) /\ ROMShape(wr)
    BY <1>1, <2>1 DEF PartsSpelled, ShapesInv
  <2>3. Fits(wr, n, lag, script) /\ (wr.fsm \in Firsts => n = 1)
    BY <2>1, <2>2, ROMFits, ROMBusy, FitsOpened
  <2>4. wr.w_en = 1 /\ n # 1 => Writable(in_fifo)
    BY <1>1, <2>2, <2>3, HasRoom DEF ROMShape, RoomInv
  <2> QED BY <1>1, <1>4, <2>1, <2>3, <2>4, OwnerIs
<1>5. CASE ~AtRest(scr)
  <2>1. PICK words, st, i, n, lag :
          /\ Opened(script, words) /\ PartsSpelled(words, ScrollParts(scr.adjusted), st)
          /\ ROMAt(scr, rom_data, OFFSET_SCROLL + 1, i, n, lag, words, st)
          /\ scr.written = n - i /\ Serves(scr, n, lag)
    BY <1>1, <1>5 DEF ServesInv, ScrServed
  <2>2. IsScript(words) /\ ROMShape(scr)
    BY <1>1, <2>1 DEF PartsSpelled, ShapesInv, ScrShape
  <2>3. Fits(scr, n, lag, script) /\ (scr.fsm \in Firsts => n = 1)
    BY <2>1, <2>2, ROMFits, ROMBusy, FitsOpened
  <2>4. scr.w_en = 1 /\ n # 1 => Writable(in_fifo)
    BY <1>1, <2>2, <2>3, HasRoom DEF ROMShape, RoomInv
  <2> QED BY <1>1, <1>5, <2>1, <2>3, <2>4, OwnerIs
<1> QED BY <1>2, <1>3, <1>4, <1>5 DEF AllIdle

\* Of the words that the units queue only a first START is ever dropped, and only
\* for the control byte that a refused unit has left to the idle controller, which
\* then goes out in its place (rtl/oled/locator.py, clser.py, rom_writer.py,
\* scroller.py, on rtl/i2c/).
THEOREM NothingDropped == WritersSpec => []NoWordLost
<1>1. DeliveryInv => NoWordLost
  <2> SUFFICES ASSUME DeliveryInv, Owner(IdleUnit).w_en = 1, ~Writable(in_fifo)
               PROVE  /\ busy = 0 /\ LeftWord /\ Owner(IdleUnit).w = StartWord
                      /\ taken = <<>>
    BY DEF NoWordLost
  <2>1. PICK u : u = Owner(IdleUnit)
    OBVIOUS
  <2>2. BusInv /\ LineInv
    BY DEF DeliveryInv
  <2>3. ~AllIdle
    BY <2>2, IdleOwner
  <2>4. PICK n, lag : /\ Fits(Owner(IdleUnit), n, lag, script)
                      /\ Serves(Owner(IdleUnit), n, lag)
                      /\ Owner(IdleUnit).w_en = 1 /\ n # 1 => Writable(in_fifo)
    BY <2>3, AtWork
  <2>5. /\ Fits(u, n, lag, script) /\ Serves(u, n, lag)
        /\ u.w_en = 1 /\ n # 1 => Writable(in_fifo)
    BY <2>1, <2>4
  <2>6. n = 1 /\ u.w_en = 1 /\ u.w = StartWord
    BY <2>1, <2>5 DEF Fits
  <2>7. Unsent(u, n)
    BY <2>5, <2>6 DEF Serves, Stopping, Underway, Waits
  <2>8. Queued
    BY DEF Queued, Readable, Writable
  <2>9. taken = <<>> /\ fsm = "IDLE" /\ FrontWord \in ControlWords
    BY <2>6, <2>7, <2>8 DEF Unsent
  <2>10. busy = 0
    BY <2>2, <2>9 DEF LineInv
  <2> QED BY <2>1, <2>6, <2>8, <2>9, <2>10 DEF LeftWord, ControlWords
<1> QED BY <1>1, DeliveryInvariance, PTL

\* A transfer begins with a word that says "write": the START of the unit that
\* strobes the idle controller, or the control byte left in its place, whatever
\* was refused before.
THEOREM TransfersAreWrites == WritersSpec => []UnitsAddressFirst
<1>1. DeliveryInv => UnitsAddressFirst
  <2> SUFFICES ASSUME DeliveryInv, fsm = "IDLE", Owner(IdleUnit).stb = 1
               PROVE  /\ Queued /\ RwOf(FrontWord) = W
                      /\ FrontWord = StartWord \/ LeftWord
    BY DEF UnitsAddressFirst
  <2>1. PICK u : u = Owner(IdleUnit)
    OBVIOUS
  <2>2. BusInv
    BY DEF DeliveryInv
  <2>3. ~AllIdle
    BY <2>2, IdleOwner
  <2>4. PICK n, lag : /\ Fits(Owner(IdleUnit), n, lag, script)
                      /\ Serves(Owner(IdleUnit), n, lag)
    BY <2>3, AtWork
  <2>5. Fits(u, n, lag, script) /\ Serves(u, n, lag)
    BY <2>1, <2>4
  <2>6. n = 1 /\ u.stb = 1 /\ script[1] \in {StartWord} \cup ControlWords
    BY <2>1, <2>5 DEF Fits
  <2>7. Unsent(u, n)
    BY <2>5, <2>6 DEF Serves, Stopping, Underway
  <2>8. Queued /\ FrontWord = script[1]
    BY <2>6, <2>7 DEF Unsent
  <2> QED BY <2>6, <2>8, StartWrites DEF LeftWord, ControlWords
<1> QED BY <1>1, DeliveryInvariance, PTL
===============================================================================
