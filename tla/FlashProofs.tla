------------------------------ MODULE FlashProofs -----------------------------
(***************************************************************************)
(* Theorems about the flash reader and the fill of the ROM.                *)
(***************************************************************************)
EXTENDS ROMFill, Recursion, SequenceTheorems

(***************************************************************************)
(* Numbers and their bits.                                                 *)
(***************************************************************************)
\* The recursive functions of BitsOf and NumberOf are what they say they are.
Halves(f, n, w) == f = [k \in 0 .. w |-> IF k = 0 THEN n ELSE f[k - 1] \div 2]
Numbers(f, bits, w) ==
  f = [i \in 0 .. w |-> IF i = 0 THEN 0 ELSE 2 * f[i - 1] + bits[i]]

LEMMA HalvesExist ==
  ASSUME NEW n, NEW w \in Nat
  PROVE  \E f : Halves(f, n, w)
<1> DEFINE S == {v \in Nat : \E f : Halves(f, n, v)}
<1>1. 0 \in S
  <2>1. Halves([k \in 0 .. 0 |-> n], n, 0)
    BY DEF Halves
  <2> QED BY <2>1
<1>2. ASSUME NEW v \in Nat, v \in S PROVE v + 1 \in S
  <2>1. PICK f : Halves(f, n, v)
    BY <1>2
  <2> DEFINE g == [k \in 0 .. v + 1 |-> IF k = v + 1 THEN f[v] \div 2 ELSE f[k]]
  <2>2. Halves(g, n, v + 1)
    BY <2>1 DEF Halves
  <2>3. \E h : Halves(h, n, v + 1)
    <3> HIDE DEF g
    <3> QED BY <2>2
  <2> QED BY <2>3
<1>3. Nat \subseteq S
  <2> HIDE DEF S
  <2> QED BY <1>1, <1>2, Induct
<1> QED BY <1>3

LEMMA NumbersExist ==
  ASSUME NEW bits, NEW w \in Nat
  PROVE  \E f : Numbers(f, bits, w)
<1> DEFINE S == {v \in Nat : \E f : Numbers(f, bits, v)}
<1>1. 0 \in S
  <2>1. Numbers([k \in 0 .. 0 |-> 0], bits, 0)
    BY DEF Numbers
  <2> QED BY <2>1
<1>2. ASSUME NEW v \in Nat, v \in S PROVE v + 1 \in S
  <2>1. PICK f : Numbers(f, bits, v)
    BY <1>2
  <2> DEFINE g == [i \in 0 .. v + 1 |->
                     IF i = v + 1 THEN 2 * f[v] + bits[v + 1] ELSE f[i]]
  <2>2. Numbers(g, bits, v + 1)
    BY <2>1 DEF Numbers
  <2>3. \E h : Numbers(h, bits, v + 1)
    <3> HIDE DEF g
    <3> QED BY <2>2
  <2> QED BY <2>3
<1>3. Nat \subseteq S
  <2> HIDE DEF S
  <2> QED BY <1>1, <1>2, Induct
<1> QED BY <1>3

HalfOf(n, w) == CHOOSE f : Halves(f, n, w)

LEMMA BitsOfDef ==
  ASSUME NEW n \in Nat, NEW w \in Nat
  PROVE  /\ HalfOf(n, w) \in [0 .. w -> Nat]
         /\ HalfOf(n, w)[0] = n
         /\ \A k \in 1 .. w : HalfOf(n, w)[k] = HalfOf(n, w)[k - 1] \div 2
         /\ BitsOf(n, w) = [i \in 1 .. w |-> HalfOf(n, w)[w - i] % 2]
<1> DEFINE f == HalfOf(n, w)
<1>1. Halves(f, n, w)
  BY HalvesExist DEF HalfOf
<1>2. BitsOf(n, w) = [i \in 1 .. w |-> f[w - i] % 2]
  BY DEF BitsOf, HalfOf, Halves
<1>3. f[0] = n /\ \A k \in 1 .. w : f[k] = f[k - 1] \div 2
  BY <1>1 DEF Halves
<1>4. f \in [0 .. w -> Nat]
  <2> HIDE DEF f
  <2> DEFINE S == {v \in Nat : v <= w => f[v] \in Nat}
  <2>1. 0 \in S
    BY <1>3
  <2>2. ASSUME NEW v \in Nat, v \in S PROVE v + 1 \in S
    <3>1. CASE v + 1 <= w
      <4>1. f[v] \in Nat /\ f[v + 1] = f[v] \div 2
        BY <1>3, <2>2, <3>1
      <4> QED BY <4>1
    <3> QED BY <3>1
  <2>3. Nat \subseteq S
    <3> HIDE DEF S
    <3> QED BY <2>1, <2>2, Induct
  <2>4. DOMAIN f = 0 .. w /\ f = [k \in DOMAIN f |-> f[k]]
    BY <1>1 DEF Halves
  <2>5. \A k \in 0 .. w : f[k] \in Nat
    BY <2>3
  <2> QED BY <2>4, <2>5
<1> QED BY <1>2, <1>3, <1>4

\* Taking a number apart and putting it together again.
LEMMA NumberOfBits ==
  ASSUME NEW n \in Nat, NEW w \in Nat, HalfOf(n, w)[w] = 0,
         NEW bits, bits = BitsOf(n, w), Len(bits) = w
  PROVE  NumberOf(bits) = n
<1>1. PICK f : f = (CHOOSE g : Numbers(g, bits, w))
  OBVIOUS
<1>2. Numbers(f, bits, w) /\ NumberOf(bits) = f[w]
  <2>1. NumberOf(bits) = (CHOOSE g : Numbers(g, bits, Len(bits)))[Len(bits)]
    BY DEF NumberOf, Numbers
  <2>2. Numbers(f, bits, w)
    BY <1>1, NumbersExist
  <2> QED BY <1>1, <2>1, <2>2
<1>3. f[0] = 0 /\ \A i \in 1 .. w : f[i] = 2 * f[i - 1] + bits[i]
  BY <1>2 DEF Numbers
<1>4. PICK h : h = HalfOf(n, w)
  OBVIOUS
<1>5. /\ h \in [0 .. w -> Nat] /\ h[0] = n /\ h[w] = 0
      /\ \A k \in 1 .. w : h[k] = h[k - 1] \div 2
      /\ \A i \in 1 .. w : bits[i] = h[w - i] % 2
  <2>1. h \in [0 .. w -> Nat] /\ h[0] = n /\ h[w] = 0
    BY <1>4, BitsOfDef
  <2>2. \A k \in 1 .. w : h[k] = h[k - 1] \div 2
    <3>1. \A k \in 1 .. w : HalfOf(n, w)[k] = HalfOf(n, w)[k - 1] \div 2
      BY BitsOfDef
    <3> QED BY <1>4, <3>1
  <2>3. bits = [i \in 1 .. w |-> h[w - i] % 2]
    <3>1. BitsOf(n, w) = [i \in 1 .. w |-> HalfOf(n, w)[w - i] % 2]
      BY BitsOfDef
    <3> QED BY <1>4, <3>1
  <2> QED BY <2>1, <2>2, <2>3
<1> DEFINE S == {v \in Nat : v <= w => f[v] = h[w - v]}
<1>6. 0 \in S
  BY <1>3, <1>5
<1>7. ASSUME NEW v \in Nat, v \in S PROVE v + 1 \in S
  <2>1. CASE v + 1 <= w
    <3>1. PICK k \in 1 .. w : k = w - v
      BY <2>1
    <3>2. /\ v + 1 \in 1 .. w /\ (v + 1) - 1 = v
          /\ k - 1 \in 0 .. w /\ w - (v + 1) = k - 1
      BY <2>1, <3>1
    <3>3. f[v] = h[k]
      BY <1>7, <2>1, <3>1
    <3>4. f[v + 1] = 2 * f[v] + bits[v + 1]
      BY <1>3, <3>2
    <3>5. bits[v + 1] = h[k - 1] % 2
      BY <1>5, <3>2
    <3>6. h[k] = h[k - 1] \div 2 /\ h[k - 1] \in Nat
      BY <1>5, <3>2
    <3>7. f[v + 1] = h[k - 1]
      BY <3>3, <3>4, <3>5, <3>6
    <3> QED BY <3>2, <3>7
  <2> QED BY <2>1
<1>8. Nat \subseteq S
  <2> HIDE DEF S
  <2> QED BY <1>6, <1>7, Induct
<1>9. f[w] = h[0]
  BY <1>8
<1> QED BY <1>2, <1>5, <1>9

-------------------------------------------------------------------------------
(***************************************************************************)
(* Shift registers.                                                        *)
(***************************************************************************)
Bit == 0 .. 1
Bits(w) == [1 .. w -> Bit]
AByte == 0 .. 255
N == ROM_LENGTH

LEMMA BitsAreSequences ==
  ASSUME NEW w \in Nat, NEW sr \in Bits(w)
  PROVE  sr \in Seq(Bit) /\ Len(sr) = w
<1>1. sr \in Seq(Bit)
  BY SeqDef DEF Bits
<1> QED BY <1>1, LenProperties DEF Bits

LEMMA ShiftedIs ==
  ASSUME NEW w \in Nat \ {0}, NEW sr \in Bits(w), NEW bit \in Bit
  PROVE  /\ Shifted(sr, bit) \in Bits(w)
         /\ Shifted(sr, bit)[w] = bit
         /\ \A i \in 1 .. w - 1 : Shifted(sr, bit)[i] = sr[i + 1]
<1>1. sr \in Seq(Bit) /\ Len(sr) = w
  BY BitsAreSequences
<1>2. PICK t : t = Tail(sr)
  OBVIOUS
<1>3. t \in Seq(Bit) /\ Len(t) = w - 1 /\ \A i \in 1 .. w - 1 : t[i] = sr[i + 1]
  <2>1. sr # <<>>
    BY <1>1
  <2> QED BY <1>1, <1>2, <2>1, HeadTailProperties
<1>4. PICK u : u = Append(t, bit)
  OBVIOUS
<1>5. u \in Seq(Bit) /\ Len(u) = w /\ u[w] = bit /\ \A i \in 1 .. w - 1 : u[i] = t[i]
  BY <1>3, <1>4, AppendProperties
<1>6. u \in Bits(w)
  BY <1>5, ElementOfSeq, LenProperties DEF Bits
<1>7. Shifted(sr, bit) = u
  BY <1>2, <1>4 DEF Shifted
<1> QED BY <1>3, <1>5, <1>6, <1>7

\* A number of so many bits is its bits.
LEMMA BitsOfIsBits ==
  ASSUME NEW n \in Nat, NEW w \in Nat
  PROVE  BitsOf(n, w) \in Bits(w)
<1>1. PICK h : h = HalfOf(n, w)
  OBVIOUS
<1>2. h \in [0 .. w -> Nat]
  <2>1. HalfOf(n, w) \in [0 .. w -> Nat]
    BY BitsOfDef
  <2> QED BY <1>1, <2>1
<1>3. BitsOf(n, w) = [i \in 1 .. w |-> h[w - i] % 2]
  <2>1. BitsOf(n, w) = [i \in 1 .. w |-> HalfOf(n, w)[w - i] % 2]
    BY BitsOfDef
  <2> QED BY <1>1, <2>1
<1>4. ASSUME NEW i \in 1 .. w PROVE h[w - i] % 2 \in 0 .. 1
  <2>1. w - i \in 0 .. w
    OBVIOUS
  <2>2. h[w - i] \in Nat
    BY <1>2, <2>1
  <2> QED BY <2>2
<1> QED BY <1>3, <1>4 DEF Bits, Bit

\* A number halved so often is nothing.
LEMMA HalvesFall ==
  ASSUME NEW n \in Nat, NEW w \in Nat, NEW k \in 1 .. w, NEW m \in Nat,
         HalfOf(n, w)[k - 1] <= 2 * m + 1
  PROVE  HalfOf(n, w)[k] <= m
<1>1. PICK h : h = HalfOf(n, w)
  OBVIOUS
<1>2. h[k] = h[k - 1] \div 2 /\ h[k - 1] \in Nat
  <2>1. /\ HalfOf(n, w) \in [0 .. w -> Nat]
        /\ \A i \in 1 .. w : HalfOf(n, w)[i] = HalfOf(n, w)[i - 1] \div 2
    BY BitsOfDef, Zenon
  <2>2. h \in [0 .. w -> Nat] /\ \A i \in 1 .. w : h[i] = h[i - 1] \div 2
    BY <1>1, <2>1, Zenon
  <2> QED BY <2>2
<1> QED BY <1>1, <1>2

LEMMA HalvesFallOctave ==
  ASSUME NEW n \in Nat, NEW w \in Nat, NEW k \in Nat, k + 8 <= w, NEW m \in Nat,
         HalfOf(n, w)[k] <= 256 * m + 255
  PROVE  HalfOf(n, w)[k + 8] <= m
<1>1. PICK h : h = HalfOf(n, w)
  OBVIOUS
<1>2. \A i \in 1 .. w, j \in Nat : h[i - 1] <= 2 * j + 1 => h[i] <= j
  BY <1>1, HalvesFall
<1>3. h[k + 1] <= 128 * m + 127
  <2>1. k + 1 \in 1 .. w /\ (k + 1) - 1 = k /\ 128 * m + 127 \in Nat
    OBVIOUS
  <2> QED BY <1>1, <1>2, <2>1
<1>4. h[k + 2] <= 64 * m + 63
  <2>1. k + 2 \in 1 .. w /\ (k + 2) - 1 = k + 1 /\ 64 * m + 63 \in Nat
    OBVIOUS
  <2> QED BY <1>2, <1>3, <2>1
<1>5. h[k + 3] <= 32 * m + 31
  <2>1. k + 3 \in 1 .. w /\ (k + 3) - 1 = k + 2 /\ 32 * m + 31 \in Nat
    OBVIOUS
  <2> QED BY <1>2, <1>4, <2>1
<1>6. h[k + 4] <= 16 * m + 15
  <2>1. k + 4 \in 1 .. w /\ (k + 4) - 1 = k + 3 /\ 16 * m + 15 \in Nat
    OBVIOUS
  <2> QED BY <1>2, <1>5, <2>1
<1>7. h[k + 5] <= 8 * m + 7
  <2>1. k + 5 \in 1 .. w /\ (k + 5) - 1 = k + 4 /\ 8 * m + 7 \in Nat
    OBVIOUS
  <2> QED BY <1>2, <1>6, <2>1
<1>8. h[k + 6] <= 4 * m + 3
  <2>1. k + 6 \in 1 .. w /\ (k + 6) - 1 = k + 5 /\ 4 * m + 3 \in Nat
    OBVIOUS
  <2> QED BY <1>2, <1>7, <2>1
<1>9. h[k + 7] <= 2 * m + 1
  <2>1. k + 7 \in 1 .. w /\ (k + 7) - 1 = k + 6 /\ 2 * m + 1 \in Nat
    OBVIOUS
  <2> QED BY <1>2, <1>8, <2>1
<1> QED
  <2>1. k + 8 \in 1 .. w /\ (k + 8) - 1 = k + 7
    OBVIOUS
  <2> QED BY <1>1, <1>2, <1>9, <2>1

LEMMA ByteOfBits ==
  ASSUME NEW n \in AByte
  PROVE  BitsOf(n, 8) \in Bits(8) /\ NumberOf(BitsOf(n, 8)) = n
<1>1. PICK w \in Nat : w = 8
  OBVIOUS
<1>2. n \in Nat /\ n <= 256 * 0 + 255
  BY DEF AByte
<1>3. PICK h : h = HalfOf(n, w)
  OBVIOUS
<1>4. h \in [0 .. w -> Nat] /\ h[0] = n
  BY <1>2, <1>3, BitsOfDef
<1>5. h[8] <= 0
  <2>1. h[0 + 8] <= 0
    BY <1>1, <1>2, <1>3, <1>4, HalvesFallOctave
  <2> QED BY <2>1
<1>6. HalfOf(n, w)[w] = 0
  BY <1>1, <1>3, <1>4, <1>5
<1>7. BitsOf(n, w) \in Bits(w)
  BY <1>2, BitsOfIsBits
<1>8. Len(BitsOf(n, w)) = w
  BY <1>7, BitsAreSequences
<1>9. NumberOf(BitsOf(n, w)) = n
  BY <1>2, <1>6, <1>8, NumberOfBits
<1> QED BY <1>1, <1>7, <1>9

Addresses == {a \in Nat : a < 256 * 256 * 256}

LEMMA AddressOfBits ==
  ASSUME NEW n \in Addresses
  PROVE  BitsOf(n, 24) \in Bits(24) /\ NumberOf(BitsOf(n, 24)) = n
<1>1. PICK w \in Nat : w = 24
  OBVIOUS
<1>2. n \in Nat
  BY SMT DEF Addresses
<1>3. PICK h : h = HalfOf(n, w)
  OBVIOUS
<1>4. h \in [0 .. w -> Nat] /\ h[0] = n
  BY <1>2, <1>3, BitsOfDef
<1>5. \A k, m \in Nat : k + 8 <= w /\ h[k] <= 256 * m + 255 => h[k + 8] <= m
  BY <1>2, <1>3, HalvesFallOctave
<1>6. h[8] <= 256 * 256 - 1
  <2>1. h[0 + 8] <= 256 * 256 - 1
    BY SMT, <1>1, <1>2, <1>4, <1>5 DEF Addresses
  <2> QED BY <2>1
<1>7. h[16] <= 255
  <2>1. h[8 + 8] <= 255
    BY SMT, <1>1, <1>5, <1>6
  <2> QED BY <2>1
<1>8. h[24] <= 0
  <2>1. h[16 + 8] <= 0
    BY <1>1, <1>5, <1>7
  <2> QED BY <2>1
<1>9. HalfOf(n, w)[w] = 0
  BY <1>1, <1>3, <1>4, <1>8
<1>10. BitsOf(n, w) \in Bits(w)
  BY <1>2, BitsOfIsBits
<1>11. Len(BitsOf(n, w)) = w
  BY <1>10, BitsAreSequences
<1>12. NumberOf(BitsOf(n, w)) = n
  BY <1>2, <1>9, <1>11, NumberOfBits
<1> QED BY <1>1, <1>10, <1>12

\* Bits one behind the other, and some of them.
Join(a, b) == a \o b

LEMMA Joined ==
  ASSUME NEW u \in Nat, NEW v \in Nat, NEW w \in Nat, u = v + w,
         NEW a \in Bits(v), NEW b \in Bits(w), NEW c, c = Join(a, b)
  PROVE  /\ c \in Bits(u)
         /\ \A i \in 1 .. v : c[i] = a[i]
         /\ \A i \in 1 .. w : c[v + i] = b[i]
<1>1. a \in Seq(Bit) /\ Len(a) = v /\ b \in Seq(Bit) /\ Len(b) = w
  BY BitsAreSequences
<1>2. /\ c \in Seq(Bit) /\ Len(c) = u
      /\ \A i \in 1 .. u : c[i] = IF i <= v THEN a[i] ELSE b[i - v]
  BY <1>1, ConcatProperties DEF Join
<1>3. c \in Bits(u)
  BY <1>2, ElementOfSeq, LenProperties DEF Bits
<1>4. ASSUME NEW i \in 1 .. w PROVE c[v + i] = b[i]
  <2>1. v + i \in 1 .. u /\ ~(v + i <= v) /\ (v + i) - v = i
    OBVIOUS
  <2> QED BY <1>2, <2>1
<1> QED BY <1>2, <1>3, <1>4

-------------------------------------------------------------------------------
(***************************************************************************)
(* The invariant.                                                          *)
(***************************************************************************)
Length == spifr_bus.len
Handed == Length - Len(todo)
Stb == spifr_bus.stb = 1

ReaderType ==
  reader \in [fsm : {"IDLE", "POWER_DOWN_RELEASE", "WAIT_TRES1", "SEND_CMD",
                     "RECEIVING", "POWER_DOWN"},
              cs : Bit, sr : Bits(32), snd : Nat, rcv_bit : 0 .. 7,
              rcv_byte : Nat, valid : Bit]
ChipStates ==
  {"IDLE", "SELECTED_POWER_DOWN", "SELECTED_POWERING_UP_NEEDS_DESELECT",
   "DESELECTED_POWERED_UP", "SELECTED_POWERED_UP", "READING"}
ChipType ==
  chip \in [state : ChipStates, sr : Bits(32), edges : 0 .. 255, addr : Nat,
            bit : 0 .. 7, cipo : Bit]
BlackboxType ==
  blackbox \in [state : {"IDLE", "READ"}, address : Nat, remaining : Nat,
                countdown : Nat, busy : Bit, data : AByte, valid : Bit]
UserType == spifr_bus \in [stb : Bit, addr : Nat, len : Nat]

TypeInv ==
  /\ part \in {"reader", "blackbox"}
  /\ ReaderType /\ ChipType /\ BlackboxType /\ UserType

\* The user asks when the part is idle, and then for bytes there are.
AskInv ==
  /\ Stb => /\ main \in {"INIT_STROBED_SPIFR", "SPI_TEST_WAIT"}
            /\ SpifrBusy = 0
            /\ spifr_bus.addr = FlashBase
  /\ main = "INIT_STROBED_SPIFR" => Stb
  /\ main \in {"INIT_BEGIN", "SPI_TEST_START"} => SpifrBusy = 0
  /\ main # "INIT_BEGIN" =>
       Length = IF tests = 0 \/ (main = "SPI_TEST_START" /\ tests = 1)
                THEN N ELSE TestLen
  /\ main # "INIT_BEGIN" => spifr_bus.addr = FlashBase
  /\ Filling => tests = 0
  /\ tests \in 0 .. Tests[part]
  /\ main \in {"SPI_TEST_START", "SPI_TEST_WAIT"} => tests > 0

\* What is still to be handed over is the rest of what was asked for, and a byte
\* handed over is the one before it.
Rest(bytes, length) ==
  /\ bytes \in Seq(AByte) /\ length \in 1 .. N /\ Len(bytes) <= length
  /\ \A k \in 1 .. Len(bytes) : bytes[k] = Image[length - Len(bytes) + k]

StreamInv ==
  /\ SpifrBusy = 0 => todo = <<>> /\ SpifrValid = 0
  /\ SpifrBusy = 1 => Rest(todo, Length)
  /\ SpifrValid = 1 => Handed > 0 /\ SpifrData = Image[Handed]

\* The black box.
BlackboxInv ==
  /\ blackbox.busy = (IF blackbox.state = "IDLE" THEN 0 ELSE 1)
  /\ blackbox.state = "READ" =>
       /\ blackbox.remaining = Len(todo)
       /\ blackbox.address = FlashBase + Handed
       /\ blackbox.countdown \in 1 .. 2
       /\ blackbox.valid = 1 => blackbox.countdown = 2

\* A command of 32 bits on its way from the reader to the chip.
Sent == 31 - reader.snd

Sends(command) ==
  /\ reader.cs = 1 /\ reader.snd <= 31 /\ chip.edges = Sent
  /\ \A i \in 1 .. 32 - Sent : reader.sr[i] = command[Sent + i]
  /\ \A i \in 1 .. Sent : chip.sr[32 - Sent + i] = command[i]

ReleaseCommand == BitsOf(171, 8) \o SubSeq(Zeroes, 1, 24)
ReadCommand    == BitsOf(3, 8) \o BitsOf(FlashBase, 24)

\* The byte on its way from the chip to the reader, and its bit there.
Current == Image[Length - reader.rcv_byte]
Taken   == 7 - reader.rcv_bit

\* A read may begin: the chip starts at a byte's first bit.
Fresh == tests = 0 \/ main = "SPI_TEST_START" \/ Stb

Idle ==
  In("IDLE") =>
    /\ chip.state = "IDLE" /\ reader.cs = 0 /\ chip.edges = 0
    /\ Fresh => chip.bit = 0
    /\ reader.valid = 0

Waking ==
  In("POWER_DOWN_RELEASE") =>
    /\ Sends(ReleaseCommand) /\ chip.bit = 0 /\ reader.valid = 0
    /\ chip.state = IF Sent = 0 THEN "IDLE"
                    ELSE IF Sent < 8 THEN "SELECTED_POWER_DOWN"
                    ELSE "SELECTED_POWERING_UP_NEEDS_DESELECT"
    /\ Len(todo) = Length

Waiting ==
  In("WAIT_TRES1") =>
    /\ reader.cs = 0 /\ chip.bit = 0 /\ reader.valid = 0
    /\ reader.snd < Tres1TdpCycles
    /\ IF reader.snd = Tres1TdpCycles - 1
       THEN chip.state = "SELECTED_POWERING_UP_NEEDS_DESELECT"
       ELSE chip.state = "DESELECTED_POWERED_UP" /\ chip.edges = 0
    /\ Len(todo) = Length

Commanding ==
  In("SEND_CMD") =>
    /\ Sends(ReadCommand) /\ chip.bit = 0 /\ reader.valid = 0
    /\ chip.state = IF Sent = 0 THEN "DESELECTED_POWERED_UP"
                                ELSE "SELECTED_POWERED_UP"
    /\ reader.rcv_bit = 7 /\ reader.rcv_byte = Length - 1
    /\ Len(todo) = Length

Receiving ==
  In("RECEIVING") =>
    /\ reader.cs = 1 /\ chip.state = "READING"
    /\ reader.rcv_byte < Length
    /\ Len(todo) = reader.rcv_byte + 1
    /\ chip.cipo = BitsOf(Current, 8)[Taken + 1]
    /\ \A j \in 1 .. Taken : reader.sr[32 - Taken + j] = BitsOf(Current, 8)[j]
    /\ chip.bit = (Taken + 1) % 8
    /\ chip.addr = FlashBase + Length - Len(todo) + (IF Taken = 7 THEN 1 ELSE 0)
    /\ reader.valid = 1 => Taken = 0

PoweringDown ==
  In("POWER_DOWN") =>
    /\ reader.cs = 0 /\ todo = <<>>
    /\ reader.snd < Tres1TdpCycles
    /\ Length = N => chip.bit = 0
    /\ IF reader.snd = Tres1TdpCycles - 1
       THEN chip.state = "READING" /\ (Length = N => chip.addr = FlashBase + N)
       ELSE chip.state = "IDLE" /\ chip.edges = 0 /\ reader.valid = 0

ReaderInv ==
  Idle /\ Waking /\ Waiting /\ Commanding /\ Receiving /\ PoweringDown

PartInv == IF part = "reader" THEN ReaderInv ELSE BlackboxInv

\* The fill: of the bytes handed over all are stored, but the one being taken.
Stores(a) == rom_mem[a \div 2][(a % 2) + 1] = Image[a + 1]
Stored == Handed - SpifrValid

FillInv ==
  /\ rom_mem \in [Words -> [1 .. 2 -> AByte]]
  /\ rom_wr \in [en : Bit, data : AByte]
  /\ rom_wr.en = IF main = "INIT_STROBED_ROM_WR" THEN 1 ELSE 0
  /\ main \in {"INIT_BEGIN", "INIT_STROBED_SPIFR"} => own_addr = 0
  /\ main = "INIT_WAIT_SPIFR" =>
       /\ own_addr = IF Stored = N THEN 0 ELSE Stored
       /\ \A a \in 0 .. Stored - 1 : Stores(a)
  /\ main = "INIT_STROBED_ROM_WR" =>
       /\ Handed > 0 /\ SpifrValid = 0
       /\ own_addr = Handed - 1 /\ effective_addr = own_addr
       /\ rom_wr.data = Image[Handed]
       /\ \A a \in 0 .. Handed - 2 : Stores(a)
  /\ ~Filling =>
       /\ effective_addr \in 0 .. N - 1
       /\ rd_data = rom_mem[effective_addr \div 2]
       /\ \A a \in 0 .. N - 1 : Stores(a)

FirstStates  == {"SPI_TEST_STROBED_R_EN_CHPR_RUNNING"}
SecondStates == {"SPI_TEST_SECOND_HALF_CHPR_RUNNING"}

MainStates ==
  {"INIT_BEGIN", "INIT_STROBED_SPIFR", "INIT_WAIT_SPIFR", "INIT_STROBED_ROM_WR",
   "IDLE", "SPI_TEST_START", "SPI_TEST_WAIT", "SPI_TEST_WRITE_LOOP"}
    \cup FirstStates \cup SecondStates

FlashInv ==
  /\ main \in MainStates
  /\ TypeInv /\ AskInv /\ StreamInv /\ PartInv /\ FillInv

-------------------------------------------------------------------------------
(***************************************************************************)
(* A command on its way.                                                   *)
(***************************************************************************)
LEMMA ZeroesAreBits == Zeroes \in Bits(32)
  BY DEF Zeroes, Bits, Bit

LEMMA ReleaseCommandIs ==
  /\ ReleaseCommand \in Bits(32)
  /\ \A i \in 1 .. 8 : ReleaseCommand[i] = BitsOf(171, 8)[i]
<1>1. BitsOf(171, 8) \in Bits(8)
  BY ByteOfBits DEF AByte
<1>2. SubSeq(Zeroes, 1, 24) \in Bits(24)
  <2>1. PICK b : b = [i \in 1 .. 24 |-> 0]
    OBVIOUS
  <2>2. b \in Bits(24) /\ \A i \in 1 .. 24 : b[i] = 0
    BY <2>1 DEF Bits, Bit
  <2>3. \A i \in 1 .. 24 : Zeroes[i] = b[i]
    BY <2>2 DEF Zeroes
  <2>4. SubSeq(Zeroes, 1, 24) = b
    BY <2>2, <2>3 DEF Bits
  <2> QED BY <2>2, <2>4
<1>3. /\ ReleaseCommand \in Bits(32)
      /\ \A i \in 1 .. 8 : ReleaseCommand[i] = BitsOf(171, 8)[i]
  <2>1. ReleaseCommand = Join(BitsOf(171, 8), SubSeq(Zeroes, 1, 24))
    BY DEF ReleaseCommand, Join
  <2> QED BY <1>1, <1>2, <2>1, Joined
<1> QED BY <1>3

LEMMA ReadCommandIs ==
  /\ ReadCommand \in Bits(32)
  /\ \A i \in 1 .. 8 : ReadCommand[i] = BitsOf(3, 8)[i]
  /\ \A i \in 1 .. 24 : ReadCommand[8 + i] = BitsOf(FlashBase, 24)[i]
<1>1. BitsOf(3, 8) \in Bits(8)
  BY ByteOfBits DEF AByte
<1>2. BitsOf(FlashBase, 24) \in Bits(24)
  BY SMT, AddressOfBits, FlashAssumption DEF Addresses
<1>3. /\ ReadCommand \in Bits(32)
      /\ \A i \in 1 .. 8 : ReadCommand[i] = BitsOf(3, 8)[i]
      /\ \A i \in 1 .. 24 : ReadCommand[8 + i] = BitsOf(FlashBase, 24)[i]
  <2>1. ReadCommand = Join(BitsOf(3, 8), BitsOf(FlashBase, 24))
    BY DEF ReadCommand, Join
  <2> QED BY <1>1, <1>2, <2>1, Joined
<1> QED BY <1>3

\* What the chip's register holds after the next bit, and what it knows by it.
LEMMA NextBit ==
  ASSUME reader.sr \in Bits(32), chip.sr \in Bits(32), Sent \in 0 .. 31,
         NEW command, Sends(command)
  PROVE  /\ SrNext \in Bits(32)
         /\ \A i \in 1 .. Sent + 1 : SrNext[31 - Sent + i] = command[i]
<1>1. reader.sr[1] \in Bit /\ reader.sr[1] = command[Sent + 1]
  BY DEF Sends, Bits
<1>2. /\ SrNext \in Bits(32) /\ SrNext[32] = reader.sr[1]
      /\ \A i \in 1 .. 31 : SrNext[i] = chip.sr[i + 1]
  BY <1>1, ShiftedIs DEF SrNext
<1>3. ASSUME NEW i \in 1 .. Sent + 1 PROVE SrNext[31 - Sent + i] = command[i]
  <2>1. CASE i = Sent + 1
    BY <1>1, <1>2, <2>1
  <2>2. CASE i # Sent + 1
    <3>1. i \in 1 .. Sent /\ 31 - Sent + i \in 1 .. 31
          /\ (31 - Sent + i) + 1 = 32 - Sent + i
      BY <2>2
    <3>2. chip.sr[32 - Sent + i] = command[i]
      BY <3>1 DEF Sends
    <3> QED BY <1>2, <3>1, <3>2
  <2> QED BY <2>1, <2>2
<1> QED BY <1>2, <1>3

LEMMA Wakes ==
  ASSUME reader.sr \in Bits(32), chip.sr \in Bits(32), Sent = 7,
         Sends(ReleaseCommand)
  PROVE  NumberOf(SubSeq(SrNext, 25, 32)) = 171
<1>1. /\ SrNext \in Bits(32)
      /\ \A i \in 1 .. 8 : SrNext[24 + i] = ReleaseCommand[i]
  <2>1. PICK s : s = Sent
    OBVIOUS
  <2>2. /\ SrNext \in Bits(32)
        /\ \A i \in 1 .. Sent + 1 : SrNext[31 - Sent + i] = ReleaseCommand[i]
    BY NextBit
  <2> QED BY <2>2
<1>2. BitsOf(171, 8) \in Bits(8) /\ NumberOf(BitsOf(171, 8)) = 171
  BY ByteOfBits DEF AByte
<1>3. SubSeq(SrNext, 25, 32) = BitsOf(171, 8)
  <2>1. \A i \in 1 .. 8 : SrNext[24 + i] = BitsOf(171, 8)[i]
    BY <1>1, ReleaseCommandIs
  <2> QED BY <1>2, <2>1 DEF Bits
<1> QED BY <1>2, <1>3

LEMMA Reads ==
  ASSUME reader.sr \in Bits(32), chip.sr \in Bits(32), Sent = 31,
         Sends(ReadCommand)
  PROVE  /\ NumberOf(SubSeq(SrNext, 1, 8)) = 3
         /\ NumberOf(SubSeq(SrNext, 9, 32)) = FlashBase
<1>1. /\ SrNext \in Bits(32)
      /\ \A i \in 1 .. 32 : SrNext[i] = ReadCommand[i]
  <2>1. /\ SrNext \in Bits(32)
        /\ \A i \in 1 .. Sent + 1 : SrNext[31 - Sent + i] = ReadCommand[i]
    BY NextBit
  <2> QED BY <2>1
<1>2. BitsOf(3, 8) \in Bits(8) /\ NumberOf(BitsOf(3, 8)) = 3
  BY ByteOfBits DEF AByte
<1>3. /\ BitsOf(FlashBase, 24) \in Bits(24)
      /\ NumberOf(BitsOf(FlashBase, 24)) = FlashBase
  BY SMT, AddressOfBits, FlashAssumption DEF Addresses
<1>4. SubSeq(SrNext, 1, 8) = BitsOf(3, 8)
  <2>1. \A i \in 1 .. 8 : SrNext[i] = BitsOf(3, 8)[i]
    BY <1>1, ReadCommandIs
  <2> QED BY <1>2, <2>1 DEF Bits
<1>5. SubSeq(SrNext, 9, 32) = BitsOf(FlashBase, 24)
  <2>1. \A i \in 1 .. 24 : SrNext[8 + i] = BitsOf(FlashBase, 24)[i]
    BY <1>1, ReadCommandIs
  <2> QED BY <1>3, <2>1 DEF Bits
<1> QED BY <1>2, <1>3, <1>4, <1>5

-------------------------------------------------------------------------------
(***************************************************************************)
(* The chip's step.                                                        *)
(***************************************************************************)
LEMMA ImageIs ==
  /\ FlashBase \in Nat /\ N \in Nat \ {0} /\ N = Len(Image)
  /\ Image \in Seq(AByte) /\ \A k \in 1 .. N : Image[k] \in AByte
<1>1. Image \in Seq(AByte) /\ FlashBase \in Nat
  BY FlashAssumption DEF AByte
<1>2. Len(Image) \in Nat \ {0}
  BY <1>1, FlashAssumption, EmptySeq
<1> QED BY <1>1, <1>2, ElementOfSeq DEF N, ROM_LENGTH

LEMMA FlashByteIs ==
  ASSUME NEW a \in Nat, InFlash(a)
  PROVE  /\ FlashByte(a) \in AByte
         /\ BitsOf(FlashByte(a), 8) \in Bits(8)
         /\ \A b \in 0 .. 7 : BitsOf(FlashByte(a), 8)[b + 1] \in Bit
<1>1. FlashByte(a) \in AByte
  BY ImageIs DEF InFlash, FlashByte
<1>2. PICK bits : bits = BitsOf(FlashByte(a), 8)
  OBVIOUS
<1>3. bits \in Bits(8)
  BY <1>1, <1>2, ByteOfBits
<1>4. \A b \in 0 .. 7 : bits[b + 1] \in Bit
  BY <1>3 DEF Bits
<1> QED BY <1>1, <1>2, <1>3, <1>4

LEMMA SrNextIsBits ==
  ASSUME ReaderType, ChipType
  PROVE  SrNext \in Bits(32)
<1>1. chip.sr \in Bits(32) /\ reader.sr[1] \in Bit
  BY DEF ReaderType, ChipType, Bits
<1> QED BY <1>1, ShiftedIs DEF SrNext

LEMMA ChipMoves ==
  ASSUME ReaderType, ChipType, ChipStep, Address \in Nat
  PROVE  /\ ChipType'
         /\ chip'.state = ChipState
         /\ reader.cs = 1 => chip'.sr = SrNext /\ chip'.edges = (chip.edges + 1) % 256
         /\ reader.cs # 1 => chip'.edges = 0
         /\ ~Reading => chip'.addr = chip.addr /\ chip'.bit = chip.bit
<1> DEFINE sends == Reading /\ InFlash(Address)
<1>1. chip' = [state |-> ChipState,
               sr    |-> IF reader.cs = 1 THEN SrNext ELSE chip.sr,
               edges |-> IF reader.cs = 1 THEN (chip.edges + 1) % 256 ELSE 0,
               addr  |-> IF sends /\ chip.bit = 7 THEN Address + 1 ELSE Address,
               bit   |-> IF sends THEN (chip.bit + 1) % 8 ELSE chip.bit,
               cipo  |-> IF sends THEN BitsOf(FlashByte(Address), 8)[chip.bit + 1]
                                  ELSE 0]
  BY DEF ChipStep
<1>2. ChipState \in ChipStates
  BY DEF ChipState, ChipType, ChipStates
<1>3. sends => BitsOf(FlashByte(Address), 8)[chip.bit + 1] \in Bit
  BY FlashByteIs DEF ChipType
<1>4. chip.sr \in Bits(32) /\ chip.edges \in 0 .. 255 /\ chip.bit \in 0 .. 7
  BY DEF ChipType
<1>5. ~Reading => Address = chip.addr
  BY DEF Reading, Address
<1> HIDE DEF sends
<1>6. ChipType'
  BY <1>1, <1>2, <1>3, <1>4, SrNextIsBits DEF ChipType, Bit
<1> QED BY <1>1, <1>5, <1>6 DEF sends

LEMMA ChipStateIs ==
  /\ chip.state = "IDLE" =>
       ChipState = IF reader.cs = 1 THEN "SELECTED_POWER_DOWN" ELSE "IDLE"
  /\ chip.state = "SELECTED_POWER_DOWN" =>
       ChipState = IF chip.edges = 7 /\ NumberOf(SubSeq(SrNext, 25, 32)) = 171
                   THEN "SELECTED_POWERING_UP_NEEDS_DESELECT" ELSE "SELECTED_POWER_DOWN"
  /\ chip.state = "SELECTED_POWERING_UP_NEEDS_DESELECT" =>
       ChipState = IF reader.cs = 0 THEN "DESELECTED_POWERED_UP"
                   ELSE "SELECTED_POWERING_UP_NEEDS_DESELECT"
  /\ chip.state = "DESELECTED_POWERED_UP" =>
       ChipState = IF reader.cs = 1 THEN "SELECTED_POWERED_UP" ELSE "DESELECTED_POWERED_UP"
  /\ chip.state = "SELECTED_POWERED_UP" /\ ~ReadBegins => ChipState = "SELECTED_POWERED_UP"
  /\ Reading => ChipState = IF reader.cs = 0 THEN "IDLE" ELSE "READING"
<1> DEFINE woken == chip.edges = 7 /\ NumberOf(SubSeq(SrNext, 25, 32)) = 171
<1>1. ChipState =
        CASE chip.state = "IDLE" ->
               IF reader.cs = 1 THEN "SELECTED_POWER_DOWN" ELSE "IDLE"
          [] chip.state = "SELECTED_POWER_DOWN" ->
               IF woken THEN "SELECTED_POWERING_UP_NEEDS_DESELECT" ELSE "SELECTED_POWER_DOWN"
          [] chip.state = "SELECTED_POWERING_UP_NEEDS_DESELECT" ->
               IF reader.cs = 0 THEN "DESELECTED_POWERED_UP"
               ELSE "SELECTED_POWERING_UP_NEEDS_DESELECT"
          [] chip.state = "DESELECTED_POWERED_UP" ->
               IF reader.cs = 1 THEN "SELECTED_POWERED_UP" ELSE "DESELECTED_POWERED_UP"
          [] Reading -> IF reader.cs = 0 THEN "IDLE" ELSE "READING"
          [] OTHER -> chip.state
  BY DEF ChipState
<1>2. /\ Reading => chip.state \in {"SELECTED_POWERED_UP", "READING"}
      /\ chip.state = "SELECTED_POWERED_UP" /\ ~ReadBegins => ~Reading
  BY DEF Reading, ReadBegins
<1> HIDE DEF woken
<1>3. /\ chip.state = "IDLE" =>
           ChipState = IF reader.cs = 1 THEN "SELECTED_POWER_DOWN" ELSE "IDLE"
      /\ chip.state = "SELECTED_POWER_DOWN" =>
           ChipState = IF woken THEN "SELECTED_POWERING_UP_NEEDS_DESELECT"
                       ELSE "SELECTED_POWER_DOWN"
      /\ chip.state = "SELECTED_POWERING_UP_NEEDS_DESELECT" =>
           ChipState = IF reader.cs = 0 THEN "DESELECTED_POWERED_UP"
                       ELSE "SELECTED_POWERING_UP_NEEDS_DESELECT"
      /\ chip.state = "DESELECTED_POWERED_UP" =>
           ChipState = IF reader.cs = 1 THEN "SELECTED_POWERED_UP"
                       ELSE "DESELECTED_POWERED_UP"
  BY <1>1, <1>2
<1>4. chip.state = "SELECTED_POWERED_UP" /\ ~ReadBegins => ChipState = "SELECTED_POWERED_UP"
  BY <1>1, <1>2
<1>5. Reading => ChipState = IF reader.cs = 0 THEN "IDLE" ELSE "READING"
  BY <1>1, <1>2
<1> QED BY <1>3, <1>4, <1>5 DEF woken

\* What the chip sends next while it reads.
LEMMA ChipSends ==
  ASSUME ChipStep, Reading, InFlash(Address), chip.bit \in 0 .. 7
  PROVE  /\ chip'.addr = IF chip.bit = 7 THEN Address + 1 ELSE Address
         /\ chip'.bit = (chip.bit + 1) % 8
         /\ chip'.cipo = BitsOf(FlashByte(Address), 8)[chip.bit + 1]
  BY DEF ChipStep

-------------------------------------------------------------------------------
(***************************************************************************)
(* The reader's steps.                                                     *)
(***************************************************************************)
\* What the user does meanwhile, and what it has asked for.
UserStep ==
  /\ UserType'
  /\ Stb \/ SpifrBusy = 1 => spifr_bus'.len = Length
  /\ part = "reader" /\ Fresh' => IF SpifrBusy = 1 THEN Length = N ELSE Fresh
  /\ Stb /\ SpifrBusy = 0 => Length \in 1 .. N
  /\ Stb \/ SpifrBusy = 1 => spifr_bus.addr = FlashBase

TodoStep ==
  todo' = IF SpifrBusy = 0 /\ spifr_bus.stb = 1 THEN Requested
          ELSE IF SpifrValid' = 1 /\ todo # <<>> THEN Tail(todo)
          ELSE todo

\* What there is before and after a step of the reader.
BeforeReader ==
  /\ part = "reader" /\ part' = part
  /\ ReaderType /\ ChipType /\ UserType /\ StreamInv /\ ReaderInv
  /\ ChipStep /\ UserStep /\ TodoStep

AfterReader == ReaderType' /\ ChipType' /\ StreamInv' /\ ReaderInv'

\* The rest of what is asked for, at first and when a byte has been handed over.
LEMMA RestBegins ==
  ASSUME UserType, Length \in 1 .. N
  PROVE  Rest(Requested, Length) /\ Len(Requested) = Length
<1>1. PICK n : n = Length
  OBVIOUS
<1>2. n \in 1 .. N /\ Requested = [k \in 1 .. n |-> Image[k]]
  BY <1>1, ImageIs DEF Requested, Length
<1>3. Requested \in [1 .. n -> AByte] /\ \A k \in 1 .. n : Requested[k] = Image[k]
  BY <1>2, ImageIs
<1>4. Requested \in Seq(AByte) /\ Len(Requested) = n
  BY <1>2, <1>3, ImageIs, SeqDef, LenProperties
<1> QED BY <1>1, <1>2, <1>3, <1>4 DEF Rest

LEMMA RestGoesOn ==
  ASSUME NEW bytes, NEW n, Rest(bytes, n), bytes # <<>>
  PROVE  /\ Rest(Tail(bytes), n) /\ Len(Tail(bytes)) = Len(bytes) - 1
         /\ n - Len(Tail(bytes)) \in 1 .. N
         /\ Head(bytes) = Image[n - Len(Tail(bytes))]
         /\ Image[n - Len(Tail(bytes))] \in AByte
<1>1. PICK t : t = Tail(bytes)
  OBVIOUS
<1>2. /\ bytes \in Seq(AByte) /\ n \in 1 .. N /\ Len(bytes) \in Nat
      /\ Len(bytes) <= n
      /\ \A k \in 1 .. Len(bytes) : bytes[k] = Image[n - Len(bytes) + k]
  BY LenProperties DEF Rest
<1>3. /\ t \in Seq(AByte) /\ Len(t) = Len(bytes) - 1 /\ Len(bytes) # 0
      /\ \A k \in 1 .. Len(t) : t[k] = bytes[k + 1]
      /\ Head(bytes) = bytes[1]
  BY <1>1, <1>2, HeadTailProperties, EmptySeq
<1>4. N \in Nat
  BY ImageIs
<1>5. ASSUME NEW k \in 1 .. Len(t) PROVE t[k] = Image[n - Len(t) + k]
  <2>1. /\ k + 1 \in 1 .. Len(bytes)
        /\ n - Len(bytes) + (k + 1) = n - Len(t) + k
    BY <1>2, <1>3, <1>4
  <2> QED BY <1>2, <1>3, <2>1
<1>6. Rest(t, n)
  BY <1>2, <1>3, <1>4, <1>5 DEF Rest
<1>7. /\ n - Len(t) \in 1 .. N /\ n - Len(t) = n - Len(bytes) + 1
      /\ 1 \in 1 .. Len(bytes)
  BY <1>2, <1>3, <1>4
<1>8. Head(bytes) = Image[n - Len(t)] /\ Image[n - Len(t)] \in AByte
  BY <1>2, <1>3, <1>7, ImageIs
<1> QED BY <1>1, <1>3, <1>6, <1>7, <1>8

\* The reader with these registers.
TheReader(fsm, cs, sr, snd, rcv_bit, rcv_byte, valid) ==
  [fsm |-> fsm, cs |-> cs, sr |-> sr, snd |-> snd, rcv_bit |-> rcv_bit,
   rcv_byte |-> rcv_byte, valid |-> valid]

LEMMA IdleStep ==
  ASSUME BeforeReader, RdrIdle(spifr_bus)
  PROVE  AfterReader
<1> USE DEF BeforeReader
<1>1. /\ reader.fsm = "IDLE" /\ SpifrBusy = 0 /\ todo = <<>>
      /\ chip.state = "IDLE" /\ reader.cs = 0 /\ reader.valid = 0
  BY DEF RdrIdle, In, SpifrBusy, ReaderInv, Idle, StreamInv
<1>2. ~Reading /\ Address = chip.addr
  BY <1>1 DEF Reading, ReadBegins, Address
<1>3. /\ ChipType' /\ chip'.state = "IDLE" /\ chip'.edges = 0 /\ chip'.bit = chip.bit
  <2>1. ChipState = "IDLE"
    BY <1>1 DEF ChipState
  <2> QED BY <1>1, <1>2, <2>1, ChipMoves DEF ChipType
<1>4. CASE spifr_bus.stb = 1
  <2>1. reader' = TheReader("POWER_DOWN_RELEASE", 1, ReleaseCommand, 31,
                           reader.rcv_bit, reader.rcv_byte, 0)
    BY <1>4 DEF RdrIdle, Become, Lowered, ReleaseCommand, ReaderType, TheReader
  <2>2. ReaderType'
    <3>1. ReleaseCommand \in Bits(32)
      BY ReleaseCommandIs
    <3> QED BY <2>1, <3>1 DEF ReaderType, Bit, TheReader
  <2>3. /\ reader'.fsm = "POWER_DOWN_RELEASE" /\ reader'.cs = 1 /\ reader'.snd = 31
        /\ reader'.sr = ReleaseCommand /\ reader'.valid = 0
    BY <2>1 DEF TheReader
  <2>4. Length' = Length /\ Length \in 1 .. N /\ Fresh
    BY <1>1, <1>4 DEF UserStep, Stb, Length, Fresh
  <2>5. todo' = Requested /\ Rest(todo', Length) /\ Len(todo') = Length
    BY <1>1, <1>4, <2>4, RestBegins DEF TodoStep
  <2>6. StreamInv'
    BY <2>3, <2>4, <2>5 DEF StreamInv, SpifrBusy, SpifrValid, In
  <2>7. Sends(ReleaseCommand)'
    BY <1>3, <2>3 DEF Sends, Sent
  <2>8. Sent' = 0 /\ chip'.bit = 0
    BY <1>1, <1>3, <2>3, <2>4 DEF Sent, ReaderInv, Idle, In
  <2>9. ReaderInv'
    BY <1>3, <2>3, <2>4, <2>5, <2>7, <2>8
       DEF ReaderInv, Idle, Waking, Waiting, Commanding, Receiving, PoweringDown, In
  <2> QED BY <1>3, <2>2, <2>6, <2>9 DEF AfterReader
<1>5. CASE spifr_bus.stb # 1
  <2>1. reader' = [reader EXCEPT !.valid = 0]
    BY <1>5 DEF RdrIdle, Become, Lowered
  <2>2. /\ ReaderType' /\ reader'.fsm = "IDLE" /\ reader'.cs = 0 /\ reader'.valid = 0
    BY <1>1, <2>1 DEF ReaderType, Bit
  <2>3. todo' = <<>> /\ SpifrValid' = 0 /\ SpifrBusy' = 0
    BY <1>1, <1>5, <2>2 DEF TodoStep, SpifrValid, SpifrBusy, In
  <2>4. StreamInv'
    BY <2>3 DEF StreamInv
  <2>5. Fresh' => chip'.bit = 0
    BY <1>1, <1>3 DEF UserStep, ReaderInv, Idle, In
  <2>6. ReaderInv'
    BY <1>3, <2>2, <2>5
       DEF ReaderInv, Idle, Waking, Waiting, Commanding, Receiving, PoweringDown, In
  <2> QED BY <1>3, <2>2, <2>4, <2>6 DEF AfterReader
<1> QED BY <1>4, <1>5

\* While the reader is busy and hands nothing over, what is to come stays.
LEMMA Quiet ==
  ASSUME BeforeReader, reader.fsm # "IDLE", ReaderType', reader'.fsm # "IDLE",
         reader'.valid = 0
  PROVE  /\ StreamInv' /\ todo' = todo /\ Length' = Length
         /\ Rest(todo, Length) /\ Length \in 1 .. N
<1>1. SpifrBusy = 1 /\ SpifrBusy' = 1 /\ SpifrValid' = 0
  BY DEF BeforeReader, SpifrBusy, SpifrValid, In
<1>2. todo' = todo /\ Length' = Length
  BY <1>1 DEF BeforeReader, TodoStep, UserStep, Length
<1>3. Rest(todo, Length) /\ Length \in 1 .. N
  BY <1>1 DEF BeforeReader, StreamInv, Rest
<1> QED BY <1>1, <1>2, <1>3 DEF StreamInv

LEMMA SendsOn ==
  ASSUME ReaderType, ChipType, Sent \in 0 .. 30, NEW command, Sends(command),
         reader'.sr = Shifted(reader.sr, 1), reader'.snd = reader.snd - 1,
         reader'.cs = 1, chip'.sr = SrNext, chip'.edges = (chip.edges + 1) % 256
  PROVE  Sends(command)' /\ Sent' = Sent + 1
<1>1. reader.sr \in Bits(32) /\ chip.sr \in Bits(32) /\ reader.snd \in 1 .. 31
  BY DEF ReaderType, ChipType, Sent
<1>2. Sent' = Sent + 1
  BY <1>1 DEF Sent
<1>3. chip'.edges = Sent'
  BY <1>2 DEF Sends
<1>4. ASSUME NEW i \in 1 .. 32 - Sent' PROVE reader'.sr[i] = command[Sent' + i]
  <2>1. /\ i \in 1 .. 31 /\ i + 1 \in 1 .. 32 - Sent /\ Sent + (i + 1) = Sent' + i
    BY <1>2
  <2>2. Shifted(reader.sr, 1)[i] = reader.sr[i + 1]
    BY <1>1, <2>1, ShiftedIs DEF Bit
  <2> QED BY <2>1, <2>2 DEF Sends
<1>5. ASSUME NEW i \in 1 .. Sent' PROVE chip'.sr[32 - Sent' + i] = command[i]
  <2>1. 32 - Sent' + i = 31 - Sent + i /\ i \in 1 .. Sent + 1
    BY <1>2
  <2>2. \A k \in 1 .. Sent + 1 : SrNext[31 - Sent + k] = command[k]
    BY <1>1, NextBit
  <2> QED BY <2>1, <2>2
<1>6. reader'.snd <= 31
  BY <1>1
<1> QED BY <1>2, <1>3, <1>4, <1>5, <1>6 DEF Sends

LEMMA ReleaseStep ==
  ASSUME BeforeReader, RdrRelease
  PROVE  AfterReader
<1> USE DEF BeforeReader
<1>1. /\ reader.fsm = "POWER_DOWN_RELEASE"
      /\ Sends(ReleaseCommand) /\ chip.bit = 0 /\ reader.valid = 0
      /\ chip.state = IF Sent = 0 THEN "IDLE"
                      ELSE IF Sent < 8 THEN "SELECTED_POWER_DOWN"
                      ELSE "SELECTED_POWERING_UP_NEEDS_DESELECT"
      /\ Len(todo) = Length
  BY DEF RdrRelease, In, ReaderInv, Waking
<1>2. /\ reader.cs = 1 /\ reader.snd \in 0 .. 31 /\ Sent \in 0 .. 31
      /\ chip.edges = Sent /\ reader.sr \in Bits(32) /\ chip.sr \in Bits(32)
  <2>1. /\ reader.cs = 1 /\ reader.snd <= 31 /\ chip.edges = Sent
    BY <1>1 DEF Sends
  <2>2. reader.snd \in Nat /\ reader.sr \in Bits(32) /\ chip.sr \in Bits(32)
    BY DEF ReaderType, ChipType
  <2> QED BY <2>1, <2>2 DEF Sent
<1>3. ~Reading /\ Address = chip.addr
  BY <1>1 DEF Reading, ReadBegins, Address
<1>4. /\ ChipType' /\ chip'.state = ChipState /\ chip'.bit = 0
      /\ chip'.sr = SrNext /\ chip'.edges = (chip.edges + 1) % 256
  BY <1>1, <1>2, <1>3, ChipMoves DEF ChipType
<1>5. ChipState = IF Sent < 7 THEN "SELECTED_POWER_DOWN"
                  ELSE "SELECTED_POWERING_UP_NEEDS_DESELECT"
  <2>1. CASE Sent = 0
    BY <1>1, <1>2, <2>1, ChipStateIs
  <2>2. CASE Sent \in 1 .. 6
    BY <1>1, <1>2, <2>2, ChipStateIs
  <2>3. CASE Sent = 7
    <3>1. NumberOf(SubSeq(SrNext, 25, 32)) = 171
      BY <1>1, <1>2, <2>3, Wakes
    <3> QED BY <1>1, <1>2, <2>3, <3>1, ChipStateIs
  <2>4. CASE Sent > 7
    BY <1>1, <1>2, <2>4, ChipStateIs
  <2> QED BY <1>2, <2>1, <2>2, <2>3, <2>4
<1>6. CASE reader.snd = 0
  <2>1. reader' = TheReader("WAIT_TRES1", 0, Zeroes, Tres1TdpCycles - 1,
                           reader.rcv_bit, reader.rcv_byte, 0)
    BY <1>6 DEF RdrRelease, Become, Lowered, ReaderType, TheReader
  <2>2. ReaderType'
    BY <2>1, ZeroesAreBits, Tres1TdpAssumption DEF ReaderType, Bit, TheReader
  <2>3. /\ reader'.fsm = "WAIT_TRES1" /\ reader'.cs = 0 /\ reader'.valid = 0
        /\ reader'.snd = Tres1TdpCycles - 1
    BY <2>1 DEF TheReader
  <2>4. StreamInv' /\ todo' = todo /\ Length' = Length
    BY <1>1, <2>2, <2>3, Quiet
  <2>5. chip'.state = "SELECTED_POWERING_UP_NEEDS_DESELECT"
    BY <1>2, <1>4, <1>5, <1>6 DEF Sent
  <2>6. ReaderInv'
    BY <1>1, <1>4, <2>3, <2>4, <2>5, Tres1TdpAssumption
       DEF ReaderInv, Idle, Waking, Waiting, Commanding, Receiving, PoweringDown, In
  <2> QED BY <1>4, <2>2, <2>4, <2>6 DEF AfterReader
<1>7. CASE reader.snd # 0
  <2>1. reader' = TheReader("POWER_DOWN_RELEASE", 1, Shifted(reader.sr, 1),
                           reader.snd - 1, reader.rcv_bit, reader.rcv_byte, 0)
    BY <1>1, <1>2, <1>7 DEF RdrRelease, Become, Lowered, ReaderType, TheReader
  <2>2. ReaderType'
    <3>1. Shifted(reader.sr, 1) \in Bits(32)
      BY <1>2, ShiftedIs DEF Bit
    <3> QED BY <1>2, <1>7, <2>1, <3>1 DEF ReaderType, Bit, TheReader
  <2>3. /\ reader'.fsm = "POWER_DOWN_RELEASE" /\ reader'.cs = 1 /\ reader'.valid = 0
        /\ reader'.sr = Shifted(reader.sr, 1) /\ reader'.snd = reader.snd - 1
    BY <2>1 DEF TheReader
  <2>4. StreamInv' /\ todo' = todo /\ Length' = Length
    BY <1>1, <2>2, <2>3, Quiet
  <2>5. Sent \in 0 .. 30
    BY <1>2, <1>7 DEF Sent
  <2>6. Sends(ReleaseCommand)' /\ Sent' = Sent + 1
    BY <1>1, <1>4, <2>3, <2>5, SendsOn
  <2>7. ReaderInv'
    BY <1>1, <1>2, <1>4, <1>5, <2>3, <2>4, <2>6
       DEF ReaderInv, Idle, Waking, Waiting, Commanding, Receiving, PoweringDown, In
  <2> QED BY <1>4, <2>2, <2>4, <2>7 DEF AfterReader
<1> QED BY <1>6, <1>7

LEMMA WaitStep ==
  ASSUME BeforeReader, RdrWaitTres1(spifr_bus)
  PROVE  AfterReader
<1> USE DEF BeforeReader
<1>1. /\ reader.fsm = "WAIT_TRES1"
      /\ reader.cs = 0 /\ chip.bit = 0 /\ reader.valid = 0
      /\ reader.snd < Tres1TdpCycles
      /\ chip.state \in {"SELECTED_POWERING_UP_NEEDS_DESELECT", "DESELECTED_POWERED_UP"}
      /\ Len(todo) = Length
  BY DEF RdrWaitTres1, In, ReaderInv, Waiting
<1>2. ~Reading /\ Address = chip.addr
  BY <1>1 DEF Reading, ReadBegins, Address
<1>3. ChipState = "DESELECTED_POWERED_UP"
  BY <1>1, ChipStateIs
<1>4. /\ ChipType' /\ chip'.state = "DESELECTED_POWERED_UP" /\ chip'.bit = 0
      /\ chip'.edges = 0
  BY <1>1, <1>2, <1>3, ChipMoves DEF ChipType
<1>5. CASE reader.snd # 0
  <2>1. reader' = TheReader("WAIT_TRES1", 0, reader.sr, reader.snd - 1,
                           reader.rcv_bit, reader.rcv_byte, 0)
    BY <1>1, <1>5 DEF RdrWaitTres1, Become, Lowered, ReaderType, TheReader
  <2>2. ReaderType'
    BY <1>5, <2>1 DEF ReaderType, Bit, TheReader
  <2>3. /\ reader'.fsm = "WAIT_TRES1" /\ reader'.cs = 0 /\ reader'.valid = 0
        /\ reader'.snd = reader.snd - 1 /\ reader.snd \in Nat
    BY <2>1 DEF TheReader, ReaderType
  <2>4. StreamInv' /\ todo' = todo /\ Length' = Length
    BY <1>1, <2>2, <2>3, Quiet
  <2>5. reader'.snd < Tres1TdpCycles - 1
    BY <1>1, <2>3, Tres1TdpAssumption
  <2>6. ReaderInv'
    BY <1>1, <1>4, <2>3, <2>4, <2>5, Tres1TdpAssumption
       DEF ReaderInv, Idle, Waking, Waiting, Commanding, Receiving, PoweringDown, In
  <2> QED BY <1>4, <2>2, <2>4, <2>6 DEF AfterReader
<1>6. CASE reader.snd = 0
  <2>1. SpifrBusy = 1 /\ spifr_bus.addr = FlashBase
    BY <1>1 DEF SpifrBusy, In, UserStep
  <2>2. reader' = TheReader("SEND_CMD", 1, ReadCommand, 31, 7, Length - 1, 0)
    BY <1>6, <2>1
       DEF RdrWaitTres1, Become, Lowered, ReaderType, TheReader, ReadCommand, Length
  <2>3. Length \in 1 .. N /\ N \in Nat
    BY <2>1, ImageIs DEF StreamInv, Rest
  <2>4. ReaderType'
    <3>1. ReadCommand \in Bits(32)
      BY ReadCommandIs
    <3> QED BY <2>2, <2>3, <3>1 DEF ReaderType, Bit, TheReader
  <2>5. /\ reader'.fsm = "SEND_CMD" /\ reader'.cs = 1 /\ reader'.valid = 0
        /\ reader'.snd = 31 /\ reader'.sr = ReadCommand
        /\ reader'.rcv_bit = 7 /\ reader'.rcv_byte = Length - 1
    BY <2>2 DEF TheReader
  <2>6. StreamInv' /\ todo' = todo /\ Length' = Length
    BY <1>1, <2>4, <2>5, Quiet
  <2>7. Sends(ReadCommand)' /\ Sent' = 0
    BY <1>4, <2>5 DEF Sends, Sent
  <2>8. ReaderInv'
    BY <1>1, <1>4, <2>5, <2>6, <2>7
       DEF ReaderInv, Idle, Waking, Waiting, Commanding, Receiving, PoweringDown, In
  <2> QED BY <1>4, <2>4, <2>6, <2>8 DEF AfterReader
<1> QED BY <1>5, <1>6

LEMMA CommandStep ==
  ASSUME BeforeReader, RdrSendCmd
  PROVE  AfterReader
<1> USE DEF BeforeReader
<1>1. /\ reader.fsm = "SEND_CMD"
      /\ Sends(ReadCommand) /\ chip.bit = 0 /\ reader.valid = 0
      /\ chip.state = IF Sent = 0 THEN "DESELECTED_POWERED_UP"
                                  ELSE "SELECTED_POWERED_UP"
      /\ reader.rcv_bit = 7 /\ reader.rcv_byte = Length - 1
      /\ Len(todo) = Length
  BY DEF RdrSendCmd, In, ReaderInv, Commanding
<1>2. /\ reader.cs = 1 /\ reader.snd \in 0 .. 31 /\ Sent \in 0 .. 31
      /\ chip.edges = Sent /\ reader.sr \in Bits(32) /\ chip.sr \in Bits(32)
  <2>1. /\ reader.cs = 1 /\ reader.snd <= 31 /\ chip.edges = Sent
    BY <1>1 DEF Sends
  <2>2. reader.snd \in Nat /\ reader.sr \in Bits(32) /\ chip.sr \in Bits(32)
    BY DEF ReaderType, ChipType
  <2> QED BY <2>1, <2>2 DEF Sent
<1>3. Shifted(reader.sr, 1) \in Bits(32)
  BY <1>2, ShiftedIs DEF Bit
<1>4. CASE reader.snd # 0
  <2>1. Sent \in 0 .. 30
    BY <1>2, <1>4 DEF Sent
  <2>2. ~Reading /\ Address = chip.addr /\ ~ReadBegins
    BY <1>1, <1>2, <2>1 DEF Reading, ReadBegins, Address
  <2>3. ChipState = "SELECTED_POWERED_UP"
    BY <1>1, <1>2, <2>2, ChipStateIs
  <2>4. /\ ChipType' /\ chip'.state = "SELECTED_POWERED_UP" /\ chip'.bit = 0
        /\ chip'.sr = SrNext /\ chip'.edges = (chip.edges + 1) % 256
    BY <1>1, <1>2, <2>2, <2>3, ChipMoves DEF ChipType
  <2>5. reader' = TheReader("SEND_CMD", 1, Shifted(reader.sr, 1), reader.snd - 1,
                           reader.rcv_bit, reader.rcv_byte, 0)
    BY <1>1, <1>2, <1>4 DEF RdrSendCmd, Become, Lowered, ReaderType, TheReader
  <2>6. ReaderType'
    BY <1>2, <1>3, <1>4, <2>5 DEF ReaderType, Bit, TheReader
  <2>7. /\ reader'.fsm = "SEND_CMD" /\ reader'.cs = 1 /\ reader'.valid = 0
        /\ reader'.sr = Shifted(reader.sr, 1) /\ reader'.snd = reader.snd - 1
        /\ reader'.rcv_bit = reader.rcv_bit /\ reader'.rcv_byte = reader.rcv_byte
    BY <2>5 DEF TheReader
  <2>8. StreamInv' /\ todo' = todo /\ Length' = Length
    BY <1>1, <2>6, <2>7, Quiet
  <2>9. Sends(ReadCommand)' /\ Sent' = Sent + 1
    BY <1>1, <2>1, <2>4, <2>7, SendsOn
  <2>10. ReaderInv'
    BY <1>1, <1>2, <2>4, <2>7, <2>8, <2>9
       DEF ReaderInv, Idle, Waking, Waiting, Commanding, Receiving, PoweringDown, In
  <2> QED BY <2>4, <2>6, <2>8, <2>10 DEF AfterReader
<1>5. CASE reader.snd = 0
  <2>1. Sent = 31
    BY <1>5 DEF Sent
  <2>2. ReadBegins /\ Reading /\ Address = FlashBase
    <3>1. /\ NumberOf(SubSeq(SrNext, 1, 8)) = 3
          /\ NumberOf(SubSeq(SrNext, 9, 32)) = FlashBase
      BY <1>1, <1>2, <2>1, Reads
    <3>2. chip.state = "SELECTED_POWERED_UP" /\ chip.edges = 31
      BY <1>1, <1>2, <2>1
    <3> QED BY <3>1, <3>2 DEF ReadBegins, Reading, Address
  <2>3. /\ InFlash(FlashBase) /\ FlashByte(FlashBase) = Image[1]
        /\ FlashBase \in Nat /\ N \in Nat
    <3>1. FlashBase - FlashBase + 1 = 1
      BY ImageIs
    <3> QED BY <3>1, ImageIs DEF InFlash, FlashByte
  <2>4. ChipType' /\ chip'.state = "READING"
    <3>1. ChipState = "READING"
      BY <1>2, <2>2, ChipStateIs
    <3> QED BY <2>2, <2>3, <3>1, ChipMoves
  <2>5. /\ chip'.bit = 1 /\ chip'.addr = FlashBase
        /\ chip'.cipo = BitsOf(Image[1], 8)[1]
    <3>1. chip.bit = 0
      BY <1>1
    <3> QED BY <2>2, <2>3, <3>1, ChipSends
  <2>6. reader' = TheReader("RECEIVING", 1, Shifted(reader.sr, 1), reader.snd,
                           7, Length - 1, 0)
    BY <1>1, <1>2, <1>5 DEF RdrSendCmd, Become, Lowered, ReaderType, TheReader
  <2>7. ReaderType'
    <3>1. Length - 1 \in Nat
      BY <1>1 DEF ReaderType
    <3> QED BY <1>2, <1>3, <2>6, <3>1 DEF ReaderType, Bit, TheReader
  <2>8. /\ reader'.fsm = "RECEIVING" /\ reader'.cs = 1 /\ reader'.valid = 0
        /\ reader'.rcv_bit = 7 /\ reader'.rcv_byte = Length - 1
    BY <2>6 DEF TheReader
  <2>9. /\ StreamInv' /\ todo' = todo /\ Length' = Length /\ Length \in 1 .. N
    BY <1>1, <2>7, <2>8, Quiet
  <2>10. Current' = Image[1] /\ Taken' = 0
    <3>1. Length - (Length - 1) = 1
      BY <2>3, <2>9
    <3> QED BY <2>8, <2>9, <3>1 DEF Current, Taken
  <2>11. Receiving'
    <3>1. FlashBase + Length - Len(todo) + 0 = FlashBase
      BY <1>1, <2>3, <2>9
    <3>2. Length - 1 < Length /\ Len(todo) = (Length - 1) + 1
      BY <1>1, <2>3, <2>9
    <3> QED BY <2>4, <2>5, <2>8, <2>9, <2>10, <3>1, <3>2 DEF Receiving
  <2>12. ReaderInv'
    BY <2>8, <2>11
       DEF ReaderInv, Idle, Waking, Waiting, Commanding, PoweringDown, In
  <2> QED BY <2>4, <2>7, <2>9, <2>12 DEF AfterReader
<1> QED BY <1>4, <1>5

LEMMA PowerDownStep ==
  ASSUME BeforeReader, RdrPowerDown
  PROVE  AfterReader
<1> USE DEF BeforeReader
<1>1. /\ reader.fsm = "POWER_DOWN"
      /\ reader.cs = 0 /\ todo = <<>> /\ reader.snd < Tres1TdpCycles
      /\ Length = N => chip.bit = 0
      /\ \/ /\ reader.snd = Tres1TdpCycles - 1
            /\ chip.state = "READING" /\ (Length = N => chip.addr = FlashBase + N)
         \/ /\ reader.snd # Tres1TdpCycles - 1 /\ chip.state = "IDLE"
  BY DEF RdrPowerDown, In, ReaderInv, PoweringDown
<1>2. Address = chip.addr /\ ~ReadBegins
  BY <1>1 DEF ReadBegins, Address
<1>3. ChipType' /\ chip'.state = "IDLE" /\ chip'.edges = 0
  <2>1. ChipState = "IDLE"
    BY <1>1, ChipStateIs DEF Reading
  <2> QED BY <1>1, <1>2, <2>1, ChipMoves DEF ChipType
<1>4. Length = N => chip'.bit = 0
  <2>1. CASE chip.state = "IDLE"
    <3>1. ~Reading
      BY <1>2, <2>1 DEF Reading
    <3> QED BY <1>1, <1>2, <3>1, ChipMoves DEF ChipType
  <2>2. CASE chip.state = "READING" /\ Length = N
    <3>1. ~InFlash(Address)
      BY <1>1, <1>2, <2>2, ImageIs DEF InFlash
    <3> QED BY <1>1, <2>2, <3>1 DEF ChipStep
  <2> QED BY <1>1, <2>1, <2>2
<1>5. CASE reader.snd # 0
  <2>1. reader' = TheReader("POWER_DOWN", 0, reader.sr, reader.snd - 1,
                           reader.rcv_bit, reader.rcv_byte, 0)
    BY <1>1, <1>5 DEF RdrPowerDown, Become, Lowered, ReaderType, TheReader
  <2>2. ReaderType'
    BY <1>5, <2>1 DEF ReaderType, Bit, TheReader
  <2>3. /\ reader'.fsm = "POWER_DOWN" /\ reader'.cs = 0 /\ reader'.valid = 0
        /\ reader'.snd = reader.snd - 1 /\ reader.snd \in Nat
    BY <2>1 DEF TheReader, ReaderType
  <2>4. StreamInv' /\ todo' = todo /\ Length' = Length
    BY <1>1, <2>2, <2>3, Quiet
  <2>5. reader'.snd < Tres1TdpCycles - 1
    BY <1>1, <2>3, Tres1TdpAssumption
  <2>6. ReaderInv'
    BY <1>1, <1>3, <1>4, <2>3, <2>4, <2>5, Tres1TdpAssumption
       DEF ReaderInv, Idle, Waking, Waiting, Commanding, Receiving, PoweringDown, In
  <2> QED BY <1>3, <2>2, <2>4, <2>6 DEF AfterReader
<1>6. CASE reader.snd = 0
  <2>1. reader' = TheReader("IDLE", 0, Zeroes, reader.snd, reader.rcv_bit,
                           reader.rcv_byte, 0)
    BY <1>1, <1>6 DEF RdrPowerDown, Become, Lowered, ReaderType, TheReader
  <2>2. ReaderType'
    BY <2>1, ZeroesAreBits DEF ReaderType, Bit, TheReader
  <2>3. /\ reader'.fsm = "IDLE" /\ reader'.cs = 0 /\ reader'.valid = 0
    BY <2>1 DEF TheReader
  <2>4. SpifrBusy = 1 /\ SpifrBusy' = 0 /\ SpifrValid' = 0
    BY <1>1, <2>3 DEF SpifrBusy, SpifrValid, In
  <2>5. todo' = <<>>
    BY <1>1, <2>4 DEF TodoStep
  <2>6. StreamInv'
    BY <2>4, <2>5 DEF StreamInv
  <2>7. Fresh' => chip'.bit = 0
    BY <1>4, <2>4 DEF UserStep
  <2>8. ReaderInv'
    BY <1>3, <2>3, <2>7
       DEF ReaderInv, Idle, Waking, Waiting, Commanding, Receiving, PoweringDown, In
  <2> QED BY <1>3, <2>2, <2>6, <2>8 DEF AfterReader
<1> QED BY <1>5, <1>6

\* In RECEIVING: what is known before the step.
LEMMA InReceiving ==
  ASSUME BeforeReader, reader.fsm = "RECEIVING"
  PROVE  /\ reader.cs = 1 /\ chip.state = "READING" /\ Reading /\ ~ReadBegins
         /\ Address = chip.addr /\ ChipType' /\ chip'.state = "READING"
         /\ Rest(todo, Length) /\ Length \in 1 .. N /\ N \in Nat /\ FlashBase \in Nat
         /\ Length' = Length /\ SpifrBusy = 1
         /\ reader.rcv_byte \in Nat /\ reader.rcv_byte < Length
         /\ Len(todo) = reader.rcv_byte + 1
         /\ Taken \in 0 .. 7 /\ reader.rcv_bit = 7 - Taken
         /\ chip.cipo \in Bit /\ chip.cipo = BitsOf(Current, 8)[Taken + 1]
         /\ \A j \in 1 .. Taken : reader.sr[32 - Taken + j] = BitsOf(Current, 8)[j]
         /\ chip.bit = (Taken + 1) % 8
         /\ chip.addr = FlashBase + Length - Len(todo) + (IF Taken = 7 THEN 1 ELSE 0)
         /\ reader.valid = 1 => Taken = 0
<1> USE DEF BeforeReader
<1>1. Receiving
  BY DEF ReaderInv
<1>2. /\ reader.cs = 1 /\ chip.state = "READING"
      /\ reader.rcv_byte < Length /\ Len(todo) = reader.rcv_byte + 1
      /\ chip.cipo = BitsOf(Current, 8)[Taken + 1]
      /\ \A j \in 1 .. Taken : reader.sr[32 - Taken + j] = BitsOf(Current, 8)[j]
      /\ chip.bit = (Taken + 1) % 8
      /\ chip.addr = FlashBase + Length - Len(todo) + (IF Taken = 7 THEN 1 ELSE 0)
      /\ reader.valid = 1 => Taken = 0
  BY <1>1 DEF Receiving, In
<1>3. Reading /\ ~ReadBegins /\ Address = chip.addr
  BY <1>2 DEF Reading, ReadBegins, Address
<1>4. ChipType' /\ chip'.state = "READING"
  <2>1. ChipState = "READING"
    BY <1>2, <1>3, ChipStateIs
  <2> QED BY <1>3, <2>1, ChipMoves DEF ChipType
<1>5. SpifrBusy = 1
  BY DEF SpifrBusy, In
<1>6. Rest(todo, Length) /\ Length \in 1 .. N /\ Length' = Length
  BY <1>5 DEF StreamInv, Rest, UserStep, Length
<1>7. /\ reader.rcv_byte \in Nat /\ Taken \in 0 .. 7 /\ reader.rcv_bit = 7 - Taken
      /\ chip.cipo \in Bit
  BY DEF ReaderType, ChipType, Taken
<1> QED BY <1>2, <1>3, <1>4, <1>5, <1>6, <1>7, ImageIs

LEMMA ReceivedBit ==
  ASSUME BeforeReader, chip.cipo \in Bit, NEW sr, sr = Shifted(reader.sr, chip.cipo)
  PROVE  /\ sr \in Bits(32) /\ sr[32] = chip.cipo
         /\ \A i \in 1 .. 31 : sr[i] = reader.sr[i + 1]
<1>1. reader.sr \in Bits(32)
  BY DEF ReaderType, BeforeReader
<1>2. /\ Shifted(reader.sr, chip.cipo) \in Bits(32)
      /\ Shifted(reader.sr, chip.cipo)[32] = chip.cipo
      /\ \A i \in 1 .. 31 : Shifted(reader.sr, chip.cipo)[i] = reader.sr[i + 1]
  BY <1>1, ShiftedIs
<1> QED BY <1>2

\* A bit within a byte.
LEMMA ReceiveBit ==
  ASSUME BeforeReader, RdrReceiving, reader.rcv_bit # 0
  PROVE  AfterReader
<1> USE DEF BeforeReader
<1>1. reader.fsm = "RECEIVING"
  BY DEF RdrReceiving, In
<1>2. /\ reader.cs = 1 /\ Reading /\ Address = chip.addr
      /\ ChipType' /\ chip'.state = "READING"
      /\ Length \in 1 .. N /\ N \in Nat /\ FlashBase \in Nat /\ Length' = Length
      /\ reader.rcv_byte \in Nat /\ reader.rcv_byte < Length
      /\ Len(todo) = reader.rcv_byte + 1
      /\ chip.cipo \in Bit
  BY <1>1, InReceiving
<1>3. /\ Taken \in 0 .. 6 /\ reader.rcv_bit = 7 - Taken /\ chip.bit = Taken + 1
      /\ chip.addr = FlashBase + Length - Len(todo)
  <2>1. /\ Taken \in 0 .. 7 /\ reader.rcv_bit = 7 - Taken
        /\ chip.bit = (Taken + 1) % 8
        /\ chip.addr = FlashBase + Length - Len(todo) + (IF Taken = 7 THEN 1 ELSE 0)
    BY <1>1, InReceiving
  <2>2. Taken \in 0 .. 6
    BY <2>1
  <2>3. chip.bit = Taken + 1
    BY <2>1, <2>2
  <2>4. FlashBase + Length - Len(todo) \in Int
    BY <1>2
  <2>5. chip.addr = FlashBase + Length - Len(todo)
    BY <2>1, <2>2, <2>4
  <2> QED BY <2>1, <2>2, <2>3, <2>5
<1>4. PICK sr : sr = Shifted(reader.sr, chip.cipo)
  OBVIOUS
<1>5. /\ sr \in Bits(32) /\ sr[32] = chip.cipo
      /\ \A i \in 1 .. 31 : sr[i] = reader.sr[i + 1]
  BY <1>2, <1>4, ReceivedBit
<1>6. reader' = TheReader("RECEIVING", 1, sr, reader.snd, reader.rcv_bit - 1,
                         reader.rcv_byte, 0)
  BY <1>1, <1>2, <1>4 DEF RdrReceiving, Become, Lowered, ReaderType, TheReader
<1>7. ReaderType'
  BY <1>1, <1>2, <1>3, <1>5, <1>6 DEF ReaderType, Bit, TheReader
<1>8. /\ reader'.fsm = "RECEIVING" /\ reader'.cs = 1 /\ reader'.valid = 0
      /\ reader'.sr = sr /\ reader'.rcv_bit = reader.rcv_bit - 1
      /\ reader'.rcv_byte = reader.rcv_byte
  BY <1>6 DEF TheReader
<1>9. StreamInv' /\ todo' = todo
  BY <1>1, <1>7, <1>8, Quiet
<1>10. Taken' = Taken + 1 /\ Current' = Current
  <2>1. PICK r : r = reader.rcv_bit /\ r \in 1 .. 7 /\ reader'.rcv_bit = r - 1
    <3>1. reader.rcv_bit \in 1 .. 7
      BY <1>3
    <3> QED BY <1>8, <3>1
  <2>2. Taken' = 7 - (r - 1) /\ Taken = 7 - r
    BY <2>1 DEF Taken
  <2>3. Taken' = Taken + 1
    BY <2>1, <2>2
  <2>4. Current' = Current
    BY <1>2, <1>8 DEF Current
  <2> QED BY <2>3, <2>4
<1>11. InFlash(Address) /\ FlashByte(Address) = Current
  <2>1. PICK k : k = Length - reader.rcv_byte
    OBVIOUS
  <2>2. k \in 1 .. N /\ chip.addr = FlashBase + k - 1 /\ chip.addr - FlashBase + 1 = k
    <3>1. chip.addr = FlashBase + Length - (reader.rcv_byte + 1)
      BY <1>2, <1>3
    <3>2. k \in 1 .. N
      <4>1. /\ Length \in 1 .. N /\ N \in Nat /\ reader.rcv_byte \in Nat
            /\ reader.rcv_byte < Length
        BY <1>2
      <4> QED BY <2>1, <4>1
    <3> QED BY <1>2, <2>1, <3>1, <3>2
  <2>3. InFlash(Address)
    BY <1>2, <2>2, ImageIs DEF InFlash
  <2>4. FlashByte(Address) = Image[k] /\ Current = Image[k]
    BY <1>2, <2>1, <2>2 DEF FlashByte, Current
  <2> QED BY <2>3, <2>4
<1>12. /\ chip'.cipo = BitsOf(Current, 8)[Taken' + 1]
       /\ chip'.bit = (Taken' + 1) % 8
       /\ chip'.addr = FlashBase + Length - Len(todo) + (IF Taken' = 7 THEN 1 ELSE 0)
  <2>1. /\ chip'.addr = IF chip.bit = 7 THEN chip.addr + 1 ELSE chip.addr
        /\ chip'.bit = (chip.bit + 1) % 8
        /\ chip'.cipo = BitsOf(Current, 8)[chip.bit + 1]
    <3>1. chip.bit \in 0 .. 7
      BY <1>3
    <3> QED BY <1>2, <1>11, <3>1, ChipSends
  <2> QED BY <1>2, <1>3, <1>10, <2>1
<1>13. ASSUME NEW j \in 1 .. Taken'
       PROVE  sr[32 - Taken' + j] = BitsOf(Current, 8)[j]
  <2>1. CASE j = Taken'
    <3>1. 32 - Taken' + j = 32 /\ j = Taken + 1
      BY <1>3, <1>10, <2>1
    <3>2. chip.cipo = BitsOf(Current, 8)[Taken + 1]
      BY <1>1, InReceiving
    <3> QED BY <1>5, <3>1, <3>2
  <2>2. CASE j # Taken'
    <3>1. /\ j \in 1 .. Taken /\ 32 - Taken' + j \in 1 .. 31
          /\ (32 - Taken' + j) + 1 = 32 - Taken + j
      BY <1>3, <1>10, <2>2
    <3>2. reader.sr[32 - Taken + j] = BitsOf(Current, 8)[j]
      BY <1>1, <3>1, InReceiving
    <3>3. sr[32 - Taken' + j] = reader.sr[(32 - Taken' + j) + 1]
      BY <1>5, <3>1
    <3> QED BY <3>1, <3>2, <3>3
  <2> QED BY <2>1, <2>2
<1>14. Receiving'
  <2>1. /\ reader'.rcv_byte < Length' /\ Len(todo') = reader'.rcv_byte + 1
        /\ chip'.addr = FlashBase + Length' - Len(todo') + (IF Taken' = 7 THEN 1 ELSE 0)
    BY <1>2, <1>8, <1>9, <1>12
  <2>2. /\ chip'.cipo = BitsOf(Current', 8)[Taken' + 1]
        /\ \A j \in 1 .. Taken' : reader'.sr[32 - Taken' + j] = BitsOf(Current', 8)[j]
    BY <1>8, <1>10, <1>12, <1>13
  <2> QED BY <1>2, <1>8, <1>12, <2>1, <2>2 DEF Receiving
<1>15. ReaderInv'
  BY <1>8, <1>14 DEF ReaderInv, Idle, Waking, Waiting, Commanding, PoweringDown, In
<1> QED BY <1>2, <1>7, <1>9, <1>15 DEF AfterReader

\* The last bit of a byte: it is handed over.
LEMMA ByteHanded ==
  ASSUME BeforeReader, reader.fsm = "RECEIVING", reader.rcv_bit = 0,
         ReaderType', reader'.fsm # "IDLE", reader'.valid = 1,
         reader'.sr = Shifted(reader.sr, chip.cipo)
  PROVE  /\ StreamInv' /\ todo' = Tail(todo) /\ Len(todo') = Len(todo) - 1
         /\ Rest(todo', Length)
<1> USE DEF BeforeReader
<1>1. /\ SpifrBusy = 1 /\ SpifrBusy' = 1 /\ SpifrValid' = 1
  BY DEF SpifrBusy, SpifrValid, In
<1>2. /\ Rest(todo, Length) /\ Length \in 1 .. N /\ N \in Nat /\ Length' = Length
      /\ reader.rcv_byte \in Nat /\ reader.rcv_byte < Length
      /\ Len(todo) = reader.rcv_byte + 1 /\ Taken = 7
      /\ chip.cipo \in Bit /\ chip.cipo = BitsOf(Current, 8)[8]
      /\ \A j \in 1 .. 7 : reader.sr[25 + j] = BitsOf(Current, 8)[j]
  BY InReceiving DEF Taken
<1>3. todo # <<>>
  BY <1>2, EmptySeq
<1>4. todo' = Tail(todo)
  BY <1>1, <1>3 DEF TodoStep
<1>5. /\ Rest(todo', Length) /\ Len(todo') = Len(todo) - 1
      /\ Length - Len(todo') \in 1 .. N
      /\ Image[Length - Len(todo')] \in AByte
  BY <1>2, <1>3, <1>4, RestGoesOn
<1>6. Current = Image[Length - Len(todo')]
  <2>1. PICK l, r, n, m : /\ l = Length /\ r = reader.rcv_byte /\ n = Len(todo)
                          /\ m = Len(todo')
    OBVIOUS
  <2>2. l \in Nat /\ r \in Nat /\ n = r + 1 /\ m = n - 1
    BY <1>2, <1>5, <2>1
  <2>3. l - r = l - m
    BY <2>2
  <2> QED BY <2>1, <2>3 DEF Current
<1>7. PICK b : b = BitsOf(Current, 8)
  OBVIOUS
<1>8. b \in Bits(8) /\ NumberOf(b) = Current
  BY <1>5, <1>6, <1>7, ByteOfBits
<1>9. PICK sr : sr = Shifted(reader.sr, chip.cipo) /\ sr = reader'.sr
  BY Zenon
<1>10. /\ sr \in Bits(32) /\ sr[32] = chip.cipo
       /\ \A i \in 1 .. 31 : sr[i] = reader.sr[i + 1]
  BY <1>2, <1>9, ReceivedBit
<1>11. ASSUME NEW j \in 1 .. 8 PROVE sr[24 + j] = b[j]
  <2>1. CASE j = 8
    BY <1>2, <1>7, <1>10, <2>1
  <2>2. CASE j \in 1 .. 7
    <3>1. 24 + j \in 1 .. 31 /\ (24 + j) + 1 = 25 + j
      BY <2>2
    <3>2. sr[24 + j] = reader.sr[(24 + j) + 1]
      BY <1>10, <3>1
    <3>3. reader.sr[25 + j] = b[j]
      BY <1>2, <1>7, <2>2
    <3> QED BY <3>1, <3>2, <3>3
  <2> QED BY <2>1, <2>2
<1>12. SubSeq(sr, 25, 32) = b
  BY <1>8, <1>11 DEF Bits
<1>13. SpifrData' = Image[Length - Len(todo')]
  <2>1. SpifrData' = NumberOf(SubSeq(reader'.sr, 25, 32))
    BY DEF SpifrData
  <2> QED BY <1>6, <1>8, <1>9, <1>12, <2>1
<1>14. StreamInv'
  <2>1. PICK h : h = Length - Len(todo')
    OBVIOUS
  <2>2. h \in 1 .. N
    BY <1>5, <2>1
  <2>3. h > 0
    BY <1>2, <2>2
  <2>4. SpifrData' = Image[h] /\ Handed' = h
    BY <1>2, <1>13, <2>1, Zenon DEF Handed
  <2> QED BY <1>1, <1>2, <1>5, <2>3, <2>4 DEF StreamInv
<1> QED BY <1>4, <1>5, <1>14

\* The last bit of a byte with others to follow: the chip is at the next one.
LEMMA ReceiveByte ==
  ASSUME BeforeReader, RdrReceiving, reader.rcv_bit = 0, reader.rcv_byte # 0
  PROVE  AfterReader
<1> USE DEF BeforeReader
<1>1. reader.fsm = "RECEIVING"
  BY DEF RdrReceiving, In
<1>2. /\ reader.cs = 1 /\ Reading /\ Address = chip.addr
      /\ ChipType' /\ chip'.state = "READING"
      /\ Length \in 1 .. N /\ N \in Nat /\ FlashBase \in Nat /\ Length' = Length
      /\ reader.rcv_byte \in Nat \ {0} /\ reader.rcv_byte < Length
      /\ Len(todo) = reader.rcv_byte + 1
      /\ chip.cipo \in Bit
  BY <1>1, InReceiving
<1>3. chip.bit = 0 /\ chip.addr = FlashBase + Length - reader.rcv_byte
  <2>1. /\ Taken = 7 /\ chip.bit = (Taken + 1) % 8
        /\ chip.addr = FlashBase + Length - Len(todo) + (IF Taken = 7 THEN 1 ELSE 0)
    BY <1>1, InReceiving DEF Taken
  <2>2. FlashBase + Length - Len(todo) + 1 = FlashBase + Length - reader.rcv_byte
    BY <1>2
  <2> QED BY <2>1, <2>2
<1>4. PICK sr : sr = Shifted(reader.sr, chip.cipo)
  OBVIOUS
<1>5. sr \in Bits(32)
  BY <1>2, <1>4, ReceivedBit
<1>6. reader' = TheReader("RECEIVING", 1, sr, reader.snd, 7, reader.rcv_byte - 1, 1)
  BY <1>1, <1>2, <1>4 DEF RdrReceiving, Become, Lowered, ReaderType, TheReader
<1>7. ReaderType'
  BY <1>1, <1>2, <1>5, <1>6 DEF ReaderType, Bit, TheReader
<1>8. /\ reader'.fsm = "RECEIVING" /\ reader'.cs = 1 /\ reader'.valid = 1
      /\ reader'.sr = sr /\ reader'.rcv_bit = 7
      /\ reader'.rcv_byte = reader.rcv_byte - 1
  BY <1>6 DEF TheReader
<1>9. StreamInv' /\ Len(todo') = Len(todo) - 1
  BY <1>1, <1>4, <1>7, <1>8, ByteHanded
<1>10. PICK k : k = Length - (reader.rcv_byte - 1)
  OBVIOUS
<1>11. k \in 1 .. N /\ chip.addr = FlashBase + k - 1 /\ chip.addr - FlashBase + 1 = k
  <2>1. /\ Length \in 1 .. N /\ N \in Nat /\ reader.rcv_byte \in Nat \ {0}
        /\ reader.rcv_byte < Length /\ FlashBase \in Nat
    BY <1>2
  <2> QED BY <1>3, <1>10, <2>1
<1>12. InFlash(Address) /\ FlashByte(Address) = Image[k]
  BY <1>2, <1>11, ImageIs DEF InFlash, FlashByte
<1>13. Taken' = 0 /\ Current' = Image[k]
  BY <1>2, <1>8, <1>10 DEF Taken, Current
<1>14. /\ chip'.addr = chip.addr /\ chip'.bit = 1
       /\ chip'.cipo = BitsOf(Image[k], 8)[1]
  BY <1>2, <1>3, <1>12, ChipSends
<1>15. Receiving'
  <2>1. reader'.rcv_byte < Length' /\ Len(todo') = reader'.rcv_byte + 1
    <3>1. Length \in Int
      BY <1>2
    <3> QED BY <1>2, <1>8, <1>9, <3>1
  <2>2. chip'.addr = FlashBase + Length' - Len(todo') + 0
    <3>1. Len(todo') = reader.rcv_byte /\ Length \in Int
      BY <1>2, <1>9
    <3> QED BY <1>2, <1>3, <1>14, <3>1
  <2> QED BY <1>2, <1>8, <1>13, <1>14, <2>1, <2>2 DEF Receiving
<1>16. ReaderInv'
  BY <1>8, <1>15 DEF ReaderInv, Idle, Waking, Waiting, Commanding, PoweringDown, In
<1> QED BY <1>2, <1>7, <1>9, <1>16 DEF AfterReader

\* The last bit of the last byte.
LEMMA ReceiveLast ==
  ASSUME BeforeReader, RdrReceiving, reader.rcv_bit = 0, reader.rcv_byte = 0
  PROVE  AfterReader
<1> USE DEF BeforeReader
<1>1. reader.fsm = "RECEIVING"
  BY DEF RdrReceiving, In
<1>2. /\ reader.cs = 1 /\ Reading /\ Address = chip.addr
      /\ ChipType' /\ chip'.state = "READING"
      /\ Length \in 1 .. N /\ N \in Nat /\ FlashBase \in Nat /\ Length' = Length
      /\ Len(todo) = 1 /\ chip.cipo \in Bit
  BY <1>1, InReceiving
<1>3. chip.bit = 0 /\ chip.addr = FlashBase + Length
  <2>1. /\ Taken = 7 /\ chip.bit = (Taken + 1) % 8
        /\ chip.addr = FlashBase + Length - Len(todo) + (IF Taken = 7 THEN 1 ELSE 0)
    BY <1>1, InReceiving DEF Taken
  <2>2. FlashBase + Length - Len(todo) + 1 = FlashBase + Length
    BY <1>2
  <2> QED BY <2>1, <2>2
<1>4. PICK sr : sr = Shifted(reader.sr, chip.cipo)
  OBVIOUS
<1>5. sr \in Bits(32)
  BY <1>2, <1>4, ReceivedBit
<1>6. reader' = TheReader("POWER_DOWN", 0, sr, Tres1TdpCycles - 1, 0, 0, 1)
  BY <1>1, <1>4 DEF RdrReceiving, Become, Lowered, ReaderType, TheReader
<1>7. ReaderType'
  BY <1>5, <1>6, Tres1TdpAssumption DEF ReaderType, Bit, TheReader
<1>8. /\ reader'.fsm = "POWER_DOWN" /\ reader'.cs = 0 /\ reader'.valid = 1
      /\ reader'.sr = sr /\ reader'.snd = Tres1TdpCycles - 1
  BY <1>6 DEF TheReader
<1>9. StreamInv' /\ Len(todo') = Len(todo) - 1 /\ Rest(todo', Length)
  BY <1>1, <1>4, <1>7, <1>8, ByteHanded
<1>10. todo' = <<>>
  BY <1>2, <1>9, EmptySeq DEF Rest
<1>11. Length = N => chip'.bit = 0 /\ chip'.addr = FlashBase + N
  <2>1. SUFFICES ASSUME Length = N PROVE chip'.bit = 0 /\ chip'.addr = FlashBase + N
    OBVIOUS
  <2>2. ~InFlash(Address)
    BY <1>2, <1>3, <2>1, ImageIs DEF InFlash
  <2> QED BY <1>2, <1>3, <2>1, <2>2 DEF ChipStep
<1>12. ReaderInv'
  BY <1>2, <1>8, <1>10, <1>11, Tres1TdpAssumption
     DEF ReaderInv, Idle, Waking, Waiting, Commanding, Receiving, PoweringDown, In
<1> QED BY <1>2, <1>7, <1>9, <1>12 DEF AfterReader

LEMMA ReaderSteps ==
  ASSUME BeforeReader, ReaderStep(spifr_bus)
  PROVE  AfterReader
<1>1. RdrReceiving => AfterReader
  BY ReceiveBit, ReceiveByte, ReceiveLast
<1> QED BY <1>1, IdleStep, ReleaseStep, WaitStep, CommandStep, PowerDownStep
        DEF ReaderStep

-------------------------------------------------------------------------------
(***************************************************************************)
(* The black box's steps.                                                  *)
(***************************************************************************)
BeforeBlackbox ==
  /\ part = "blackbox" /\ part' = part
  /\ BlackboxType /\ UserType /\ StreamInv /\ BlackboxInv
  /\ UserStep /\ TodoStep

AfterBlackbox == BlackboxType' /\ StreamInv' /\ BlackboxInv'

TheBlackbox(state, address, remaining, countdown, busy, data, valid) ==
  [state |-> state, address |-> address, remaining |-> remaining,
   countdown |-> countdown, busy |-> busy, data |-> data, valid |-> valid]

LEMMA BlackboxIdles ==
  ASSUME BeforeBlackbox, BBIdle(spifr_bus)
  PROVE  AfterBlackbox
<1> USE DEF BeforeBlackbox
<1>1. blackbox.state = "IDLE" /\ blackbox.busy = 0 /\ SpifrBusy = 0 /\ todo = <<>>
  BY DEF BBIdle, BlackboxInv, SpifrBusy, StreamInv
<1>2. CASE spifr_bus.stb = 1
  <2>1. /\ Length \in 1 .. N /\ Length' = Length /\ spifr_bus.addr = FlashBase
        /\ N \in Nat /\ FlashBase \in Nat
    BY <1>1, <1>2, ImageIs DEF UserStep, Stb, Length
  <2>2. InFlash(spifr_bus.addr)
    BY <2>1, ImageIs DEF InFlash
  <2>3. blackbox' = TheBlackbox("READ", FlashBase, Length, 2, 1, blackbox.data, 0)
    BY <1>2, <2>1, <2>2 DEF BBIdle, TheBlackbox, BlackboxType, Length,
                            COUNTDOWN_BETWEEN_BYTES
  <2>4. BlackboxType'
    BY <2>1, <2>3 DEF BlackboxType, TheBlackbox, Bit
  <2>5. /\ blackbox'.state = "READ" /\ blackbox'.address = FlashBase
        /\ blackbox'.remaining = Length /\ blackbox'.countdown = 2
        /\ blackbox'.busy = 1 /\ blackbox'.valid = 0
    BY <2>3 DEF TheBlackbox
  <2>6. todo' = Requested /\ Rest(todo', Length) /\ Len(todo') = Length
    BY <1>1, <1>2, <2>1, RestBegins DEF TodoStep
  <2>7. StreamInv'
    BY <2>1, <2>5, <2>6 DEF StreamInv, SpifrBusy, SpifrValid
  <2>8. FlashBase + (Length - Length) = FlashBase
    BY <2>1
  <2>9. BlackboxInv'
    BY <2>1, <2>5, <2>6, <2>8 DEF BlackboxInv, Handed
  <2> QED BY <2>4, <2>7, <2>9 DEF AfterBlackbox
<1>3. CASE spifr_bus.stb # 1
  <2>1. blackbox' = TheBlackbox("IDLE", blackbox.address, blackbox.remaining,
                               blackbox.countdown, 0, blackbox.data, 0)
    BY <1>1, <1>3 DEF BBIdle, TheBlackbox, BlackboxType
  <2>2. BlackboxType'
    BY <2>1 DEF BlackboxType, TheBlackbox, Bit
  <2>3. blackbox'.state = "IDLE" /\ blackbox'.busy = 0 /\ blackbox'.valid = 0
    BY <2>1 DEF TheBlackbox
  <2>4. todo' = <<>> /\ SpifrValid' = 0 /\ SpifrBusy' = 0
    BY <1>1, <1>3, <2>3 DEF TodoStep, SpifrValid, SpifrBusy
  <2> QED BY <2>2, <2>3, <2>4 DEF AfterBlackbox, StreamInv, BlackboxInv
<1> QED BY <1>2, <1>3

LEMMA InRead ==
  ASSUME BeforeBlackbox, blackbox.state = "READ"
  PROVE  /\ SpifrBusy = 1 /\ blackbox.busy = 1 /\ Rest(todo, Length)
         /\ Length \in 1 .. N /\ N \in Nat /\ FlashBase \in Nat /\ Length' = Length
         /\ blackbox.remaining = Len(todo) /\ Len(todo) \in 0 .. Length
         /\ blackbox.address = FlashBase + (Length - Len(todo))
         /\ blackbox.countdown \in 1 .. 2
         /\ blackbox.valid = 1 => blackbox.countdown = 2
<1> USE DEF BeforeBlackbox
<1>1. blackbox.busy = 1 /\ SpifrBusy = 1
  BY DEF BlackboxInv, SpifrBusy
<1>2. Rest(todo, Length) /\ Length' = Length
  BY <1>1 DEF StreamInv, UserStep, Length
<1>3. Length \in 1 .. N /\ Len(todo) \in 0 .. Length
  BY <1>2, LenProperties, ImageIs DEF Rest
<1>4. /\ blackbox.remaining = Len(todo)
      /\ blackbox.address = FlashBase + (Length - Len(todo))
      /\ blackbox.countdown \in 1 .. 2
      /\ blackbox.valid = 1 => blackbox.countdown = 2
  BY DEF BlackboxInv, Handed
<1> QED BY <1>1, <1>2, <1>3, <1>4, ImageIs

LEMMA BlackboxReads ==
  ASSUME BeforeBlackbox, BBRead
  PROVE  AfterBlackbox
<1> USE DEF BeforeBlackbox
<1>1. blackbox.state = "READ" /\ blackbox.remaining > 0
  BY DEF BBRead
<1>2. /\ blackbox.busy = 1 /\ Rest(todo, Length) /\ Length' = Length
      /\ Length \in 1 .. N /\ N \in Nat /\ FlashBase \in Nat
      /\ blackbox.remaining = Len(todo) /\ Len(todo) \in 1 .. Length
      /\ blackbox.address = FlashBase + (Length - Len(todo))
  BY <1>1, InRead
<1>3. todo # <<>>
  BY <1>2, EmptySeq
<1>4. PICK t : t = Tail(todo)
  OBVIOUS
<1>5. /\ Rest(t, Length) /\ Len(t) = Len(todo) - 1
      /\ Length - Len(t) \in 1 .. N /\ Image[Length - Len(t)] \in AByte
  BY <1>2, <1>3, <1>4, RestGoesOn
<1>6. PICK k : k = Length - Len(t)
  OBVIOUS
<1>7. /\ k \in 1 .. N /\ Image[k] \in AByte
      /\ blackbox.address = FlashBase + k - 1 /\ blackbox.address - FlashBase + 1 = k
  <2>1. k = Length - (Len(todo) - 1)
    BY <1>5, <1>6
  <2> QED BY <1>2, <1>5, <1>6, <2>1
<1>8. InFlash(blackbox.address) /\ FlashByte(blackbox.address) = Image[k]
  BY <1>2, <1>7, ImageIs DEF InFlash, FlashByte
<1>9. blackbox' = TheBlackbox("READ", FlashBase + k, Len(todo) - 1, 2, 1, Image[k], 1)
  <2>1. FlashBase + k - 1 + 1 = FlashBase + k
    BY <1>2, <1>7
  <2> QED BY <1>1, <1>2, <1>7, <1>8, <2>1
          DEF BBRead, TheBlackbox, BlackboxType, COUNTDOWN_BETWEEN_BYTES
<1>10. BlackboxType'
  BY <1>2, <1>7, <1>9 DEF BlackboxType, TheBlackbox, Bit
<1>11. /\ blackbox'.state = "READ" /\ blackbox'.address = FlashBase + k
       /\ blackbox'.remaining = Len(todo) - 1 /\ blackbox'.countdown = 2
       /\ blackbox'.busy = 1 /\ blackbox'.data = Image[k] /\ blackbox'.valid = 1
  BY <1>9 DEF TheBlackbox
<1>12. SpifrValid' = 1 /\ SpifrBusy' = 1 /\ SpifrData' = Image[k] /\ SpifrBusy = 1
  BY <1>2, <1>11 DEF SpifrValid, SpifrBusy, SpifrData
<1>13. todo' = t
  BY <1>3, <1>4, <1>12 DEF TodoStep
<1>14. Handed' = k /\ k > 0
  BY <1>2, <1>6, <1>7, <1>13 DEF Handed
<1>15. StreamInv'
  BY <1>2, <1>5, <1>12, <1>13, <1>14 DEF StreamInv
<1>16. BlackboxInv'
  BY <1>5, <1>11, <1>13, <1>14 DEF BlackboxInv
<1> QED BY <1>10, <1>15, <1>16 DEF AfterBlackbox

LEMMA BlackboxWaits ==
  ASSUME BeforeBlackbox, BBCounts \/ BBDone
  PROVE  AfterBlackbox
<1> USE DEF BeforeBlackbox
<1>1. blackbox.state = "READ"
  BY DEF BBCounts, BBDone
<1>2. /\ blackbox.busy = 1 /\ Rest(todo, Length) /\ Length' = Length /\ SpifrBusy = 1
      /\ blackbox.remaining = Len(todo) /\ Len(todo) \in Nat
      /\ blackbox.address = FlashBase + (Length - Len(todo))
      /\ blackbox.countdown \in 1 .. 2
  BY <1>1, InRead
<1>3. CASE BBCounts
  <2>1. blackbox' = TheBlackbox("READ", blackbox.address, blackbox.remaining, 1, 1,
                               blackbox.data, 0)
    <3>1. blackbox.countdown = 2
      BY <1>2, <1>3 DEF BBCounts
    <3>2. blackbox' = [blackbox EXCEPT !.countdown = 1, !.valid = 0]
      BY <1>3, <3>1 DEF BBCounts
    <3> QED BY <1>1, <1>2, <3>2 DEF TheBlackbox, BlackboxType
  <2>2. BlackboxType'
    BY <2>1 DEF BlackboxType, TheBlackbox, Bit
  <2>3. /\ blackbox'.state = "READ" /\ blackbox'.address = blackbox.address
        /\ blackbox'.remaining = blackbox.remaining /\ blackbox'.countdown = 1
        /\ blackbox'.busy = 1 /\ blackbox'.valid = 0
    BY <2>1 DEF TheBlackbox
  <2>4. SpifrValid' = 0 /\ SpifrBusy' = 1
    BY <2>3 DEF SpifrValid, SpifrBusy
  <2>5. todo' = todo
    BY <1>2, <2>4 DEF TodoStep
  <2>6. StreamInv'
    BY <1>2, <2>4, <2>5 DEF StreamInv
  <2>7. BlackboxInv'
    BY <1>2, <2>3, <2>5 DEF BlackboxInv, Handed
  <2> QED BY <2>2, <2>6, <2>7 DEF AfterBlackbox
<1>4. CASE BBDone
  <2>1. blackbox' = TheBlackbox("IDLE", 0, blackbox.remaining, 0, 0, 0, 0)
    BY <1>4 DEF BBDone, TheBlackbox, BlackboxType
  <2>2. BlackboxType'
    BY <2>1 DEF BlackboxType, TheBlackbox, Bit, AByte
  <2>3. blackbox'.state = "IDLE" /\ blackbox'.busy = 0 /\ blackbox'.valid = 0
    BY <2>1 DEF TheBlackbox
  <2>4. SpifrValid' = 0 /\ SpifrBusy' = 0
    BY <2>3 DEF SpifrValid, SpifrBusy
  <2>5. todo' = <<>>
    <3>1. Len(todo) = 0 /\ todo \in Seq(AByte)
      BY <1>2, <1>4 DEF BBDone, Rest
    <3>2. todo = <<>>
      BY <3>1, EmptySeq
    <3> QED BY <1>2, <2>4, <3>2 DEF TodoStep
  <2> QED BY <2>2, <2>3, <2>4, <2>5 DEF AfterBlackbox, StreamInv, BlackboxInv
<1> QED BY <1>3, <1>4

LEMMA BlackboxSteps ==
  ASSUME BeforeBlackbox, BlackboxStep(spifr_bus)
  PROVE  AfterBlackbox
  BY BlackboxIdles, BlackboxReads, BlackboxWaits DEF BlackboxStep

\* Reader or black box.
PartStep == UserStep /\ TodoStep /\ SPIStep(spifr_bus)

LEMMA PartSteps ==
  ASSUME TypeInv, StreamInv, PartInv, PartStep
  PROVE  part' = part /\ TypeInv' /\ StreamInv' /\ PartInv'
<1>1. part' = part /\ UserType'
  BY DEF PartStep, SPIStep, UserStep
<1>2. CASE part = "reader"
  <2>1. ReaderStep(spifr_bus) /\ ChipStep /\ blackbox' = blackbox
    BY <1>2 DEF PartStep, SPIStep
  <2>2. BeforeReader
    BY <1>1, <1>2, <2>1 DEF BeforeReader, PartStep, TypeInv, PartInv
  <2>3. AfterReader
    BY <2>1, <2>2, ReaderSteps
  <2>4. BlackboxType'
    BY <2>1 DEF TypeInv, BlackboxType
  <2> QED BY <1>1, <1>2, <2>3, <2>4 DEF AfterReader, TypeInv, PartInv
<1>3. CASE part = "blackbox"
  <2>1. BlackboxStep(spifr_bus) /\ reader' = reader /\ chip' = chip
    BY <1>3 DEF PartStep, SPIStep
  <2>2. BeforeBlackbox
    BY <1>1, <1>3 DEF BeforeBlackbox, PartStep, TypeInv, PartInv
  <2>3. AfterBlackbox
    BY <2>1, <2>2, BlackboxSteps
  <2>4. ReaderType' /\ ChipType'
    BY <2>1 DEF TypeInv, ReaderType, ChipType
  <2> QED BY <1>1, <1>3, <2>3, <2>4 DEF AfterBlackbox, TypeInv, PartInv
<1> QED BY <1>2, <1>3 DEF TypeInv

\* A byte is handed over from a busy part that has one, and never two in a row.
LEMMA Pulses ==
  ASSUME TypeInv, StreamInv, PartInv, SPIStep(spifr_bus), SpifrValid' = 1
  PROVE  SpifrValid = 0 /\ SpifrBusy = 1 /\ SpifrBusy' = 1 /\ todo # <<>>
<1>1. CASE part = "reader"
  <2>1. reader'.valid = 1 /\ ReaderStep(spifr_bus) /\ ReaderInv /\ ReaderType
    BY <1>1 DEF SPIStep, SpifrValid, PartInv, TypeInv
  <2>2. RdrReceiving
    <3>1. RdrIdle(spifr_bus) => reader'.valid = 0
      BY <2>1 DEF RdrIdle, Become, Lowered, ReaderType
    <3>2. RdrRelease => reader'.valid = 0
      BY <2>1 DEF RdrRelease, Become, Lowered, ReaderType
    <3>3. RdrWaitTres1(spifr_bus) => reader'.valid = 0
      BY <2>1 DEF RdrWaitTres1, Become, Lowered, ReaderType
    <3>4. RdrSendCmd => reader'.valid = 0
      BY <2>1 DEF RdrSendCmd, Become, Lowered, ReaderType
    <3>5. RdrPowerDown => reader'.valid = 0
      BY <2>1 DEF RdrPowerDown, Become, Lowered, ReaderType
    <3> QED BY <2>1, <3>1, <3>2, <3>3, <3>4, <3>5 DEF ReaderStep
  <2>3. In("RECEIVING") /\ reader.rcv_bit = 0 /\ reader'.fsm # "IDLE"
    BY <2>1, <2>2 DEF RdrReceiving, Become, Lowered, In, ReaderType
  <2>4. Taken = 7 /\ Len(todo) = reader.rcv_byte + 1 /\ reader.valid # 1
    BY <2>1, <2>3 DEF ReaderInv, Receiving, Taken
  <2>5. todo # <<>>
    <3>1. reader.rcv_byte + 1 # 0
      BY <2>1 DEF ReaderType
    <3> QED BY <2>4, <3>1
  <2> QED BY <1>1, <2>1, <2>3, <2>4, <2>5
          DEF SpifrValid, SpifrBusy, In, SPIStep, ReaderType, Bit
<1>2. CASE part = "blackbox"
  <2>1. blackbox'.valid = 1 /\ BlackboxStep(spifr_bus) /\ BlackboxInv /\ BlackboxType
    BY <1>2 DEF SPIStep, SpifrValid, PartInv, TypeInv
  <2>2. BBRead
    <3>1. BBIdle(spifr_bus) => blackbox'.valid = 0
      BY <2>1 DEF BBIdle, BlackboxType
    <3>2. BBCounts => blackbox'.valid = 0
      BY <2>1 DEF BBCounts, BlackboxType
    <3>3. BBDone => blackbox'.valid = 0
      BY <2>1 DEF BBDone, BlackboxType
    <3> QED BY <2>1, <3>1, <3>2, <3>3 DEF BlackboxStep
  <2>3. /\ blackbox.state = "READ" /\ blackbox.countdown = 1 /\ blackbox.remaining > 0
        /\ blackbox'.busy = blackbox.busy
    BY <2>1, <2>2 DEF BBRead, BlackboxType
  <2>4. blackbox.remaining = Len(todo) /\ blackbox.busy = 1 /\ blackbox.valid # 1
    BY <2>1, <2>3 DEF BlackboxInv
  <2>5. todo # <<>>
    BY <2>3, <2>4
  <2> QED BY <1>2, <2>1, <2>3, <2>4, <2>5
          DEF SpifrValid, SpifrBusy, SPIStep, BlackboxType, Bit
<1> QED BY <1>1, <1>2 DEF TypeInv

LEMMA StaysIdle ==
  ASSUME TypeInv, StreamInv, PartInv, SPIStep(spifr_bus), SpifrBusy = 0, ~Stb
  PROVE  SpifrBusy' = 0
<1>1. spifr_bus.stb # 1
  BY DEF Stb
<1>2. CASE part = "reader"
  <2>1. reader.fsm = "IDLE" /\ ReaderStep(spifr_bus)
    BY <1>2 DEF SpifrBusy, In, SPIStep
  <2>2. reader'.fsm = "IDLE"
    BY <1>1, <2>1 DEF ReaderStep, RdrIdle, RdrRelease, RdrWaitTres1, RdrSendCmd,
                      RdrReceiving, RdrPowerDown, Become, Lowered, In, TypeInv, ReaderType
  <2> QED BY <1>2, <2>2 DEF SPIStep, SpifrBusy, In
<1>3. CASE part = "blackbox"
  <2>1. /\ blackbox.state = "IDLE" /\ blackbox.busy = 0 /\ BlackboxStep(spifr_bus)
        /\ BlackboxType
    BY <1>3 DEF SpifrBusy, SPIStep, PartInv, BlackboxInv, TypeInv
  <2>2. blackbox'.busy = 0
    BY <1>1, <2>1 DEF BlackboxStep, BBIdle, BBRead, BBCounts, BBDone, BlackboxType
  <2> QED BY <1>3, <2>2 DEF SPIStep, SpifrBusy
<1> QED BY <1>2, <1>3 DEF TypeInv

\* What has been handed over up to now is what there was to store or to print.
LEMMA HandedIs ==
  ASSUME TypeInv, StreamInv
  PROVE  /\ Length \in Nat /\ todo \in Seq(AByte) /\ Len(todo) \in Nat
         /\ Handed \in 0 .. Length
<1>1. SpifrBusy \in Bit
  BY DEF SpifrBusy, Bit, TypeInv, BlackboxType
<1>2. Length \in Nat
  BY DEF TypeInv, UserType, Length
<1>3. CASE SpifrBusy = 0
  BY <1>2, <1>3, EmptySeq DEF StreamInv, Handed
<1>4. CASE SpifrBusy = 1
  BY <1>2, <1>4, LenProperties DEF StreamInv, Rest, Handed
<1> QED BY <1>1, <1>3, <1>4 DEF Bit

LEMMA Handing ==
  ASSUME TypeInv, StreamInv, PartInv, PartStep, Length' = Length,
         SpifrBusy = 1 \/ ~Stb
  PROVE  Stored' = Handed /\ Handed' = Handed + SpifrValid' /\ SpifrValid' \in Bit
<1>1. Length \in Nat /\ todo \in Seq(AByte) /\ Len(todo) \in Nat
  BY HandedIs
<1>2. SpifrValid' \in Bit
  BY PartSteps DEF SpifrValid, TypeInv, ReaderType, BlackboxType
<1>3. ~(SpifrBusy = 0 /\ spifr_bus.stb = 1)
  BY DEF Stb
<1>4. CASE SpifrValid' = 1
  <2>1. todo # <<>> /\ todo' = Tail(todo)
    BY <1>3, <1>4, Pulses DEF PartStep, TodoStep
  <2>2. Len(todo') = Len(todo) - 1
    BY <1>1, <2>1, HeadTailProperties
  <2> QED BY <1>1, <1>2, <1>4, <2>2 DEF Handed, Stored
<1>5. CASE SpifrValid' = 0
  <2>1. todo' = todo
    BY <1>3, <1>5 DEF PartStep, TodoStep
  <2> QED BY <1>1, <1>2, <1>5, <2>1 DEF Handed, Stored
<1> QED BY <1>2, <1>4, <1>5 DEF Bit

-------------------------------------------------------------------------------
(***************************************************************************)
(* The user's steps.                                                       *)
(***************************************************************************)
\* What a cycle does to the command FSM, its request and the count of tests.
Asks ==
  \/ main = "INIT_BEGIN" /\ main' = "INIT_STROBED_SPIFR" /\ Ask(N) /\ tests' = tests
  \/ main = "SPI_TEST_START" /\ main' = "SPI_TEST_WAIT" /\ Ask(TestLen)
     /\ tests' = tests
  \/ /\ main = "IDLE" /\ main' = "SPI_TEST_START" /\ tests' = tests + 1
     /\ tests < Tests[part] /\ SpifrBusy = 0 /\ UNCHANGED spifr_bus
  \/ /\ main = "INIT_STROBED_SPIFR" /\ main' = "INIT_WAIT_SPIFR" /\ Unstrobed
     /\ tests' = tests
  \/ /\ main = "SPI_TEST_WAIT" /\ main' \in {"SPI_TEST_WAIT", "SPI_TEST_WRITE_LOOP"}
     /\ Unstrobed /\ tests' = tests
  \/ /\ main \in MainStates \ {"INIT_BEGIN", "SPI_TEST_START", "INIT_STROBED_SPIFR",
                             "SPI_TEST_WAIT"}
     /\ main' \in MainStates \ {"INIT_BEGIN", "SPI_TEST_START", "INIT_STROBED_SPIFR",
                              "SPI_TEST_WAIT"}
     /\ Filling' => Filling
     /\ UNCHANGED spifr_bus /\ tests' = tests

LEMMA CycleAsks ==
  ASSUME main \in MainStates, NEW addr, NEW done, Cycle(addr, done)
  PROVE  Asks
<1> USE DEF MainStates, FirstStates, SecondStates
<1>1. CASE Filling /\ Fill
  <2>1. tests' = tests
    BY <1>1 DEF Fill
  <2>2. CASE InitBegin
    BY <2>1, <2>2 DEF InitBegin, Asks, N
  <2>3. CASE InitStrobed
    BY <2>1, <2>3 DEF InitStrobed, Asks
  <2>4. CASE InitTakes
    BY <2>1, <2>4 DEF InitTakes, Asks, Filling
  <2>5. CASE InitWaits
    BY <2>1, <2>5 DEF InitWaits, Asks, Filling
  <2>6. CASE InitWritten
    BY <2>1, <2>6 DEF InitWritten, Asks, Filling
  <2> QED BY <1>1, <2>2, <2>3, <2>4, <2>5, <2>6 DEF Fill
<1>2. CASE ~Filling /\ TestStep(done)
  <2>1. CASE Tested
    BY <2>1 DEF Tested, Asks
  <2>2. CASE Rests
    BY <1>2, <2>2 DEF Rests, Asks, Filling
  <2>3. CASE TestStart
    BY <2>3 DEF TestStart, Asks
  <2>4. CASE TestWait
    BY <2>4 DEF TestWait, Asks
  <2>5. CASE TestWriteLoop
    BY <2>5 DEF TestWriteLoop, Asks, Filling
  <2>6. CASE TestDone
    BY <2>6 DEF TestDone, Asks, Filling
  <2>7. CASE TestFirstHalf
    BY <2>7 DEF TestFirstHalf, Asks, Filling
  <2>8. CASE TestSecondHalf
    BY <2>8 DEF TestSecondHalf, Asks, Filling
  <2>9. CASE Printing(done)
    BY <2>9 DEF Printing, Asks, Filling
  <2> QED BY <1>2, <2>1, <2>2, <2>3, <2>4, <2>5, <2>6, <2>7, <2>8, <2>9 DEF TestStep
<1> QED BY <1>1, <1>2 DEF Cycle

\* Of what is asked there are so many bytes in the flash.
LEMMA Lengths ==
  /\ N \in 1 .. N /\ TestLen \in 1 .. N /\ ToRead \in 1 .. TestLen
  /\ N \in Nat /\ TestLen \in Nat /\ ToRead \in Nat \ {0} /\ FlashBase \in Nat
  BY ImageIs, TestAssumption

LEMMA AskSteps ==
  ASSUME TypeInv, AskInv, StreamInv, PartInv, Asks, TodoStep, SPIStep(spifr_bus),
         main \in MainStates
  PROVE  PartStep /\ AskInv' /\ main' \in MainStates
<1>1. spifr_bus \in [stb : Bit, addr : Nat, len : Nat] /\ part \in {"reader", "blackbox"}
  BY DEF TypeInv, UserType
<1>2. tests \in Nat /\ Tests[part] \in Nat /\ (part = "reader" => Tests[part] <= 1)
  BY <1>1, TestsAssumption DEF AskInv
<1>3. part' = part
  BY DEF SPIStep
<1>4. main \notin {"INIT_STROBED_SPIFR", "SPI_TEST_WAIT"} => ~Stb
  BY DEF AskInv
<1>5. Stb => SpifrBusy = 0
  BY DEF AskInv
<1>6. SpifrBusy = 0 /\ ~Stb => SpifrBusy' = 0
  BY StaysIdle
<1>7. main' \in MainStates
  BY DEF Asks, MainStates
<1>8. UserType'
  BY <1>1, Lengths DEF Asks, Ask, Unstrobed, UserType, Bit
<1>9. main # "INIT_BEGIN" =>
        /\ Length = IF tests = 0 \/ (main = "SPI_TEST_START" /\ tests = 1)
                    THEN N ELSE TestLen
        /\ Length \in 1 .. N /\ spifr_bus.addr = FlashBase
  BY Lengths DEF AskInv
<1>10. main \in {"INIT_BEGIN", "SPI_TEST_START"} => SpifrBusy = 0 /\ ~Stb
  BY <1>4 DEF AskInv
<1>11. \/ main = "INIT_BEGIN" /\ spifr_bus' = [stb |-> 1, addr |-> FlashBase, len |-> N]
       \/ /\ main = "SPI_TEST_START"
          /\ spifr_bus' = [stb |-> 1, addr |-> FlashBase, len |-> TestLen]
       \/ main \in {"INIT_STROBED_SPIFR", "SPI_TEST_WAIT"}
          /\ spifr_bus' = [spifr_bus EXCEPT !.stb = 0]
       \/ /\ main \notin {"INIT_BEGIN", "SPI_TEST_START", "INIT_STROBED_SPIFR", "SPI_TEST_WAIT"}
          /\ spifr_bus' = spifr_bus
  BY DEF Asks, Ask, Unstrobed, MainStates
<1>12. main \notin {"INIT_BEGIN", "SPI_TEST_START"} => Length' = Length
  BY <1>1, <1>11 DEF Length
<1>13. Stb' => main \in {"INIT_BEGIN", "SPI_TEST_START"}
  BY <1>1, <1>4, <1>11 DEF Stb
<1>14. ASSUME part = "reader", Fresh'
       PROVE  IF SpifrBusy = 1 THEN Length = N ELSE Fresh
  <2>1. CASE SpifrBusy = 1
    <3>1. main \notin {"INIT_BEGIN", "SPI_TEST_START"} /\ ~Stb'
      BY <1>10, <1>13, <2>1
    <3>2. tests' = 0 \/ main' = "SPI_TEST_START"
      BY <1>14, <3>1 DEF Fresh
    <3>3. main' # "SPI_TEST_START"
      BY <2>1, <3>1 DEF Asks
    <3>4. tests = 0
      BY <1>2, <3>2, <3>3 DEF Asks
    <3> QED BY <1>9, <2>1, <3>1, <3>4
  <2>2. CASE SpifrBusy # 1
    <3>1. tests' = 0 => tests = 0
      BY <1>2 DEF Asks
    <3>2. main' = "SPI_TEST_START" => tests = 0
      BY <1>2, <1>14 DEF Asks
    <3>3. Stb' => tests = 0 \/ main = "SPI_TEST_START"
      BY <1>13 DEF AskInv, Filling
    <3> QED BY <1>14, <2>2, <3>1, <3>2, <3>3 DEF Fresh
  <2> QED BY <2>1, <2>2
<1>15. UserStep
  <2>1. Stb \/ SpifrBusy = 1 => main \notin {"INIT_BEGIN", "SPI_TEST_START"}
    BY <1>10
  <2>2. Stb \/ SpifrBusy = 1 => spifr_bus'.len = Length
    BY <1>12, <2>1 DEF Length
  <2> QED BY <1>8, <1>9, <1>14, <2>1, <2>2 DEF UserStep
<1>16. PartStep
  BY <1>15 DEF PartStep
<1>17. Stb' => /\ main' \in {"INIT_STROBED_SPIFR", "SPI_TEST_WAIT"}
               /\ SpifrBusy' = 0 /\ spifr_bus'.addr = FlashBase
  <2>1. main \in {"INIT_BEGIN", "SPI_TEST_START"} =>
          /\ main' \in {"INIT_STROBED_SPIFR", "SPI_TEST_WAIT"}
          /\ spifr_bus'.addr = FlashBase
    BY <1>11 DEF Asks
  <2> QED BY <1>6, <1>10, <1>13, <2>1
<1>18. main' = "INIT_STROBED_SPIFR" => Stb'
  BY DEF Asks, Ask, Stb
<1>19. main' \in {"INIT_BEGIN", "SPI_TEST_START"} => SpifrBusy' = 0
  BY <1>4, <1>6 DEF Asks
<1>20. main' # "INIT_BEGIN" =>
         /\ Length' = IF tests' = 0 \/ (main' = "SPI_TEST_START" /\ tests' = 1)
                      THEN N ELSE TestLen
         /\ spifr_bus'.addr = FlashBase
  <2>1. CASE main = "INIT_BEGIN"
    BY <1>11, <2>1 DEF Asks, AskInv, Filling, Length
  <2>2. CASE main = "SPI_TEST_START"
    BY <1>2, <1>11, <2>2 DEF Asks, AskInv, Length
  <2>3. CASE main \notin {"INIT_BEGIN", "SPI_TEST_START"}
    <3>1. spifr_bus'.addr = FlashBase
      BY <1>1, <1>9, <1>11, <2>3
    <3>2. \/ main' = "SPI_TEST_START" /\ tests' = tests + 1
          \/ main' # "SPI_TEST_START" /\ tests' = tests
      BY <2>3 DEF Asks
    <3> QED BY <1>2, <1>9, <1>12, <2>3, <3>1, <3>2
  <2> QED BY <2>1, <2>2, <2>3
<1>21. Filling' => tests' = 0
  <2>1. Filling' => Filling /\ tests' = tests
    BY DEF Asks, Filling
  <2> QED BY <2>1 DEF AskInv
<1>22. tests' \in 0 .. Tests[part]'
  <2>1. tests' \in 0 .. Tests[part]
    BY <1>2 DEF Asks, AskInv
  <2> QED BY <1>3, <2>1
<1>23. main' \in {"SPI_TEST_START", "SPI_TEST_WAIT"} => tests' > 0
  BY <1>2 DEF Asks, AskInv
<1>24. AskInv'
  BY <1>17, <1>18, <1>19, <1>20, <1>21, <1>22, <1>23 DEF AskInv
<1> QED BY <1>7, <1>16, <1>24

-------------------------------------------------------------------------------
(***************************************************************************)
(* The fill.                                                               *)
(***************************************************************************)
Memory == rom_mem \in [Words -> [1 .. 2 -> AByte]]

LEMMA WordOf ==
  ASSUME NEW a \in 0 .. N - 1
  PROVE  a \div 2 \in Words /\ (a % 2) + 1 \in 1 .. 2
  BY ImageIs DEF Words, N

\* A byte written to the memory reads as it was written, and the others stay.
LEMMA Written ==
  ASSUME Memory, NEW a \in 0 .. N - 1, NEW b \in AByte,
         rom_mem' = [rom_mem EXCEPT ![a \div 2][(a % 2) + 1] = b]
  PROVE  /\ Memory'
         /\ rom_mem'[a \div 2][(a % 2) + 1] = b
         /\ \A c \in 0 .. N - 1 :
              c # a => rom_mem'[c \div 2][(c % 2) + 1] = rom_mem[c \div 2][(c % 2) + 1]
<1>1. PICK w, h : w = a \div 2 /\ h = (a % 2) + 1
  OBVIOUS
<1>2. w \in Words /\ h \in 1 .. 2
  BY <1>1, WordOf
<1>3. rom_mem' = [rom_mem EXCEPT ![w] = [rom_mem[w] EXCEPT ![h] = b]]
  BY <1>1
<1>4. PICK word : word = [rom_mem[w] EXCEPT ![h] = b]
  OBVIOUS
<1>5. /\ word \in [1 .. 2 -> AByte] /\ word[h] = b
      /\ \A i \in 1 .. 2 : i # h => word[i] = rom_mem[w][i]
  BY <1>2, <1>4 DEF Memory
<1>6. /\ rom_mem' \in [Words -> [1 .. 2 -> AByte]] /\ rom_mem'[w] = word
      /\ \A v \in Words : v # w => rom_mem'[v] = rom_mem[v]
  BY <1>2, <1>3, <1>4, <1>5 DEF Memory
<1>7. Memory'
  BY <1>6 DEF Memory, Words
<1>8. ASSUME NEW c \in 0 .. N - 1, c # a
      PROVE  rom_mem'[c \div 2][(c % 2) + 1] = rom_mem[c \div 2][(c % 2) + 1]
  <2>1. PICK v, i : v = c \div 2 /\ i = (c % 2) + 1
    OBVIOUS
  <2>2. v \in Words /\ i \in 1 .. 2
    BY <2>1, WordOf
  <2>3. v # w \/ i # h
    BY <1>1, <1>8, <2>1
  <2>4. rom_mem'[v][i] = rom_mem[v][i]
    BY <1>5, <1>6, <2>2, <2>3
  <2> QED BY <2>1, <2>4
<1> QED BY <1>1, <1>5, <1>6, <1>7, <1>8

LEMMA StoresStay ==
  ASSUME rom_mem' = rom_mem
  PROVE  \A a \in Nat : Stores(a) => Stores(a)'
  BY DEF Stores

LEMMA FillSteps ==
  ASSUME main \in MainStates, TypeInv, AskInv, StreamInv, PartInv, FillInv, PartStep,
         NEW addr \in 0 .. N - 1, NEW done, Cycle(addr, done)
  PROVE  FillInv'
<1>1. N \in Nat \ {0} /\ Memory
  BY ImageIs DEF FillInv, Memory
<1>2. MemoryStep(addr)
  BY DEF Cycle
<1>3. rom_wr.en = 0 => rom_mem' = rom_mem /\ Memory'
  BY <1>1, <1>2 DEF MemoryStep, Memory, Words
<1>4. main # "INIT_STROBED_ROM_WR" => rom_wr.en = 0
  BY DEF FillInv
<1>5. SpifrValid \in Bit
  BY DEF SpifrValid, TypeInv, ReaderType, BlackboxType
<1>6. CASE ~Filling
  <2>1. TestStep(done)
    BY <1>6 DEF Cycle
  <2>2. main # "INIT_STROBED_ROM_WR" /\ ~Filling'
    BY <1>6, <2>1 DEF Filling, TestStep, Tested, Rests, TestStart, TestWait,
       TestWriteLoop, TestDone, TestFirstHalf, TestSecondHalf, Printing
  <2>3. rom_wr' = rom_wr /\ rom_mem' = rom_mem /\ Memory'
    BY <1>3, <1>4, <2>1, <2>2 DEF TestStep
  <2>4. effective_addr' = addr /\ rd_data' = rom_mem'[addr \div 2]
    BY <1>2 DEF MemoryStep
  <2>5. \A a \in 0 .. N - 1 : Stores(a)'
    BY <1>1, <1>6, <2>3, StoresStay DEF FillInv
  <2> QED BY <1>4, <2>2, <2>3, <2>4, <2>5 DEF FillInv, Memory, Filling
<1>7. CASE Filling
  <2>1. addr = own_addr /\ Fill
    BY <1>7 DEF Cycle
  <2>2. effective_addr' = own_addr
    BY <1>2, <2>1 DEF MemoryStep
  <2>3. tests = 0
    BY <1>7 DEF AskInv
  <2>4. main # "INIT_BEGIN" => Length = N
    BY <2>3 DEF AskInv
  <2>5. main \in {"INIT_WAIT_SPIFR", "INIT_STROBED_ROM_WR"} =>
          /\ ~Stb /\ Length' = Length
          /\ Stored' = Handed /\ Handed' = Handed + SpifrValid' /\ SpifrValid' \in Bit
    <3>1. SUFFICES ASSUME main \in {"INIT_WAIT_SPIFR", "INIT_STROBED_ROM_WR"}
                   PROVE  ~Stb /\ Length' = Length
      BY Handing
    <3>2. ~Stb
      BY <3>1 DEF AskInv
    <3>3. spifr_bus' = spifr_bus
      BY <2>1, <3>1 DEF Fill, InitBegin, InitStrobed, InitTakes, InitWaits, InitWritten
    <3> QED BY <3>2, <3>3 DEF Length
  <2>6. CASE InitBegin
    <3>1. /\ main = "INIT_BEGIN" /\ main' = "INIT_STROBED_SPIFR" /\ own_addr' = 0
          /\ rom_wr' = rom_wr
      BY <2>6 DEF InitBegin
    <3> QED BY <1>3, <1>4, <3>1 DEF FillInv, Memory, Filling
  <2>7. CASE InitStrobed
    <3>1. /\ main = "INIT_STROBED_SPIFR" /\ main' = "INIT_WAIT_SPIFR"
          /\ own_addr' = own_addr /\ rom_wr' = rom_wr
      BY <2>7 DEF InitStrobed
    <3>2. Stb /\ SpifrBusy = 0 /\ Length = N
      BY <2>4, <3>1 DEF AskInv
    <3>3. todo' = Requested /\ Length' = Length /\ Len(Requested) = Length
      BY <3>2, Lengths, RestBegins DEF PartStep, TodoStep, UserStep, Stb, Length, TypeInv
    <3>4. SpifrValid' # 1
      BY <3>2, Pulses DEF PartStep
    <3>5. SpifrValid' = 0
      BY <3>4, PartSteps DEF SpifrValid, TypeInv, ReaderType, BlackboxType, Bit
    <3>6. Stored' = 0
      BY <1>1, <3>2, <3>3, <3>5 DEF Stored, Handed
    <3>7. own_addr' = 0
      BY <3>1 DEF FillInv
    <3> QED BY <1>1, <1>3, <1>4, <3>1, <3>6, <3>7 DEF FillInv, Memory, Filling
  <2>8. CASE InitTakes
    <3>1. /\ main = "INIT_WAIT_SPIFR" /\ main' = "INIT_STROBED_ROM_WR" /\ SpifrValid = 1
          /\ own_addr' = own_addr /\ rom_wr' = [en |-> 1, data |-> SpifrData]
      BY <2>8 DEF InitTakes
    <3>2. SpifrValid' = 0
      <4>1. SpifrValid' # 1
        BY <3>1, Pulses DEF PartStep
      <4> QED BY <2>5, <3>1, <4>1 DEF Bit
    <3>3. Handed \in 1 .. N /\ SpifrData = Image[Handed] /\ Image[Handed] \in AByte
      <4>1. Handed > 0 /\ SpifrData = Image[Handed]
        BY <3>1 DEF StreamInv
      <4>2. SpifrBusy \in Bit /\ SpifrBusy # 0
        BY <3>1 DEF StreamInv, SpifrBusy, TypeInv, BlackboxType, Bit
      <4>3. Rest(todo, Length)
        BY <4>2 DEF StreamInv, Bit
      <4>4. Handed \in 1 .. N
        BY <1>1, <4>1, <4>3, LenProperties DEF Rest, Handed
      <4> QED BY <4>1, <4>4, ImageIs
    <3>4. Handed' = Handed /\ Stored = Handed - 1 /\ own_addr = Handed - 1
      BY <1>1, <2>5, <3>1, <3>2, <3>3 DEF Stored, FillInv
    <3>5. \A a \in 0 .. Handed - 2 : Stores(a)'
      <4>1. \A a \in 0 .. Stored - 1 : Stores(a)
        BY <3>1 DEF FillInv
      <4>2. rom_mem' = rom_mem
        BY <1>3, <1>4, <3>1
      <4>3. Handed - 2 = Stored - 1
        BY <3>3, <3>4
      <4> QED BY <4>1, <4>2, <4>3, StoresStay
    <3>6. Memory' /\ ~(main' # "INIT_STROBED_ROM_WR") /\ Filling'
      BY <1>3, <1>4, <3>1 DEF Filling
    <3>7. rom_wr' \in [en : Bit, data : AByte] /\ rom_wr'.en = 1
      BY <3>1, <3>3 DEF Bit
    <3>8. /\ Handed' > 0 /\ own_addr' = Handed' - 1 /\ effective_addr' = own_addr'
          /\ rom_wr'.data = Image[Handed']
          /\ \A a \in 0 .. Handed' - 2 : Stores(a)'
      BY <2>2, <3>1, <3>3, <3>4, <3>5
    <3> QED BY <3>1, <3>2, <3>6, <3>7, <3>8 DEF FillInv, Memory
  <2>9. CASE InitWaits
    <3>1. /\ main = "INIT_WAIT_SPIFR" /\ SpifrValid = 0
          /\ main' = (IF SpifrBusy = 0 THEN "IDLE" ELSE main)
          /\ own_addr' = own_addr /\ rom_wr' = rom_wr
      BY <2>9 DEF InitWaits
    <3>2. rom_mem' = rom_mem /\ Memory' /\ rom_wr.en = 0
      BY <1>3, <1>4, <3>1
    <3>3. Handed \in Nat /\ Stored = Handed
      BY <2>4, <3>1, HandedIs DEF Stored
    <3>4. \A a \in 0 .. Handed - 1 : Stores(a)'
      BY <3>1, <3>2, <3>3, StoresStay DEF FillInv
    <3>5. CASE SpifrBusy = 0
      <4>1. Handed = N
        BY <1>1, <2>4, <3>1, <3>5, EmptySeq DEF StreamInv, Handed
      <4>2. own_addr = 0
        BY <3>1, <3>3, <4>1 DEF FillInv
      <4>3. rd_data' = rom_mem'[0 \div 2]
        BY <1>2, <2>1, <4>2 DEF MemoryStep
      <4> QED BY <1>1, <2>2, <3>1, <3>2, <3>4, <3>5, <4>1, <4>2, <4>3
              DEF FillInv, Memory, Filling
    <3>6. CASE SpifrBusy # 0
      <4>1. main' = "INIT_WAIT_SPIFR" /\ Stored' = Handed
        BY <2>5, <3>1, <3>6
      <4>2. own_addr' = IF Stored' = N THEN 0 ELSE Stored'
        BY <3>1, <3>3, <4>1 DEF FillInv
      <4> QED BY <3>1, <3>2, <3>4, <4>1, <4>2 DEF FillInv, Memory, Filling
    <3> QED BY <3>5, <3>6
  <2>10. CASE InitWritten
    <3>1. /\ main = "INIT_STROBED_ROM_WR" /\ main' = "INIT_WAIT_SPIFR"
          /\ rom_wr' = [rom_wr EXCEPT !.en = 0]
          /\ own_addr' = IF own_addr = N - 1 THEN 0 ELSE own_addr + 1
      BY <2>10 DEF InitWritten, N
    <3>2. /\ Handed > 0 /\ own_addr = Handed - 1 /\ effective_addr = own_addr
          /\ rom_wr.data = Image[Handed] /\ rom_wr.en = 1 /\ rom_wr.data \in AByte
          /\ \A a \in 0 .. Handed - 2 : Stores(a)
      BY <3>1 DEF FillInv
    <3>3. Handed \in 1 .. N
      BY <2>4, <3>1, <3>2, HandedIs
    <3>4. own_addr \in 0 .. N - 1
      BY <1>1, <3>2, <3>3
    <3>5. rom_mem' = [rom_mem EXCEPT ![own_addr \div 2][(own_addr % 2) + 1] = rom_wr.data]
      BY <1>2, <2>1, <3>2 DEF MemoryStep
    <3>6. /\ Memory'
          /\ rom_mem'[own_addr \div 2][(own_addr % 2) + 1] = rom_wr.data
          /\ \A c \in 0 .. N - 1 :
               c # own_addr => rom_mem'[c \div 2][(c % 2) + 1] = rom_mem[c \div 2][(c % 2) + 1]
      BY <1>1, <3>2, <3>4, <3>5, Written
    <3>7. ASSUME NEW a \in 0 .. Handed - 1 PROVE Stores(a)'
      <4>1. CASE a = own_addr
        <5>1. own_addr + 1 = Handed
          BY <3>2, <3>3
        <5> QED BY <3>2, <3>6, <4>1, <5>1 DEF Stores
      <4>2. CASE a # own_addr
        <5>1. a \in 0 .. Handed - 2 /\ a \in 0 .. N - 1
          BY <1>1, <3>2, <3>3, <4>2
        <5> QED BY <3>2, <3>6, <4>2, <5>1 DEF Stores
      <4> QED BY <4>1, <4>2
    <3>8. Stored' = Handed
      BY <2>5, <3>1
    <3>9. own_addr' = IF Stored' = N THEN 0 ELSE Stored'
      BY <1>1, <3>1, <3>2, <3>3, <3>8
    <3>10. rom_wr' \in [en : Bit, data : AByte] /\ rom_wr'.en = 0
      <4>1. rom_wr' = [en |-> 0, data |-> rom_wr.data]
        BY <3>1 DEF FillInv
      <4> QED BY <3>2, <4>1 DEF Bit
    <3> QED BY <3>1, <3>6, <3>7, <3>8, <3>9, <3>10 DEF FillInv, Memory, Filling
  <2> QED BY <2>1, <2>6, <2>7, <2>8, <2>9, <2>10 DEF Fill
<1> QED BY <1>6, <1>7

-------------------------------------------------------------------------------
(***************************************************************************)
(* The invariant holds; what follows from it.                              *)
(***************************************************************************)
LEMMA InitFlashInv == Init => FlashInv
<1> SUFFICES ASSUME Init PROVE FlashInv
  OBVIOUS
<1>1. N \in Nat \ {0} /\ main \in MainStates
  BY ImageIs DEF Init, MainStates
<1>2. TypeInv
  <2>1. part \in {"reader", "blackbox"} /\ ReaderType
    BY ZeroesAreBits DEF Init, SPIInit, ReaderType, Bit
  <2>2. ChipType
    BY ZeroesAreBits DEF Init, SPIInit, ChipType, ChipStates, Bit
  <2>3. BlackboxType /\ UserType
    BY DEF Init, SPIInit, BlackboxType, UserType, Bit, AByte
  <2> QED BY <2>1, <2>2, <2>3 DEF TypeInv
<1>3. SpifrBusy = 0 /\ SpifrValid = 0 /\ ~Stb
  BY DEF Init, SPIInit, SpifrBusy, SpifrValid, In, Stb
<1>4. AskInv
  <2>1. 0 \in 0 .. Tests[part]
    BY <1>2, TestsAssumption DEF TypeInv
  <2> QED BY <1>3, <2>1 DEF Init, AskInv, Filling
<1>5. StreamInv
  BY <1>3 DEF Init, StreamInv
<1>6. PartInv
  <2>1. ReaderInv
    BY DEF Init, SPIInit, ReaderInv, Idle, Waking, Waiting, Commanding, Receiving,
           PoweringDown, In
  <2>2. BlackboxInv
    BY DEF Init, SPIInit, BlackboxInv
  <2> QED BY <2>1, <2>2 DEF PartInv
<1>7. FillInv
  <2>1. <<0, 0>> \in [1 .. 2 -> AByte]
    BY DEF AByte
  <2>2. rom_mem \in [Words -> [1 .. 2 -> AByte]]
    BY <2>1 DEF Init
  <2> QED BY <2>2 DEF Init, FillInv, Bit, AByte, Filling
<1> QED BY <1>1, <1>2, <1>4, <1>5, <1>6, <1>7 DEF FlashInv

LEMMA Cycles ==
  ASSUME FlashInv, NEW addr \in 0 .. N - 1, NEW done, Cycle(addr, done)
  PROVE  PartStep /\ FlashInv'
<1>1. Asks
  BY CycleAsks DEF FlashInv
<1>2. TodoStep /\ SPIStep(spifr_bus)
  BY DEF Cycle, History, TodoStep
<1>3. PartStep /\ AskInv' /\ main' \in MainStates
  BY <1>1, <1>2, AskSteps DEF FlashInv
<1>4. TypeInv' /\ StreamInv' /\ PartInv'
  BY <1>3, PartSteps DEF FlashInv
<1>5. FillInv'
  BY <1>3, FillSteps DEF FlashInv
<1> QED BY <1>3, <1>4, <1>5 DEF FlashInv

LEMMA NextFlashInv == FlashInv /\ [Next]_vars => FlashInv'
<1> SUFFICES ASSUME FlashInv, [Next]_vars PROVE FlashInv'
  OBVIOUS
<1>1. CASE Next
  BY <1>1, Cycles DEF Next, N
<1>2. CASE UNCHANGED vars
  <2> USE <1>2 DEF vars, spiVars, fillVars, memVars, testVars
  <2>1. main' \in MainStates /\ TypeInv'
    BY DEF FlashInv, TypeInv, ReaderType, ChipType, BlackboxType, UserType
  <2>2. /\ Length' = Length /\ Handed' = Handed /\ Stb' = Stb /\ Sent' = Sent
        /\ SpifrBusy' = SpifrBusy /\ SpifrValid' = SpifrValid /\ SpifrData' = SpifrData
        /\ Filling' = Filling /\ Stored' = Stored /\ Fresh' = Fresh
        /\ Taken' = Taken /\ Current' = Current
    BY DEF Length, Handed, Stb, Sent, SpifrBusy, SpifrValid, SpifrData, In, Filling,
           Stored, Fresh, Taken, Current
  <2>3. AskInv'
    BY <2>2 DEF FlashInv, AskInv
  <2>4. StreamInv'
    BY <2>2 DEF FlashInv, StreamInv
  <2>5. BlackboxInv' = BlackboxInv
    BY <2>2 DEF BlackboxInv
  <2>6. ReaderInv' = ReaderInv
    BY <2>2 DEF ReaderInv, Idle, Waking, Waiting, Commanding, Receiving, PoweringDown,
                In, Sends
  <2>7. PartInv'
    BY <2>5, <2>6 DEF FlashInv, PartInv
  <2>8. FillInv'
    BY <2>2 DEF FlashInv, FillInv, Stores
  <2> QED BY <2>1, <2>3, <2>4, <2>7, <2>8 DEF FlashInv
<1> QED BY <1>1, <1>2

\* Part, user and memory never get out of step: the invariant that the theorems
\* below are read off.
THEOREM FlashInvariant == Spec => []FlashInv
  BY InitFlashInv, NextFlashInv, PTL DEF Spec

\* However long the flash's image, in front of the chip and of the black box:
\* after power-up a byte of the ROM reads as the flash has it.
THEOREM ROMIsRead == Spec => []ROMReadsBack
<1>1. FlashInv => ROMReadsBack
  <2> SUFFICES ASSUME FlashInv, ~Filling PROVE ROMData(effective_addr) = Image[effective_addr + 1]
    BY DEF ROMReadsBack
  <2>1. /\ effective_addr \in 0 .. N - 1 /\ rd_data = rom_mem[effective_addr \div 2]
        /\ Stores(effective_addr)
    BY DEF FlashInv, FillInv
  <2> QED BY <2>1 DEF Stores, ROMData
<1> QED BY <1>1, FlashInvariant, PTL

-------------------------------------------------------------------------------
(***************************************************************************)
(* Reader and chip, and the black box, implement the stream of bytes.      *)
(***************************************************************************)
LEMMA Begins ==
  ASSUME FlashInv, PartStep, Stb
  PROVE  SpifrBusy = 0 /\ SpifrBusy' = 1 /\ SpifrValid' = 0
<1>1. SpifrBusy = 0 /\ spifr_bus.addr = FlashBase /\ spifr_bus.stb = 1
  BY DEF FlashInv, AskInv, Stb
<1>2. SpifrValid' = 0
  <2>1. SpifrValid' # 1
    BY <1>1, Pulses DEF FlashInv, PartStep
  <2> QED BY <2>1, PartSteps DEF FlashInv, SpifrValid, TypeInv, ReaderType, BlackboxType, Bit
<1>3. CASE part = "reader"
  <2>1. reader.fsm = "IDLE" /\ ReaderStep(spifr_bus) /\ part' = "reader"
    BY <1>1, <1>3 DEF SpifrBusy, In, SPIStep, PartStep
  <2>2. reader'.fsm = "POWER_DOWN_RELEASE"
    BY <1>1, <2>1 DEF ReaderStep, RdrIdle, RdrRelease, RdrWaitTres1, RdrSendCmd,
       RdrReceiving, RdrPowerDown, Become, Lowered, In, FlashInv, TypeInv, ReaderType
  <2> QED BY <1>1, <1>2, <2>1, <2>2 DEF SpifrBusy, In
<1>4. CASE part = "blackbox"
  <2>1. blackbox.state = "IDLE" /\ BlackboxStep(spifr_bus) /\ part' = "blackbox"
    BY <1>1, <1>4 DEF SpifrBusy, SPIStep, PartStep, FlashInv, PartInv, BlackboxInv,
                      TypeInv, BlackboxType
  <2>2. BBIdle(spifr_bus)
    BY <2>1 DEF BlackboxStep, BBRead, BBCounts, BBDone
  <2>3. InFlash(spifr_bus.addr)
    BY <1>1, ImageIs DEF InFlash
  <2>4. blackbox'.busy = 1
    BY <1>1, <2>2, <2>3 DEF BBIdle, FlashInv, TypeInv, BlackboxType
  <2> QED BY <1>1, <1>2, <2>1, <2>4 DEF SpifrBusy
<1> QED BY <1>3, <1>4 DEF FlashInv, TypeInv

LEMMA StreamStep == FlashInv /\ [Next]_vars => [Promise!Next]_(Promise!vars)
<1> SUFFICES ASSUME FlashInv, [Next]_vars PROVE [Promise!Next]_(Promise!vars)
  OBVIOUS
<1>1. CASE UNCHANGED vars
  <2>1. UNCHANGED Promise!vars
    BY <1>1 DEF vars, spiVars, Promise!vars, SpifrBusy, SpifrValid, SpifrData, In
  <2> QED BY <2>1
<1>2. CASE Next
  <2>1. PICK addr \in 0 .. N - 1, done \in BOOLEAN : Cycle(addr, done)
    BY <1>2 DEF Next, N
  <2>2. PartStep /\ FlashInv'
    BY <2>1, Cycles
  <2>3. SpifrBusy \in Bit /\ SpifrBusy' \in Bit /\ SpifrValid' \in Bit
    BY <2>2 DEF SpifrBusy, SpifrValid, FlashInv, TypeInv, ReaderType, BlackboxType, Bit
  <2>4. CASE Stb
    <3>1. SpifrBusy = 0 /\ SpifrBusy' = 1 /\ SpifrValid' = 0
      BY <2>2, <2>4, Begins
    <3>2. Length \in 1 .. Len(Image)
      BY <2>2, <2>4, <3>1 DEF PartStep, UserStep, N, ROM_LENGTH
    <3>3. todo' = SubSeq(Image, 1, Length)
      BY <2>2, <2>4, <3>1 DEF PartStep, TodoStep, Stb, Requested, Length
    <3>4. Promise!Begin
      BY <3>1, <3>2, <3>3 DEF Promise!Begin, Promise!Silent
    <3> QED BY <3>4 DEF Promise!Next
  <2>5. CASE ~Stb /\ SpifrValid' = 1
    <3>1. SpifrValid = 0 /\ SpifrBusy = 1 /\ SpifrBusy' = 1 /\ todo # <<>>
      BY <2>2, <2>5, Pulses DEF FlashInv, PartStep
    <3>2. todo' = Tail(todo)
      BY <2>2, <2>5, <3>1 DEF PartStep, TodoStep
    <3>3. Length' = Length /\ Rest(todo, Length)
      BY <2>2, <3>1 DEF PartStep, UserStep, Length, FlashInv, StreamInv
    <3>4. SpifrData' = Head(todo)
      <4>1. SpifrData' = Image[Length - Len(todo')]
        BY <2>2, <2>5, <3>3 DEF FlashInv, StreamInv, Handed
      <4>2. Head(todo) = Image[Length - Len(Tail(todo))]
        BY <3>1, <3>3, RestGoesOn
      <4> QED BY <3>2, <4>1, <4>2
    <3>5. Promise!Hand
      BY <2>5, <3>1, <3>2, <3>4 DEF Promise!Hand
    <3> QED BY <3>5 DEF Promise!Next
  <2>6. CASE ~Stb /\ SpifrValid' = 0
    <3>1. todo' = todo
      BY <2>2, <2>6 DEF PartStep, TodoStep, Stb
    <3>2. SpifrBusy = 0 => SpifrBusy' = 0
      BY <2>2, <2>6, StaysIdle DEF FlashInv, PartStep
    <3>3. SpifrBusy' = 0 => todo = <<>>
      BY <2>2, <3>1 DEF FlashInv, StreamInv
    <3>4. Promise!Pause \/ Promise!End
      BY <2>3, <2>6, <3>1, <3>2, <3>3 DEF Promise!Pause, Promise!End, Promise!Silent, Bit
    <3> QED BY <3>4 DEF Promise!Next
  <2> QED BY <2>3, <2>4, <2>5, <2>6 DEF Bit
<1> QED BY <1>1, <1>2

\* Every byte asked for is handed over once and in order, and the part is busy
\* until the last: for every image, by both parts.
THEOREM ReaderStreams == Spec => Streams
<1>1. Init => Promise!Init
  BY DEF Init, SPIInit, Promise!Init, SpifrBusy, SpifrValid, SpifrData, In
<1>2. FlashInv /\ [Next]_vars => [Promise!Next]_(Promise!vars)
  BY StreamStep
<1> QED BY <1>1, <1>2, FlashInvariant, PTL DEF Spec, Streams, Promise!Spec

-------------------------------------------------------------------------------
(***************************************************************************)
(* SPI_TEST.                                                               *)
(***************************************************************************)
\* SPI_TEST: the queue has the flash's bytes from the first not yet printed.
Holds(queue, from, to) ==
  /\ Len(queue) = to - from + 1
  /\ \A k \in 1 .. Len(queue) : queue[k] = Image[from + k - 1]

Printed == Len(shown) \div 2

ShownInv ==
  /\ shown \in Seq(Nat) /\ Len(shown) <= 2 * ToRead
  /\ \A i \in 1 .. Len(shown) : shown[i] = Digits(i)

StrobesInv ==
  /\ fifo \in [bytes : Seq(AByte), w_en : Bit, w_data : AByte, r_en : Bit]
  /\ chpr \in [run : Bit, data : Nat]
  /\ chpr.run = 1 => main \in FirstStates \cup SecondStates
  /\ main # "SPI_TEST_WAIT" => fifo.w_en = 0
  /\ main \notin FirstStates => fifo.r_en = 0

RestInv ==
  /\ Filling \/ main \in {"IDLE", "SPI_TEST_START"} => fifo.bytes = <<>>
  /\ main = "IDLE" /\ tests > 0 => Len(shown) = 2 * ToRead

CollectInv ==
  main = "SPI_TEST_WAIT" =>
    /\ shown = <<>>
    /\ Holds(fifo.bytes, 1, Len(fifo.bytes)) /\ Len(fifo.bytes) <= ToRead
    /\ Stb => fifo.bytes = <<>> /\ fifo.w_en = 0
    /\ ~Stb /\ Len(fifo.bytes) < ToRead =>
         /\ Len(fifo.bytes) + fifo.w_en = Stored
         /\ fifo.w_en = 1 => fifo.w_data = Image[Len(fifo.bytes) + 1]

PrintInv ==
  /\ main = "SPI_TEST_WRITE_LOOP" =>
       Len(shown) = 2 * Printed /\ Holds(fifo.bytes, Printed + 1, ToRead) /\ Printed <= ToRead
  /\ main \in FirstStates =>
       /\ Printed < ToRead
       /\ second_half = Image[Printed + 1] % 16
       /\ Holds(fifo.bytes, Printed + 2 - fifo.r_en, ToRead)
       /\ Len(shown) = 2 * Printed + 1 - chpr.run
       /\ fifo.r_en = 1 => chpr.run = 1
       /\ chpr.run = 1 => chpr.data = FirstHalf(Image[Printed + 1])
  /\ main \in SecondStates =>
       /\ chpr.run = 1 => /\ Len(shown) = 2 * Printed + 1 /\ Printed < ToRead
                          /\ chpr.data = SecondHalf(Image[Printed + 1])
                          /\ Holds(fifo.bytes, Printed + 2, ToRead)
       /\ chpr.run = 0 => /\ Len(shown) = 2 * Printed /\ Printed <= ToRead
                          /\ Holds(fifo.bytes, Printed + 1, ToRead)

TestInv == ShownInv /\ StrobesInv /\ RestInv /\ CollectInv /\ PrintInv
-------------------------------------------------------------------------------
LEMMA ByteDigits ==
  ASSUME NEW b \in AByte
  PROVE  /\ HexDigit(b % 16) \in Nat /\ FirstHalf(b) \in Nat
         /\ SecondHalf(b) = HexDigit(b % 16) /\ SecondHalf(b) \in Nat
<1>1. b \div 16 \in 0 .. 15 /\ b % 16 \in 0 .. 15
  BY DEF AByte
<1>2. \A h \in 0 .. 15 : HexDigit(h) \in Nat
  BY DEF HexDigit
<1> QED BY <1>1, <1>2 DEF FirstHalf, SecondHalf

LEMMA DigitsOf ==
  ASSUME NEW p \in Nat
  PROVE  /\ Digits(2 * p + 1) = FirstHalf(Image[p + 1])
         /\ Digits(2 * p + 2) = SecondHalf(Image[p + 1])
<1>1. (2 * p + 1) % 2 = 1 /\ ((2 * p + 1) + 1) \div 2 = p + 1
  OBVIOUS
<1>2. (2 * p + 2) % 2 = 0 /\ (2 * p + 2) \div 2 = p + 1
  OBVIOUS
<1> QED BY <1>1, <1>2 DEF Digits

LEMMA ImageByte ==
  ASSUME NEW p \in Nat, p < ToRead
  PROVE  Image[p + 1] \in AByte
<1>1. ToRead <= N /\ ToRead \in Nat
  BY Lengths
<1> QED BY <1>1, ImageIs

\* What a printed character adds.
LEMMA ShowsNext ==
  ASSUME ShownInv, NEW c \in Nat, Len(shown) < 2 * ToRead, c = Digits(Len(shown) + 1),
         shown' = Append(shown, c)
  PROVE  ShownInv' /\ Len(shown') = Len(shown) + 1
<1>1. PICK n : n = Len(shown)
  OBVIOUS
<1>2. n \in Nat /\ ToRead \in Nat /\ shown \in Seq(Nat)
  BY <1>1, Lengths DEF ShownInv
<1>3. shown' \in Seq(Nat) /\ Len(shown') = n + 1
  BY <1>1, <1>2
<1>4. ASSUME NEW i \in 1 .. n + 1 PROVE shown'[i] = Digits(i)
  <2>1. CASE i = n + 1
    BY <1>1, <1>2, <2>1
  <2>2. CASE i # n + 1
    <3>1. i \in 1 .. n
      BY <1>2, <2>2
    <3>2. shown'[i] = shown[i]
      BY <1>1, <1>2, <3>1
    <3> QED BY <1>1, <3>1, <3>2 DEF ShownInv
  <2> QED BY <2>1, <2>2
<1> QED BY <1>1, <1>2, <1>3, <1>4 DEF ShownInv

\* The queue.
LEMMA QueueSteps ==
  ASSUME StrobesInv
  PROVE  /\ (fifo.w_en = 0 \/ ~(Len(fifo.bytes) < ToRead)) /\ fifo.r_en = 0 =>
              FifoStep = fifo.bytes
         /\ fifo.w_en = 1 /\ fifo.r_en = 0 /\ Len(fifo.bytes) < ToRead =>
              FifoStep = Append(fifo.bytes, fifo.w_data)
         /\ fifo.w_en = 0 /\ fifo.r_en = 1 /\ fifo.bytes # <<>> =>
              FifoStep = Tail(fifo.bytes)
  BY DEF StrobesInv, FifoStep

LEMMA FifoTypes ==
  ASSUME StrobesInv
  PROVE  /\ fifo.bytes \in Seq(AByte) /\ Len(fifo.bytes) \in Nat
         /\ fifo.w_en \in Bit /\ fifo.r_en \in Bit /\ fifo.w_data \in AByte
         /\ FifoStep \in Seq(AByte)
<1>1. /\ fifo.bytes \in Seq(AByte) /\ Len(fifo.bytes) \in Nat
      /\ fifo.w_en \in Bit /\ fifo.r_en \in Bit /\ fifo.w_data \in AByte
  BY DEF StrobesInv
<1>2. FifoStep \in Seq(AByte)
  <2>1. PICK q, d : q = fifo.bytes /\ d = fifo.w_data
    OBVIOUS
  <2>2. q \in Seq(AByte) /\ d \in AByte
    BY <1>1, <2>1
  <2>3. q # <<>> => Tail(q) \in Seq(AByte)
    BY <2>2
  <2>4. \A s \in Seq(AByte) : Append(s, d) \in Seq(AByte)
    BY <2>2
  <2>5. FifoStep \in {q, Tail(q), Append(q, d), Append(Tail(q), d)}
        /\ (q = <<>> => FifoStep \in {q, Append(q, d)})
    BY <2>1 DEF FifoStep
  <2> QED BY <2>2, <2>3, <2>4, <2>5
<1> QED BY <1>1, <1>2

-------------------------------------------------------------------------------
(***************************************************************************)
(* SPI_TEST's steps.                                                       *)
(***************************************************************************)
BeforeTest ==
  /\ FlashInv /\ FlashInv' /\ PartStep /\ TestInv
  /\ shown' = IF main = "SPI_TEST_START" THEN <<>>
              ELSE IF chpr.run = 1 /\ chpr'.run = 0 THEN Append(shown, chpr.data)
              ELSE shown

LEMMA NothingShown ==
  ASSUME BeforeTest, main # "SPI_TEST_START", chpr.run = 0 \/ chpr'.run = 1 \/ chpr' = chpr
  PROVE  shown' = shown /\ ShownInv'
<1>1. shown' = shown
  BY DEF BeforeTest
<1> QED BY <1>1 DEF BeforeTest, TestInv, ShownInv

LEMMA FillLeaves ==
  ASSUME BeforeTest, Filling, Fill, UNCHANGED chpr
  PROVE  TestInv'
<1>1. /\ fifo' = fifo /\ chpr' = chpr /\ tests = 0 /\ tests' = 0
      /\ main' \in {"INIT_STROBED_SPIFR", "INIT_WAIT_SPIFR", "INIT_STROBED_ROM_WR", "IDLE"}
  <2>1. /\ main' \in {"INIT_STROBED_SPIFR", "INIT_WAIT_SPIFR", "INIT_STROBED_ROM_WR", "IDLE"}
        /\ tests' = tests /\ fifo' = fifo
    BY DEF Fill, InitBegin, InitStrobed, InitTakes, InitWaits, InitWritten, testVars, Filling
  <2> QED BY <2>1 DEF BeforeTest, FlashInv, AskInv
<1>2. ShownInv'
  BY NothingShown DEF Filling
<1>3. StrobesInv'
  BY <1>1 DEF BeforeTest, TestInv, StrobesInv, Filling, FirstStates, SecondStates
<1>4. RestInv' /\ CollectInv' /\ PrintInv'
  BY <1>1 DEF BeforeTest, TestInv, RestInv, CollectInv, PrintInv, FirstStates, SecondStates
<1> QED BY <1>2, <1>3, <1>4 DEF TestInv

\* The queue's strobes and the printer after a step that neither pops nor pushes.
LEMMA QueueRests ==
  ASSUME BeforeTest, Fifo(0, 0, 0)
  PROVE  /\ fifo' = [bytes |-> FifoStep, w_en |-> 0, w_data |-> 0, r_en |-> 0]
         /\ fifo' \in [bytes : Seq(AByte), w_en : Bit, w_data : AByte, r_en : Bit]
         /\ fifo'.bytes = FifoStep /\ fifo'.w_en = 0 /\ fifo'.r_en = 0
<1>1. fifo' = [bytes |-> FifoStep, w_en |-> 0, w_data |-> 0, r_en |-> 0]
  BY DEF Fifo
<1>2. FifoStep \in Seq(AByte)
  BY FifoTypes DEF BeforeTest, TestInv
<1> QED BY <1>1, <1>2 DEF Bit, AByte

LEMMA TestedStep ==
  ASSUME BeforeTest, Tested \/ Rests, UNCHANGED chpr
  PROVE  TestInv'
<1>1. /\ main = "IDLE" /\ main' \in {"IDLE", "SPI_TEST_START"} /\ Fifo(0, 0, 0)
      /\ main' = "IDLE" => tests' = tests
  BY DEF Tested, Rests
<1>2. shown' = shown /\ ShownInv'
  BY <1>1, NothingShown
<1>3. fifo.w_en = 0 /\ fifo.r_en = 0 /\ fifo.bytes = <<>> /\ chpr \in [run : Bit, data : Nat]
      /\ chpr.run # 1
  BY <1>1 DEF BeforeTest, TestInv, StrobesInv, RestInv, FirstStates, SecondStates
<1>4. fifo'.bytes = <<>> /\ fifo'.w_en = 0 /\ fifo'.r_en = 0
      /\ fifo' \in [bytes : Seq(AByte), w_en : Bit, w_data : AByte, r_en : Bit]
  BY <1>1, <1>3, QueueSteps, QueueRests DEF BeforeTest, TestInv
<1>5. StrobesInv'
  BY <1>3, <1>4 DEF StrobesInv
<1>6. RestInv'
  BY <1>1, <1>2, <1>4 DEF BeforeTest, TestInv, RestInv
<1>7. CollectInv' /\ PrintInv'
  BY <1>1 DEF CollectInv, PrintInv, FirstStates, SecondStates
<1> QED BY <1>2, <1>5, <1>6, <1>7 DEF TestInv

LEMMA TestStartStep ==
  ASSUME BeforeTest, TestStart, UNCHANGED chpr
  PROVE  TestInv'
<1>1. main = "SPI_TEST_START" /\ main' = "SPI_TEST_WAIT" /\ Fifo(0, 0, 0)
      /\ spifr_bus' = [stb |-> 1, addr |-> FlashBase, len |-> TestLen]
  BY DEF TestStart, Ask
<1>2. shown' = <<>>
  BY <1>1 DEF BeforeTest
<1>3. ShownInv'
  <2>1. ToRead \in Nat
    BY Lengths
  <2> QED BY <1>2, <2>1 DEF ShownInv
<1>4. fifo.w_en = 0 /\ fifo.r_en = 0 /\ fifo.bytes = <<>> /\ chpr \in [run : Bit, data : Nat]
      /\ chpr.run # 1
  BY <1>1 DEF BeforeTest, TestInv, StrobesInv, RestInv, FirstStates, SecondStates
<1>5. fifo'.bytes = <<>> /\ fifo'.w_en = 0 /\ fifo'.r_en = 0
      /\ fifo' \in [bytes : Seq(AByte), w_en : Bit, w_data : AByte, r_en : Bit]
  BY <1>1, <1>4, QueueSteps, QueueRests DEF BeforeTest, TestInv
<1>6. StrobesInv'
  BY <1>4, <1>5 DEF StrobesInv
<1>7. RestInv' /\ PrintInv'
  BY <1>1 DEF RestInv, PrintInv, FirstStates, SecondStates, Filling
<1>8. CollectInv'
  <2>1. Stb'
    BY <1>1 DEF Stb
  <2>2. Holds(fifo.bytes, 1, Len(fifo.bytes))'
    BY <1>5 DEF Holds
  <2>3. ToRead \in Nat
    BY Lengths
  <2> QED BY <1>2, <1>5, <2>1, <2>2, <2>3 DEF CollectInv
<1> QED BY <1>3, <1>6, <1>7, <1>8 DEF TestInv

\* A byte handed over goes into the queue a cycle later.
LEMMA TestWaitStep ==
  ASSUME BeforeTest, TestWait, UNCHANGED chpr
  PROVE  TestInv'
<1>1. main = "SPI_TEST_WAIT" /\ spifr_bus' = [spifr_bus EXCEPT !.stb = 0]
  BY DEF TestWait, Unstrobed
<1>2. ~Stb' /\ Length' = Length
  BY <1>1 DEF BeforeTest, FlashInv, TypeInv, UserType, Stb, Length
<1>3. shown' = shown /\ ShownInv'
  BY <1>1, NothingShown
<1>4. PICK L, w : L = Len(fifo.bytes) /\ w = fifo.w_en
  OBVIOUS
<1>5. /\ shown = <<>> /\ Holds(fifo.bytes, 1, L) /\ L <= ToRead /\ L \in Nat /\ w \in Bit
      /\ fifo.bytes \in Seq(AByte) /\ fifo.w_data \in AByte
      /\ fifo.r_en = 0 /\ chpr \in [run : Bit, data : Nat] /\ chpr.run # 1
      /\ Stb => fifo.bytes = <<>> /\ w = 0
      /\ ~Stb /\ L < ToRead => /\ L + w = Stored
                               /\ w = 1 => fifo.w_data = Image[L + 1]
  <2>1. CollectInv /\ StrobesInv
    BY DEF BeforeTest, TestInv
  <2>2. /\ fifo.r_en = 0 /\ chpr \in [run : Bit, data : Nat] /\ chpr.run # 1
    BY <1>1, <2>1 DEF StrobesInv, FirstStates, SecondStates
  <2> QED BY <1>1, <1>4, <2>1, <2>2, FifoTypes DEF CollectInv
<1>6. ToRead \in Nat \ {0}
  BY Lengths
<1>7. CASE L = ToRead
  <2>1. main' = "SPI_TEST_WRITE_LOOP" /\ Fifo(0, 0, 0)
    BY <1>4, <1>7 DEF TestWait
  <2>2. FifoStep = fifo.bytes
    BY <1>4, <1>5, <1>6, <1>7, QueueSteps DEF BeforeTest, TestInv
  <2>3. fifo'.bytes = fifo.bytes /\ fifo'.w_en = 0 /\ fifo'.r_en = 0
        /\ fifo' \in [bytes : Seq(AByte), w_en : Bit, w_data : AByte, r_en : Bit]
    BY <2>1, <2>2, QueueRests
  <2>4. StrobesInv'
    BY <1>5, <2>3 DEF StrobesInv
  <2>5. RestInv' /\ CollectInv'
    BY <2>1 DEF RestInv, CollectInv, Filling
  <2>6. Len(shown') = 0 /\ Printed' = 0
    BY <1>3, <1>5 DEF Printed
  <2>7. Holds(fifo.bytes, Printed + 1, ToRead)'
    <3>1. /\ Len(fifo'.bytes) = ToRead
          /\ \A k \in 1 .. Len(fifo'.bytes) : fifo'.bytes[k] = Image[k]
      <4>1. \A k \in 1 .. L : fifo.bytes[k] = Image[k]
        BY <1>4, <1>5 DEF Holds
      <4> QED BY <1>4, <1>7, <2>3, <4>1
    <3> QED BY <1>6, <2>6, <3>1 DEF Holds
  <2>8. PrintInv'
    BY <1>6, <2>1, <2>6, <2>7 DEF PrintInv, FirstStates, SecondStates
  <2> QED BY <1>3, <2>4, <2>5, <2>8 DEF TestInv
<1>8. CASE L # ToRead
  <2>1. /\ main' = "SPI_TEST_WAIT" /\ L < ToRead
        /\ IF SpifrValid = 1 THEN Fifo(1, SpifrData, 0) ELSE Fifo(0, 0, 0)
    BY <1>1, <1>4, <1>5, <1>6, <1>8 DEF TestWait
  <2>2. SpifrValid \in Bit
    BY DEF BeforeTest, FlashInv, TypeInv, ReaderType, BlackboxType, SpifrValid
  <2>3. SpifrValid = 1 => Handed \in 1 .. N /\ SpifrData = Image[Handed] /\ SpifrData \in AByte
    <3>1. Length \in 1 .. N
      BY <1>1, Lengths DEF BeforeTest, FlashInv, AskInv
    <3>2. Handed \in 0 .. Length
      BY HandedIs DEF BeforeTest, FlashInv
    <3>3. SpifrValid = 1 => Handed \in 1 .. N /\ SpifrData = Image[Handed]
      BY <3>1, <3>2, ImageIs DEF BeforeTest, FlashInv, StreamInv
    <3> QED BY <3>3, ImageIs
  <2>4. /\ fifo'.bytes = FifoStep /\ fifo'.w_en = SpifrValid /\ fifo'.r_en = 0
        /\ SpifrValid = 1 => fifo'.w_data = SpifrData
        /\ fifo' \in [bytes : Seq(AByte), w_en : Bit, w_data : AByte, r_en : Bit]
    <3>1. FifoStep \in Seq(AByte)
      BY FifoTypes DEF BeforeTest, TestInv
    <3>2. CASE SpifrValid = 1
      <4>1. fifo' = [bytes |-> FifoStep, w_en |-> 1, w_data |-> SpifrData, r_en |-> 0]
        BY <2>1, <3>2 DEF Fifo
      <4> QED BY <2>3, <3>1, <3>2, <4>1 DEF Bit
    <3>3. CASE SpifrValid = 0
      BY <2>1, <3>3, QueueRests
    <3> QED BY <2>2, <3>2, <3>3 DEF Bit
  <2>5. StrobesInv'
    BY <1>5, <2>1, <2>4 DEF StrobesInv
  <2>6. RestInv' /\ PrintInv'
    BY <2>1 DEF RestInv, PrintInv, FirstStates, SecondStates, Filling
  <2>7. CASE Stb
    <3>1. SpifrBusy = 0 /\ SpifrBusy' = 1 /\ SpifrValid' = 0 /\ SpifrValid = 0
      <4>1. SpifrBusy = 0 /\ SpifrBusy' = 1 /\ SpifrValid' = 0
        BY <2>7, Begins DEF BeforeTest
      <4> QED BY <4>1 DEF BeforeTest, FlashInv, StreamInv
    <3>2. Stored' = 0
      <4>1. todo' = Requested
        BY <2>7, <3>1 DEF BeforeTest, PartStep, TodoStep, Stb
      <4>2. Length \in 1 .. N
        BY <1>1, Lengths DEF BeforeTest, FlashInv, AskInv
      <4>3. Len(todo') = Length
        BY <4>1, <4>2, RestBegins DEF BeforeTest, FlashInv, TypeInv
      <4> QED BY <1>2, <3>1, <4>2, <4>3, Lengths DEF Stored, Handed
    <3>3. FifoStep = <<>>
      BY <1>4, <1>5, <2>7, QueueSteps DEF BeforeTest, TestInv
    <3>4. Holds(fifo.bytes, 1, Len(fifo.bytes))'
      BY <2>4, <3>3 DEF Holds
    <3>5. CollectInv'
      BY <1>2, <1>3, <1>5, <1>6, <2>4, <3>1, <3>2, <3>3, <3>4 DEF CollectInv
    <3> QED BY <1>3, <2>5, <2>6, <3>5 DEF TestInv
  <2>8. CASE ~Stb
    <3>1. Stored' = Handed /\ Handed' = Handed + SpifrValid' /\ Handed = Stored + SpifrValid
      <4>1. Stored' = Handed /\ Handed' = Handed + SpifrValid'
        BY <1>2, <2>8, Handing DEF BeforeTest, FlashInv
      <4>2. Handed \in Nat
        BY HandedIs DEF BeforeTest, FlashInv
      <4> QED BY <2>2, <4>1, <4>2 DEF Stored, Bit
    <3>2. L + w = Stored /\ Stored \in Nat
      BY <1>5, <2>1, <2>8 DEF Bit
    <3>3. /\ Len(fifo'.bytes) = L + w
          /\ \A k \in 1 .. L + w : fifo'.bytes[k] = Image[k]
      <4>1. \A k \in 1 .. L : fifo.bytes[k] = Image[k]
        BY <1>4, <1>5 DEF Holds
      <4>2. CASE w = 0
        <5>1. fifo'.bytes = fifo.bytes
          BY <1>4, <1>5, <2>4, <4>2, QueueSteps DEF BeforeTest, TestInv
        <5> QED BY <1>4, <1>5, <4>1, <4>2, <5>1
      <4>3. CASE w = 1
        <5>1. PICK q, d : q = fifo.bytes /\ d = fifo.w_data
          OBVIOUS
        <5>2. fifo'.bytes = Append(q, d)
          BY <1>4, <1>5, <2>1, <2>4, <4>3, <5>1, QueueSteps DEF BeforeTest, TestInv
        <5>3. q \in Seq(AByte) /\ Len(q) = L /\ d = Image[L + 1]
          BY <1>4, <1>5, <2>1, <2>8, <4>3, <5>1
        <5>4. Len(Append(q, d)) = L + 1 /\ Append(q, d)[L + 1] = Image[L + 1]
          BY <1>5, <5>3
        <5>5. \A k \in 1 .. L : Append(q, d)[k] = Image[k]
          BY <1>5, <4>1, <5>1, <5>3
        <5> QED BY <1>5, <4>3, <5>2, <5>4, <5>5
      <4> QED BY <1>5, <4>2, <4>3 DEF Bit
    <3>4. Holds(fifo.bytes, 1, Len(fifo.bytes))'
      BY <1>5, <3>2, <3>3 DEF Holds
    <3>5. L + w <= ToRead
      BY <1>5, <1>6, <2>1 DEF Bit
    <3>6. Len(fifo'.bytes) + fifo'.w_en = Stored'
      BY <2>4, <3>1, <3>2, <3>3
    <3>7. fifo'.w_en = 1 => fifo'.w_data = Image[Len(fifo'.bytes) + 1]
      BY <2>3, <2>4, <3>1, <3>2, <3>3
    <3>8. CollectInv'
      BY <1>2, <1>3, <1>5, <3>3, <3>4, <3>5, <3>6, <3>7 DEF CollectInv
    <3> QED BY <1>3, <2>5, <2>6, <3>8 DEF TestInv
  <2> QED BY <2>7, <2>8
<1> QED BY <1>7, <1>8

LEMMA Halving ==
  ASSUME NEW p \in Nat
  PROVE  (2 * p) \div 2 = p /\ (2 * p + 1) \div 2 = p
  OBVIOUS

LEMMA Popped ==
  ASSUME NEW q \in Seq(AByte), q # <<>>, NEW from \in Nat, NEW to \in Nat,
         Holds(q, from, to)
  PROVE  Holds(Tail(q), from + 1, to) /\ q[1] = Image[from] /\ from <= to
<1>1. PICK n \in Nat : n = Len(q)
  BY LenProperties
<1>2. n # 0 /\ n = to - from + 1 /\ \A k \in 1 .. n : q[k] = Image[from + k - 1]
  BY <1>1, EmptySeq DEF Holds
<1>3. Len(Tail(q)) = n - 1 /\ \A k \in 1 .. n - 1 : Tail(q)[k] = q[k + 1]
  <2>1. Len(Tail(q)) = Len(q) - 1 /\ \A k \in 1 .. Len(Tail(q)) : Tail(q)[k] = q[k + 1]
    BY HeadTailProperties
  <2> QED BY <1>1, <2>1, Zenon
<1>4. ASSUME NEW k \in 1 .. n - 1 PROVE Tail(q)[k] = Image[(from + 1) + k - 1]
  <2>1. k + 1 \in 1 .. n /\ from + (k + 1) - 1 = (from + 1) + k - 1
    BY <1>2
  <2> QED BY <1>2, <1>3, <2>1
<1>5. q[1] = Image[from]
  <2>1. 1 \in 1 .. n /\ from + 1 - 1 = from
    BY <1>2
  <2> QED BY <1>2, <2>1
<1>6. Len(Tail(q)) = to - (from + 1) + 1
  BY <1>2, <1>3
<1>7. from <= to
  BY <1>2
<1> QED BY <1>3, <1>4, <1>5, <1>6, <1>7 DEF Holds

LEMMA TestWriteLoopStep ==
  ASSUME BeforeTest, TestWriteLoop
  PROVE  TestInv'
<1>1. /\ main = "SPI_TEST_WRITE_LOOP" /\ main' = "SPI_TEST_STROBED_R_EN_CHPR_RUNNING"
      /\ fifo.bytes # <<>> /\ second_half' = fifo.bytes[1] % 16
      /\ fifo' = [bytes |-> FifoStep, w_en |-> 0, w_data |-> 0, r_en |-> 1]
      /\ chpr' = [run |-> 1, data |-> FirstHalf(fifo.bytes[1])]
  BY DEF TestWriteLoop, Fifo, Show
<1>2. shown' = shown /\ ShownInv'
  BY <1>1, NothingShown
<1>3. PICK p : p = Printed
  OBVIOUS
<1>4. /\ p \in Nat /\ Len(shown) = 2 * p /\ Holds(fifo.bytes, p + 1, ToRead)
      /\ fifo.w_en = 0 /\ fifo.r_en = 0 /\ fifo.bytes \in Seq(AByte) /\ ToRead \in Nat
  <2>1. PrintInv /\ StrobesInv /\ ShownInv
    BY DEF BeforeTest, TestInv
  <2>2. Len(shown) \in Nat
    BY <2>1 DEF ShownInv
  <2>3. p \in Nat
    BY <1>3, <2>2 DEF Printed
  <2>4. Len(shown) = 2 * p /\ Holds(fifo.bytes, p + 1, ToRead)
    BY <1>1, <1>3, <2>1 DEF PrintInv
  <2> QED BY <1>1, <2>1, <2>3, <2>4, Lengths, FifoTypes DEF StrobesInv, FirstStates
<1>5. fifo.bytes[1] = Image[p + 1] /\ p < ToRead
  BY <1>1, <1>4, Popped
<1>6. FifoStep = fifo.bytes
  BY <1>4, QueueSteps DEF BeforeTest, TestInv
<1>7. StrobesInv'
  <2>1. FirstHalf(fifo.bytes[1]) \in Nat
    BY <1>4, <1>5, ImageByte, ByteDigits
  <2>2. chpr' \in [run : Bit, data : Nat]
    BY <1>1, <2>1 DEF Bit
  <2>3. fifo' \in [bytes : Seq(AByte), w_en : Bit, w_data : AByte, r_en : Bit]
    BY <1>1, <1>4, <1>6 DEF Bit, AByte
  <2> QED BY <1>1, <2>2, <2>3 DEF StrobesInv, FirstStates
<1>8. RestInv' /\ CollectInv'
  BY <1>1 DEF RestInv, CollectInv, Filling
<1>9. PrintInv'
  <2>1. Printed' = p
    BY <1>2, <1>3 DEF Printed
  <2>2. fifo'.bytes = fifo.bytes /\ fifo'.r_en = 1 /\ p + 2 - fifo'.r_en = p + 1
    BY <1>1, <1>4, <1>6
  <2>3. chpr'.run = 1 /\ chpr'.data = FirstHalf(Image[p + 1]) /\ 2 * p + 1 - chpr'.run = 2 * p
    BY <1>1, <1>4, <1>5
  <2> QED BY <1>1, <1>2, <1>4, <1>5, <2>1, <2>2, <2>3 DEF PrintInv, FirstStates, SecondStates
<1> QED BY <1>2, <1>7, <1>8, <1>9 DEF TestInv

LEMMA TestDoneStep ==
  ASSUME BeforeTest, TestDone
  PROVE  TestInv'
<1>1. /\ main = "SPI_TEST_WRITE_LOOP" /\ main' = "IDLE" /\ fifo.bytes = <<>>
      /\ Fifo(0, 0, 0) /\ chpr' = chpr
  BY DEF TestDone
<1>2. shown' = shown /\ ShownInv'
  BY <1>1, NothingShown
<1>3. fifo.w_en = 0 /\ fifo.r_en = 0 /\ chpr \in [run : Bit, data : Nat] /\ chpr.run # 1
  BY <1>1 DEF BeforeTest, TestInv, StrobesInv, FirstStates, SecondStates
<1>4. fifo'.bytes = <<>> /\ fifo'.w_en = 0 /\ fifo'.r_en = 0
      /\ fifo' \in [bytes : Seq(AByte), w_en : Bit, w_data : AByte, r_en : Bit]
  BY <1>1, <1>3, QueueSteps, QueueRests DEF BeforeTest, TestInv
<1>5. Len(shown) = 2 * ToRead
  <2>1. Len(shown) = 2 * Printed /\ Holds(fifo.bytes, Printed + 1, ToRead)
    BY <1>1 DEF BeforeTest, TestInv, PrintInv
  <2>2. PICK p : p = Printed
    OBVIOUS
  <2>3. p \in Nat
    BY <2>2 DEF BeforeTest, TestInv, ShownInv, Printed
  <2>4. 0 = ToRead - (p + 1) + 1
    BY <1>1, <2>1, <2>2, EmptySeq DEF Holds
  <2> QED BY <2>1, <2>2, <2>3, <2>4, Lengths
<1>6. StrobesInv'
  BY <1>1, <1>3, <1>4 DEF StrobesInv, FirstStates, SecondStates
<1>7. RestInv' /\ CollectInv' /\ PrintInv'
  BY <1>1, <1>2, <1>4, <1>5, Lengths
     DEF RestInv, CollectInv, PrintInv, FirstStates, SecondStates
<1> QED BY <1>2, <1>6, <1>7 DEF TestInv

\* What is known while a character is printed.
LEMMA WhilePrinting ==
  ASSUME BeforeTest, main \in FirstStates \cup SecondStates, NEW p, p = Printed
  PROVE  /\ p \in Nat /\ ToRead \in Nat /\ Len(shown) \in Nat
         /\ fifo.w_en = 0 /\ fifo.r_en \in Bit /\ fifo.bytes \in Seq(AByte)
         /\ chpr \in [run : Bit, data : Nat] /\ chpr.run \in Bit
         /\ main \in SecondStates => fifo.r_en = 0
         /\ RestInv' \/ main' \notin FirstStates \cup SecondStates \cup {"SPI_TEST_WRITE_LOOP"}
         /\ CollectInv' \/ main' \notin FirstStates \cup SecondStates \cup {"SPI_TEST_WRITE_LOOP"}
<1>1. PrintInv /\ StrobesInv /\ ShownInv
  BY DEF BeforeTest, TestInv
<1>2. Len(shown) \in Nat /\ p \in Nat
  BY <1>1 DEF ShownInv, Printed
<1>3. /\ fifo.w_en = 0 /\ fifo.r_en \in Bit /\ fifo.bytes \in Seq(AByte)
      /\ main \in SecondStates => fifo.r_en = 0
  BY <1>1, FifoTypes DEF StrobesInv, FirstStates, SecondStates
<1>4. chpr \in [run : Bit, data : Nat]
  BY <1>1 DEF StrobesInv
<1>5. ASSUME main' \in FirstStates \cup SecondStates \cup {"SPI_TEST_WRITE_LOOP"}
      PROVE  RestInv' /\ CollectInv'
  BY <1>5 DEF RestInv, CollectInv, Filling, FirstStates, SecondStates
<1> QED BY <1>2, <1>3, <1>4, <1>5, Lengths

LEMMA TestFirstHalfStep ==
  ASSUME BeforeTest, TestFirstHalf
  PROVE  TestInv'
<1>1. /\ main = "SPI_TEST_STROBED_R_EN_CHPR_RUNNING"
      /\ main' = "SPI_TEST_SECOND_HALF_CHPR_RUNNING"
      /\ chpr.run = 0 /\ Fifo(0, 0, 0)
      /\ chpr' = [run |-> 1, data |-> HexDigit(second_half)]
  BY DEF TestFirstHalf, Show
<1>2. shown' = shown /\ ShownInv'
  BY <1>1, NothingShown
<1>3. PICK p : p = Printed
  OBVIOUS
<1>4. /\ p \in Nat /\ ToRead \in Nat /\ fifo.w_en = 0 /\ fifo.bytes \in Seq(AByte)
      /\ RestInv' /\ CollectInv' /\ fifo.r_en \in Bit
  BY <1>1, <1>3, WhilePrinting DEF FirstStates, SecondStates
<1>5. /\ p < ToRead /\ second_half = Image[p + 1] % 16
      /\ fifo.r_en = 0 /\ Holds(fifo.bytes, p + 2, ToRead) /\ Len(shown) = 2 * p + 1
  <2>1. /\ p < ToRead /\ second_half = Image[p + 1] % 16
        /\ Holds(fifo.bytes, p + 2 - fifo.r_en, ToRead)
        /\ Len(shown) = 2 * p + 1 - chpr.run /\ (fifo.r_en = 1 => chpr.run = 1)
    BY <1>1, <1>3 DEF BeforeTest, TestInv, PrintInv, FirstStates
  <2>2. fifo.r_en = 0
    BY <1>1, <1>4, <2>1 DEF Bit
  <2> QED BY <1>1, <1>4, <2>1, <2>2
<1>6. FifoStep = fifo.bytes
  BY <1>4, <1>5, QueueSteps DEF BeforeTest, TestInv
<1>7. fifo'.bytes = fifo.bytes /\ fifo'.w_en = 0 /\ fifo'.r_en = 0
      /\ fifo' \in [bytes : Seq(AByte), w_en : Bit, w_data : AByte, r_en : Bit]
  BY <1>1, <1>6, QueueRests
<1>8. chpr'.run = 1 /\ chpr'.data = SecondHalf(Image[p + 1]) /\ chpr' \in [run : Bit, data : Nat]
  <2>1. HexDigit(second_half) = SecondHalf(Image[p + 1]) /\ SecondHalf(Image[p + 1]) \in Nat
    BY <1>4, <1>5, ImageByte, ByteDigits
  <2> QED BY <1>1, <2>1 DEF Bit
<1>9. StrobesInv'
  BY <1>1, <1>7, <1>8 DEF StrobesInv, SecondStates
<1>10. PrintInv'
  <2>1. Printed' = p
    BY <1>2, <1>3 DEF Printed
  <2> QED BY <1>1, <1>2, <1>5, <1>7, <1>8, <2>1 DEF PrintInv, FirstStates, SecondStates
<1> QED BY <1>2, <1>4, <1>9, <1>10 DEF TestInv

LEMMA TestSecondHalfStep ==
  ASSUME BeforeTest, TestSecondHalf
  PROVE  TestInv'
<1>1. /\ main = "SPI_TEST_SECOND_HALF_CHPR_RUNNING" /\ main' = "SPI_TEST_WRITE_LOOP"
      /\ chpr.run = 0 /\ Fifo(0, 0, 0) /\ chpr' = chpr
  BY DEF TestSecondHalf
<1>2. shown' = shown /\ ShownInv'
  BY <1>1, NothingShown
<1>3. PICK p : p = Printed
  OBVIOUS
<1>4. /\ p \in Nat /\ fifo.w_en = 0 /\ fifo.r_en = 0 /\ chpr \in [run : Bit, data : Nat]
      /\ RestInv' /\ CollectInv'
  BY <1>1, <1>3, WhilePrinting DEF FirstStates, SecondStates
<1>5. Len(shown) = 2 * p /\ p <= ToRead /\ Holds(fifo.bytes, p + 1, ToRead)
  BY <1>1, <1>3 DEF BeforeTest, TestInv, PrintInv, SecondStates
<1>6. fifo'.bytes = fifo.bytes /\ fifo'.w_en = 0 /\ fifo'.r_en = 0
      /\ fifo' \in [bytes : Seq(AByte), w_en : Bit, w_data : AByte, r_en : Bit]
  BY <1>1, <1>4, QueueSteps, QueueRests DEF BeforeTest, TestInv
<1>7. StrobesInv'
  BY <1>1, <1>4, <1>6 DEF StrobesInv
<1>8. PrintInv'
  <2>1. Printed' = p
    BY <1>2, <1>3 DEF Printed
  <2> QED BY <1>1, <1>2, <1>5, <1>6, <2>1 DEF PrintInv, FirstStates, SecondStates
<1> QED BY <1>2, <1>4, <1>7, <1>8 DEF TestInv

\* The byte being printed leaves the queue in its first cycle.
LEMMA PrintingStep ==
  ASSUME BeforeTest, NEW done \in BOOLEAN, Printing(done)
  PROVE  TestInv'
<1>1. /\ main \in FirstStates \cup SecondStates /\ main' = main
      /\ chpr.run = 1 /\ Fifo(0, 0, 0) /\ second_half' = second_half
      /\ chpr' = IF done THEN [run |-> 0, data |-> 0] ELSE chpr
  BY DEF Printing, FirstStates, SecondStates
<1>2. PICK p : p = Printed
  OBVIOUS
<1>3. /\ p \in Nat /\ ToRead \in Nat /\ fifo.w_en = 0 /\ fifo.bytes \in Seq(AByte)
      /\ RestInv' /\ CollectInv' /\ chpr \in [run : Bit, data : Nat] /\ fifo.r_en \in Bit
      /\ main \in SecondStates => fifo.r_en = 0
  BY <1>1, <1>2, WhilePrinting
<1>4. p < ToRead
  BY <1>1, <1>2 DEF BeforeTest, TestInv, PrintInv
<1>5. \/ /\ main \in FirstStates
         /\ Holds(fifo.bytes, p + 2 - fifo.r_en, ToRead)
         /\ second_half = Image[p + 1] % 16 /\ Len(shown) = 2 * p
         /\ chpr.data = FirstHalf(Image[p + 1])
      \/ /\ main \in SecondStates
         /\ Holds(fifo.bytes, p + 2, ToRead)
         /\ Len(shown) = 2 * p + 1
         /\ chpr.data = SecondHalf(Image[p + 1])
  <2>1. PrintInv
    BY DEF BeforeTest, TestInv
  <2>2. CASE main \in FirstStates
    <3>1. Len(shown) = 2 * p + 1 - chpr.run
      BY <1>2, <2>1, <2>2 DEF PrintInv
    <3> QED BY <1>1, <1>2, <1>3, <2>1, <2>2, <3>1 DEF PrintInv
  <2>3. CASE main \in SecondStates
    BY <1>1, <1>2, <2>1, <2>3 DEF PrintInv
  <2> QED BY <1>1, <2>2, <2>3
<1>6. Holds(FifoStep, p + 2, ToRead)
  <2>1. CASE fifo.r_en = 0
    <3>1. FifoStep = fifo.bytes
      BY <1>3, <2>1, QueueSteps DEF BeforeTest, TestInv
    <3>2. p + 2 - 0 = p + 2
      BY <1>3
    <3> QED BY <1>5, <2>1, <3>1, <3>2
  <2>2. CASE fifo.r_en = 1
    <3>1. Holds(fifo.bytes, p + 1, ToRead)
      <4>1. p + 2 - 1 = p + 1 /\ main \notin SecondStates
        BY <1>3, <2>2
      <4> QED BY <1>5, <2>2, <4>1
    <3>2. fifo.bytes # <<>>
      BY <1>3, <1>4, <3>1, EmptySeq DEF Holds
    <3>3. FifoStep = Tail(fifo.bytes)
      BY <1>3, <2>2, <3>2, QueueSteps DEF BeforeTest, TestInv
    <3>4. (p + 1) + 1 = p + 2 /\ p + 1 \in Nat
      BY <1>3
    <3> QED BY <1>3, <3>1, <3>2, <3>3, <3>4, Popped
  <2> QED BY <1>3, <2>1, <2>2 DEF Bit
<1>7. fifo'.bytes = FifoStep /\ fifo'.w_en = 0 /\ fifo'.r_en = 0
      /\ fifo' \in [bytes : Seq(AByte), w_en : Bit, w_data : AByte, r_en : Bit]
  BY <1>1, QueueRests
<1>8. StrobesInv'
  <2>1. chpr' \in [run : Bit, data : Nat]
    BY <1>1, <1>3 DEF Bit
  <2> QED BY <1>1, <1>7, <2>1 DEF StrobesInv
<1>9. CASE ~done
  <2>1. chpr' = chpr /\ shown' = shown /\ ShownInv'
    <3>1. main # "SPI_TEST_START"
      BY <1>1 DEF FirstStates, SecondStates
    <3> QED BY <1>1, <1>9, <3>1, NothingShown
  <2>2. Printed' = p
    BY <1>2, <2>1 DEF Printed
  <2>3. p + 2 - 0 = p + 2 /\ 2 * p + 1 - 1 = 2 * p
    BY <1>3
  <2>4. PrintInv'
    BY <1>1, <1>4, <1>5, <1>6, <1>7, <2>1, <2>2, <2>3 DEF PrintInv, FirstStates, SecondStates
  <2> QED BY <1>3, <1>8, <2>1, <2>4 DEF TestInv
<1>10. CASE done
  <2>1. PICK n : n = Len(shown)
    OBVIOUS
  <2>2. chpr'.run = 0 /\ shown' = Append(shown, chpr.data)
    <3>1. main # "SPI_TEST_START"
      BY <1>1 DEF FirstStates, SecondStates
    <3> QED BY <1>1, <1>10, <3>1 DEF BeforeTest
  <2>3. /\ chpr.data = Digits(n + 1) /\ n < 2 * ToRead /\ chpr.data \in Nat
        /\ n \in Nat
    <3>1. n + 1 = 2 * p + 1 \/ n + 1 = 2 * p + 2
      BY <1>3, <1>5, <2>1
    <3>2. n < 2 * ToRead /\ n \in Nat
      BY <1>3, <1>4, <1>5, <2>1
    <3>3. chpr.data = Digits(n + 1)
      <4>1. /\ Digits(2 * p + 1) = FirstHalf(Image[p + 1])
            /\ Digits(2 * p + 2) = SecondHalf(Image[p + 1])
        BY <1>3, DigitsOf
      <4>2. (2 * p + 1) + 1 = 2 * p + 2
        BY <1>3
      <4> QED BY <1>5, <2>1, <4>1, <4>2
    <3> QED BY <1>3, <3>2, <3>3
  <2>4. ShownInv' /\ Len(shown') = n + 1
    BY <2>1, <2>2, <2>3, ShowsNext DEF BeforeTest, TestInv
  <2>5. CASE main \in FirstStates
    <3>1. n + 1 = 2 * p + 1
      BY <1>3, <1>5, <2>1, <2>5 DEF FirstStates, SecondStates
    <3>2. Printed' = p
      BY <1>3, <2>4, <3>1, Halving DEF Printed
    <3>3. p + 2 - 0 = p + 2 /\ 2 * p + 1 - 0 = 2 * p + 1
      BY <1>3
    <3>4. second_half' = Image[p + 1] % 16
      BY <1>1, <1>5, <2>5 DEF FirstStates, SecondStates
    <3>5. PrintInv'
      BY <1>1, <1>4, <1>6, <1>7, <2>2, <2>4, <2>5, <3>1, <3>2, <3>3, <3>4
         DEF PrintInv, FirstStates, SecondStates
    <3> QED BY <1>3, <1>8, <2>4, <3>5 DEF TestInv
  <2>6. CASE main \in SecondStates
    <3>1. n + 1 = 2 * (p + 1)
      BY <1>3, <1>5, <2>1, <2>6 DEF FirstStates, SecondStates
    <3>2. Printed' = p + 1
      BY <1>3, <2>4, <3>1, Halving DEF Printed
    <3>3. (p + 1) + 1 = p + 2 /\ p + 1 <= ToRead
      BY <1>3, <1>4
    <3>4. PrintInv'
      BY <1>1, <1>6, <1>7, <2>2, <2>4, <2>6, <3>1, <3>2, <3>3
         DEF PrintInv, FirstStates, SecondStates
    <3> QED BY <1>3, <1>8, <2>4, <3>4 DEF TestInv
  <2> QED BY <1>1, <2>5, <2>6
<1> QED BY <1>9, <1>10

-------------------------------------------------------------------------------
LEMMA NextTestInv == FlashInv /\ TestInv /\ [Next]_vars => TestInv'
<1> SUFFICES ASSUME FlashInv, TestInv, [Next]_vars PROVE TestInv'
  OBVIOUS
<1>1. CASE UNCHANGED vars
  <2> USE <1>1 DEF vars, fillVars, testVars
  <2>1. Filling' = Filling /\ Stb' = Stb /\ Printed' = Printed /\ ShownInv' = ShownInv
    BY DEF Filling, Stb, Printed, ShownInv
  <2>2. Stored' = Stored
    BY DEF Stored, Handed, Length, SpifrValid, spiVars
  <2>3. StrobesInv' /\ RestInv' /\ CollectInv'
    BY <2>1, <2>2 DEF TestInv, StrobesInv, RestInv, CollectInv
  <2>4. PrintInv'
    BY <2>1 DEF TestInv, PrintInv
  <2> QED BY <2>1, <2>3, <2>4 DEF TestInv
<1>2. CASE Next
  <2>1. PICK addr \in 0 .. N - 1, done \in BOOLEAN : Cycle(addr, done)
    BY <1>2 DEF Next, N
  <2>2. BeforeTest
    BY <2>1, Cycles DEF BeforeTest, Cycle, History
  <2>3. CASE Filling /\ Fill /\ UNCHANGED chpr
    BY <2>2, <2>3, FillLeaves
  <2>4. CASE TestStep(done)
    BY <2>2, <2>4, TestedStep, TestStartStep, TestWaitStep, TestWriteLoopStep,
       TestDoneStep, TestFirstHalfStep, TestSecondHalfStep, PrintingStep DEF TestStep
  <2> QED BY <2>1, <2>3, <2>4 DEF Cycle
<1> QED BY <1>1, <1>2

LEMMA InitTestInv == Init => TestInv
<1> SUFFICES ASSUME Init PROVE TestInv
  OBVIOUS
<1>1. ToRead \in Nat
  BY Lengths
<1>2. ShownInv
  BY <1>1 DEF Init, ShownInv
<1>3. StrobesInv
  BY DEF Init, StrobesInv, Bit, AByte
<1>4. RestInv /\ CollectInv /\ PrintInv
  BY DEF Init, RestInv, CollectInv, PrintInv, FirstStates, SecondStates
<1> QED BY <1>2, <1>3, <1>4 DEF TestInv

\* However many bytes SPI_TEST prints of however long an image, and however long
\* the printer works on each: what it has printed are the digits of the flash's
\* first bytes, and at the end of a test all of them.
THEOREM TestIsShown == Spec => []TestShowsFlash
<1>1. Spec => [](FlashInv /\ TestInv)
  <2>1. Init => TestInv
    BY InitTestInv
  <2>2. FlashInv /\ TestInv /\ [Next]_vars => TestInv'
    BY NextTestInv
  <2> QED BY <2>1, <2>2, FlashInvariant, PTL DEF Spec
<1>2. TestInv => TestShowsFlash
  BY DEF TestInv, ShownInv, RestInv, TestShowsFlash
<1> QED BY <1>1, <1>2, PTL
===============================================================================
