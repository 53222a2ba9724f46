------------------------------- MODULE SPIFlash -------------------------------
(***************************************************************************)
(* The SPI flash reader, sh1107/rtl/spi/__init__.py, on the wires of the   *)
(* simulated flash chip of vsh/spifr_whitebox.cc; and the black box of     *)
(* vsh/spifr_blackbox.cc that a fast simulation puts in the reader's       *)
(* place.  A step is one clock cycle: the chip shifts on the system clock, *)
(* as the reader does.  A register that nothing reads any more is zero.    *)
(***************************************************************************)
EXTENDS Naturals, Sequences

CONSTANTS
  Tres1TdpCycles,   \* TRES1_TDP_CYCLES
  FlashBase,        \* platform.flash_rom_base
  Image             \* the bytes of the flash from there on

ASSUME Tres1TdpAssumption == Tres1TdpCycles \in Nat \ {0}
\* addr has 24 bits.
ASSUME FlashAssumption ==
  FlashBase \in Nat /\ FlashBase < 256 * 256 * 256 /\ Image \in Seq(0 .. 255) /\ Image # <<>>

VARIABLES
  part,      \* "reader" or "blackbox": which of them is elaborated
  reader,    \* the reader's FSM and registers
  chip,      \* the simulated flash, and its output cipo
  blackbox   \* the black box, and its outputs

spiVars == <<part, reader, chip, blackbox>>

\* A number as bits, the most significant first, and back.
BitsOf(n, width) ==
  LET half[k \in 0 .. width] == IF k = 0 THEN n ELSE half[k - 1] \div 2
  IN  [i \in 1 .. width |-> half[width - i] % 2]

NumberOf(bits) ==
  LET number[i \in 0 .. Len(bits)] ==
        IF i = 0 THEN 0 ELSE 2 * number[i - 1] + bits[i]
  IN  number[Len(bits)]

Shifted(sr, bit) == Append(Tail(sr), bit)
Zeroes == [i \in 1 .. 32 |-> 0]

SPIInit ==
  /\ part \in {"reader", "blackbox"}
  /\ reader = [fsm |-> "IDLE", cs |-> 0, sr |-> Zeroes, snd |-> 0,
               rcv_bit |-> 0, rcv_byte |-> 0, valid |-> 0]
  /\ chip = [state |-> "IDLE", sr |-> Zeroes, edges |-> 0, addr |-> 0,
             bit |-> 0, cipo |-> 0]
  /\ blackbox = [state |-> "IDLE", address |-> 0, remaining |-> 0,
                 countdown |-> 0, busy |-> 0, data |-> 0, valid |-> 0]

-------------------------------------------------------------------------------
(***************************************************************************)
(* The reader.  bus is what its user puts on stb, addr and len.            *)
(***************************************************************************)
In(state) == reader.fsm = state

\* valid falls in every cycle in which nothing raises it.
Become(r) == reader' = r
Lowered == [reader EXCEPT !.valid = 0]

RdrIdle(bus) ==
  /\ In("IDLE")
  /\ Become(IF bus.stb = 1
            THEN [Lowered EXCEPT !.fsm = "POWER_DOWN_RELEASE", !.cs = 1,
                                 !.sr = BitsOf(171, 8) \o SubSeq(Zeroes, 1, 24), !.snd = 31]
            ELSE Lowered)

\* 0xAB wakes the flash up; cs then falls for TRES1.
RdrRelease ==
  /\ In("POWER_DOWN_RELEASE")
  /\ Become(IF reader.snd = 0
            THEN [Lowered EXCEPT !.fsm = "WAIT_TRES1", !.cs = 0, !.sr = Zeroes,
                                 !.snd = Tres1TdpCycles - 1]
            ELSE [Lowered EXCEPT !.sr = Shifted(@, 1), !.snd = @ - 1])

RdrWaitTres1(bus) ==
  /\ In("WAIT_TRES1")
  /\ Become(IF reader.snd # 0 THEN [Lowered EXCEPT !.snd = @ - 1]
            ELSE [Lowered EXCEPT !.fsm = "SEND_CMD", !.cs = 1,
                    !.sr = BitsOf(3, 8) \o BitsOf(bus.addr, 24),
                    !.snd = 31, !.rcv_bit = 7, !.rcv_byte = bus.len - 1])

\* Variant: the first bit is taken while the last bit of the command is sent.
RdrSendCmdShort ==
  /\ In("SEND_CMD")
  /\ Become(IF reader.snd = 1
            THEN [Lowered EXCEPT !.fsm = "RECEIVING", !.sr = Shifted(@, 1), !.snd = 0]
            ELSE [Lowered EXCEPT !.sr = Shifted(@, 1), !.snd = @ - 1])

RdrSendCmd ==
  /\ In("SEND_CMD")
  /\ Become(IF reader.snd = 0
            THEN [Lowered EXCEPT !.fsm = "RECEIVING", !.sr = Shifted(@, 1)]
            ELSE [Lowered EXCEPT !.sr = Shifted(@, 1), !.snd = @ - 1])

\* A bit a cycle; a byte is complete with its eighth.
RdrReceiving ==
  /\ In("RECEIVING")
  /\ LET r == [Lowered EXCEPT !.sr = Shifted(@, chip.cipo)] IN
     Become(IF reader.rcv_bit # 0 THEN [r EXCEPT !.rcv_bit = @ - 1]
            ELSE IF reader.rcv_byte # 0
            THEN [r EXCEPT !.rcv_bit = 7, !.rcv_byte = @ - 1, !.valid = 1]
            ELSE [r EXCEPT !.fsm = "POWER_DOWN", !.cs = 0, !.valid = 1,
                           !.snd = Tres1TdpCycles - 1])

RdrPowerDown ==
  /\ In("POWER_DOWN")
  /\ Become(IF reader.snd # 0 THEN [Lowered EXCEPT !.snd = @ - 1]
            ELSE [Lowered EXCEPT !.fsm = "IDLE", !.sr = Zeroes])

ReaderStep(bus) ==
  \/ RdrIdle(bus) \/ RdrRelease \/ RdrWaitTres1(bus) \/ RdrSendCmd
  \/ RdrReceiving \/ RdrPowerDown

-------------------------------------------------------------------------------
(***************************************************************************)
(* The chip.  edges counts the bits taken since it was selected.  A read   *)
(* goes on as long as the address is in the flash; bit is not reset when   *)
(* one is broken off.                                                      *)
(***************************************************************************)
SrNext == Shifted(chip.sr, reader.sr[1])

ReadBegins ==
  /\ chip.state = "SELECTED_POWERED_UP" /\ chip.edges = 31
  /\ NumberOf(SubSeq(SrNext, 1, 8)) = 3

Reading == ReadBegins \/ chip.state = "READING"

Address == IF ReadBegins THEN NumberOf(SubSeq(SrNext, 9, 32)) ELSE chip.addr

InFlash(addr) == addr >= FlashBase /\ addr < FlashBase + Len(Image)
FlashByte(addr) == Image[addr - FlashBase + 1]

ChipState ==
  CASE chip.state = "IDLE" ->
         IF reader.cs = 1 THEN "SELECTED_POWER_DOWN" ELSE "IDLE"
    [] chip.state = "SELECTED_POWER_DOWN" ->
         IF chip.edges = 7 /\ NumberOf(SubSeq(SrNext, 25, 32)) = 171
         THEN "SELECTED_POWERING_UP_NEEDS_DESELECT" ELSE "SELECTED_POWER_DOWN"
    [] chip.state = "SELECTED_POWERING_UP_NEEDS_DESELECT" ->
         IF reader.cs = 0 THEN "DESELECTED_POWERED_UP" ELSE "SELECTED_POWERING_UP_NEEDS_DESELECT"
    [] chip.state = "DESELECTED_POWERED_UP" ->
         IF reader.cs = 1 THEN "SELECTED_POWERED_UP" ELSE "DESELECTED_POWERED_UP"
    [] Reading -> IF reader.cs = 0 THEN "IDLE" ELSE "READING"
    [] OTHER -> chip.state

ChipStep ==
  LET sends == Reading /\ InFlash(Address) IN
  chip' = [state |-> ChipState,
           sr    |-> IF reader.cs = 1 THEN SrNext ELSE chip.sr,
           edges |-> IF reader.cs = 1 THEN (chip.edges + 1) % 256 ELSE 0,
           addr  |-> IF sends /\ chip.bit = 7 THEN Address + 1 ELSE Address,
           bit   |-> IF sends THEN (chip.bit + 1) % 8 ELSE chip.bit,
           cipo  |-> IF sends THEN BitsOf(FlashByte(Address), 8)[chip.bit + 1]
                              ELSE 0]

-------------------------------------------------------------------------------
(***************************************************************************)
(* The black box: a byte every other cycle.                                *)
(***************************************************************************)
COUNTDOWN_BETWEEN_BYTES == 2

BBIdle(bus) ==
  /\ blackbox.state = "IDLE"
  /\ blackbox' =
       IF bus.stb = 1 /\ InFlash(bus.addr)
       THEN [blackbox EXCEPT !.state = "READ", !.address = bus.addr,
                             !.remaining = bus.len, !.busy = 1, !.valid = 0,
                             !.countdown = COUNTDOWN_BETWEEN_BYTES]
       ELSE [blackbox EXCEPT !.valid = 0]

\* Variant: a byte in every cycle.
BBReadAtOnce ==
  /\ blackbox.state = "READ" /\ blackbox.remaining > 0
  /\ blackbox' = [blackbox EXCEPT !.countdown = COUNTDOWN_BETWEEN_BYTES,
        !.data = IF InFlash(blackbox.address) THEN FlashByte(blackbox.address)
                                              ELSE 255,
        !.valid = 1, !.address = @ + 1, !.remaining = @ - 1]

BBRead ==
  /\ blackbox.state = "READ" /\ blackbox.countdown = 1 /\ blackbox.remaining > 0
  /\ blackbox' = [blackbox EXCEPT !.countdown = COUNTDOWN_BETWEEN_BYTES,
        !.data = IF InFlash(blackbox.address) THEN FlashByte(blackbox.address)
                                              ELSE 255,
        !.valid = 1, !.address = @ + 1, !.remaining = @ - 1]

BBCounts ==
  /\ blackbox.state = "READ" /\ blackbox.countdown > 1
  /\ blackbox' = [blackbox EXCEPT !.countdown = @ - 1, !.valid = 0]

BBDone ==
  /\ blackbox.state = "READ" /\ blackbox.countdown = 1 /\ blackbox.remaining = 0
  /\ blackbox' = [blackbox EXCEPT !.state = "IDLE", !.busy = 0, !.countdown = 0,
                                  !.address = 0, !.data = 0, !.valid = 0]

BlackboxStep(bus) == BBIdle(bus) \/ BBRead \/ BBCounts \/ BBDone

-------------------------------------------------------------------------------
\* What the user sees of the part that is there.
SpifrBusy ==
  IF part = "blackbox" THEN blackbox.busy ELSE IF In("IDLE") THEN 0 ELSE 1
SpifrValid == IF part = "blackbox" THEN blackbox.valid ELSE reader.valid
SpifrData ==
  IF part = "blackbox" THEN blackbox.data ELSE NumberOf(SubSeq(reader.sr, 25, 32))

\* One clock cycle.
SPIStep(bus) ==
  /\ UNCHANGED part
  /\ \/ part = "reader" /\ ReaderStep(bus) /\ ChipStep /\ UNCHANGED blackbox
     \/ part = "blackbox" /\ BlackboxStep(bus) /\ UNCHANGED <<reader, chip>>
===============================================================================
