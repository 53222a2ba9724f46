-------------------------------- MODULE ROMFill -------------------------------
(***************************************************************************)
(* The OLED module's use of the flash, sh1107/rtl/oled/__init__.py: the    *)
(* states INIT, which copy the ROM from the flash into memory after        *)
(* power-up, the memory itself, two bytes to a word, and SPI_TEST, which   *)
(* prints the flash's first bytes.                                         *)
(*                                                                         *)
(* The rest of the command FSM is OLED's: here IDLE is all of it that      *)
(* lies between two SPI_TESTs, and in it the units may read any byte of    *)
(* the ROM.  The printer works for some cycles on a character.             *)
(***************************************************************************)
EXTENDS SPIFlash, Requests

CONSTANTS
  TestLen,     \* how many bytes SPI_TEST asks for: 0x100
  ToRead,      \* how many it prints: TO_READ
  Tests        \* how often it is asked for, by part

ASSUME TestAssumption ==
  /\ ToRead \in Nat \ {0} /\ TestLen \in Nat
  /\ ToRead <= TestLen /\ TestLen <= Len(Image)
\* The simulated chip loses its place among the bits when a read is broken off,
\* as SPI_TEST's is: in front of it SPI_TEST is asked for once.
ASSUME TestsAssumption ==
  Tests \in [{"reader", "blackbox"} -> Nat] /\ Tests["reader"] <= 1

ROM_LENGTH == Len(Image)

VARIABLES
  main,          \* the command FSM's state
  result,
  spifr_bus,     \* stb, addr, len
  own_addr,      \* own_rom_bus.addr, the fill's end of the ROM bus
  rom_wr,        \* _rom_wr_en and _rom_wr_data
  effective_addr, rd_data, rom_mem,   \* the memory with its read port
  fifo,          \* spi_test_fifo, with w_en, w_data and r_en
  second_half,
  chpr,          \* _chpr_run and _chpr_data
  tests, shown,  \* history: SPI_TESTs asked for; what the last one has printed
  todo           \* history: bytes asked of the flash and not handed over

fillVars == <<main, result, spifr_bus, own_addr, rom_wr>>
memVars  == <<effective_addr, rd_data, rom_mem>>
testVars == <<fifo, second_half>>
vars == <<spiVars, fillVars, memVars, testVars, chpr, tests, shown, todo>>

Words == 0 .. (ROM_LENGTH + 1) \div 2 - 1

Init ==
  /\ SPIInit
  /\ main = "INIT_BEGIN" /\ result = "BUSY"
  /\ spifr_bus = [stb |-> 0, addr |-> 0, len |-> 0]
  /\ own_addr = 0 /\ rom_wr = [en |-> 0, data |-> 0]
  /\ effective_addr = 0 /\ rd_data = <<0, 0>>
  /\ rom_mem = [w \in Words |-> <<0, 0>>]
  /\ fifo = [bytes |-> <<>>, w_en |-> 0, w_data |-> 0, r_en |-> 0]
  /\ second_half = 0 /\ chpr = [run |-> 0, data |-> 0]
  /\ tests = 0 /\ shown = <<>> /\ todo = <<>>

-------------------------------------------------------------------------------
(***************************************************************************)
(* The memory: a byte is written to the half of the word that the last     *)
(* cycle's address chooses, and read from the half that it chose.          *)
(***************************************************************************)
ROMData(addr) == rd_data[(effective_addr % 2) + 1]

MemoryStep(addr) ==
  /\ effective_addr' = addr
  /\ rom_mem' =
       IF rom_wr.en = 0 THEN rom_mem
       ELSE [rom_mem EXCEPT ![addr \div 2][(effective_addr % 2) + 1] = rom_wr.data]
  /\ rd_data' = rom_mem'[addr \div 2]

-------------------------------------------------------------------------------
(***************************************************************************)
(* The fill.                                                               *)
(***************************************************************************)
Ask(len) == spifr_bus' = [stb |-> 1, addr |-> FlashBase, len |-> len]
Unstrobed == spifr_bus' = [spifr_bus EXCEPT !.stb = 0]

InitBegin ==
  /\ main = "INIT_BEGIN" /\ main' = "INIT_STROBED_SPIFR"
  /\ own_addr' = 0 /\ Ask(ROM_LENGTH)
  /\ UNCHANGED <<result, rom_wr>>

InitStrobed ==
  /\ main = "INIT_STROBED_SPIFR" /\ main' = "INIT_WAIT_SPIFR"
  /\ Unstrobed
  /\ UNCHANGED <<result, own_addr, rom_wr>>

InitTakes ==
  /\ main = "INIT_WAIT_SPIFR" /\ SpifrValid = 1
  /\ rom_wr' = [en |-> 1, data |-> SpifrData]
  /\ main' = "INIT_STROBED_ROM_WR"
  /\ UNCHANGED <<result, spifr_bus, own_addr>>

InitWaits ==
  /\ main = "INIT_WAIT_SPIFR" /\ SpifrValid = 0
  /\ IF SpifrBusy = 0 THEN result' = "SUCCESS" /\ main' = "IDLE"
                      ELSE UNCHANGED <<result, main>>
  /\ UNCHANGED <<spifr_bus, own_addr, rom_wr>>

InitWritten ==
  /\ main = "INIT_STROBED_ROM_WR" /\ main' = "INIT_WAIT_SPIFR"
  /\ rom_wr' = [rom_wr EXCEPT !.en = 0]
  /\ own_addr' = IF own_addr = ROM_LENGTH - 1 THEN 0 ELSE own_addr + 1
  /\ UNCHANGED <<result, spifr_bus>>

Fill ==
  /\ InitBegin \/ InitStrobed \/ InitTakes \/ InitWaits \/ InitWritten
  /\ UNCHANGED testVars /\ tests' = tests

-------------------------------------------------------------------------------
(***************************************************************************)
(* SPI_TEST.  It leaves result at BUSY.                                    *)
(***************************************************************************)
FifoStep ==
  LET left == IF fifo.r_en = 1 /\ fifo.bytes # <<>> THEN Tail(fifo.bytes)
                                                    ELSE fifo.bytes
  IN  IF fifo.w_en = 1 /\ Len(fifo.bytes) < ToRead
      THEN Append(left, fifo.w_data) ELSE left

\* What fifo becomes, with these strobes.
Fifo(w_en, w_data, r_en) ==
  fifo' = [bytes |-> FifoStep, w_en |-> w_en, w_data |-> w_data, r_en |-> r_en]

\* IDLE, and START with the command SPI_TEST.  Printing takes longer than
\* reading: the flash is idle again before the module is.
Tested ==
  /\ main = "IDLE" /\ tests < Tests[part] /\ SpifrBusy = 0
  /\ tests' = tests + 1
  /\ main' = "SPI_TEST_START" /\ result' = "BUSY"
  /\ Fifo(0, 0, 0)
  /\ UNCHANGED <<spifr_bus, second_half>>

Rests ==
  /\ main = "IDLE"
  /\ Fifo(0, 0, 0)
  /\ UNCHANGED <<main, result, spifr_bus, second_half, tests>>

TestStart ==
  /\ main = "SPI_TEST_START" /\ main' = "SPI_TEST_WAIT"
  /\ Ask(TestLen)
  /\ Fifo(0, 0, 0)
  /\ UNCHANGED <<result, second_half, tests>>

\* Variant: the loop waits for one byte more than the queue holds.
TestWaitLong ==
  /\ main = "SPI_TEST_WAIT" /\ Unstrobed
  /\ \/ Len(fifo.bytes) > ToRead /\ main' = "SPI_TEST_WRITE_LOOP" /\ Fifo(0, 0, 0)
     \/ Len(fifo.bytes) <= ToRead /\ main' = main
        /\ IF SpifrValid = 1 THEN Fifo(1, SpifrData, 0) ELSE Fifo(0, 0, 0)
  /\ UNCHANGED <<result, second_half, tests>>

TestWait ==
  /\ main = "SPI_TEST_WAIT" /\ Unstrobed
  /\ \/ Len(fifo.bytes) = ToRead /\ main' = "SPI_TEST_WRITE_LOOP" /\ Fifo(0, 0, 0)
     \/ Len(fifo.bytes) # ToRead /\ main' = main
        /\ IF SpifrValid = 1 THEN Fifo(1, SpifrData, 0) ELSE Fifo(0, 0, 0)
  /\ UNCHANGED <<result, second_half, tests>>

Show(char) == chpr' = [run |-> 1, data |-> char]

TestWriteLoop ==
  /\ main = "SPI_TEST_WRITE_LOOP" /\ fifo.bytes # <<>>
  /\ second_half' = fifo.bytes[1] % 16
  /\ Fifo(0, 0, 1)
  /\ Show(FirstHalf(fifo.bytes[1]))
  /\ main' = "SPI_TEST_STROBED_R_EN_CHPR_RUNNING"
  /\ UNCHANGED <<result, spifr_bus, tests>>

TestDone ==
  /\ main = "SPI_TEST_WRITE_LOOP" /\ fifo.bytes = <<>> /\ main' = "IDLE"
  /\ Fifo(0, 0, 0)
  /\ UNCHANGED <<result, spifr_bus, second_half, chpr, tests>>

TestFirstHalf ==
  /\ main = "SPI_TEST_STROBED_R_EN_CHPR_RUNNING" /\ chpr.run = 0
  /\ Fifo(0, 0, 0)
  /\ Show(HexDigit(second_half)) /\ second_half' = 0
  /\ main' = "SPI_TEST_SECOND_HALF_CHPR_RUNNING"
  /\ UNCHANGED <<result, spifr_bus, tests>>

TestSecondHalf ==
  /\ main = "SPI_TEST_SECOND_HALF_CHPR_RUNNING" /\ chpr.run = 0
  /\ main' = "SPI_TEST_WRITE_LOOP"
  /\ Fifo(0, 0, 0)
  /\ UNCHANGED <<result, spifr_bus, second_half, chpr, tests>>

\* Variant: the pop strobe is held while the printer works.
PrintingHoldsPop(done) ==
  /\ main \in {"SPI_TEST_STROBED_R_EN_CHPR_RUNNING",
               "SPI_TEST_SECOND_HALF_CHPR_RUNNING"} /\ chpr.run = 1
  /\ chpr' = IF done THEN [run |-> 0, data |-> 0] ELSE chpr
  /\ Fifo(0, 0, IF done THEN 0 ELSE fifo.r_en)
  /\ UNCHANGED <<main, result, spifr_bus, second_half, tests>>

\* The printer at work, or done with its character.
Printing(done) ==
  /\ main \in {"SPI_TEST_STROBED_R_EN_CHPR_RUNNING",
               "SPI_TEST_SECOND_HALF_CHPR_RUNNING"} /\ chpr.run = 1
  /\ chpr' = IF done THEN [run |-> 0, data |-> 0] ELSE chpr
  /\ Fifo(0, 0, 0)
  /\ UNCHANGED <<main, result, spifr_bus, second_half, tests>>

TestStep(done) ==
  /\ \/ (Tested \/ Rests \/ TestStart \/ TestWait) /\ UNCHANGED chpr
     \/ TestWriteLoop \/ TestDone \/ TestFirstHalf \/ TestSecondHalf
     \/ Printing(done)
  /\ UNCHANGED <<own_addr, rom_wr>>

-------------------------------------------------------------------------------
Filling == main \in {"INIT_BEGIN", "INIT_STROBED_SPIFR", "INIT_WAIT_SPIFR",
                     "INIT_STROBED_ROM_WR"}

\* What is asked of the flash, as bytes.
Requested == SubSeq(Image, 1, spifr_bus.len)

History ==
  /\ shown' = IF main = "SPI_TEST_START" THEN <<>>
              ELSE IF chpr.run = 1 /\ chpr'.run = 0 THEN Append(shown, chpr.data)
              ELSE shown
  /\ todo' = IF SpifrBusy = 0 /\ spifr_bus.stb = 1 THEN Requested
             ELSE IF SpifrValid' = 1 /\ todo # <<>> THEN Tail(todo)
             ELSE todo

\* One clock cycle: addr is what the ROM bus carries.
Cycle(addr, done) ==
  /\ \/ Filling /\ addr = own_addr /\ Fill /\ UNCHANGED chpr
     \/ ~Filling /\ TestStep(done)
  /\ MemoryStep(addr) /\ SPIStep(spifr_bus) /\ History

Next == \E addr \in 0 .. ROM_LENGTH - 1, done \in BOOLEAN : Cycle(addr, done)

PrinterEnds ==
  chpr.run = 1 /\ \E addr \in 0 .. ROM_LENGTH - 1 : Cycle(addr, TRUE)

\* The clock does not stop, and the printer comes to the end of a character.
Spec == Init /\ [][Next]_vars /\ WF_vars(~(main = "IDLE") /\ Next)
             /\ WF_vars(PrinterEnds)

-------------------------------------------------------------------------------
(***************************************************************************)
(* Properties.                                                             *)
(***************************************************************************)
\* Once the fill says it is done, every byte of the ROM reads as the flash has
\* it, with addresses changing in every cycle: no byte of the stream was missed,
\* taken twice or stored in the other half of its word.
ROMReadsBack == ~Filling => ROMData(effective_addr) = Image[effective_addr + 1]

\* Reader and chip, and the black box in their place, hand over what is asked
\* for, each byte once, and are busy until the last.
Promise ==
  INSTANCE ByteStream WITH
    busy <- SpifrBusy, valid <- SpifrValid,
    data <- IF SpifrValid = 1 THEN SpifrData ELSE 0,
    Requests <- {SubSeq(Image, 1, n) : n \in 1 .. Len(Image)}

Streams == Promise!Spec

\* What SPI_TEST has printed are the digits of the flash's first bytes.
Digits(n) == IF n % 2 = 1 THEN FirstHalf(Image[(n + 1) \div 2])
                          ELSE SecondHalf(Image[n \div 2])

TestShowsFlash ==
  /\ Len(shown) <= 2 * ToRead
  /\ \A i \in DOMAIN shown : shown[i] = Digits(i)
  /\ main = "IDLE" /\ tests > 0 => Len(shown) = 2 * ToRead

\* The module takes commands again after power-up and after every test.
ComesToRest == []<>(main = "IDLE")
===============================================================================
