------------------------------ MODULE ROMCommands ------------------------------
(***************************************************************************)
(* The commands of the flash ROM, composed as sh1107/rom/__init__.py does: *)
(* initialisation, display on and off, scrolling, and a command for each   *)
(* character, which writes its eight columns.                              *)
(***************************************************************************)
EXTENDS Proto

CONSTANTS
  Pages,          \* pages of the display: 16
  CharColumns     \* by character code plus one, the bytes of its columns

INIT_SEQUENCE ==
  Compose(<< <<
    Cmd("DisplayOn", <<0>>), Cmd("SetDisplayClockFrequency", <<1, 5>>),
    Cmd("SetDisplayOffset", <<0>>), Cmd("SetDisplayStartLine", <<0>>),
    Cmd("SetDCDC", <<1>>), Cmd("SetSegmentRemap", <<0>>),
    Cmd("SetCommonOutputScanDirection", <<0>>),
    Cmd("SetContrastControlRegister", <<128>>), Cmd("SetMultiplexRatio", <<128>>),
    Cmd("SetPreDischargePeriod", <<2, 2>>), Cmd("SetVCOMDeselectLevel", <<53>>),
    Cmd("SetDisplayReverse", <<0>>), Cmd("SetMemoryAddressingMode", <<0>>),
    Cmd("SetPageAddress", <<0>>), Cmd("SetHigherColumnAddress", <<0>>),
    Cmd("SetLowerColumnAddress", <<0>>), Cmd("DisplayOn", <<1>>) >> >>)

DISPLAY_SEQUENCE(on) == Compose(<< << Cmd("DisplayOn", <<on>>) >> >>)

\* Label i is LowerColumnAddress i - 1, 9 DisplayStartLine, 10
\* InitialHigherColumnAddress.
ScrollSequences ==
  << << Cmd("SetMemoryAddressingMode", <<1>>), Cmd("SetPageAddress", <<0>>),
        Label(10), Cmd("SetHigherColumnAddress", <<0>>) >> >>
  \o [i \in 1 .. 8 |->
       << Label(i), Cmd("SetLowerColumnAddress", <<i - 1>>),
          DataBytes([k \in 1 .. Pages |-> 0]) >>]
  \o << << Cmd("SetMemoryAddressingMode", <<0>>),
           Label(9), Cmd("SetDisplayStartLine", <<0>>) >> >>

SCROLL_SEQUENCE == Compose(ScrollSequences)

\* SCROLL_OFFSETS.
InitialHigherColumn == Offset(ScrollSequences, 10)
LowerColumns        == {Offset(ScrollSequences, i) : i \in 1 .. 8}
StartLine           == Offset(ScrollSequences, 9)

ROMSequences ==
  << INIT_SEQUENCE, DISPLAY_SEQUENCE(1), DISPLAY_SEQUENCE(0), SCROLL_SEQUENCE >>
  \o [k \in DOMAIN CharColumns |-> Compose(<< << DataBytes(CharColumns[k]) >> >>)]
===============================================================================
