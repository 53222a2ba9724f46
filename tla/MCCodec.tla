-------------------------------- MODULE MCCodec --------------------------------
(***************************************************************************)
(* Sequences of up to four commands of every shape: one byte, with and     *)
(* without fields, two bytes, data of one and two bytes, and a label.      *)
(***************************************************************************)
EXTENDS Codec

MCElements ==
  {Cmd("SetMemoryAddressingMode", <<1>>), Cmd("SetCommonOutputScanDirection", <<1>>),
   Cmd("SetMultiplexRatio", <<128>>), Cmd("SetPreDischargePeriod", <<2, 15>>),
   Cmd("SetDCDC", <<1>>), Cmd("SetDisplayClockFrequency", <<1, 5>>), Cmd("End", <<>>),
   DataBytes(<<0>>), DataBytes(<<129, 64>>), Label(1)}

MCNoise == {0, 64, 128, 192, 24, 139, 173, 15, 217, 255}
===============================================================================
