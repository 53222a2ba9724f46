-------------------------------- MODULE MCFlash -------------------------------
(***************************************************************************)
(* A flash of five bytes, so that the last word of the ROM has one, all of *)
(* them different when shifted; SPI_TEST breaks its reading off.           *)
(***************************************************************************)
EXTENDS ROMFill

MCImage == <<165, 60, 15, 129, 126>>
MCTests == [reader |-> 1, blackbox |-> 2]
===============================================================================
