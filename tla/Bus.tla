--------------------------------- MODULE Bus ----------------------------------
(***************************************************************************)
(* The four units on one I2C controller and one ROM, as elaborate_         *)
(* submodules of sh1107/rtl/oled/__init__.py connects them: the busy unit  *)
(* has the bus of the controller and the address of the ROM; while none is *)
(* busy the OLED module has them itself.                                   *)
(***************************************************************************)
EXTENDS Locator, Clser, ROMWriter, Scroller, Requests

unitVars == <<loc, row, col, cls, wr, scr, rom_data>>

UnitsInit(adjusted) ==
  LocInit /\ ClsInit /\ WrInit /\ ScrInit(adjusted) /\ rom_data = 0

AnyBusy == \E u \in {loc, cls, wr, scr} : u.busy = 1

\* own is what the OLED module puts on its end of the multiplexer.
Owner(own) ==
  IF wr.busy = 1 THEN wr
  ELSE IF loc.busy = 1 THEN loc
  ELSE IF cls.busy = 1 THEN cls
  ELSE IF scr.busy = 1 THEN scr
  ELSE own

ROMAddr ==
  IF wr.busy = 1 THEN wr.addr
  ELSE IF loc.busy = 0 /\ cls.busy = 0 /\ scr.busy = 1 THEN scr.addr ELSE 0

Strobed(request, unit) == IF request.unit = unit THEN 1 ELSE 0

\* One cycle of the units, with a request strobed in it.
UnitsStep(request) ==
  LET rom_writer == Strobed(request, "rom_writer") IN
  /\ LocStep(Strobed(request, "locator"), scr.adjusted)
  /\ ClsStep(Strobed(request, "clser"))
  /\ WrStep(rom_writer, IF rom_writer = 1 THEN request.index ELSE 0)
  /\ ScrStep(Strobed(request, "scroller"),
             IF rom_writer = 1 THEN request.rst ELSE 0)
  /\ ReadPort(ROMAddr)

\* Locator's row and column are registers set when its strobe is raised; they are
\* left out (zero) while neither it is busy nor any unit is strobed.
TakeOperands(request, strobed) ==
  IF request.unit = "locator" THEN row' = request.row /\ col' = request.col
  ELSE IF loc.busy = 1 \/ strobed THEN UNCHANGED <<row, col>>
  ELSE row' = 0 /\ col' = 0
===============================================================================
