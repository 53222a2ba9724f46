------------------------------- MODULE Locator --------------------------------
(***************************************************************************)
(* The unit that moves the display's write position to a character cell:   *)
(* sh1107/rtl/oled/locator.py.  Text rows run along the display's columns  *)
(* and text columns along its pages, backwards.                            *)
(***************************************************************************)
EXTENDS I2CUser

VARIABLES
  row, col,            \* where to go; 0 leaves that coordinate alone
  loc                  \* the unit

\* Integer subtraction is not in Naturals: row - 1 modulo Rows.
AdjustedRow(adjust) == (row + (Rows - 1) + adjust) % Rows

StartRow(adjust) ==
  loc' = Goto(PutNext(loc, SetLowerColumnAddress(8 * (AdjustedRow(adjust) % 2))),
              "START_COL_LOWER_STROBED_W_EN")

LocIdle(stb) ==
  /\ loc.fsm = "IDLE"
  /\ loc' = IF stb = 1
            THEN Goto(PutStart([loc EXCEPT !.busy = 1]), "START_ADDR_STROBED_W_EN")
            ELSE loc

LocAddrQueued ==
  /\ loc.fsm = "START_ADDR_STROBED_W_EN"
  /\ loc' = Goto(Strobe(Release(loc), 1), "START_ADDR_STROBED_STB")

LocControl ==
  /\ loc.fsm = "START_ADDR_STROBED_STB"
  /\ loc' = IF Writable(in_fifo)
            THEN Goto(PutData(Strobe(loc, 0), ControlCommand),
                      "START_CONTROL_STROBED_W_EN")
            ELSE Strobe(loc, 0)

\* Every "STROBED W_EN" state drops w_en and goes on to wait.
LocStrobed(from, to) ==
  /\ loc.fsm = from
  /\ loc' = Goto(Release(loc), to)

LocPage(adjust) ==
  /\ loc.fsm = "START_CONTROL_UNSTROBED_W_EN"
  /\ \/ /\ Ready /\ col # 0
        /\ loc' = Goto(PutNext(loc, SetPageAddress(0) + Rows - col),
                       "START_PAGE_STROBED_W_EN")
     \/ Ready /\ col = 0 /\ row # 0 /\ StartRow(adjust)
     \/ Ready /\ col = 0 /\ row = 0 /\ loc' = Done(loc)
     \/ ~Ready /\ loc' = Refused(loc)

LocColLower(adjust) ==
  /\ loc.fsm = "START_PAGE_UNSTROBED_W_EN"
  /\ \/ Ready /\ row # 0 /\ StartRow(adjust)
     \/ ~(Ready /\ row # 0) /\ loc' = Refused(loc)

LocColHigher(adjust) ==
  /\ loc.fsm = "START_COL_LOWER_UNSTROBED_W_EN"
  /\ \/ /\ Ready
        /\ loc' = Goto(PutNext(loc, SetHigherColumnAddress(AdjustedRow(adjust) \div 2)),
                       "START_COL_HIGHER_STROBED_W_EN")
     \/ ~Ready /\ loc' = Refused(loc)

\* Variant: only a transfer that ended well is an end.
LocFinishAcked ==
  /\ loc.fsm = "START_COL_HIGHER_UNSTROBED_W_EN"
  /\ loc' = IF busy = 0 /\ ack = 1 THEN Done(loc) ELSE loc

LocFinish ==
  /\ loc.fsm = "START_COL_HIGHER_UNSTROBED_W_EN"
  /\ loc' = Refused(loc)

LocInit == row = 0 /\ col = 0 /\ loc = IdleUnit

\* One clock cycle: stb strobes the unit, adjust is the scroll position.
LocStep(stb, adjust) ==
  \/ LocIdle(stb) \/ LocAddrQueued \/ LocControl
  \/ LocStrobed("START_CONTROL_STROBED_W_EN", "START_CONTROL_UNSTROBED_W_EN")
  \/ LocPage(adjust)
  \/ LocStrobed("START_PAGE_STROBED_W_EN", "START_PAGE_UNSTROBED_W_EN")
  \/ LocColLower(adjust)
  \/ LocStrobed("START_COL_LOWER_STROBED_W_EN",
                "START_COL_LOWER_UNSTROBED_W_EN")
  \/ LocColHigher(adjust)
  \/ LocStrobed("START_COL_HIGHER_STROBED_W_EN",
                "START_COL_HIGHER_UNSTROBED_W_EN")
  \/ LocFinish
===============================================================================
