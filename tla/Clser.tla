-------------------------------- MODULE Clser ---------------------------------
(***************************************************************************)
(* The unit that clears the display, sh1107/rtl/oled/clser.py: page by     *)
(* page, a command transfer that sets the page and a data transfer of      *)
(* zeroes, joined by repeated STARTs.                                      *)
(***************************************************************************)
EXTENDS I2CUser

CONSTANTS
  LastPage,    \* 0x0F
  Columns      \* 0x80

ASSUME PagesAssumption == LastPage \in Nat /\ Columns \in Nat

VARIABLE cls   \* the unit, with its page and column counters

ClsInit == cls = IdleUnitWith([page |-> 0, column |-> 0])

\* The counters are set by the strobe, and left out (zero) until then.
ClsIdle(stb) ==
  /\ cls.fsm = "IDLE"
  /\ LET c == [cls EXCEPT !.page = 0, !.column = 0] IN
     cls' = IF stb = 1
            THEN Goto(PutStart([c EXCEPT !.busy = 1]), "START_ADDR_STROBED_W_EN")
            ELSE c

ClsAddrQueued ==
  /\ cls.fsm = "START_ADDR_STROBED_W_EN"
  /\ cls' = Goto(Strobe(Release(cls), 1), "START_ADDR_STROBED_STB")

\* Queue a control byte behind a START as soon as there is room, whatever the
\* controller is doing.
ClsControl ==
  /\ cls.fsm = "START_ADDR_STROBED_STB"
  /\ cls' = IF Writable(in_fifo)
            THEN Goto(PutData(Strobe(cls, 0), ControlCommand),
                      "START_CONTROL_STROBED_W_EN")
            ELSE Strobe(cls, 0)

\* Variant: the control byte is queued without a look at the queue.
ClsDataControlUnchecked ==
  /\ cls.fsm = "LOOP_ADDR_UNSTROBED_W_EN"
  /\ cls' = Goto(PutData(cls, ControlData), "LOOP_CONTROL_STROBED_W_EN")

ClsDataControl ==
  /\ cls.fsm = "LOOP_ADDR_UNSTROBED_W_EN"
  /\ cls' = IF Writable(in_fifo)
            THEN Goto(PutData(cls, ControlData), "LOOP_CONTROL_STROBED_W_EN")
            ELSE cls

\* Every "STROBED W_EN" state drops w_en and goes on.
ClsStrobed(from, to) ==
  /\ cls.fsm = from
  /\ cls' = Goto(Release(cls), to)

\* An addressing byte, queued once the one before it is on the wire.
ClsSend(from, n, to) ==
  /\ cls.fsm = from
  /\ cls' = IF Ready THEN Goto(PutNext(cls, n), to) ELSE Refused(cls)

ClsDataStart ==
  /\ cls.fsm = "LOOP_PAGE_UNSTROBED_W_EN"
  /\ cls' = IF Ready THEN Goto(PutStart(cls), "LOOP_ADDR_STROBED_W_EN")
            ELSE Refused(cls)

\* Variant: the column is not reset for the next page.
ClsLoopKeepsColumn ==
  /\ cls.fsm = "LOOP_CONTROL_UNSTROBED_W_EN"
  /\ \/ /\ Ready /\ cls.column # Columns
        /\ cls' = Goto(PutNext([cls EXCEPT !.column = @ + 1], 0),
                       "LOOP_CONTROL_STROBED_W_EN")
     \/ /\ Ready /\ cls.column = Columns /\ cls.page # LastPage
        /\ cls' = Goto(PutStart([cls EXCEPT !.page = @ + 1]),
                       "LOOP_NEXT_PAGE_ADDR_STROBED_W_EN")
     \/ /\ Ready /\ cls.column = Columns /\ cls.page = LastPage
        /\ cls' = Done(cls)
     \/ ~Ready /\ cls' = Refused(cls)

ClsLoop ==
  /\ cls.fsm = "LOOP_CONTROL_UNSTROBED_W_EN"
  /\ \/ /\ Ready /\ cls.column # Columns
        /\ cls' = Goto(PutNext([cls EXCEPT !.column = @ + 1], 0),
                       "LOOP_CONTROL_STROBED_W_EN")
     \/ /\ Ready /\ cls.column = Columns /\ cls.page # LastPage
        /\ cls' = Goto(PutStart([cls EXCEPT !.column = 0, !.page = @ + 1]),
                       "LOOP_NEXT_PAGE_ADDR_STROBED_W_EN")
     \/ /\ Ready /\ cls.column = Columns /\ cls.page = LastPage
        /\ cls' = Done(cls)
     \/ ~Ready /\ cls' = Refused(cls)

\* One clock cycle.
ClsStep(stb) ==
  \/ ClsIdle(stb) \/ ClsAddrQueued \/ ClsControl
  \/ ClsStrobed("START_CONTROL_STROBED_W_EN",
                IF cls.page = 0 THEN "START_CONTROL_UNSTROBED_W_EN"
                                ELSE "START_COL_HIGHER_UNSTROBED_W_EN")
  \/ ClsSend("START_CONTROL_UNSTROBED_W_EN", SetLowerColumnAddress(0),
             "START_COL_LOWER_STROBED_W_EN")
  \/ ClsStrobed("START_COL_LOWER_STROBED_W_EN",
                "START_COL_LOWER_UNSTROBED_W_EN")
  \/ ClsSend("START_COL_LOWER_UNSTROBED_W_EN", SetHigherColumnAddress(0),
             "START_COL_HIGHER_STROBED_W_EN")
  \/ ClsStrobed("START_COL_HIGHER_STROBED_W_EN",
                "START_COL_HIGHER_UNSTROBED_W_EN")
  \/ ClsSend("START_COL_HIGHER_UNSTROBED_W_EN", SetPageAddress(cls.page),
             "LOOP_PAGE_STROBED_W_EN")
  \/ ClsStrobed("LOOP_PAGE_STROBED_W_EN", "LOOP_PAGE_UNSTROBED_W_EN")
  \/ ClsDataStart
  \/ ClsStrobed("LOOP_ADDR_STROBED_W_EN", "LOOP_ADDR_UNSTROBED_W_EN")
  \/ ClsDataControl
  \/ ClsStrobed("LOOP_CONTROL_STROBED_W_EN", "LOOP_CONTROL_UNSTROBED_W_EN")
  \/ ClsLoop
  \/ ClsStrobed("LOOP_NEXT_PAGE_ADDR_STROBED_W_EN", "START_ADDR_STROBED_STB")
===============================================================================
