------------------------------ MODULE OLEDConnector -----------------------------
(***************************************************************************)
(* What the simulated display makes of what its connector has heard in a   *)
(* tick: vsh/src/OLEDConnector.zig, with the parser of Cmd.zig and the     *)
(* display of SH1107.zig.                                                  *)
(***************************************************************************)
EXTENDS I2CUser

CONSTANTS page_count, i2c_width

Language == INSTANCE Proto
Glass    == INSTANCE SH1107

VARIABLES
  heard,      \* the connector's Tick, with its byte
  link,       \* state, with the parser of a write
  display,    \* fpga_thread.sh1107 and what is drawn of it
  complaint   \* history: something was printed that should never be

connectorVars == <<heard, link, display, complaint>>

Unaddressed == [state |-> "Unaddressed", parser |-> Language!ParserInit]

ConnectorInit ==
  /\ heard = [kind |-> "Pass", byte |-> 0]
  /\ link = Unaddressed
  /\ display = Glass!PowerOn
  /\ complaint = FALSE

\* Not busy, display on or off, ID 7.
Answer(d) == IF Glass!Powered(d) THEN 7 ELSE 71

Writing == link.state = "AddressedWrite"
Fed(b)  == Language!ZigFeed(link.parser, b)

\* The parser gives up on a byte; the connector is reset, and takes the next for
\* an address.
Unrecoverable(b) == Writing /\ Fed(b).state = "Stuck"

Complains == complaint' = TRUE

Addressed ==
  /\ heard'.kind \in {"AddressedWrite", "AddressedRead"}
  /\ link' = [Unaddressed EXCEPT !.state = heard'.kind]
  /\ UNCHANGED <<display, complaint>>

Failed ==
  /\ heard'.kind = "Error" /\ link' = Unaddressed /\ Complains
  /\ UNCHANGED display

\* The end of a transfer.
Fished ==
  /\ heard'.kind = "Fish" /\ link' = Unaddressed
  /\ IF link.state = "Unaddressed" \/ (Writing /\ ~link.parser.valid_finish)
     THEN Complains ELSE UNCHANGED complaint
  /\ UNCHANGED display

Taken ==
  /\ heard'.kind = "Byte" /\ Writing /\ ~Unrecoverable(heard'.byte)
  /\ link' = [link EXCEPT !.parser = Fed(heard'.byte)]
  /\ display' = LET out == link'.parser.out IN
                IF out = <<>> THEN display
                ELSE IF Language!IsData(out[1]) THEN Glass!Write(display, out[1].v[1])
                ELSE Glass!Do(display, out[1])
  /\ UNCHANGED complaint

Refuses ==
  /\ heard'.kind = "Byte" /\ ~(Writing /\ ~Unrecoverable(heard'.byte))
  /\ link' = IF Writing THEN Unaddressed ELSE link
  /\ Complains /\ UNCHANGED display

\* What follows from the connector's tick.
OLEDConnectorStep ==
  \/ Addressed \/ Failed \/ Fished \/ Taken \/ Refuses
  \/ heard'.kind = "Pass" /\ UNCHANGED <<link, display, complaint>>
===============================================================================
