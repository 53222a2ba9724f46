--------------------------------- MODULE Codec ---------------------------------
(***************************************************************************)
(* What is composed goes over a wire byte by byte to both parsers: the one *)
(* of the tests (sh1107/proto/__init__.py), and the one of the simulated   *)
(* display (vsh/src/Cmd.zig).  A transmission may be any bytes, too, and   *)
(* may end after any of them.                                              *)
(***************************************************************************)
EXTENDS Proto
LOCAL INSTANCE SequencesExt

CONSTANTS
  Elements,   \* commands, DataBytes and labels to compose
  MaxLen,     \* how many at most
  Noise,      \* the bytes of other transmissions
  MaxNoise    \* and how many

ASSUME BoundsAssumption == MaxLen \in Nat /\ MaxNoise \in Nat

\* What the constructors accept: all that the fields of a byte can be, but for a
\* discharge period of zero.
IsCommand(c) ==
  \/ \E name \in DOMAIN Ranges : \E b \in Ranges[name] : c = Cmd(name, Fields(name, b))
  \/ \E name \in DOMAIN FirstBytes : \E b \in 0 .. 255 :
       /\ name = "SetPreDischargePeriod" => b >= 16
       /\ c = Cmd(name, Fields(name, b))

ASSUME ElementsAssumption ==
  \A c \in Elements :
    \/ IsCommand(c)
    \/ c = DataBytes(c.v) /\ c.v \in Seq(0 .. 255)
    \/ c = Label(c.v[1])

VARIABLES
  sent,          \* what was composed; empty for other transmissions
  wire,          \* the bytes still to come
  parser, zig,   \* the two parsers
  got, zig_got   \* what they have made of it so far

codecVars == <<sent, wire, parser, zig, got, zig_got>>

\* A label stands before a command of one byte, or of any number behind the last
\* control byte: the code asserts it.
Composable(cmds) ==
  \A i \in DOMAIN cmds : IsLabel(cmds[i]) =>
    /\ i < Len(cmds) /\ ~IsLabel(cmds[i + 1])
    /\ Len(ToBytes(cmds[i + 1])) = 1 \/ Finished(cmds, i + 1)
    /\ \A j \in DOMAIN cmds : cmds[j] = cmds[i] => j = i

Composed == {cmds \in BoundedSeq(Elements, MaxLen) : Composable(cmds)}

CodecInit ==
  /\ \/ sent \in Composed /\ wire = ComposeOne(sent)
     \/ sent = <<>> /\ wire \in BoundedSeq(Noise, MaxNoise)
  /\ parser = ParserInit /\ zig = ParserInit
  /\ got = <<>> /\ zig_got = <<>>

\* A byte; the parser of the tests is not fed any more once it is stuck.
Byte ==
  /\ wire # <<>> /\ wire' = Tail(wire)
  /\ parser' = Feed(parser, Head(wire)) /\ zig' = ZigFeed(zig, Head(wire))
  /\ got' = got \o parser'.out /\ zig_got' = zig_got \o zig'.out
  /\ UNCHANGED sent

CodecSpec == CodecInit /\ [][Byte]_codecVars

-------------------------------------------------------------------------------
(***************************************************************************)
(* Properties.                                                             *)
(***************************************************************************)
\* What is sent, with data one byte at a time.
Meant(cmds) ==
  FlattenSeq([i \in DOMAIN cmds |->
    IF IsLabel(cmds[i]) THEN <<>>
    ELSE IF IsData(cmds[i])
    THEN [k \in DOMAIN cmds[i].v |-> DataBytes(<<cmds[i].v[k]>>)]
    ELSE <<cmds[i]>>])

\* Both parsers get back exactly what was composed, whichever commands and data
\* follow each other, and call the end of the transmission valid.
RoundTrip ==
  wire = <<>> /\ Meant(sent) # <<>> =>
    /\ got = Meant(sent) /\ zig_got = got
    /\ parser.valid_finish /\ zig.valid_finish

\* After every byte of every transmission the simulated display has understood
\* what the tests' parser has, and calls its end valid where that does: but in
\* the middle of a command of two bytes, and after the one byte that the
\* constructor of SetPreDischargePeriod refuses.
Raised ==
  /\ parser.state = "Stuck" /\ parser.partial = <<FirstBytes["SetPreDischargePeriod"]>>
  /\ zig_got # got

ParsersAgree ==
  Raised \/
    /\ zig_got = got
    /\ (zig.state = "Stuck") <=> (parser.state = "Stuck")
    /\ parser.valid_finish => zig.valid_finish
    /\ zig.valid_finish => parser.valid_finish \/ zig.partial # <<>>

\* A label's offset is where the composed bytes have the first byte of what it
\* stands before, if that has one, counted over all parts: Scroller patches it.
LabelsPoint ==
  LET seqs == << <<Cmd("Nop", <<>>), DataBytes(<<0>>)>>, sent >> IN
  \A i \in DOMAIN sent : IsLabel(sent[i]) /\ ToBytes(sent[i + 1]) # <<>> =>
    FlattenSeq(Compose(seqs))[Offset(seqs, sent[i].v[1]) + 1] = ToBytes(sent[i + 1])[1]
===============================================================================
