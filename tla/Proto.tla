--------------------------------- MODULE Proto ---------------------------------
(***************************************************************************)
(* The language of the display: the commands and their bytes, the control  *)
(* bytes around them, sh1107/proto/__init__.py, and the two parsers of it: *)
(* that file's, and the one of the simulated display, vsh/src/Cmd.zig.     *)
(*                                                                         *)
(* A command is a record of its name and its fields, v; a sequence to      *)
(* compose may also have DataBytes, with the bytes in v, and labels.       *)
(***************************************************************************)
EXTENDS Naturals, Sequences
LOCAL INSTANCE SequencesExt
LOCAL INSTANCE FiniteSetsExt

\* The commands of one byte, a range of bytes each.
Ranges ==
  [SetLowerColumnAddress        |-> 0 .. 15,
   SetHigherColumnAddress       |-> 16 .. 23,
   SetMemoryAddressingMode      |-> 32 .. 33,
   SetSegmentRemap              |-> 160 .. 161,
   SetEntireDisplayOn           |-> 164 .. 165,
   SetDisplayReverse            |-> 166 .. 167,
   DisplayOn                    |-> 174 .. 175,
   SetPageAddress               |-> 176 .. 191,
   SetCommonOutputScanDirection |-> 192 .. 207,
   ReadModifyWrite              |-> {224},
   Nop                          |-> {227},
   End                          |-> {238}]

\* The commands of two bytes, by the first.
FirstBytes ==
  [SetContrastControlRegister |-> 129,
   SetMultiplexRatio          |-> 168,
   SetDCDC                    |-> 173,
   SetDisplayOffset           |-> 211,
   SetDisplayClockFrequency   |-> 213,
   SetPreDischargePeriod      |-> 217,
   SetVCOMDeselectLevel       |-> 219,
   SetDisplayStartLine        |-> 220]

\* What a command keeps of its last byte, and that byte again.
Fields(name, b) ==
  CASE name \in {"ReadModifyWrite", "End", "Nop"} -> <<>>
    [] name = "SetCommonOutputScanDirection" -> <<(b \div 8) % 2>>
    [] name = "SetMultiplexRatio" -> <<(b % 128) + 1>>
    [] name = "SetDCDC" -> <<IF b = 139 THEN 1 ELSE 0>>
    [] name \in {"SetDisplayOffset", "SetDisplayStartLine"} -> <<b % 128>>
    [] name = "SetDisplayClockFrequency" -> <<(b % 16) + 1, b \div 16>>
    [] name = "SetPreDischargePeriod" -> <<b % 16, b \div 16>>
    [] name \in {"SetContrastControlRegister", "SetVCOMDeselectLevel"} -> <<b>>
    [] OTHER -> <<b - Min(Ranges[name])>>

LastByte(c) ==
  CASE c.name \in {"ReadModifyWrite", "End", "Nop"} -> Min(Ranges[c.name])
    [] c.name = "SetCommonOutputScanDirection" -> 192 + 8 * c.v[1]
    [] c.name = "SetMultiplexRatio" -> c.v[1] - 1
    [] c.name = "SetDCDC" -> 138 + c.v[1]
    [] c.name = "SetDisplayClockFrequency" -> 16 * c.v[2] + c.v[1] - 1
    [] c.name = "SetPreDischargePeriod" -> 16 * c.v[2] + c.v[1]
    [] c.name \in {"SetContrastControlRegister", "SetVCOMDeselectLevel",
                   "SetDisplayOffset", "SetDisplayStartLine"} -> c.v[1]
    [] OTHER -> Min(Ranges[c.name]) + c.v[1]

Cmd(name, v)     == [name |-> name, v |-> v]
DataBytes(bytes) == [name |-> "DataBytes", v |-> bytes]
Label(n)         == [name |-> "Label", v |-> <<n>>]

IsData(c)  == c.name = "DataBytes"
IsLabel(c) == c.name = "Label"

ToBytes(c) ==
  IF IsData(c) THEN c.v
  ELSE IF c.name \in DOMAIN FirstBytes THEN <<FirstBytes[c.name], LastByte(c)>>
  ELSE <<LastByte(c)>>

-------------------------------------------------------------------------------
(***************************************************************************)
(* Composing.  As long as commands and data alternate every byte has a     *)
(* control byte of its own, with the continuation bit; once the rest is    *)
(* all of one kind, one without it stands for all.                         *)
(***************************************************************************)
ControlByte(continuation, data) ==
  (IF continuation THEN 128 ELSE 0) + (IF data THEN 64 ELSE 0)

\* Variant: only the next command is looked at, not all that follow.
FinishedNext(cmds, i) ==
  \A j \in i .. Len(cmds) :
    ~IsLabel(cmds[j]) /\ j <= i + 1 => IsData(cmds[j]) = IsData(cmds[i])

Finished(cmds, i) ==
  \A j \in i .. Len(cmds) :
    ~IsLabel(cmds[j]) => IsData(cmds[j]) = IsData(cmds[i])

\* The control byte that stands for all the rest comes with the i-th command.
Finishes(cmds, i) ==
  /\ ~IsLabel(cmds[i]) /\ Finished(cmds, i)
  /\ \A j \in 1 .. i - 1 : ~IsLabel(cmds[j]) => ~Finished(cmds, j)

Piece(cmds, i) ==
  LET data == IsData(cmds[i]) IN
  IF IsLabel(cmds[i]) THEN <<>>
  ELSE IF Finished(cmds, i)
  THEN (IF Finishes(cmds, i) THEN <<ControlByte(FALSE, data)>> ELSE <<>>)
         \o ToBytes(cmds[i])
  ELSE FlattenSeq([k \in DOMAIN ToBytes(cmds[i]) |->
         <<ControlByte(TRUE, data), ToBytes(cmds[i])[k]>>])

ComposeOne(cmds) == FlattenSeq([i \in DOMAIN cmds |-> Piece(cmds, i)])

\* Variant: a label points at the control byte of its command.
OffsetAtControl(cmds, i) == Len(FlattenSeq([j \in 1 .. i |-> Piece(cmds, j)]))

\* Where the byte labelled by the i-th element is: behind what is composed
\* before it, and the control byte of its own command.
OffsetIn(cmds, i) ==
  Len(FlattenSeq([j \in 1 .. i |-> Piece(cmds, j)]))
    + (IF Finished(cmds, i + 1) /\ ~Finishes(cmds, i + 1) THEN 0 ELSE 1)

\* A part for each sequence, and the labels' offsets over all of them.
Compose(seqs) == [k \in DOMAIN seqs |-> ComposeOne(seqs[k])]

Offset(seqs, n) ==
  LET k == CHOOSE k \in DOMAIN seqs : \E i \in DOMAIN seqs[k] : seqs[k][i] = Label(n)
      i == CHOOSE i \in DOMAIN seqs[k] : seqs[k][i] = Label(n)
  IN  Len(FlattenSeq(Compose(SubSeq(seqs, 1, k - 1)))) + OffsetIn(seqs[k], i)

-------------------------------------------------------------------------------
(***************************************************************************)
(* Base.parse_one and Command.from.  They know the same commands, but      *)
(* Python's constructor asserts a discharge period that is not zero.       *)
(***************************************************************************)
No      == [kind |-> "no"]
Partial == [kind |-> "partial"]
Parsed(name, b) == [kind |-> "command", cmd |-> Cmd(name, Fields(name, b))]

CommandFrom(bytes) ==
  LET short == {name \in DOMAIN Ranges : bytes[1] \in Ranges[name]}
      long  == {name \in DOMAIN FirstBytes : bytes[1] = FirstBytes[name]}
  IN  CASE Len(bytes) = 1 /\ short # {} -> Parsed(CHOOSE n \in short : TRUE, bytes[1])
        [] Len(bytes) = 1 /\ long # {}  -> Partial
        [] Len(bytes) = 2 /\ long # {}  -> Parsed(CHOOSE n \in long : TRUE, bytes[2])
        [] OTHER                        -> No

ParseOne(cmd) ==
  IF Len(cmd) = 2 /\ cmd[1] = FirstBytes["SetPreDischargePeriod"] /\ cmd[2] < 16
  THEN [kind |-> "raises"] ELSE CommandFrom(cmd)

-------------------------------------------------------------------------------
(***************************************************************************)
(* The parsers, fed byte by byte.  out is what the last byte completed.    *)
(* Both begin with the control byte; "Stuck" is unrecoverable.             *)
(***************************************************************************)
ParserInit ==
  [state |-> "Control", continuation |-> TRUE, partial |-> <<>>,
   valid_finish |-> FALSE, out |-> <<>>]

Stuck(p) == [p EXCEPT !.state = "Stuck", !.valid_finish = FALSE, !.out = <<>>]

\* The byte before was the last its control byte stands for, or not.
Continued(p) == IF p.continuation THEN "Control" ELSE p.state

FeedControl(p, b) ==
  LET data == (b \div 64) % 2 = 1 IN
  IF b % 64 # 0 \/ (p.partial # <<>> /\ data) THEN Stuck(p)
  ELSE [p EXCEPT !.continuation = b >= 128,
                 !.state = IF data THEN "Data" ELSE "Command",
                 !.valid_finish = p.partial = <<>>, !.out = <<>>]

FeedData(p, b) ==
  [p EXCEPT !.state = Continued(p), !.valid_finish = ~p.continuation,
            !.out = <<DataBytes(<<b>>)>>]

\* Python's: not a valid finish in the middle of a command.
FeedCommand(p, b) ==
  LET bytes == Append(p.partial, b)
      px    == ParseOne(bytes)
      next  == [p EXCEPT !.state = Continued(p)]
  IN  CASE px.kind \in {"no", "raises"} -> Stuck(p)
        [] px.kind = "partial" ->
             [next EXCEPT !.partial = bytes, !.valid_finish = FALSE, !.out = <<>>]
        [] px.kind = "command" ->
             [next EXCEPT !.partial = <<>>, !.valid_finish = ~p.continuation,
                          !.out = <<px.cmd>>]

\* Variant: the first byte of a command is kept when the second has come.
ZigFeedCommandKeeps(p, b) ==
  LET bytes == Append(p.partial, b)
      px    == CommandFrom(bytes)
      next  == [p EXCEPT !.state = Continued(p), !.valid_finish = ~p.continuation]
  IN  CASE px.kind = "no" -> Stuck(p)
        [] px.kind = "partial" -> [next EXCEPT !.partial = bytes, !.out = <<>>]
        [] px.kind = "command" -> [next EXCEPT !.out = <<px.cmd>>]

\* Zig's: a valid finish there too, unless a control byte must come.
ZigFeedCommand(p, b) ==
  LET bytes == Append(p.partial, b)
      px    == CommandFrom(bytes)
      next  == [p EXCEPT !.state = Continued(p), !.valid_finish = ~p.continuation]
  IN  CASE px.kind = "no" -> Stuck(p)
        [] px.kind = "partial" -> [next EXCEPT !.partial = bytes, !.out = <<>>]
        [] px.kind = "command" -> [next EXCEPT !.partial = <<>>, !.out = <<px.cmd>>]

Feed(p, b) ==
  CASE p.state = "Control" -> FeedControl(p, b)
    [] p.state = "Command" -> FeedCommand(p, b)
    [] p.state = "Data"    -> FeedData(p, b)
    [] p.state = "Stuck"   -> p

ZigFeed(p, b) ==
  CASE p.state = "Control" -> FeedControl(p, b)
    [] p.state = "Command" -> ZigFeedCommand(p, b)
    [] p.state = "Data"    -> FeedData(p, b)
    [] p.state = "Stuck"   -> p
===============================================================================
