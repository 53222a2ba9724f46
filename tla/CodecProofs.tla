----------------------------- MODULE CodecProofs ------------------------------
(***************************************************************************)
(* Theorems about the language of the display and its parsers.             *)
(***************************************************************************)
EXTENDS Codec, Recursion, SequenceTheorems
LOCAL INSTANCE SequencesExt
LOCAL INSTANCE FiniteSetsExt

-------------------------------------------------------------------------------
(***************************************************************************)
(* The two parsers on the same bytes, whatever these are.                  *)
(***************************************************************************)
IsSequence(s) == \E S : s \in Seq(S)
UpToOne(s) == s = <<>> \/ \E x : s = <<x>>

TheParser(state, continuation, partial, valid_finish, out) ==
  [state |-> state, continuation |-> continuation, partial |-> partial,
   valid_finish |-> valid_finish, out |-> out]

States == {"Control", "Command", "Data", "Stuck"}

\* A parser, with no more than one byte kept and one message just made.
IsParser(p) ==
  /\ p.state \in States
  /\ \E s, c, m, f, o : p = TheParser(s, c, m, f, o)
  /\ UpToOne(p.partial) /\ UpToOne(p.out)

\* The registers of both are the same but for valid_finish.
Alike(p, z) ==
  /\ z.state = p.state /\ z.continuation = p.continuation
  /\ z.partial = p.partial /\ z.out = p.out
  /\ p.valid_finish => z.valid_finish
  /\ z.valid_finish => p.valid_finish \/ z.partial # <<>>

\* Python's has raised, and the display's goes on.
Raises(p) ==
  /\ p.state = "Stuck" /\ p.out = <<>>
  /\ p.partial = <<FirstBytes["SetPreDischargePeriod"]>>

ParsersInv ==
  /\ IsParser(parser) /\ IsParser(zig)
  /\ IsSequence(got) /\ IsSequence(zig_got)
  /\ \/ Alike(parser, zig) /\ zig_got = got
     \/ Raises(parser) /\ Len(zig_got) > Len(got)

\* What each operation makes of the registers.
\* Two parsers that differ in valid_finish alone.
LEMMA Differ ==
  ASSUME NEW s \in States, NEW c, NEW m, NEW f, NEW g, NEW o, UpToOne(m), UpToOne(o),
         NEW p, p = TheParser(s, c, m, f, o), NEW z, z = TheParser(s, c, m, g, o)
  PROVE  /\ IsParser(p) /\ IsParser(z) /\ z.out = o
         /\ (f => g) /\ (g => f \/ m # <<>>) => Alike(p, z)
<1>1. /\ p.state = s /\ p.continuation = c /\ p.partial = m /\ p.valid_finish = f /\ p.out = o
      /\ z.state = s /\ z.continuation = c /\ z.partial = m /\ z.valid_finish = g /\ z.out = o
  BY DEF TheParser
<1>2. IsParser(p)
  BY <1>1 DEF IsParser
<1>3. IsParser(z)
  BY <1>1 DEF IsParser
<1> QED BY <1>1, <1>2, <1>3 DEF Alike

LEMMA ControlUpdate ==
  ASSUME NEW p, IsParser(p), NEW s, NEW c, NEW f, NEW r,
         r = [p EXCEPT !.continuation = c, !.state = s, !.valid_finish = f, !.out = <<>>]
  PROVE  r = TheParser(s, c, p.partial, f, <<>>)
<1>1. PICK q1, q2, q3, q4, q5 : p = TheParser(q1, q2, q3, q4, q5)
  BY DEF IsParser
<1>2. p.continuation = q2 /\ p.partial = q3
  BY <1>1 DEF TheParser
<1>3. r = TheParser(s, c, q3, f, <<>>)
  BY <1>1 DEF TheParser
<1> QED BY <1>2, <1>3

LEMMA DataUpdate ==
  ASSUME NEW p, IsParser(p), NEW b, NEW d, d = <<DataBytes(<<b>>)>>
  PROVE  FeedData(p, b) = TheParser(Continued(p), p.continuation, p.partial,
                                    ~p.continuation, d)
<1>1. PICK q1, q2, q3, q4, q5 : p = TheParser(q1, q2, q3, q4, q5)
  BY DEF IsParser
<1>2. p.continuation = q2 /\ p.partial = q3
  BY <1>1 DEF TheParser
<1>3. PICK s, r : s = Continued(p) /\ r = FeedData(p, b)
  OBVIOUS
<1>4. r = TheParser(s, q2, q3, ~q2, d)
  BY <1>1, <1>3 DEF FeedData, TheParser
<1> QED BY <1>2, <1>3, <1>4

LEMMA CommandUpdate ==
  ASSUME NEW p, IsParser(p), NEW b, NEW bytes, bytes = Append(p.partial, b),
         NEW px, px = ParseOne(bytes)
  PROVE  /\ px.kind \in {"no", "raises"} => FeedCommand(p, b) = Stuck(p)
         /\ px.kind = "partial" =>
              FeedCommand(p, b)
                = TheParser(Continued(p), p.continuation, bytes, FALSE, <<>>)
         /\ px.kind = "command" =>
              FeedCommand(p, b) = TheParser(Continued(p), p.continuation, <<>>,
                                            ~p.continuation, <<px.cmd>>)
<1>1. PICK q1, q2, q3, q4, q5 : p = TheParser(q1, q2, q3, q4, q5)
  BY DEF IsParser
<1>2. p.continuation = q2 /\ p.partial = q3
  BY <1>1 DEF TheParser
<1>3. PICK s, r, c : s = Continued(p) /\ r = FeedCommand(p, b) /\ c = ~p.continuation
  OBVIOUS
<1>4. PICK next : next = [p EXCEPT !.state = s]
  OBVIOUS
<1>5. next = TheParser(s, q2, q3, q4, q5)
  BY <1>1, <1>4 DEF TheParser
<1>6. r = CASE px.kind \in {"no", "raises"} -> Stuck(p)
            [] px.kind = "partial" ->
                 [next EXCEPT !.partial = bytes, !.valid_finish = FALSE, !.out = <<>>]
            [] px.kind = "command" ->
                 [next EXCEPT !.partial = <<>>, !.valid_finish = c, !.out = <<px.cmd>>]
  BY <1>3, <1>4, Zenon DEF FeedCommand
<1>7. px.kind \in {"no", "raises"} => r = Stuck(p)
  BY <1>6
<1>8. px.kind = "partial" =>
        r = [next EXCEPT !.partial = bytes, !.valid_finish = FALSE, !.out = <<>>]
  BY <1>6
<1>9. px.kind = "command" =>
        r = [next EXCEPT !.partial = <<>>, !.valid_finish = c, !.out = <<px.cmd>>]
  BY <1>6
<1>10. px.kind = "partial" => r = TheParser(s, q2, bytes, FALSE, <<>>)
  BY <1>5, <1>8 DEF TheParser
<1>11. px.kind = "command" => r = TheParser(s, q2, <<>>, c, <<px.cmd>>)
  BY <1>5, <1>9 DEF TheParser
<1> QED BY <1>2, <1>3, <1>7, <1>10, <1>11

LEMMA ZigCommandUpdate ==
  ASSUME NEW p, IsParser(p), NEW b, NEW bytes, bytes = Append(p.partial, b),
         NEW px, px = CommandFrom(bytes)
  PROVE  /\ px.kind = "no" => ZigFeedCommand(p, b) = Stuck(p)
         /\ px.kind = "partial" =>
              ZigFeedCommand(p, b)
                = TheParser(Continued(p), p.continuation, bytes, ~p.continuation, <<>>)
         /\ px.kind = "command" =>
              ZigFeedCommand(p, b) = TheParser(Continued(p), p.continuation, <<>>,
                                               ~p.continuation, <<px.cmd>>)
<1>1. PICK q1, q2, q3, q4, q5 : p = TheParser(q1, q2, q3, q4, q5)
  BY DEF IsParser
<1>2. p.continuation = q2 /\ p.partial = q3
  BY <1>1 DEF TheParser
<1>3. PICK s, r, c : s = Continued(p) /\ r = ZigFeedCommand(p, b) /\ c = ~p.continuation
  OBVIOUS
<1>4. PICK next : next = [p EXCEPT !.state = s, !.valid_finish = c]
  OBVIOUS
<1>5. next = TheParser(s, q2, q3, c, q5)
  BY <1>1, <1>4 DEF TheParser
<1>6. r = CASE px.kind = "no" -> Stuck(p)
            [] px.kind = "partial" -> [next EXCEPT !.partial = bytes, !.out = <<>>]
            [] px.kind = "command" -> [next EXCEPT !.partial = <<>>, !.out = <<px.cmd>>]
  BY <1>3, <1>4, Zenon DEF ZigFeedCommand
<1>7. px.kind = "no" => r = Stuck(p)
  BY <1>6
<1>8. px.kind = "partial" => r = [next EXCEPT !.partial = bytes, !.out = <<>>]
  BY <1>6
<1>9. px.kind = "command" => r = [next EXCEPT !.partial = <<>>, !.out = <<px.cmd>>]
  BY <1>6
<1>10. px.kind = "partial" => r = TheParser(s, q2, bytes, c, <<>>)
  BY <1>5, <1>8 DEF TheParser
<1>11. px.kind = "command" => r = TheParser(s, q2, <<>>, c, <<px.cmd>>)
  BY <1>5, <1>9 DEF TheParser
<1> QED BY <1>2, <1>3, <1>7, <1>10, <1>11

LEMMA StuckIs ==
  ASSUME NEW p, IsParser(p)
  PROVE  /\ Stuck(p) = TheParser("Stuck", p.continuation, p.partial, FALSE, <<>>)
         /\ IsParser(Stuck(p))
<1>1. PICK q1, q2, q3, q4, q5 : p = TheParser(q1, q2, q3, q4, q5)
  BY DEF IsParser
<1>2. p.continuation = q2 /\ p.partial = q3
  BY <1>1 DEF TheParser
<1>3. PICK r : r = Stuck(p)
  OBVIOUS
<1>4. r = TheParser("Stuck", q2, q3, FALSE, <<>>)
  BY <1>1, <1>3 DEF Stuck, TheParser
<1>5. r.partial = q3 /\ r.out = <<>> /\ r.state \in States
  BY <1>4 DEF TheParser, States
<1>6. UpToOne(p.partial) /\ UpToOne(<<>>)
  BY DEF IsParser, UpToOne
<1> QED BY <1>2, <1>3, <1>4, <1>5, <1>6 DEF IsParser

\* Whichever of its operations a parser is fed to, it stays one, and both stay alike.
LEMMA ControlAlike ==
  ASSUME NEW p, NEW z, NEW b, IsParser(p), IsParser(z), Alike(p, z)
  PROVE  /\ IsParser(FeedControl(p, b)) /\ IsParser(FeedControl(z, b))
         /\ Alike(FeedControl(p, b), FeedControl(z, b))
<1>1. CASE b % 64 # 0 \/ (p.partial # <<>> /\ (b \div 64) % 2 = 1)
  <2>1. FeedControl(p, b) = Stuck(p) /\ FeedControl(z, b) = Stuck(z)
    BY <1>1 DEF FeedControl, Alike
  <2> QED BY <2>1, StuckIs DEF Alike, TheParser
<1>2. CASE ~(b % 64 # 0 \/ (p.partial # <<>> /\ (b \div 64) % 2 = 1))
  <2>1. PICK s, c, e : /\ s = IF (b \div 64) % 2 = 1 THEN "Data" ELSE "Command"
                       /\ c = (b >= 128) /\ e = (p.partial = <<>>)
    OBVIOUS
  <2>2. z.partial = p.partial /\ s \in States
    BY <2>1 DEF Alike, States
  <2>3. /\ FeedControl(p, b) = [p EXCEPT !.continuation = c, !.state = s,
                                  !.valid_finish = e, !.out = <<>>]
        /\ FeedControl(z, b) = [z EXCEPT !.continuation = c, !.state = s,
                                  !.valid_finish = e, !.out = <<>>]
    BY <1>2, <2>1, <2>2 DEF FeedControl
  <2>4. /\ FeedControl(p, b) = TheParser(s, c, p.partial, e, <<>>)
        /\ FeedControl(z, b) = TheParser(s, c, z.partial, e, <<>>)
    <3>1. PICK rp, rz : rp = FeedControl(p, b) /\ rz = FeedControl(z, b)
      OBVIOUS
    <3>2. /\ rp = [p EXCEPT !.continuation = c, !.state = s, !.valid_finish = e, !.out = <<>>]
          /\ rz = [z EXCEPT !.continuation = c, !.state = s, !.valid_finish = e, !.out = <<>>]
      BY <2>3, <3>1
    <3>3. rp = TheParser(s, c, p.partial, e, <<>>)
      BY <3>2, ControlUpdate
    <3>4. rz = TheParser(s, c, z.partial, e, <<>>)
      BY <3>2, ControlUpdate
    <3> QED BY <3>1, <3>3, <3>4
  <2>5. UpToOne(p.partial) /\ UpToOne(<<>>)
    BY DEF IsParser, UpToOne
  <2> QED BY <2>2, <2>4, <2>5, Differ
<1> QED BY <1>1, <1>2

LEMMA DataAlike ==
  ASSUME NEW p, NEW z, NEW b, IsParser(p), IsParser(z), Alike(p, z)
  PROVE  /\ IsParser(FeedData(p, b)) /\ IsParser(FeedData(z, b))
         /\ Alike(FeedData(p, b), FeedData(z, b))
<1>1. PICK d, s, c : d = <<DataBytes(<<b>>)>> /\ s = Continued(p) /\ c = ~p.continuation
  OBVIOUS
<1>2. Continued(z) = s /\ (~z.continuation) = c /\ UpToOne(d)
  BY <1>1 DEF Alike, Continued, UpToOne
<1>s. s \in States
  BY <1>1 DEF Continued, IsParser, States
<1>3. /\ FeedData(p, b) = TheParser(s, p.continuation, p.partial, c, d)
      /\ FeedData(z, b) = TheParser(s, z.continuation, z.partial, c, d)
  BY <1>1, <1>2, DataUpdate
<1>4. z.continuation = p.continuation /\ z.partial = p.partial /\ UpToOne(p.partial)
  BY DEF Alike, IsParser
<1> QED BY <1>2, <1>s, <1>3, <1>4, Differ

LEMMA AppendTwo ==
  ASSUME NEW b, NEW S, b \in S, NEW q \in Seq(S), Len(q) = 1, NEW bytes, bytes = Append(q, b)
  PROVE  Len(bytes) = 2 /\ bytes[1] = q[1]
OBVIOUS

LEMMA CommandAlike ==
  ASSUME NEW p, NEW z, NEW b, IsParser(p), IsParser(z), Alike(p, z)
  PROVE  /\ IsParser(FeedCommand(p, b)) /\ IsParser(ZigFeedCommand(z, b))
         /\ \/ Alike(FeedCommand(p, b), ZigFeedCommand(z, b))
            \/ /\ Raises(FeedCommand(p, b))
               /\ Len(ZigFeedCommand(z, b).out) = 1
<1>1. PICK bytes, s, c : bytes = Append(p.partial, b) /\ s = Continued(p)
                         /\ c = ~p.continuation
  OBVIOUS
<1>2. /\ bytes = Append(z.partial, b) /\ s = Continued(z) /\ c = (~z.continuation)
      /\ z.continuation = p.continuation /\ z.partial = p.partial /\ s \in States
  BY <1>1 DEF Alike, Continued, IsParser, States
<1>3. PICK px, py : px = ParseOne(bytes) /\ py = CommandFrom(bytes)
  OBVIOUS
<1>4. /\ py.kind \in {"no", "partial", "command"}
      /\ py.kind = "partial" => Len(bytes) = 1
  BY <1>3 DEF CommandFrom, No, Partial, Parsed
<1>5. \/ px = py
      \/ /\ px.kind = "raises" /\ Len(bytes) = 2
         /\ bytes[1] = FirstBytes["SetPreDischargePeriod"]
  BY <1>3 DEF ParseOne
<1>6. UpToOne(<<>>) /\ (\A x : UpToOne(<<x>>)) /\ UpToOne(p.partial)
  BY DEF UpToOne, IsParser
<1>7. \/ p.partial = <<>> /\ bytes = <<b>>
      \/ \E x : p.partial = <<x>> /\ Len(bytes) = 2 /\ bytes[1] = x
  <2>1. CASE p.partial = <<>>
    BY <1>1, <2>1
  <2>2. ASSUME NEW x, p.partial = <<x>> PROVE Len(bytes) = 2 /\ bytes[1] = x
    <3>1. PICK q : q = <<x>>
      OBVIOUS
    <3>2. q \in Seq({x, b}) /\ Len(q) = 1 /\ q[1] = x
      BY <3>1
    <3>3. bytes = Append(q, b)
      BY <1>1, <2>2, <3>1
    <3>4. Len(bytes) = 2 /\ bytes[1] = q[1]
      BY <3>2, <3>3, AppendTwo
    <3> QED BY <3>2, <3>4
  <2> QED BY <1>6, <2>1, <2>2 DEF UpToOne
<1>8. py.kind = "partial" => UpToOne(bytes) /\ bytes # <<>>
  BY <1>4, <1>6, <1>7
<1>9. /\ px.kind \in {"no", "raises"} => FeedCommand(p, b) = Stuck(p)
      /\ px.kind = "partial" =>
           FeedCommand(p, b) = TheParser(s, p.continuation, bytes, FALSE, <<>>)
      /\ px.kind = "command" =>
           FeedCommand(p, b) = TheParser(s, p.continuation, <<>>, c, <<px.cmd>>)
  BY <1>1, <1>3, CommandUpdate
<1>10. /\ py.kind = "no" => ZigFeedCommand(z, b) = Stuck(z)
       /\ py.kind = "partial" =>
            ZigFeedCommand(z, b) = TheParser(s, z.continuation, bytes, c, <<>>)
       /\ py.kind = "command" =>
            ZigFeedCommand(z, b) = TheParser(s, z.continuation, <<>>, c, <<py.cmd>>)
  <2>1. IsParser(z) /\ bytes = Append(z.partial, b) /\ py = CommandFrom(bytes)
    BY <1>2, <1>3
  <2>2. /\ py.kind = "no" => ZigFeedCommand(z, b) = Stuck(z)
        /\ py.kind = "partial" =>
             ZigFeedCommand(z, b)
               = TheParser(Continued(z), z.continuation, bytes, ~z.continuation, <<>>)
        /\ py.kind = "command" =>
             ZigFeedCommand(z, b) = TheParser(Continued(z), z.continuation, <<>>,
                                              ~z.continuation, <<py.cmd>>)
    BY <2>1, ZigCommandUpdate
  <2>3. s = Continued(z) /\ c = ~z.continuation
    BY <1>2
  <2> QED BY <2>2, <2>3, Zenon
<1>11. CASE px = py /\ py.kind = "no"
  <2>1. FeedCommand(p, b) = Stuck(p) /\ ZigFeedCommand(z, b) = Stuck(z)
    BY <1>9, <1>10, <1>11
  <2> QED BY <1>2, <2>1, StuckIs DEF Alike, TheParser
<1>12. CASE px = py /\ py.kind = "partial"
  <2>1. /\ FeedCommand(p, b) = TheParser(s, p.continuation, bytes, FALSE, <<>>)
        /\ ZigFeedCommand(z, b) = TheParser(s, z.continuation, bytes, c, <<>>)
    BY <1>9, <1>10, <1>12
  <2>2. UpToOne(bytes) /\ UpToOne(<<>>) /\ bytes # <<>>
    BY <1>6, <1>8, <1>12
  <2>3. PICK r, t, f : r = FeedCommand(p, b) /\ t = ZigFeedCommand(z, b) /\ f = FALSE
    OBVIOUS
  <2>4. /\ r = TheParser(s, p.continuation, bytes, f, <<>>)
        /\ t = TheParser(s, p.continuation, bytes, c, <<>>)
    BY <1>2, <2>1, <2>3
  <2>5. IsParser(r) /\ IsParser(t) /\ Alike(r, t)
    <3>1. (f => c) /\ (c => f \/ bytes # <<>>) /\ s \in States
      BY <1>2, <2>2, <2>3
    <3> HIDE <2>3
    <3> QED BY <2>2, <2>4, <3>1, Differ
  <2> QED BY <2>3, <2>5
<1>13. CASE px = py /\ py.kind = "command"
  <2>1. /\ FeedCommand(p, b) = TheParser(s, p.continuation, <<>>, c, <<px.cmd>>)
        /\ ZigFeedCommand(z, b) = TheParser(s, z.continuation, <<>>, c, <<px.cmd>>)
    BY <1>9, <1>10, <1>13
  <2> QED BY <1>2, <1>6, <2>1, Differ
<1>14. CASE px.kind = "raises" /\ Len(bytes) = 2
            /\ bytes[1] = FirstBytes["SetPreDischargePeriod"]
  <2>1. FeedCommand(p, b) = Stuck(p)
    BY <1>9, <1>14
  <2>2. p.partial = <<FirstBytes["SetPreDischargePeriod"]>>
    <3>1. Len(<<b>>) = 1
      OBVIOUS
    <3>2. PICK x : p.partial = <<x>> /\ bytes[1] = x
      BY <1>7, <1>14, <3>1
    <3> QED BY <1>14, <3>2
  <2>3. Raises(FeedCommand(p, b)) /\ IsParser(FeedCommand(p, b))
    BY <2>1, <2>2, StuckIs DEF Raises, TheParser
  <2>4. py.kind = "command"
    <3>1. PICK long : long = {name \in DOMAIN FirstBytes : bytes[1] = FirstBytes[name]}
      OBVIOUS
    <3>2. "SetPreDischargePeriod" \in DOMAIN FirstBytes
      BY DEF FirstBytes
    <3>3. long # {}
      BY <1>14, <3>1, <3>2
    <3> HIDE DEF FirstBytes
    <3>4. py = Parsed(CHOOSE n \in long : TRUE, bytes[2])
      BY <1>3, <1>14, <3>1, <3>3 DEF CommandFrom
    <3> QED BY <3>4 DEF Parsed
  <2>5. ZigFeedCommand(z, b) = TheParser(s, z.continuation, <<>>, c, <<py.cmd>>)
    BY <1>10, <2>4
  <2>6. IsParser(ZigFeedCommand(z, b)) /\ Len(ZigFeedCommand(z, b).out) = 1
    <3>1. PICK r, o : r = ZigFeedCommand(z, b) /\ o = <<py.cmd>>
      OBVIOUS
    <3>2. r = TheParser(s, z.continuation, <<>>, c, o)
      BY <2>5, <3>1
    <3>3. UpToOne(<<>>) /\ UpToOne(o) /\ s \in States /\ Len(o) = 1
      BY <1>2, <1>6, <3>1
    <3>4. IsParser(r) /\ r.out = o
      BY <3>2, <3>3, Differ
    <3> QED BY <3>1, <3>3, <3>4
  <2> QED BY <2>3, <2>6
<1> QED BY <1>4, <1>5, <1>11, <1>12, <1>13, <1>14

\* A byte to both, while Python's has not raised.
LEMMA FeedAlike ==
  ASSUME NEW p, NEW z, NEW b, IsParser(p), IsParser(z), Alike(p, z)
  PROVE  /\ IsParser(Feed(p, b)) /\ IsParser(ZigFeed(z, b))
         /\ \/ Alike(Feed(p, b), ZigFeed(z, b))
            \/ Raises(Feed(p, b)) /\ Len(ZigFeed(z, b).out) = 1
<1>1. z.state = p.state
  BY DEF Alike
<1>2. CASE p.state = "Control"
  <2>1. Feed(p, b) = FeedControl(p, b) /\ ZigFeed(z, b) = FeedControl(z, b)
    BY <1>1, <1>2 DEF Feed, ZigFeed
  <2> QED BY <2>1, ControlAlike
<1>3. CASE p.state = "Command"
  <2>1. Feed(p, b) = FeedCommand(p, b) /\ ZigFeed(z, b) = ZigFeedCommand(z, b)
    BY <1>1, <1>3 DEF Feed, ZigFeed
  <2> QED BY <2>1, CommandAlike
<1>4. CASE p.state = "Data"
  <2>1. Feed(p, b) = FeedData(p, b) /\ ZigFeed(z, b) = FeedData(z, b)
    BY <1>1, <1>4 DEF Feed, ZigFeed
  <2> QED BY <2>1, DataAlike
<1>5. CASE p.state = "Stuck"
  <2>1. Feed(p, b) = p /\ ZigFeed(z, b) = z
    BY <1>1, <1>5 DEF Feed, ZigFeed
  <2> QED BY <2>1
<1> QED BY <1>2, <1>3, <1>4, <1>5 DEF IsParser, States

\* What appending at most one element makes of a sequence.
Lengthened(a, o, r) == IsSequence(a) /\ UpToOne(o) /\ r = a \o o

LEMMA Longer ==
  ASSUME NEW a, NEW o, NEW r, Lengthened(a, o, r)
  PROVE  IsSequence(r) /\ Len(a) \in Nat /\ Len(r) = Len(a) + Len(o)
         /\ Len(o) \in {0, 1} /\ (o = <<>> => r = a)
<1> USE DEF Lengthened
<1>1. PICK A : a \in Seq(A)
  BY DEF IsSequence
<1>2. PICK B : o \in Seq(B) /\ Len(o) \in {0, 1}
  <2>1. CASE o = <<>>
    <3>1. o \in Seq({}) /\ Len(o) = 0
      BY <2>1
    <3> QED BY <3>1
  <2>2. ASSUME NEW x, o = <<x>> PROVE o \in Seq({x}) /\ Len(o) = 1
    BY <2>2
  <2> QED BY <2>1, <2>2 DEF UpToOne
<1>3. a \in Seq(A \cup B) /\ o \in Seq(A \cup B)
  BY <1>1, <1>2, SeqMonotonic
<1>4. r \in Seq(A \cup B) /\ Len(r) = Len(a) + Len(o)
  BY <1>3, ConcatProperties
<1>5. o = <<>> => r = a
  BY <1>1, ConcatEmptySeq
<1>6. Len(a) \in Nat
  BY <1>1
<1> QED BY <1>2, <1>4, <1>5, <1>6 DEF IsSequence

LEMMA ParsersInitial == CodecInit => ParsersInv
<1> SUFFICES ASSUME CodecInit PROVE ParsersInv
  OBVIOUS
<1>1. PICK s, c, f, e : s = "Control" /\ c = TRUE /\ f = FALSE /\ e = <<>>
  OBVIOUS
<1>2. parser = TheParser(s, c, e, f, e) /\ zig = TheParser(s, c, e, f, e)
  BY <1>1 DEF CodecInit, ParserInit, TheParser
<1>3. s \in States /\ UpToOne(e)
  BY <1>1 DEF States, UpToOne
<1>4. IsParser(parser) /\ IsParser(zig) /\ Alike(parser, zig)
  BY <1>2, <1>3, Differ
<1>5. got = <<>> /\ zig_got = <<>> /\ IsSequence(<<>>)
  BY DEF CodecInit, IsSequence
<1> QED BY <1>4, <1>5 DEF ParsersInv

LEMMA ParsersStep == ParsersInv /\ [Byte]_codecVars => ParsersInv'
<1> SUFFICES ASSUME ParsersInv, [Byte]_codecVars PROVE ParsersInv'
  OBVIOUS
<1>1. CASE Byte
  <2>1. PICK b : parser' = Feed(parser, b) /\ zig' = ZigFeed(zig, b)
    BY <1>1 DEF Byte
  <2>2. /\ IsParser(parser) /\ IsParser(zig) /\ IsSequence(got) /\ IsSequence(zig_got)
        /\ got' = got \o parser'.out /\ zig_got' = zig_got \o zig'.out
    BY <1>1 DEF Byte, ParsersInv
  <2>3. Alike(parser, parser) /\ Alike(zig, zig)
    BY DEF Alike
  <2>4. IsParser(parser') /\ IsParser(zig')
    BY <2>1, <2>2, <2>3, FeedAlike
  <2>5. /\ UpToOne(parser'.out) /\ UpToOne(zig'.out)
    BY <2>4 DEF IsParser
  <2>6. /\ IsSequence(got') /\ Len(got) \in Nat /\ Len(got') = Len(got) + Len(parser'.out)
        /\ Len(parser'.out) \in {0, 1} /\ (parser'.out = <<>> => got' = got)
    <3>1. PICK a, o, r : a = got /\ o = parser'.out /\ r = got'
      OBVIOUS
    <3>2. Lengthened(a, o, r)
      BY <2>2, <2>5, <3>1, Zenon DEF Lengthened
    <3>3. /\ IsSequence(r) /\ Len(a) \in Nat /\ Len(r) = Len(a) + Len(o)
          /\ Len(o) \in {0, 1} /\ (o = <<>> => r = a)
      BY <3>2, Longer
    <3> QED BY <3>1, <3>3, Zenon
  <2>7. /\ IsSequence(zig_got') /\ Len(zig_got) \in Nat
        /\ Len(zig_got') = Len(zig_got) + Len(zig'.out) /\ Len(zig'.out) \in {0, 1}
    <3>1. PICK a, o, r : a = zig_got /\ o = zig'.out /\ r = zig_got'
      OBVIOUS
    <3>2. Lengthened(a, o, r)
      BY <2>2, <2>5, <3>1, Zenon DEF Lengthened
    <3>3. IsSequence(r) /\ Len(a) \in Nat /\ Len(r) = Len(a) + Len(o) /\ Len(o) \in {0, 1}
      BY <3>2, Longer
    <3> QED BY <3>1, <3>3, Zenon
  <2>8. CASE Alike(parser, zig) /\ zig_got = got
    <3>1. \/ Alike(parser', zig')
          \/ Raises(parser') /\ Len(zig'.out) = 1
      BY <2>1, <2>2, <2>8, FeedAlike
    <3>2. CASE Alike(parser', zig')
      <4>1. zig'.out = parser'.out
        BY <3>2 DEF Alike
      <4>2. zig_got' = got'
        BY <2>2, <2>8, <4>1
      <4> QED BY <2>4, <2>6, <2>7, <3>2, <4>2 DEF ParsersInv
    <3>3. CASE Raises(parser') /\ Len(zig'.out) = 1
      <4>1. got' = got
        BY <2>6, <3>3 DEF Raises
      <4>2. Len(zig_got') > Len(got')
        BY <2>6, <2>7, <2>8, <3>3, <4>1
      <4> QED BY <2>4, <2>6, <2>7, <3>3, <4>2 DEF ParsersInv
    <3> QED BY <3>1, <3>2, <3>3
  <2>9. CASE Raises(parser) /\ Len(zig_got) > Len(got)
    <3>1. parser' = parser
      BY <2>1, <2>9 DEF Feed, Raises
    <3>2. Raises(parser')
      BY <2>9, <3>1
    <3>3. got' = got
      BY <2>6, <3>2 DEF Raises
    <3>4. Len(zig_got') > Len(got')
      BY <2>6, <2>7, <2>9, <3>3
    <3> QED BY <2>4, <2>6, <2>7, <3>2, <3>4 DEF ParsersInv
  <2> QED BY <2>8, <2>9 DEF ParsersInv
<1>2. CASE UNCHANGED codecVars
  BY <1>2 DEF codecVars, ParsersInv
<1> QED BY <1>1, <1>2

(***************************************************************************)
(* After every byte of every transmission, of any length and of any bytes, *)
(* the parser of the simulated display has understood what Python's has    *)
(* (vsh/src/Cmd.zig, sh1107/proto/__init__.py): but after the byte that    *)
(* the constructor of SetPreDischargePeriod refuses.                       *)
(***************************************************************************)
THEOREM ParsersUnderstandTheSame == CodecSpec => []ParsersAgree
<1>1. ParsersInv => ParsersAgree
  <2> SUFFICES ASSUME ParsersInv PROVE ParsersAgree
    OBVIOUS
  <2>1. CASE Alike(parser, zig) /\ zig_got = got
    BY <2>1 DEF ParsersAgree, Alike
  <2>2. CASE Raises(parser) /\ Len(zig_got) > Len(got)
    <3>1. zig_got # got
      BY <2>2 DEF ParsersInv, IsSequence
    <3> QED BY <2>2, <3>1 DEF ParsersAgree, Raised, Raises
  <2> QED BY <2>1, <2>2 DEF ParsersInv
<1> QED BY <1>1, ParsersInitial, ParsersStep, PTL DEF CodecSpec

-------------------------------------------------------------------------------
(***************************************************************************)
(* A command's bytes say which it is.                                      *)
(***************************************************************************)
LEMMA MinIs ==
  ASSUME NEW S, S \subseteq Nat, NEW x \in S, \A y \in S : x <= y
  PROVE  Min(S) = x
<1>1. \A z \in S : (\A y \in S : z <= y) => z = x
  OBVIOUS
<1> QED BY <1>1 DEF Min

LEMMA RangesAre ==
  /\ DOMAIN Ranges = {"SetLowerColumnAddress", "SetHigherColumnAddress",
       "SetMemoryAddressingMode", "SetSegmentRemap", "SetEntireDisplayOn",
       "SetDisplayReverse", "DisplayOn", "SetPageAddress",
       "SetCommonOutputScanDirection", "ReadModifyWrite", "Nop", "End"}
  /\ Ranges["SetLowerColumnAddress"] = 0 .. 15
  /\ Ranges["SetHigherColumnAddress"] = 16 .. 23
  /\ Ranges["SetMemoryAddressingMode"] = 32 .. 33
  /\ Ranges["SetSegmentRemap"] = 160 .. 161
  /\ Ranges["SetEntireDisplayOn"] = 164 .. 165
  /\ Ranges["SetDisplayReverse"] = 166 .. 167
  /\ Ranges["DisplayOn"] = 174 .. 175
  /\ Ranges["SetPageAddress"] = 176 .. 191
  /\ Ranges["SetCommonOutputScanDirection"] = 192 .. 207
  /\ Ranges["ReadModifyWrite"] = {224}
  /\ Ranges["Nop"] = {227}
  /\ Ranges["End"] = {238}
BY DEF Ranges

LEMMA ShortUnique ==
  ASSUME NEW m \in DOMAIN Ranges, NEW n \in DOMAIN Ranges,
         NEW b, b \in Ranges[m], b \in Ranges[n]
  PROVE  m = n
BY RangesAre, SMTT(60)

LEMMA FirstBytesAre ==
  /\ DOMAIN FirstBytes = {"SetContrastControlRegister", "SetMultiplexRatio", "SetDCDC",
       "SetDisplayOffset", "SetDisplayClockFrequency", "SetPreDischargePeriod",
       "SetVCOMDeselectLevel", "SetDisplayStartLine"}
  /\ FirstBytes["SetContrastControlRegister"] = 129
  /\ FirstBytes["SetMultiplexRatio"] = 168
  /\ FirstBytes["SetDCDC"] = 173
  /\ FirstBytes["SetDisplayOffset"] = 211
  /\ FirstBytes["SetDisplayClockFrequency"] = 213
  /\ FirstBytes["SetPreDischargePeriod"] = 217
  /\ FirstBytes["SetVCOMDeselectLevel"] = 219
  /\ FirstBytes["SetDisplayStartLine"] = 220
BY DEF FirstBytes
LEMMA LongUnique ==
  ASSUME NEW m \in DOMAIN FirstBytes, NEW n \in DOMAIN FirstBytes,
         FirstBytes[m] = FirstBytes[n]
  PROVE  m = n
BY FirstBytesAre
LEMMA LongNotShort ==
  ASSUME NEW m \in DOMAIN FirstBytes, NEW n \in DOMAIN Ranges
  PROVE  /\ FirstBytes[m] \notin Ranges[n]
         /\ m # n
BY FirstBytesAre, RangesAre, SMTT(60)

LEMMA MinRange ==
  ASSUME NEW n \in DOMAIN Ranges
  PROVE  Min(Ranges[n]) \in Ranges[n] /\ \A b \in Ranges[n] : b \in 0 .. 255 /\ Min(Ranges[n]) <= b
<1>1. PICK x :
        \/ n = "SetLowerColumnAddress" /\ x = 0
        \/ n = "SetHigherColumnAddress" /\ x = 16
        \/ n = "SetMemoryAddressingMode" /\ x = 32
        \/ n = "SetSegmentRemap" /\ x = 160
        \/ n = "SetEntireDisplayOn" /\ x = 164
        \/ n = "SetDisplayReverse" /\ x = 166
        \/ n = "DisplayOn" /\ x = 174
        \/ n = "SetPageAddress" /\ x = 176
        \/ n = "SetCommonOutputScanDirection" /\ x = 192
        \/ n = "ReadModifyWrite" /\ x = 224
        \/ n = "Nop" /\ x = 227
        \/ n = "End" /\ x = 238
  <2>1. n \in {"SetLowerColumnAddress", "SetHigherColumnAddress",
       "SetMemoryAddressingMode", "SetSegmentRemap", "SetEntireDisplayOn",
       "SetDisplayReverse", "DisplayOn", "SetPageAddress",
       "SetCommonOutputScanDirection", "ReadModifyWrite", "Nop", "End"}
    BY RangesAre, Zenon
  <2> QED BY <2>1
<1>2. x \in Nat /\ x \in Ranges[n] /\ \A y \in Ranges[n] : y \in 0 .. 255 /\ x <= y
  BY <1>1, RangesAre
<1>3. Min(Ranges[n]) = x
  BY <1>2, MinIs
<1> QED BY <1>2, <1>3

LEMMA CmdFields ==
  ASSUME NEW name, NEW v, NEW c, c = Cmd(name, v)
  PROVE c.name = name /\ c.v = v
BY DEF Cmd

LEMMA ShortBack ==
  ASSUME NEW name \in DOMAIN Ranges, NEW b \in Ranges[name],
         NEW c, c = Cmd(name, Fields(name, b))
  PROVE  LastByte(c) \in Ranges[name] /\ Fields(name, LastByte(c)) = Fields(name, b)
<1>1. /\ c.name = name /\ c.v = Fields(name, b) /\ name \notin DOMAIN FirstBytes
      /\ name \notin {"SetMultiplexRatio", "SetDCDC", "SetDisplayOffset", "SetDisplayStartLine",
             "SetDisplayClockFrequency", "SetPreDischargePeriod",
             "SetContrastControlRegister", "SetVCOMDeselectLevel"}
      /\ b \in Nat
  BY MinRange, CmdFields, LongNotShort, FirstBytesAre
<1>2. CASE name \in {"ReadModifyWrite", "End", "Nop"}
  <2>1. LastByte(c) = Min(Ranges[name])
    BY <1>1, <1>2 DEF LastByte
  <2>2. \A x \in Nat : Fields(name, x) = <<>>
    BY <1>1, <1>2 DEF Fields
  <2>3. LastByte(c) \in Ranges[name] /\ LastByte(c) \in Nat
    BY <2>1, MinRange
  <2> QED BY <1>1, <2>2, <2>3
<1>3. CASE name = "SetCommonOutputScanDirection"
  <2>1. \A x \in Nat : Fields(name, x) = <<(x \div 8) % 2>>
    BY <1>3 DEF Fields
  <2>2. c.v[1] = (b \div 8) % 2
    BY <1>1, <2>1
  <2>3. LastByte(c) = 192 + 8 * c.v[1]
    BY <1>1, <1>3 DEF LastByte
  <2>4. b \in Nat /\ c.v[1] \in {0, 1}
    BY <1>3, <2>2, RangesAre
  <2>5. LastByte(c) \in 192 .. 207 /\ (LastByte(c) \div 8) % 2 = (b \div 8) % 2
    BY <2>2, <2>3, <2>4
  <2> QED BY <1>3, <2>1, <2>5, RangesAre
<1>4. CASE name \notin {"ReadModifyWrite", "End", "Nop", "SetCommonOutputScanDirection"}
  <2>1. \A x \in Nat : Fields(name, x) = <<x - Min(Ranges[name])>>
    BY <1>1, <1>4 DEF Fields
  <2>2. c.v[1] = b - Min(Ranges[name])
    BY <1>1, <2>1
  <2>3. LastByte(c) = Min(Ranges[name]) + c.v[1]
    BY <1>1, <1>4 DEF LastByte
  <2>4. Min(Ranges[name]) \in Nat /\ Min(Ranges[name]) <= b
    BY MinRange
  <2>5. LastByte(c) = b
    BY <1>1, <2>2, <2>3, <2>4
  <2> QED BY <2>5
<1> QED BY <1>2, <1>3, <1>4

\* c is the command of two bytes, name's first one and b.
IsLong(name, b, c) ==
  /\ name \in DOMAIN FirstBytes /\ b \in 0 .. 255 /\ c = Cmd(name, Fields(name, b))
  /\ name = "SetPreDischargePeriod" => b >= 16

LEMMA LongBack ==
  ASSUME NEW name, NEW b, NEW c, IsLong(name, b, c)
  PROVE  /\ LastByte(c) \in 0 .. 255 /\ Fields(name, LastByte(c)) = Fields(name, b)
         /\ name = "SetPreDischargePeriod" => LastByte(c) >= 16
<1> USE DEF IsLong
<1>1. /\ c.name = name /\ c.v = Fields(name, b)
      /\ name \notin {"ReadModifyWrite", "End", "Nop", "SetCommonOutputScanDirection"}
  BY CmdFields, FirstBytesAre
<1>2. CASE name = "SetMultiplexRatio"
  <2>1. \A x \in Nat : Fields(name, x) = <<(x % 128) + 1>>
    BY <1>2 DEF Fields
  <2>2. LastByte(c) = c.v[1] - 1
    BY <1>1, <1>2 DEF LastByte
  <2>3. LastByte(c) = b % 128 /\ (b % 128) % 128 = b % 128
    BY <1>1, <2>1, <2>2
  <2>4. LastByte(c) \in 0 .. 255 /\ LastByte(c) % 128 = b % 128
    BY <2>3
  <2>5. Fields(name, LastByte(c)) = <<(LastByte(c) % 128) + 1>>
    <3>1. PICK l \in Nat : l = LastByte(c)
      BY <2>4
    <3> QED BY <2>1, <3>1
  <2>6. Fields(name, b) = <<(b % 128) + 1>>
    BY <2>1
  <2> QED BY <1>2, <2>4, <2>5, <2>6
<1>3. CASE name = "SetDCDC"
  <2>1. \A x \in Nat : Fields(name, x) = <<IF x = 139 THEN 1 ELSE 0>>
    BY <1>3 DEF Fields
  <2>2. LastByte(c) = 138 + c.v[1]
    BY <1>1, <1>3 DEF LastByte
  <2>3. c.v[1] = IF b = 139 THEN 1 ELSE 0
    BY <1>1, <2>1
  <2>4. LastByte(c) \in Nat /\ LastByte(c) \in 0 .. 255 /\ (LastByte(c) = 139 <=> b = 139)
    BY <2>2, <2>3
  <2>5. Fields(name, LastByte(c)) = Fields(name, b)
    <3>1. PICK l \in Nat : l = LastByte(c) /\ (l = 139 <=> b = 139)
      BY <2>4
    <3>2. (IF l = 139 THEN 1 ELSE 0) = (IF b = 139 THEN 1 ELSE 0)
      BY <3>1
    <3>3. Fields(name, l) = Fields(name, b)
      BY <2>1, <3>2
    <3> QED BY <3>1, <3>3, Zenon
  <2> QED BY <1>3, <2>4, <2>5
<1>4. CASE name \in {"SetDisplayOffset", "SetDisplayStartLine"}
  <2>1. \A x \in Nat : Fields(name, x) = <<x % 128>>
    BY <1>4 DEF Fields
  <2>2. LastByte(c) = c.v[1]
    BY <1>1, <1>4 DEF LastByte
  <2>3. LastByte(c) = b % 128 /\ (b % 128) % 128 = b % 128
    BY <1>1, <2>1, <2>2
  <2> QED BY <1>4, <2>1, <2>3
<1>5. CASE name = "SetDisplayClockFrequency"
  <2>1. \A x \in Nat : Fields(name, x) = <<(x % 16) + 1, x \div 16>>
    BY <1>5 DEF Fields
  <2>2. LastByte(c) = 16 * c.v[2] + c.v[1] - 1
    BY <1>1, <1>5 DEF LastByte
  <2>3. c.v[1] = (b % 16) + 1 /\ c.v[2] = b \div 16
    BY <1>1, <2>1
  <2>4. LastByte(c) = b
    BY <2>2, <2>3
  <2> QED BY <1>5, <2>4
<1>6. CASE name = "SetPreDischargePeriod"
  <2>1. \A x \in Nat : Fields(name, x) = <<x % 16, x \div 16>>
    BY <1>6 DEF Fields
  <2>2. LastByte(c) = 16 * c.v[2] + c.v[1]
    BY <1>1, <1>6 DEF LastByte
  <2>3. c.v[1] = b % 16 /\ c.v[2] = b \div 16
    BY <1>1, <2>1
  <2>4. LastByte(c) = b
    BY <2>2, <2>3
  <2> QED BY <1>6, <2>4
<1>7. CASE name \in {"SetContrastControlRegister", "SetVCOMDeselectLevel"}
  <2>1. \A x \in Nat : Fields(name, x) = <<x>>
    BY <1>7 DEF Fields
  <2>2. LastByte(c) = c.v[1]
    BY <1>1, <1>7 DEF LastByte
  <2>3. LastByte(c) = b
    BY <1>1, <2>1, <2>2
  <2> QED BY <1>7, <2>3
<1> QED BY <1>2, <1>3, <1>4, <1>5, <1>6, <1>7, FirstBytesAre

\* What the parser makes of the bytes of a command.
Parses(c) ==
  LET tb == ToBytes(c) IN
  \/ /\ \E x \in 0 .. 255 : tb = <<x>>
     /\ ParseOne(tb) = [kind |-> "command", cmd |-> c]
  \/ \E x, y \in 0 .. 255 :
       /\ tb = <<x, y>> /\ ParseOne(<<x>>) = Partial
       /\ ParseOne(<<x, y>>) = [kind |-> "command", cmd |-> c]

LEMMA CommandParses ==
  ASSUME NEW c, IsCommand(c) PROVE Parses(c) /\ ~IsData(c) /\ ~IsLabel(c)
<1>1. ASSUME NEW name \in DOMAIN Ranges, NEW b \in Ranges[name], c = Cmd(name, Fields(name, b))
      PROVE Parses(c) /\ ~IsData(c) /\ ~IsLabel(c)
  <2>1. PICK l : l = LastByte(c)
    OBVIOUS
  <2>2. l \in Ranges[name] /\ l \in 0 .. 255 /\ Fields(name, l) = Fields(name, b)
    BY <1>1, <2>1, ShortBack, MinRange
  <2>3. c.name = name /\ name \notin DOMAIN FirstBytes /\ ~IsData(c) /\ ~IsLabel(c)
    BY <1>1, CmdFields, LongNotShort, RangesAre DEF IsData, IsLabel
  <2>4. ToBytes(c) = <<l>>
    BY <2>1, <2>3 DEF ToBytes
  <2>5. PICK tb : tb = <<l>>
    OBVIOUS
  <2>6. Len(tb) = 1 /\ tb[1] = l
    BY <2>5
  <2>7. PICK short : short = {n \in DOMAIN Ranges : tb[1] \in Ranges[n]}
    OBVIOUS
  <2>8. short = {name}
    BY <2>2, <2>6, <2>7, ShortUnique
  <2>9. CommandFrom(tb) = Parsed(CHOOSE n \in short : TRUE, tb[1])
    <3>1. {n \in DOMAIN FirstBytes : tb[1] = FirstBytes[n]} = {}
      BY <2>2, <2>6, LongNotShort
    <3>2. short # {}
      BY <2>8
    <3> QED BY <2>6, <2>7, <3>1, <3>2 DEF CommandFrom
  <2>10. (CHOOSE n \in short : TRUE) = name
    BY <2>8
  <2>11. CommandFrom(tb) = [kind |-> "command", cmd |-> c]
    BY <1>1, <2>2, <2>6, <2>9, <2>10 DEF Parsed
  <2>12. ParseOne(tb) = CommandFrom(tb)
    BY <2>6 DEF ParseOne
  <2> QED BY <2>2, <2>3, <2>4, <2>5, <2>11, <2>12 DEF Parses
<1>2. ASSUME NEW name \in DOMAIN FirstBytes, NEW b \in 0 .. 255,
             name = "SetPreDischargePeriod" => b >= 16, c = Cmd(name, Fields(name, b))
      PROVE Parses(c) /\ ~IsData(c) /\ ~IsLabel(c)
  <2>1. PICK l, f : l = LastByte(c) /\ f = FirstBytes[name]
    OBVIOUS
  <2>2. /\ l \in 0 .. 255 /\ Fields(name, l) = Fields(name, b) /\ f \in 0 .. 255
        /\ name = "SetPreDischargePeriod" => l >= 16
    <3>1. f \in 0 .. 255
      BY <2>1, FirstBytesAre
    <3>2. /\ LastByte(c) \in 0 .. 255 /\ Fields(name, LastByte(c)) = Fields(name, b)
          /\ name = "SetPreDischargePeriod" => LastByte(c) >= 16
      <4>1. IsLong(name, b, c)
        BY <1>2 DEF IsLong
      <4> QED BY <4>1, LongBack
    <3> QED BY <2>1, <3>1, <3>2
  <2>3. c.name = name /\ ~IsData(c) /\ ~IsLabel(c)
    BY <1>2, CmdFields, FirstBytesAre DEF IsData, IsLabel
  <2>4. ToBytes(c) = <<f, l>>
    BY <2>1, <2>3 DEF ToBytes
  <2>5. PICK one, two : one = <<f>> /\ two = <<f, l>>
    OBVIOUS
  <2>6. Len(one) = 1 /\ one[1] = f /\ Len(two) = 2 /\ two[1] = f /\ two[2] = l
    BY <2>5
  <2>7. /\ {n \in DOMAIN Ranges : f \in Ranges[n]} = {}
        /\ {n \in DOMAIN FirstBytes : f = FirstBytes[n]} = {name}
    BY <2>1, LongNotShort, LongUnique
  <2>8. PICK short, long : /\ short = {n \in DOMAIN Ranges : f \in Ranges[n]}
                           /\ long = {n \in DOMAIN FirstBytes : f = FirstBytes[n]}
    OBVIOUS
  <2>9. short = {} /\ long # {} /\ (CHOOSE n \in long : TRUE) = name
    BY <2>7, <2>8
  <2>10. CommandFrom(one) = Partial
    BY <2>6, <2>8, <2>9 DEF CommandFrom
  <2>11. CommandFrom(two) = Parsed(CHOOSE n \in long : TRUE, two[2])
    BY <2>6, <2>8, <2>9 DEF CommandFrom
  <2>12. CommandFrom(two) = [kind |-> "command", cmd |-> c]
    BY <1>2, <2>2, <2>6, <2>9, <2>11 DEF Parsed
  <2>13. ParseOne(one) = CommandFrom(one)
    BY <2>6 DEF ParseOne
  <2>14. f = FirstBytes["SetPreDischargePeriod"] => l >= 16
    <3>1. "SetPreDischargePeriod" \in DOMAIN FirstBytes
      BY FirstBytesAre
    <3>2. f = FirstBytes["SetPreDischargePeriod"] => name = "SetPreDischargePeriod"
      BY <2>1, <3>1, LongUnique
    <3> QED BY <2>2, <3>2
  <2>15. ~(two[1] = FirstBytes["SetPreDischargePeriod"] /\ two[2] < 16)
    BY <2>2, <2>6, <2>14
  <2>16. ParseOne(two) = CommandFrom(two)
    BY <2>15, Zenon DEF ParseOne
  <2> QED BY <2>2, <2>3, <2>4, <2>5, <2>10, <2>12, <2>13, <2>16 DEF Parses
<1> QED BY <1>1, <1>2 DEF IsCommand

-------------------------------------------------------------------------------
(***************************************************************************)
(* The bytes of each element, as they are composed.                        *)
(***************************************************************************)
\* An element of a sequence to compose.
IsElement(c) ==
  \/ IsCommand(c)
  \/ c = DataBytes(c.v) /\ c.v \in Seq(0 .. 255)
  \/ c = Label(c.v[1])

LEMMA ElementIs ==
  ASSUME NEW c, IsElement(c), ~IsLabel(c)
  PROVE  /\ ToBytes(c) \in Seq(0 .. 255)
         /\ IsData(c) => c.v = ToBytes(c)
         /\ ~IsData(c) => Parses(c) /\ Len(ToBytes(c)) \in {1, 2}
<1>1. CASE IsCommand(c)
  <2>1. Parses(c) /\ ~IsData(c)
    BY <1>1, CommandParses
  <2>2. PICK tb : tb = ToBytes(c)
    OBVIOUS
  <2>3. (\E x \in 0 .. 255 : tb = <<x>>) \/ (\E x, y \in 0 .. 255 : tb = <<x, y>>)
    BY <2>1, <2>2 DEF Parses
  <2>4. tb \in Seq(0 .. 255) /\ Len(tb) \in {1, 2}
    <3>1. ASSUME NEW x \in 0 .. 255, tb = <<x>>
          PROVE  tb \in Seq(0 .. 255) /\ Len(tb) \in {1, 2}
      BY <3>1
    <3>2. ASSUME NEW x \in 0 .. 255, NEW y \in 0 .. 255, tb = <<x, y>>
          PROVE  tb \in Seq(0 .. 255) /\ Len(tb) \in {1, 2}
      BY <3>2
    <3> QED BY <2>3, <3>1, <3>2
  <2> QED BY <2>1, <2>2, <2>4
<1>2. CASE c = DataBytes(c.v) /\ c.v \in Seq(0 .. 255)
  <2>1. c.name = "DataBytes"
    BY <1>2 DEF DataBytes
  <2>2. IsData(c) /\ ToBytes(c) = c.v
    BY <2>1 DEF IsData, ToBytes
  <2> QED BY <1>2, <2>2
<1>3. CASE c = Label(c.v[1])
  <2>1. c.name = "Label"
    BY <1>3 DEF Label
  <2> QED BY <2>1 DEF IsLabel
<1> QED BY <1>1, <1>2, <1>3 DEF IsElement

\* Pairs, joined.
LEMMA Pairs ==
  ASSUME NEW S, NEW seqs \in Seq(Seq(S)), \A k \in 1 .. Len(seqs) : Len(seqs[k]) = 2
  PROVE  /\ FlattenSeq(seqs) \in Seq(S) /\ Len(FlattenSeq(seqs)) = 2 * Len(seqs)
         /\ \A k \in 1 .. Len(seqs) : /\ FlattenSeq(seqs)[2 * k - 1] = seqs[k][1]
                                      /\ FlattenSeq(seqs)[2 * k] = seqs[k][2]
<1>1. PICK n, flat : n = Len(seqs) /\ flat = Flattened(seqs)
  OBVIOUS
<1>2. flat \in Seq(S) /\ \E st \in [0 .. Len(seqs) -> Nat] : Placed(seqs, flat, st)
  BY <1>1, Places
<1>3. PICK st \in [0 .. n -> Nat] : Placed(seqs, flat, st)
  BY <1>1, <1>2
<1>4. n \in Nat
  BY <1>1
<1> DEFINE T == {v \in Nat : v \in 0 .. n => st[v] = 2 * v}
<1>5. 0 \in T
  BY <1>3 DEF Placed
<1>6. ASSUME NEW v \in Nat, v \in T PROVE v + 1 \in T
  <2>1. CASE v + 1 \in 0 .. n
    <3>1. v + 1 \in 1 .. n /\ (v + 1) - 1 = v /\ v \in 0 .. n
      BY <1>4, <2>1
    <3>2. st[v + 1] = st[v] + Len(seqs[v + 1])
      BY <1>1, <1>3, <3>1 DEF Placed
    <3>3. st[v] = 2 * v /\ Len(seqs[v + 1]) = 2
      BY <1>1, <1>6, <3>1
    <3> QED BY <3>2, <3>3
  <2> QED BY <2>1
<1>7. \A v \in 0 .. n : st[v] = 2 * v
  <2>1. Nat \subseteq T
    <3> HIDE DEF T
    <3> QED BY <1>5, <1>6, Induct
  <2> QED BY <2>1
<1>8. Len(flat) = 2 * n
  BY <1>1, <1>3, <1>4, <1>7 DEF Placed
<1>9. ASSUME NEW k \in 1 .. n
      PROVE  flat[2 * k - 1] = seqs[k][1] /\ flat[2 * k] = seqs[k][2]
  <2>1. st[k - 1] = 2 * (k - 1)
    BY <1>4, <1>7
  <2>2. flat[st[k - 1] + 1] = seqs[k][1] /\ flat[st[k - 1] + 2] = seqs[k][2]
    <3>1. \A i \in 1 .. n : \A j \in 1 .. Len(seqs[i]) : flat[st[i - 1] + j] = seqs[i][j]
      BY <1>1, <1>3 DEF Placed
    <3>2. 1 \in 1 .. Len(seqs[k]) /\ 2 \in 1 .. Len(seqs[k])
      <4>1. Len(seqs[k]) = 2
        BY <1>1
      <4> QED BY <4>1
    <3> QED BY <3>1, <3>2
  <2>3. st[k - 1] + 1 = 2 * k - 1 /\ st[k - 1] + 2 = 2 * k
    BY <2>1
  <2> QED BY <2>2, <2>3
<1> QED BY <1>1, <1>2, <1>8, <1>9, FlattenIs

\* The bytes of a command with a control byte before each.
Each(b, tb) == FlattenSeq([k \in DOMAIN tb |-> <<b, tb[k]>>])

LEMMA Controlled ==
  ASSUME NEW tb \in Seq(0 .. 255), NEW b \in 0 .. 255
  PROVE  /\ Each(b, tb) \in Seq(0 .. 255) /\ Len(Each(b, tb)) = 2 * Len(tb)
         /\ \A k \in 1 .. Len(tb) : Each(b, tb)[2 * k - 1] = b /\ Each(b, tb)[2 * k] = tb[k]
<1>1. PICK seqs : seqs = [k \in DOMAIN tb |-> <<b, tb[k]>>]
  OBVIOUS
<1>2. PICK n : n = Len(tb)
  OBVIOUS
<1>3. n \in Nat /\ DOMAIN tb = 1 .. n /\ \A k \in 1 .. n : tb[k] \in 0 .. 255
  BY <1>2, LenProperties, ElementOfSeq
<1>4. ASSUME NEW k \in 1 .. n
      PROVE  /\ seqs[k] \in Seq(0 .. 255) /\ Len(seqs[k]) = 2
             /\ seqs[k][1] = b /\ seqs[k][2] = tb[k]
  <2>1. PICK x, t : x = tb[k] /\ t = <<b, x>>
    OBVIOUS
  <2>2. x \in 0 .. 255
    BY <1>3, <2>1
  <2>3. t \in Seq(0 .. 255) /\ Len(t) = 2 /\ t[1] = b /\ t[2] = x
    BY <2>1, <2>2
  <2>4. seqs[k] = t
    BY <1>1, <1>3, <2>1
  <2> QED BY <2>1, <2>3, <2>4
<1>5. seqs \in Seq(Seq(0 .. 255)) /\ Len(seqs) = n
  <2>1. seqs \in [1 .. n -> Seq(0 .. 255)]
    BY <1>1, <1>3, <1>4
  <2> QED BY <1>3, <2>1
<1>6. Each(b, tb) = FlattenSeq(seqs)
  BY <1>1 DEF Each
<1>7. /\ FlattenSeq(seqs) \in Seq(0 .. 255) /\ Len(FlattenSeq(seqs)) = 2 * Len(seqs)
      /\ \A k \in 1 .. Len(seqs) : /\ FlattenSeq(seqs)[2 * k - 1] = seqs[k][1]
                                   /\ FlattenSeq(seqs)[2 * k] = seqs[k][2]
  <2>1. seqs \in Seq(Seq(0 .. 255)) /\ \A k \in 1 .. Len(seqs) : Len(seqs[k]) = 2
    BY <1>4, <1>5
  <2> QED BY <2>1, Pairs, Zenon
<1>8. PICK e : e = Each(b, tb)
  OBVIOUS
<1>9. /\ e \in Seq(0 .. 255) /\ Len(e) = 2 * n
      /\ \A k \in 1 .. n : e[2 * k - 1] = seqs[k][1] /\ e[2 * k] = seqs[k][2]
  BY <1>5, <1>6, <1>7, <1>8, Zenon
<1>10. ASSUME NEW k \in 1 .. n PROVE e[2 * k - 1] = b /\ e[2 * k] = tb[k]
  <2>1. e[2 * k - 1] = seqs[k][1] /\ e[2 * k] = seqs[k][2]
    BY <1>9
  <2>2. seqs[k][1] = b /\ seqs[k][2] = tb[k]
    BY <1>4
  <2> QED BY <2>1, <2>2, Zenon
<1> QED BY <1>2, <1>8, <1>9, <1>10, Zenon

\* An element's bytes as they are composed: behind a control byte each, behind one
\* that stands for all the rest, or behind such a one that came before.
Composes(cmds, i, piece) ==
  LET tb == ToBytes(cmds[i])
      control(more) == ControlByte(more, IsData(cmds[i]))
  IN
  /\ piece \in Seq(0 .. 255)
  /\ ~Finished(cmds, i) =>
       /\ Len(piece) = 2 * Len(tb)
       /\ \A k \in 1 .. Len(tb) : piece[2 * k - 1] = control(TRUE) /\ piece[2 * k] = tb[k]
  /\ Finishes(cmds, i) =>
       /\ Len(piece) = 1 + Len(tb) /\ piece[1] = control(FALSE)
       /\ \A k \in 1 .. Len(tb) : piece[1 + k] = tb[k]
  /\ Finished(cmds, i) /\ ~Finishes(cmds, i) => piece = tb

LEMMA ControlByteIs ==
  ASSUME NEW more \in BOOLEAN, NEW data \in BOOLEAN, NEW b, b = ControlByte(more, data)
  PROVE  /\ b \in 0 .. 255 /\ b % 64 = 0 /\ ((b \div 64) % 2 = 1 <=> data)
         /\ (b >= 128 <=> more)
BY DEF ControlByte

LEMMA PieceIs ==
  ASSUME NEW cmds, NEW i, IsElement(cmds[i])
  PROVE  /\ IsLabel(cmds[i]) => Piece(cmds, i) = <<>>
         /\ ~IsLabel(cmds[i]) => Composes(cmds, i, Piece(cmds, i))
<1>1. CASE IsLabel(cmds[i])
  BY <1>1 DEF Piece
<1>2. CASE ~IsLabel(cmds[i])
  <2>1. PICK tb, data, piece :
          /\ tb = ToBytes(cmds[i]) /\ data = IsData(cmds[i]) /\ piece = Piece(cmds, i)
    OBVIOUS
  <2>2. tb \in Seq(0 .. 255) /\ data \in BOOLEAN
    BY <1>2, <2>1, ElementIs DEF IsData
  <2>3. PICK on, off : on = ControlByte(TRUE, data) /\ off = ControlByte(FALSE, data)
    OBVIOUS
  <2>4. on \in 0 .. 255 /\ off \in 0 .. 255
    BY <2>2, <2>3 DEF ControlByte
  <2>5. CASE ~Finished(cmds, i)
    <3>1. ~Finishes(cmds, i)
      BY <2>5 DEF Finishes
    <3>2. piece = Each(on, tb)
      BY <1>2, <2>1, <2>3, <2>5 DEF Piece, Each
    <3>3. /\ piece \in Seq(0 .. 255) /\ Len(piece) = 2 * Len(tb)
          /\ \A k \in 1 .. Len(tb) : piece[2 * k - 1] = on /\ piece[2 * k] = tb[k]
      <4>1. PICK e : e = Each(on, tb)
        OBVIOUS
      <4>2. /\ e \in Seq(0 .. 255) /\ Len(e) = 2 * Len(tb)
            /\ \A k \in 1 .. Len(tb) : e[2 * k - 1] = on /\ e[2 * k] = tb[k]
        <5>1. tb \in Seq(0 .. 255) /\ on \in 0 .. 255
          BY <2>2, <2>4
        <5>2. /\ Each(on, tb) \in Seq(0 .. 255) /\ Len(Each(on, tb)) = 2 * Len(tb)
              /\ \A k \in 1 .. Len(tb) :
                   Each(on, tb)[2 * k - 1] = on /\ Each(on, tb)[2 * k] = tb[k]
          BY <5>1, Controlled, Zenon
        <5> QED BY <4>1, <5>2, Zenon
      <4> QED BY <3>2, <4>1, <4>2
    <3> QED BY <1>2, <2>1, <2>3, <2>5, <3>1, <3>3 DEF Composes
  <2>6. CASE Finishes(cmds, i)
    <3>1. Finished(cmds, i)
      BY <2>6 DEF Finishes
    <3>2. PICK one : one = <<off>>
      OBVIOUS
    <3>3. piece = one \o tb
      BY <1>2, <2>1, <2>3, <2>6, <3>1, <3>2 DEF Piece
    <3>4. one \in Seq(0 .. 255) /\ Len(one) = 1 /\ one[1] = off
      BY <2>4, <3>2
    <3>5. /\ piece \in Seq(0 .. 255) /\ Len(piece) = Len(one) + Len(tb)
          /\ \A j \in 1 .. Len(one) : piece[j] = one[j]
          /\ \A j \in 1 .. Len(tb) : piece[Len(one) + j] = tb[j]
      <4>1. PICK r : r = piece
        OBVIOUS
      <4>2. one \in Seq(0 .. 255) /\ tb \in Seq(0 .. 255) /\ r = one \o tb
        BY <2>2, <3>3, <3>4, <4>1
      <4>3. /\ r \in Seq(0 .. 255) /\ Len(r) = Len(one) + Len(tb)
            /\ \A j \in 1 .. Len(one) : r[j] = one[j]
            /\ \A j \in 1 .. Len(tb) : r[Len(one) + j] = tb[j]
        BY <4>2, JoinIs
      <4> QED BY <4>1, <4>3
    <3>6. piece[1] = off
      BY <3>4, <3>5
    <3>7. Len(piece) = 1 + Len(tb) /\ \A k \in 1 .. Len(tb) : piece[1 + k] = tb[k]
      BY <3>4, <3>5
    <3>8. Composes(cmds, i, piece)
      BY <2>1, <2>3, <2>6, <3>1, <3>5, <3>6, <3>7 DEF Composes
    <3> QED BY <1>2, <2>1, <3>8
  <2>7. CASE Finished(cmds, i) /\ ~Finishes(cmds, i)
    <3>1. PICK none : none = <<>>
      OBVIOUS
    <3>2. piece = none \o tb
      BY <1>2, <2>1, <2>7, <3>1 DEF Piece
    <3>3. piece = tb
      BY <2>2, <3>1, <3>2, ConcatEmptySeq
    <3> QED BY <1>2, <2>1, <2>2, <2>7, <3>3 DEF Composes
  <2> QED BY <1>2, <2>1, <2>5, <2>6, <2>7 DEF Finishes
<1> QED BY <1>1, <1>2

\* How far into the bytes of the i-th element it is once k bytes of its own, and
\* the control byte of the next (ready = 1), have gone.
Into(cmds, i, k, ready) ==
  IF Finishes(cmds, i) THEN k + ready
  ELSE IF Finished(cmds, i) THEN k
  ELSE 2 * k + ready

\* That can be: behind the control byte that stands for all the rest there is no
\* other one.
CanBe(cmds, i, k, ready) ==
  /\ ~IsLabel(cmds[i]) /\ k \in 0 .. Len(ToBytes(cmds[i])) /\ ready \in {0, 1}
  /\ Finished(cmds, i) /\ k # 0 => ready = 1
  /\ Finished(cmds, i) /\ ~Finishes(cmds, i) => ready = 1
  /\ ~Finished(cmds, i) /\ k = Len(ToBytes(cmds[i])) => ready = 0

AtEnd(cmds, i, k, ready) ==
  k = Len(ToBytes(cmds[i])) /\ (ready = 1 <=> Finished(cmds, i))

\* The byte that comes then, and where it is behind it.
Leads(cmds, i, k, ready, k2, ready2, byte) ==
  /\ CanBe(cmds, i, k2, ready2)
  /\ Into(cmds, i, k2, ready2) = Into(cmds, i, k, ready) + 1
  /\ \/ /\ ready = 1 /\ k + 1 \in 1 .. Len(ToBytes(cmds[i])) /\ k2 = k + 1
        /\ byte = ToBytes(cmds[i])[k + 1] /\ (ready2 = 1 <=> Finished(cmds, i))
     \/ /\ ready = 0 /\ k2 = k /\ ready2 = 1
        /\ byte = ControlByte(~Finished(cmds, i), IsData(cmds[i]))

Continues(cmds, i, k, ready, piece) ==
  LET at == Into(cmds, i, k, ready) IN
  /\ at \in 0 .. Len(piece)
  /\ AtEnd(cmds, i, k, ready) => at = Len(piece)
  /\ ~AtEnd(cmds, i, k, ready) =>
       /\ at + 1 \in 1 .. Len(piece)
       /\ \E k2, ready2 : Leads(cmds, i, k, ready, k2, ready2, piece[at + 1])

LEMMA NextByteIs ==
  ASSUME NEW cmds, NEW i, IsElement(cmds[i]), NEW k, NEW ready, CanBe(cmds, i, k, ready)
  PROVE  Continues(cmds, i, k, ready, Piece(cmds, i))
<1>1. PICK tb, data, piece, n :
        /\ tb = ToBytes(cmds[i]) /\ data = IsData(cmds[i]) /\ piece = Piece(cmds, i)
        /\ n = Len(tb)
  OBVIOUS
<1>2. /\ ~IsLabel(cmds[i]) /\ k \in 0 .. n /\ ready \in {0, 1} /\ tb \in Seq(0 .. 255)
      /\ n \in Nat /\ Composes(cmds, i, piece)
  BY <1>1, ElementIs, PieceIs DEF CanBe
<1>3. CASE ~Finished(cmds, i)
  <2>1. ~Finishes(cmds, i) /\ (k = n => ready = 0)
    BY <1>1, <1>2, <1>3 DEF Finishes, CanBe
  <2>2. \A x \in Nat : \A y \in {0, 1} : Into(cmds, i, x, y) = 2 * x + y
    BY <1>3, <2>1 DEF Into
  <2>3. /\ piece \in Seq(0 .. 255) /\ Len(piece) = 2 * n
        /\ \A x \in 1 .. n : /\ piece[2 * x - 1] = ControlByte(TRUE, data)
                             /\ piece[2 * x] = tb[x]
    BY <1>1, <1>2, <1>3 DEF Composes
  <2>4. CASE ready = 1
    <3>1. k # n /\ k + 1 \in 1 .. n /\ k \in Nat /\ k + 1 \in 0 .. n /\ k + 1 \in Nat
      BY <1>2, <2>1, <2>4
    <3>2. /\ Into(cmds, i, k, ready) = 2 * k + 1
          /\ Into(cmds, i, k + 1, 0) = 2 * (k + 1)
      BY <2>2, <2>4, <3>1
    <3>3. 2 * k + 1 + 1 = 2 * (k + 1) /\ 2 * (k + 1) \in 1 .. 2 * n /\ 2 * k + 1 \in 0 .. 2 * n
      BY <1>2, <3>1
    <3>4. piece[2 * (k + 1)] = tb[k + 1]
      BY <2>3, <3>1
    <3>5. CanBe(cmds, i, k + 1, 0)
      BY <1>1, <1>2, <1>3, <3>1 DEF CanBe
    <3>6. Leads(cmds, i, k, ready, k + 1, 0, piece[2 * (k + 1)])
      BY <1>1, <1>3, <2>4, <3>1, <3>2, <3>3, <3>4, <3>5 DEF Leads
    <3>7. ~AtEnd(cmds, i, k, ready)
      BY <1>1, <3>1 DEF AtEnd
    <3> QED BY <1>1, <2>3, <3>2, <3>3, <3>6, <3>7 DEF Continues
  <2>5. CASE ready = 0
    <3>1. Into(cmds, i, k, ready) = 2 * k /\ Into(cmds, i, k, 1) = 2 * k + 1
      BY <1>2, <2>2, <2>5
    <3>2. 2 * k \in 0 .. 2 * n /\ (k = n => 2 * k = 2 * n)
      BY <1>2
    <3>3. AtEnd(cmds, i, k, ready) => k = n
      BY <1>1 DEF AtEnd
    <3>4. ASSUME ~AtEnd(cmds, i, k, ready)
          PROVE  /\ 2 * k + 1 \in 1 .. 2 * n
                 /\ Leads(cmds, i, k, ready, k, 1, piece[2 * k + 1])
      <4>1. k # n
        BY <1>1, <1>3, <2>5, <3>4 DEF AtEnd
      <4>2. k + 1 \in 1 .. n /\ 2 * (k + 1) - 1 = 2 * k + 1 /\ 2 * k + 1 \in 1 .. 2 * n
        BY <1>2, <4>1
      <4>3. piece[2 * k + 1] = ControlByte(TRUE, data)
        BY <2>3, <4>2
      <4>4. CanBe(cmds, i, k, 1)
        BY <1>1, <1>2, <1>3, <4>1 DEF CanBe
      <4>5. ControlByte(TRUE, data) = ControlByte(~Finished(cmds, i), IsData(cmds[i]))
        BY <1>1, <1>3 DEF ControlByte
      <4> QED BY <2>5, <3>1, <4>2, <4>3, <4>4, <4>5 DEF Leads
    <3> QED BY <1>1, <2>3, <3>1, <3>2, <3>3, <3>4 DEF Continues
  <2> QED BY <1>2, <2>4, <2>5
<1>4. CASE Finishes(cmds, i)
  <2>1. Finished(cmds, i) /\ (k # 0 => ready = 1)
    BY <1>1, <1>2, <1>4 DEF Finishes, CanBe
  <2>2. \A x \in Nat : \A y \in {0, 1} : Into(cmds, i, x, y) = x + y
    BY <1>4 DEF Into
  <2>3. /\ piece \in Seq(0 .. 255) /\ Len(piece) = 1 + n
        /\ piece[1] = ControlByte(FALSE, data)
        /\ \A x \in 1 .. n : piece[1 + x] = tb[x]
    BY <1>1, <1>2, <1>4 DEF Composes
  <2>4. CASE ready = 1
    <3>1. Into(cmds, i, k, ready) = k + 1 /\ k + 1 \in 0 .. 1 + n
      BY <1>2, <2>2, <2>4
    <3>2. AtEnd(cmds, i, k, ready) <=> k = n
      BY <1>1, <2>1, <2>4 DEF AtEnd
    <3>3. ASSUME k # n
          PROVE  /\ k + 1 + 1 \in 1 .. 1 + n
                 /\ Leads(cmds, i, k, ready, k + 1, 1, piece[k + 1 + 1])
      <4>1. k + 1 \in 1 .. n /\ 1 + (k + 1) = k + 1 + 1 /\ k + 1 \in 0 .. n /\ k + 1 \in Nat
        BY <1>2, <3>3
      <4>2. piece[k + 1 + 1] = tb[k + 1]
        BY <2>3, <4>1
      <4>3. CanBe(cmds, i, k + 1, 1)
        BY <1>1, <1>2, <1>4, <2>1, <4>1 DEF CanBe
      <4>4. Into(cmds, i, k + 1, 1) = k + 1 + 1
        BY <2>2, <4>1
      <4>5. k + 1 + 1 \in 1 .. 1 + n
        BY <1>2, <4>1
      <4> QED BY <1>1, <2>1, <2>4, <3>1, <4>1, <4>2, <4>3, <4>4, <4>5 DEF Leads
    <3>4. k = n => k + 1 = Len(piece)
      BY <1>2, <2>3
    <3> QED BY <1>1, <2>3, <3>1, <3>2, <3>3, <3>4 DEF Continues
  <2>5. CASE ready = 0
    <3>1. k = 0 /\ Into(cmds, i, k, ready) = 0 /\ Into(cmds, i, k, 1) = 0 + 1
      BY <1>2, <2>1, <2>2, <2>5
    <3>2. CanBe(cmds, i, k, 1)
      BY <1>1, <1>2, <1>4, <2>1, <3>1 DEF CanBe
    <3>3. ControlByte(FALSE, data) = ControlByte(~Finished(cmds, i), IsData(cmds[i]))
      BY <1>1, <2>1 DEF ControlByte
    <3>7. piece[0 + 1] = ControlByte(~Finished(cmds, i), IsData(cmds[i]))
      <4>1. 0 + 1 = 1
        OBVIOUS
      <4> QED BY <2>3, <3>3, <4>1, Zenon
    <3>8. Into(cmds, i, k, 1) = Into(cmds, i, k, ready) + 1
      BY <3>1
    <3>4. Leads(cmds, i, k, ready, k, 1, piece[0 + 1])
      BY <2>5, <3>2, <3>7, <3>8 DEF Leads
    <3>5. ~AtEnd(cmds, i, k, ready)
      BY <2>1, <2>5 DEF AtEnd
    <3>6. 0 \in 0 .. 1 + n /\ 0 + 1 \in 1 .. 1 + n
      BY <1>2
    <3> QED BY <1>1, <2>3, <3>1, <3>4, <3>5, <3>6 DEF Continues
  <2> QED BY <1>2, <2>4, <2>5
<1>5. CASE Finished(cmds, i) /\ ~Finishes(cmds, i)
  <2>1. ready = 1
    BY <1>2, <1>5 DEF CanBe
  <2>2. \A x \in Nat : Into(cmds, i, x, 1) = x
    BY <1>5 DEF Into
  <2>3. piece = tb
    BY <1>1, <1>2, <1>5 DEF Composes
  <2>4. AtEnd(cmds, i, k, ready) <=> k = n
    BY <1>1, <1>5, <2>1 DEF AtEnd
  <2>5. ASSUME k # n
        PROVE  k + 1 \in 1 .. n /\ Leads(cmds, i, k, ready, k + 1, 1, piece[k + 1])
    <3>1. k + 1 \in 1 .. n /\ k + 1 \in 0 .. n /\ k + 1 \in Nat /\ k \in Nat
      BY <1>2, <2>5
    <3>2. CanBe(cmds, i, k + 1, 1)
      BY <1>1, <1>2, <1>5, <3>1 DEF CanBe
    <3>3. Into(cmds, i, k + 1, 1) = Into(cmds, i, k, ready) + 1
      BY <2>1, <2>2, <3>1
    <3> QED BY <1>1, <1>5, <2>1, <2>3, <3>1, <3>2, <3>3 DEF Leads
  <2>6. Into(cmds, i, k, ready) = k /\ k \in 0 .. n
    BY <1>2, <2>1, <2>2
  <2>7. Continues(cmds, i, k, ready, piece)
    BY <1>1, <2>3, <2>4, <2>5, <2>6 DEF Continues
  <2> QED BY <1>1, <2>7
<1> QED BY <1>3, <1>4, <1>5 DEF Finishes

-------------------------------------------------------------------------------
(***************************************************************************)
(* What is composed comes back.                                            *)
(***************************************************************************)
\* What a parser makes of each kind of byte.
LEMMA ReadsControl ==
  ASSUME NEW p, IsParser(p), p.state = "Control", NEW more \in BOOLEAN, NEW data \in BOOLEAN,
         p.partial = <<>> \/ ~data, NEW b, b = ControlByte(more, data), NEW r, r = Feed(p, b)
  PROVE  /\ r.state = IF data THEN "Data" ELSE "Command"
         /\ (r.continuation <=> more) /\ r.partial = p.partial /\ r.out = <<>>
         /\ (r.valid_finish <=> p.partial = <<>>)
<1>1. PICK s, c, e : /\ s = IF (b \div 64) % 2 = 1 THEN "Data" ELSE "Command"
                     /\ c = (b >= 128) /\ e = (p.partial = <<>>)
  OBVIOUS
<1>2. b % 64 = 0 /\ ((b \div 64) % 2 = 1 <=> data) /\ (b >= 128 <=> more)
  BY ControlByteIs
<1>3. ~(b % 64 # 0 \/ (p.partial # <<>> /\ (b \div 64) % 2 = 1))
  BY <1>2
<1>4. r = FeedControl(p, b)
  BY DEF Feed
<1>5. r = [p EXCEPT !.continuation = c, !.state = s, !.valid_finish = e, !.out = <<>>]
  BY <1>1, <1>3, <1>4 DEF FeedControl
<1>6. r = TheParser(s, c, p.partial, e, <<>>)
  BY <1>5, ControlUpdate
<1>7. /\ r.state = s /\ r.continuation = c /\ r.partial = p.partial /\ r.out = <<>>
      /\ r.valid_finish = e
  BY <1>6 DEF TheParser
<1> QED BY <1>1, <1>2, <1>7

LEMMA ReadsData ==
  ASSUME NEW p, IsParser(p), p.state = "Data", NEW b, NEW r, r = Feed(p, b)
  PROVE  /\ r.state = (IF p.continuation THEN "Control" ELSE "Data")
         /\ r.continuation = p.continuation /\ r.partial = p.partial
         /\ r.out = <<DataBytes(<<b>>)>> /\ (r.valid_finish <=> ~p.continuation)
<1>1. r = FeedData(p, b)
  BY DEF Feed
<1>2. PICK d, s, c : d = <<DataBytes(<<b>>)>> /\ s = Continued(p) /\ c = ~p.continuation
  OBVIOUS
<1>3. r = TheParser(s, p.continuation, p.partial, c, d)
  BY <1>1, <1>2, DataUpdate
<1>4. /\ r.state = s /\ r.continuation = p.continuation /\ r.partial = p.partial /\ r.out = d
      /\ r.valid_finish = c
  BY <1>3 DEF TheParser
<1> QED BY <1>2, <1>4 DEF Continued

\* The first of two bytes, and the last byte.
Feeds(p, b, bytes, r) == bytes = Append(p.partial, b) /\ r = Feed(p, b)

LEMMA ReadsCommand ==
  ASSUME NEW p, IsParser(p), p.state = "Command", NEW b, NEW bytes, NEW r, Feeds(p, b, bytes, r),
         NEW c
  PROVE  /\ ParseOne(bytes) = Partial =>
              /\ r.state = (IF p.continuation THEN "Control" ELSE "Command")
              /\ r.continuation = p.continuation /\ r.partial = bytes /\ r.out = <<>>
         /\ ParseOne(bytes) = [kind |-> "command", cmd |-> c] =>
              /\ r.state = (IF p.continuation THEN "Control" ELSE "Command")
              /\ r.continuation = p.continuation /\ r.partial = <<>> /\ r.out = <<c>>
              /\ (r.valid_finish <=> ~p.continuation)
<1>0. bytes = Append(p.partial, b)
  BY DEF Feeds
<1>1. r = FeedCommand(p, b)
  BY DEF Feed, Feeds
<1>2. PICK px, s, f : px = ParseOne(bytes) /\ s = Continued(p) /\ f = ~p.continuation
  OBVIOUS
<1>s. s = IF p.continuation THEN "Control" ELSE "Command"
  BY <1>2 DEF Continued
<1>3. /\ px.kind = "partial" => r = TheParser(s, p.continuation, bytes, FALSE, <<>>)
      /\ px.kind = "command" => r = TheParser(s, p.continuation, <<>>, f, <<px.cmd>>)
  BY <1>0, <1>1, <1>2, CommandUpdate
<1>4. ASSUME ParseOne(bytes) = Partial
      PROVE  /\ r.state = s /\ r.continuation = p.continuation /\ r.partial = bytes
             /\ r.out = <<>>
  <2>1. px.kind = "partial"
    BY <1>2, <1>4 DEF Partial
  <2> QED BY <1>3, <2>1 DEF TheParser
<1>5. ASSUME ParseOne(bytes) = [kind |-> "command", cmd |-> c]
      PROVE  /\ r.state = s /\ r.continuation = p.continuation /\ r.partial = <<>>
             /\ r.out = <<c>> /\ r.valid_finish = f
  <2>1. px.kind = "command" /\ px.cmd = c
    BY <1>2, <1>5
  <2> QED BY <1>3, <2>1 DEF TheParser
<1> QED BY <1>2, <1>s, <1>4, <1>5


\* What an element is to come back as, and how much of it is there after k of its
\* bytes; and the first byte of a command that is kept until the second.
MeantOne(c) ==
  IF IsLabel(c) THEN <<>>
  ELSE IF IsData(c) THEN [k \in DOMAIN c.v |-> DataBytes(<<c.v[k]>>)]
  ELSE <<c>>

Complete(c, k) ==
  IF IsData(c) THEN k ELSE IF k = Len(ToBytes(c)) THEN 1 ELSE 0

Kept(c, k) ==
  IF ~IsData(c) /\ k = 1 /\ Len(ToBytes(c)) = 2 THEN <<ToBytes(c)[1]>> ELSE <<>>

Kind(c) == IF IsData(c) THEN "Data" ELSE "Command"

\* The parser, k bytes into the i-th element.
At(cmds, i, k, ready, p) ==
  /\ CanBe(cmds, i, k, ready) /\ IsParser(p)
  /\ p.state = IF ready = 1 THEN Kind(cmds[i]) ELSE "Control"
  /\ ready = 1 => (p.continuation <=> ~Finished(cmds, i))
  /\ p.partial = Kept(cmds[i], k)
  /\ ready = 1 /\ Finished(cmds, i) /\ p.partial = <<>> => p.valid_finish

\* What a byte completes.
Completes(c, k, k2, out) ==
  \/ out = <<>> /\ Complete(c, k2) = Complete(c, k)
  \/ /\ Complete(c, k2) = Complete(c, k) + 1 /\ Complete(c, k2) \in 1 .. Len(MeantOne(c))
     /\ out = <<MeantOne(c)[Complete(c, k2)]>>

LEMMA AppendPair ==
  ASSUME NEW y, NEW z
  PROVE Append(<<y>>, z) = <<y, z>>
<1>1. PICK S, s, t, u : S = {y, z} /\ s = <<y>> /\ t = <<y, z>> /\ u = Append(s, z)
  OBVIOUS
<1>2. s \in Seq(S) /\ t \in Seq(S) /\ Len(s) = 1 /\ Len(t) = 2 /\ s[1] = y /\ z \in S
      /\ t[1] = y /\ t[2] = z
  BY <1>1
<1>3. u \in Seq(S) /\ Len(u) = 2 /\ u[1] = y /\ u[2] = z
  BY <1>1, <1>2, AppendProperties
<1>4. \A k \in 1 .. 2 : u[k] = t[k]
  BY <1>2, <1>3
<1> QED BY <1>1, <1>2, <1>3, <1>4, SeqEqual

LEMMA ControlStep ==
  ASSUME NEW cmds, NEW i, IsElement(cmds[i]), NEW k, NEW p, At(cmds, i, k, 0, p),
         CanBe(cmds, i, k, 1),
         NEW b, b = ControlByte(~Finished(cmds, i), IsData(cmds[i])), NEW r, r = Feed(p, b),
         IsParser(r)
  PROVE  At(cmds, i, k, 1, r) /\ Completes(cmds[i], k, k, r.out)
<1>1. PICK more, data : more = (~Finished(cmds, i)) /\ data = IsData(cmds[i])
  OBVIOUS
<1>2. more \in BOOLEAN /\ data \in BOOLEAN /\ b = ControlByte(more, data)
  BY <1>1 DEF Finished, IsData
<1>3. p.partial = <<>> \/ ~data
  BY <1>1 DEF At, Kept
<1>4. p.state = "Control" /\ IsParser(p) /\ p.partial = Kept(cmds[i], k)
  BY DEF At
<1>5. /\ r.state = IF data THEN "Data" ELSE "Command"
      /\ (r.continuation <=> more) /\ r.partial = p.partial /\ r.out = <<>>
      /\ (r.valid_finish <=> p.partial = <<>>)
  BY <1>2, <1>3, <1>4, ReadsControl
<1>6. r.state = Kind(cmds[i])
  BY <1>1, <1>5 DEF Kind
<1>7. Completes(cmds[i], k, k, r.out)
  BY <1>5 DEF Completes
<1> QED BY <1>1, <1>4, <1>5, <1>6, <1>7 DEF At

LEMMA ByteStep ==
  ASSUME NEW cmds, NEW i, IsElement(cmds[i]), NEW k, NEW ready, NEW p, At(cmds, i, k, 1, p),
         k + 1 \in 1 .. Len(ToBytes(cmds[i])), CanBe(cmds, i, k + 1, ready),
         ready = 1 <=> Finished(cmds, i),
         NEW r, r = Feed(p, ToBytes(cmds[i])[k + 1]), IsParser(r)
  PROVE  At(cmds, i, k + 1, ready, r) /\ Completes(cmds[i], k, k + 1, r.out)
<1>1. PICK c, tb, x : c = cmds[i] /\ tb = ToBytes(c) /\ x = tb[k + 1]
  OBVIOUS
<1>2. /\ IsParser(p) /\ p.state = Kind(c) /\ (p.continuation <=> ~Finished(cmds, i))
      /\ p.partial = Kept(c, k) /\ ~IsLabel(c) /\ k \in Nat /\ ready \in {0, 1}
      /\ r = Feed(p, x)
  BY <1>1 DEF At, CanBe
<1>3. /\ tb \in Seq(0 .. 255)
      /\ IsData(c) => c.v = tb
      /\ ~IsData(c) => Parses(c)
  BY <1>1, <1>2, ElementIs
<1>4. SUFFICES
        /\ r.state = (IF ready = 1 THEN Kind(c) ELSE "Control")
        /\ (r.continuation <=> ~Finished(cmds, i))
        /\ r.partial = Kept(c, k + 1)
        /\ Finished(cmds, i) /\ r.partial = <<>> => r.valid_finish
        /\ Completes(c, k, k + 1, r.out)
  BY <1>1 DEF At
<1>5. CASE IsData(c)
  <2>1. p.state = "Data" /\ Kind(c) = "Data" /\ Kept(c, k) = <<>> /\ Kept(c, k + 1) = <<>>
    BY <1>2, <1>5 DEF Kind, Kept
  <2>2. /\ r.state = (IF p.continuation THEN "Control" ELSE "Data")
        /\ r.continuation = p.continuation /\ r.partial = p.partial
        /\ r.out = <<DataBytes(<<x>>)>> /\ (r.valid_finish <=> ~p.continuation)
    BY <1>2, <2>1, ReadsData
  <2>3. Complete(c, k + 1) = k + 1 /\ Complete(c, k) = k
    BY <1>5 DEF Complete
  <2>4. DOMAIN tb = 1 .. Len(tb) /\ Len(tb) \in Nat /\ k + 1 \in 1 .. Len(tb)
    BY <1>1, <1>3, LenProperties
  <2>5. PICK m : m = [j \in 1 .. Len(tb) |-> DataBytes(<<tb[j]>>)]
    OBVIOUS
  <2>6. MeantOne(c) = m
    BY <1>2, <1>3, <1>5, <2>4, <2>5 DEF MeantOne
  <2>7. Len(m) = Len(tb) /\ m[k + 1] = DataBytes(<<x>>)
    BY <1>1, <2>4, <2>5
  <2>8. Completes(c, k, k + 1, r.out)
    BY <2>2, <2>3, <2>4, <2>6, <2>7 DEF Completes
  <2> QED BY <1>2, <2>1, <2>2, <2>8
<1>6. CASE ~IsData(c)
  <2>1. p.state = "Command" /\ Kind(c) = "Command" /\ MeantOne(c) = <<c>>
    BY <1>2, <1>6 DEF Kind, MeantOne
  <2>2. PICK bytes : bytes = Append(p.partial, x)
    OBVIOUS
  <2>3. /\ ParseOne(bytes) = Partial =>
             /\ r.state = (IF p.continuation THEN "Control" ELSE "Command")
             /\ r.continuation = p.continuation /\ r.partial = bytes /\ r.out = <<>>
        /\ ParseOne(bytes) = [kind |-> "command", cmd |-> c] =>
             /\ r.state = (IF p.continuation THEN "Control" ELSE "Command")
             /\ r.continuation = p.continuation /\ r.partial = <<>> /\ r.out = <<c>>
             /\ (r.valid_finish <=> ~p.continuation)
    <3>1. IsParser(p) /\ p.state = "Command" /\ Feeds(p, x, bytes, r)
      BY <1>2, <2>1, <2>2 DEF Feeds
    <3> QED BY <3>1, ReadsCommand
  <2>4. ASSUME ParseOne(bytes) = [kind |-> "command", cmd |-> c], k + 1 = Len(tb),
               Kept(c, k + 1) = <<>>
        PROVE  /\ r.state = (IF ready = 1 THEN Kind(c) ELSE "Control")
               /\ (r.continuation <=> ~Finished(cmds, i))
               /\ r.partial = Kept(c, k + 1)
               /\ Finished(cmds, i) /\ r.partial = <<>> => r.valid_finish
               /\ Completes(c, k, k + 1, r.out)
    <3>1. Complete(c, k + 1) = 1 /\ Complete(c, k) = 0
      BY <1>1, <1>2, <1>6, <2>4 DEF Complete
    <3>2. Completes(c, k, k + 1, r.out)
      <4>1. r.out = <<c>> /\ Len(<<c>>) = 1 /\ <<c>>[1] = c
        BY <2>3, <2>4
      <4> QED BY <2>1, <3>1, <4>1 DEF Completes
    <3> QED BY <1>2, <2>1, <2>3, <2>4, <3>2
  <2>5. CASE \E y \in 0 .. 255 : tb = <<y>> /\ ParseOne(tb) = [kind |-> "command", cmd |-> c]
    <3>1. PICK y \in 0 .. 255 : tb = <<y>> /\ ParseOne(tb) = [kind |-> "command", cmd |-> c]
      BY <2>5
    <3>2. Len(tb) = 1 /\ k = 0 /\ x = y
      BY <1>1, <1>2, <3>1
    <3>3. p.partial = <<>> /\ Kept(c, k + 1) = <<>>
      BY <1>1, <1>2, <3>2 DEF Kept
    <3>4. bytes = tb
      BY <2>2, <3>1, <3>2, <3>3
    <3> QED BY <2>4, <3>1, <3>2, <3>3, <3>4
  <2>6. CASE \E y, z \in 0 .. 255 :
               /\ tb = <<y, z>> /\ ParseOne(<<y>>) = Partial
               /\ ParseOne(<<y, z>>) = [kind |-> "command", cmd |-> c]
    <3>1. PICK y \in 0 .. 255, z \in 0 .. 255 :
               /\ tb = <<y, z>> /\ ParseOne(<<y>>) = Partial
               /\ ParseOne(<<y, z>>) = [kind |-> "command", cmd |-> c]
      BY <2>6
    <3>2. Len(tb) = 2 /\ k \in {0, 1} /\ tb[1] = y /\ tb[2] = z
      BY <1>1, <1>2, <3>1
    <3>3. CASE k = 0
      <4>1. p.partial = <<>> /\ Kept(c, k + 1) = <<y>> /\ x = y
        BY <1>1, <1>2, <1>6, <3>2, <3>3 DEF Kept
      <4>2. bytes = <<y>> /\ <<y>> # <<>>
        BY <2>2, <4>1
      <4>3. Complete(c, k + 1) = 0 /\ Complete(c, k) = 0
        BY <1>1, <1>6, <3>2, <3>3 DEF Complete
      <4>4. ParseOne(bytes) = Partial
        BY <3>1, <4>2
      <4>5. Completes(c, k, k + 1, r.out)
        BY <2>3, <4>3, <4>4 DEF Completes
      <4> QED BY <1>2, <2>1, <2>3, <4>1, <4>2, <4>4, <4>5
    <3>4. CASE k = 1
      <4>1. p.partial = <<y>> /\ Kept(c, k + 1) = <<>> /\ x = z
        BY <1>1, <1>2, <1>6, <3>2, <3>4 DEF Kept
      <4>2. bytes = <<y, z>>
        BY <2>2, <4>1, AppendPair
      <4> QED BY <2>4, <3>1, <3>2, <3>4, <4>1, <4>2
    <3> QED BY <3>2, <3>3, <3>4
  <2> QED BY <1>1, <1>3, <1>6, <2>5, <2>6 DEF Parses
<1> QED BY <1>5, <1>6

\* From one byte to the next.
LEMMA ParserGoesOn ==
  ASSUME NEW cmds, NEW i, IsElement(cmds[i]), NEW k, NEW ready, NEW p, At(cmds, i, k, ready, p),
         NEW k2, NEW ready2, NEW b, Leads(cmds, i, k, ready, k2, ready2, b),
         NEW r, r = Feed(p, b)
  PROVE  At(cmds, i, k2, ready2, r) /\ Completes(cmds[i], k, k2, r.out)
<1>1. IsParser(r)
  <2>1. IsParser(p) /\ Alike(p, p)
    BY DEF At, Alike
  <2> QED BY <2>1, FeedAlike
<1>2. CanBe(cmds, i, k2, ready2)
  BY DEF Leads
<1>3. CASE ready = 1 /\ k + 1 \in 1 .. Len(ToBytes(cmds[i])) /\ k2 = k + 1
           /\ b = ToBytes(cmds[i])[k + 1] /\ (ready2 = 1 <=> Finished(cmds, i))
  BY <1>1, <1>2, <1>3, ByteStep
<1>4. CASE ready = 0 /\ k2 = k /\ ready2 = 1
           /\ b = ControlByte(~Finished(cmds, i), IsData(cmds[i]))
  BY <1>1, <1>2, <1>4, ControlStep
<1> QED BY <1>3, <1>4 DEF Leads

\* The control byte that stands for all the rest is among the first b elements'.
Settled(cmds, b) == \E j \in 1 .. b : ~IsLabel(cmds[j]) /\ Finished(cmds, j)

\* The parser between two elements.
Before(cmds, b, p) ==
  /\ IsParser(p) /\ p.partial = <<>>
  /\ ~Settled(cmds, b) => p.state = "Control"
  /\ \A j \in 1 .. b : ~IsLabel(cmds[j]) /\ Finished(cmds, j) =>
       p.state = Kind(cmds[j]) /\ ~p.continuation /\ p.valid_finish

LEMMA FinishedStays ==
  ASSUME NEW cmds, Len(cmds) \in Nat, NEW i \in 1 .. Len(cmds), NEW j \in 1 .. i,
         ~IsLabel(cmds[i]), Finished(cmds, j)
  PROVE  Finished(cmds, i) /\ Kind(cmds[i]) = Kind(cmds[j])
<1>1. i \in j .. Len(cmds)
  OBVIOUS
<1>2. IsData(cmds[i]) = IsData(cmds[j])
  BY <1>1 DEF Finished
<1>3. \A x \in i .. Len(cmds) : x \in j .. Len(cmds)
  OBVIOUS
<1>4. Finished(cmds, i)
  BY <1>2, <1>3 DEF Finished
<1> QED BY <1>2, <1>4 DEF Kind

LEMMA EndsAt ==
  ASSUME NEW cmds, Len(cmds) \in Nat, NEW i \in 1 .. Len(cmds), IsElement(cmds[i]),
         NEW k, NEW ready, NEW p, At(cmds, i, k, ready, p), AtEnd(cmds, i, k, ready)
  PROVE  Before(cmds, i, p) /\ Complete(cmds[i], k) = Len(MeantOne(cmds[i]))
<1>1. PICK c, tb : c = cmds[i] /\ tb = ToBytes(c)
  OBVIOUS
<1>2. /\ ~IsLabel(c) /\ k = Len(tb) /\ (ready = 1 <=> Finished(cmds, i)) /\ IsParser(p)
      /\ p.state = IF ready = 1 THEN Kind(c) ELSE "Control"
      /\ ready = 1 => (p.continuation <=> ~Finished(cmds, i))
      /\ p.partial = Kept(c, k)
      /\ ready = 1 /\ Finished(cmds, i) /\ p.partial = <<>> => p.valid_finish
  BY <1>1 DEF At, AtEnd, CanBe
<1>3. tb \in Seq(0 .. 255) /\ (IsData(c) => c.v = tb)
  BY <1>1, <1>2, ElementIs
<1>4. p.partial = <<>>
  BY <1>1, <1>2 DEF Kept
<1>5. Complete(c, k) = Len(MeantOne(c))
  <2>1. CASE IsData(c)
    <3>1. DOMAIN tb = 1 .. Len(tb) /\ Len(tb) \in Nat
      BY <1>3, LenProperties
    <3>2. PICK m : m = [j \in 1 .. Len(tb) |-> DataBytes(<<tb[j]>>)]
      OBVIOUS
    <3>3. MeantOne(c) = m
      BY <1>2, <1>3, <2>1, <3>1, <3>2 DEF MeantOne
    <3>4. Len(m) = Len(tb)
      BY <3>1, <3>2
    <3> QED BY <1>2, <2>1, <3>3, <3>4 DEF Complete
  <2>2. CASE ~IsData(c)
    <3>1. MeantOne(c) = <<c>> /\ Len(<<c>>) = 1
      BY <1>2, <2>2 DEF MeantOne
    <3> QED BY <1>1, <1>2, <2>2, <3>1 DEF Complete
  <2> QED BY <2>1, <2>2
<1>6. ASSUME NEW j \in 1 .. i, ~IsLabel(cmds[j]), Finished(cmds, j)
      PROVE  p.state = Kind(cmds[j]) /\ ~p.continuation /\ p.valid_finish
  <2>1. Finished(cmds, i) /\ Kind(cmds[i]) = Kind(cmds[j])
    BY <1>1, <1>2, <1>6, FinishedStays
  <2> QED BY <1>1, <1>2, <1>4, <2>1
<1>7. ~Settled(cmds, i) => p.state = "Control"
  <2>1. Finished(cmds, i) => Settled(cmds, i)
    BY <1>1, <1>2 DEF Settled
  <2> QED BY <1>2, <2>1
<1> QED BY <1>1, <1>2, <1>4, <1>5, <1>6, <1>7 DEF Before

LEMMA BeginsAt ==
  ASSUME NEW cmds, Len(cmds) \in Nat, NEW i \in 1 .. Len(cmds), IsElement(cmds[i]),
         ~IsLabel(cmds[i]), NEW p, Before(cmds, i - 1, p)
  PROVE  \E ready : /\ At(cmds, i, 0, ready, p) /\ Into(cmds, i, 0, ready) = 0
                    /\ Complete(cmds[i], 0) = 0
<1>1. PICK c, tb : c = cmds[i] /\ tb = ToBytes(c)
  OBVIOUS
<1>2. /\ tb \in Seq(0 .. 255) /\ Len(tb) \in Nat /\ 0 \in 0 .. Len(tb)
      /\ ~IsData(c) => Len(tb) \in {1, 2}
  BY <1>1, ElementIs
<1>3. Complete(c, 0) = 0
  <2>1. ASSUME ~IsData(c) PROVE Len(tb) # 0
    <3>1. PICK n : n = Len(tb)
      OBVIOUS
    <3>2. n = 1 \/ n = 2
      BY <1>2, <2>1, <3>1, Zenon
    <3>3. n # 0
      BY <3>2
    <3> QED BY <3>1, <3>3
  <2> QED BY <1>1, <2>1, Zenon DEF Complete
<1>4. Kept(c, 0) = <<>>
  BY DEF Kept
<1>5. IsParser(p) /\ p.partial = <<>>
  BY DEF Before
<1>6. CASE Settled(cmds, i - 1)
  <2>1. PICK j \in 1 .. i - 1 : ~IsLabel(cmds[j]) /\ Finished(cmds, j)
    BY <1>6 DEF Settled
  <2>2. j \in 1 .. i
    OBVIOUS
  <2>3. Finished(cmds, i) /\ Kind(c) = Kind(cmds[j])
    BY <1>1, <2>1, <2>2, FinishedStays
  <2>4. p.state = Kind(c) /\ ~p.continuation /\ p.valid_finish
    BY <2>1, <2>3 DEF Before
  <2>5. ~Finishes(cmds, i)
    BY <2>1 DEF Finishes
  <2>6. CanBe(cmds, i, 0, 1)
    BY <1>1, <1>2, <2>3 DEF CanBe
  <2>7. At(cmds, i, 0, 1, p)
    BY <1>1, <1>4, <1>5, <2>3, <2>4, <2>6 DEF At
  <2>8. Into(cmds, i, 0, 1) = 0
    BY <2>3, <2>5 DEF Into
  <2> QED BY <1>1, <1>3, <2>7, <2>8
<1>7. CASE ~Settled(cmds, i - 1)
  <2>1. p.state = "Control"
    BY <1>7 DEF Before
  <2>2. Finished(cmds, i) => Finishes(cmds, i)
    BY <1>7 DEF Settled, Finishes
  <2>3. CanBe(cmds, i, 0, 0)
    BY <1>1, <1>2, <2>2 DEF CanBe
  <2>4. At(cmds, i, 0, 0, p)
    BY <1>1, <1>4, <1>5, <2>1, <2>3 DEF At
  <2>5. Into(cmds, i, 0, 0) = 0
    BY <2>2 DEF Into
  <2> QED BY <1>1, <1>3, <2>4, <2>5
<1> QED BY <1>6, <1>7

LEMMA LabelsPass ==
  ASSUME NEW cmds, NEW i \in Nat \ {0}, IsLabel(cmds[i]), NEW p, Before(cmds, i - 1, p)
  PROVE  /\ Before(cmds, i, p) /\ Piece(cmds, i) = <<>> /\ MeantOne(cmds[i]) = <<>>
<1>1. Piece(cmds, i) = <<>> /\ MeantOne(cmds[i]) = <<>>
  BY DEF Piece, MeantOne
<1>2. \A j \in 1 .. i : j \in 1 .. i - 1 \/ j = i
  OBVIOUS
<1>3. \A j \in 1 .. i - 1 : j \in 1 .. i
  OBVIOUS
<1>4. Settled(cmds, i - 1) <=> Settled(cmds, i)
  BY <1>2, <1>3 DEF Settled
<1> QED BY <1>1, <1>2, <1>4 DEF Before

\* Where the bytes of each element are, and what it is to come back as.
Laid(cmds, flat, st, mflat, mt) ==
  LET n == Len(cmds) IN
  /\ n \in Nat /\ st \in [0 .. n -> Nat] /\ mt \in [0 .. n -> Nat] /\ st[0] = 0 /\ mt[0] = 0
  /\ \A i \in 1 .. n : st[i] = st[i - 1] + Len(Piece(cmds, i))
  /\ \A i \in 1 .. n : mt[i] = mt[i - 1] + Len(MeantOne(cmds[i]))
  /\ flat \in Seq(0 .. 255) /\ Len(flat) = st[n] /\ IsSequence(mflat) /\ Len(mflat) = mt[n]
  /\ \A i \in 1 .. n : \A j \in 1 .. Len(Piece(cmds, i)) :
       /\ st[i - 1] + j \in 1 .. Len(flat) /\ flat[st[i - 1] + j] = Piece(cmds, i)[j]
  /\ \A i \in 1 .. n : \A j \in 1 .. Len(MeantOne(cmds[i])) :
       /\ mt[i - 1] + j \in 1 .. Len(mflat) /\ mflat[mt[i - 1] + j] = MeantOne(cmds[i])[j]

\* Where the parser is when pos bytes have gone and m messages have come.
Where(cmds, st, mt, pos, m, p) ==
  \/ pos = st[Len(cmds)] /\ m = mt[Len(cmds)] /\ Before(cmds, Len(cmds), p)
  \/ \E i \in 1 .. Len(cmds) : \E k, ready :
       /\ At(cmds, i, k, ready, p) /\ ~AtEnd(cmds, i, k, ready)
       /\ pos = st[i - 1] + Into(cmds, i, k, ready)
       /\ m = mt[i - 1] + Complete(cmds[i], k)

AllElements(cmds) == \A i \in 1 .. Len(cmds) : IsElement(cmds[i])

\* Between two elements it is at the beginning of one that has bytes, or at the end.
LEMMA Onward ==
  ASSUME NEW cmds, AllElements(cmds), NEW flat, NEW st, NEW mflat, NEW mt,
         Laid(cmds, flat, st, mflat, mt), NEW b \in 0 .. Len(cmds), NEW p, Before(cmds, b, p)
  PROVE  Where(cmds, st, mt, st[b], mt[b], p)
<1>1. PICK n : n = Len(cmds)
  OBVIOUS
<1>2. n \in Nat
  BY <1>1 DEF Laid
<1> DEFINE S == {d \in Nat : \A v \in 0 .. n : v + d = n /\ Before(cmds, v, p) =>
                               Where(cmds, st, mt, st[v], mt[v], p)}
<1>3. 0 \in S
  <2>1. ASSUME NEW v \in 0 .. n, v + 0 = n, Before(cmds, v, p)
        PROVE  Where(cmds, st, mt, st[v], mt[v], p)
    <3>1. v = n
      BY <1>2, <2>1
    <3> QED BY <1>1, <2>1, <3>1 DEF Where
  <2> QED BY <2>1
<1>4. ASSUME NEW d \in Nat, d \in S PROVE d + 1 \in S
  <2>1. ASSUME NEW v \in 0 .. n, v + (d + 1) = n, Before(cmds, v, p)
        PROVE  Where(cmds, st, mt, st[v], mt[v], p)
    <3>1. PICK i : i = v + 1
      OBVIOUS
    <3>2. /\ i \in 1 .. n /\ i - 1 = v /\ i \in 0 .. n /\ i + d = n /\ i \in Nat \ {0}
          /\ i \in 1 .. Len(cmds)
      BY <1>1, <1>2, <2>1, <3>1
    <3>3. IsElement(cmds[i]) /\ Before(cmds, i - 1, p)
      BY <2>1, <3>2 DEF AllElements
    <3>4. st[i - 1] \in Nat /\ mt[i - 1] \in Nat
      BY <1>1, <3>2 DEF Laid
    <3>5. st[i] = st[i - 1] + Len(Piece(cmds, i)) /\ mt[i] = mt[i - 1] + Len(MeantOne(cmds[i]))
      BY <3>2 DEF Laid
    <3>6. Before(cmds, i, p) => Where(cmds, st, mt, st[i], mt[i], p)
      BY <1>4, <3>2
    <3>7. CASE IsLabel(cmds[i])
      <4>1. Before(cmds, i, p) /\ Piece(cmds, i) = <<>> /\ MeantOne(cmds[i]) = <<>>
        BY <3>2, <3>3, <3>7, LabelsPass
      <4>2. st[i] = st[v] /\ mt[i] = mt[v]
        <5>1. Len(<<>>) = 0
          OBVIOUS
        <5> QED BY <3>2, <3>4, <3>5, <4>1, <5>1
      <4> QED BY <3>6, <4>1, <4>2
    <3>8. CASE ~IsLabel(cmds[i])
      <4>1. PICK ready : /\ At(cmds, i, 0, ready, p) /\ Into(cmds, i, 0, ready) = 0
                         /\ Complete(cmds[i], 0) = 0
        BY <1>1, <1>2, <3>2, <3>3, <3>8, BeginsAt
      <4>2. CASE AtEnd(cmds, i, 0, ready)
        <5>1. Before(cmds, i, p) /\ Complete(cmds[i], 0) = Len(MeantOne(cmds[i]))
          BY <1>1, <1>2, <3>2, <3>3, <4>1, <4>2, EndsAt
        <5>2. Continues(cmds, i, 0, ready, Piece(cmds, i))
          BY <3>3, <4>1, NextByteIs DEF At
        <5>3. Len(Piece(cmds, i)) = 0
          BY <4>1, <4>2, <5>2 DEF Continues
        <5>4. st[i] = st[v] /\ mt[i] = mt[v]
          BY <3>2, <3>4, <3>5, <4>1, <5>1, <5>3
        <5> QED BY <3>6, <5>1, <5>4
      <4>3. CASE ~AtEnd(cmds, i, 0, ready)
        <5>1. st[v] = st[i - 1] + Into(cmds, i, 0, ready)
          BY <3>2, <3>4, <4>1
        <5>2. mt[v] = mt[i - 1] + Complete(cmds[i], 0)
          BY <3>2, <3>4, <4>1
        <5> QED BY <3>2, <4>1, <4>3, <5>1, <5>2 DEF Where
      <4> QED BY <4>2, <4>3
    <3> QED BY <3>7, <3>8
  <2> QED BY <2>1
<1>5. Nat \subseteq S
  <2> HIDE DEF S
  <2> QED BY <1>3, <1>4, Induct
<1>6. n - b \in Nat /\ b \in 0 .. n /\ b + (n - b) = n
  BY <1>1, <1>2
<1> QED BY <1>5, <1>6

\* A byte more of it.
GoesOn(cmds, st, mflat, mt, pos, m, r) ==
  /\ m \in Nat
  /\ \/ r.out = <<>> /\ Where(cmds, st, mt, pos + 1, m, r)
     \/ /\ m + 1 \in 1 .. Len(mflat) /\ r.out = <<mflat[m + 1]>>
        /\ Where(cmds, st, mt, pos + 1, m + 1, r)

LEMMA WhereNext ==
  ASSUME NEW cmds, AllElements(cmds), NEW flat, NEW st, NEW mflat, NEW mt,
         Laid(cmds, flat, st, mflat, mt), NEW p, NEW pos \in Nat, NEW m,
         Where(cmds, st, mt, pos, m, p), pos # Len(flat)
  PROVE  GoesOn(cmds, st, mflat, mt, pos, m, Feed(p, flat[pos + 1]))
<1>1. ~(pos = st[Len(cmds)] /\ m = mt[Len(cmds)] /\ Before(cmds, Len(cmds), p))
  BY DEF Laid
<1>2. PICK i \in 1 .. Len(cmds) : \E k, ready :
        /\ At(cmds, i, k, ready, p) /\ ~AtEnd(cmds, i, k, ready)
        /\ pos = st[i - 1] + Into(cmds, i, k, ready)
        /\ m = mt[i - 1] + Complete(cmds[i], k)
  BY <1>1 DEF Where
<1>3. PICK k, ready :
        /\ At(cmds, i, k, ready, p) /\ ~AtEnd(cmds, i, k, ready)
        /\ pos = st[i - 1] + Into(cmds, i, k, ready)
        /\ m = mt[i - 1] + Complete(cmds[i], k)
  BY <1>2
<1>4. IsElement(cmds[i]) /\ CanBe(cmds, i, k, ready)
  BY <1>3 DEF AllElements, At
<1>5. PICK piece, at, c, made :
        /\ piece = Piece(cmds, i) /\ at = Into(cmds, i, k, ready)
        /\ c = cmds[i] /\ made = MeantOne(c)
  OBVIOUS
<1>6. /\ at \in 0 .. Len(piece) /\ at + 1 \in 1 .. Len(piece)
      /\ \E k2, ready2 : Leads(cmds, i, k, ready, k2, ready2, piece[at + 1])
  BY <1>3, <1>4, <1>5, NextByteIs DEF Continues
<1>7. PICK k2, ready2 : Leads(cmds, i, k, ready, k2, ready2, piece[at + 1])
  BY <1>6
<1>8. /\ Len(cmds) \in Nat /\ st[i - 1] \in Nat /\ mt[i - 1] \in Nat
      /\ st[i] = st[i - 1] + Len(piece) /\ mt[i] = mt[i - 1] + Len(made)
      /\ \A j \in 1 .. Len(piece) :
           st[i - 1] + j \in 1 .. Len(flat) /\ flat[st[i - 1] + j] = piece[j]
      /\ \A j \in 1 .. Len(made) :
           mt[i - 1] + j \in 1 .. Len(mflat) /\ mflat[mt[i - 1] + j] = made[j]
  <2>1. Len(cmds) \in Nat /\ i - 1 \in 0 .. Len(cmds)
    BY DEF Laid
  <2> QED BY <1>5, <2>1 DEF Laid
<1>9. pos = st[i - 1] + at
  BY <1>3, <1>5
<1>10. pos + 1 = st[i - 1] + (at + 1) /\ pos + 1 \in 1 .. Len(flat) /\ flat[pos + 1] = piece[at + 1]
  <2>1. pos + 1 = st[i - 1] + (at + 1)
    <3>1. PICK first : first = st[i - 1]
      OBVIOUS
    <3>2. first \in Nat /\ at \in Nat /\ pos = first + at
      BY <1>6, <1>8, <1>9, <3>1
    <3>3. pos + 1 = first + (at + 1)
      BY <3>2
    <3> QED BY <3>1, <3>3
  <2>2. PICK j, first : j = at + 1 /\ first = st[i - 1]
    OBVIOUS
  <2>3. first + j \in 1 .. Len(flat) /\ flat[first + j] = piece[j]
    BY <1>6, <1>8, <2>2
  <2> QED BY <2>1, <2>2, <2>3
<1>11. PICK r : r = Feed(p, piece[at + 1])
  OBVIOUS
<1>12. At(cmds, i, k2, ready2, r) /\ Completes(c, k, k2, r.out)
  BY <1>3, <1>4, <1>5, <1>7, <1>11, ParserGoesOn
<1>13. Into(cmds, i, k2, ready2) = at + 1
  BY <1>5, <1>7 DEF Leads
<1>14. PICK m2 : m2 = mt[i - 1] + Complete(c, k2)
  OBVIOUS
<1>15. Where(cmds, st, mt, pos + 1, m2, r)
  <2>1. CASE AtEnd(cmds, i, k2, ready2)
    <3>1. Before(cmds, i, r) /\ Complete(c, k2) = Len(made)
      BY <1>4, <1>5, <1>8, <1>12, <2>1, EndsAt
    <3>2. Continues(cmds, i, k2, ready2, piece)
      BY <1>4, <1>5, <1>12, NextByteIs DEF At
    <3>3. at + 1 = Len(piece)
      BY <1>13, <2>1, <3>2 DEF Continues
    <3>4. pos + 1 = st[i] /\ m2 = mt[i]
      BY <1>8, <1>10, <1>14, <3>1, <3>3
    <3>5. i \in 0 .. Len(cmds)
      BY <1>8
    <3>6. Where(cmds, st, mt, st[i], mt[i], r)
      BY <3>1, <3>5, Onward
    <3> QED BY <3>4, <3>6
  <2>2. CASE ~AtEnd(cmds, i, k2, ready2)
    <3>1. pos + 1 = st[i - 1] + Into(cmds, i, k2, ready2)
      BY <1>10, <1>13
    <3>2. m2 = mt[i - 1] + Complete(cmds[i], k2)
      BY <1>5, <1>14
    <3> QED BY <1>12, <2>2, <3>1, <3>2 DEF Where
  <2> QED BY <2>1, <2>2
<1>16. m = mt[i - 1] + Complete(c, k) /\ Complete(c, k) \in Nat
  <2>1. Len(ToBytes(c)) \in Nat /\ k \in 0 .. Len(ToBytes(c))
    BY <1>4, <1>5, ElementIs DEF CanBe
  <2>2. Complete(c, k) \in Nat
    BY <2>1 DEF Complete
  <2> QED BY <1>3, <1>5, <2>2
<1>17. m \in Nat
  BY <1>8, <1>16
<1>18. CASE r.out = <<>> /\ Complete(c, k2) = Complete(c, k)
  <2>1. m2 = m
    BY <1>14, <1>16, <1>18
  <2> QED BY <1>10, <1>11, <1>15, <1>17, <1>18, <2>1 DEF GoesOn
<1>19. CASE /\ Complete(c, k2) = Complete(c, k) + 1
            /\ Complete(c, k2) \in 1 .. Len(made) /\ r.out = <<made[Complete(c, k2)]>>
  <2>1. m2 = m + 1
    <3>1. PICK x, y, z : x = mt[i - 1] /\ y = Complete(c, k) /\ z = Complete(c, k2)
      OBVIOUS
    <3>2. x \in Nat /\ y \in Nat /\ z = y + 1 /\ m = x + y /\ m2 = x + z
      BY <1>8, <1>14, <1>16, <1>19, <3>1
    <3> QED BY <3>2
  <2>2. m2 \in 1 .. Len(mflat) /\ mflat[m2] = made[Complete(c, k2)]
    BY <1>8, <1>14, <1>19
  <2> QED BY <1>10, <1>11, <1>15, <1>17, <1>19, <2>1, <2>2 DEF GoesOn
<1> QED BY <1>5, <1>12, <1>18, <1>19 DEF Completes

LEMMA LaidExists ==
  ASSUME NEW X, NEW cmds \in Seq(X), AllElements(cmds)
  PROVE  \E st, mt : Laid(cmds, ComposeOne(cmds), st, Meant(cmds), mt)
<1>1. PICK n : n = Len(cmds)
  OBVIOUS
<1>2. n \in Nat /\ DOMAIN cmds = 1 .. n
  BY <1>1, LenProperties
<1>3. PICK S : S = {DataBytes(<<x>>) : x \in 0 .. 255} \cup {cmds[i] : i \in 1 .. n}
  OBVIOUS
<1>4. PICK pieces, makes :
        /\ pieces = [i \in DOMAIN cmds |-> Piece(cmds, i)]
        /\ makes = [i \in DOMAIN cmds |-> MeantOne(cmds[i])]
  OBVIOUS
<1>5. ASSUME NEW i \in 1 .. n
      PROVE  Piece(cmds, i) \in Seq(0 .. 255) /\ MeantOne(cmds[i]) \in Seq(S)
  <2>1. IsElement(cmds[i])
    BY <1>1 DEF AllElements
  <2>2. CASE IsLabel(cmds[i])
    <3>1. Piece(cmds, i) = <<>> /\ MeantOne(cmds[i]) = <<>>
      BY <2>2 DEF Piece, MeantOne
    <3> QED BY <3>1
  <2>3. CASE ~IsLabel(cmds[i])
    <3>1. Piece(cmds, i) \in Seq(0 .. 255)
      BY <2>1, <2>3, PieceIs DEF Composes
    <3>2. CASE IsData(cmds[i])
      <4>1. PICK v : v = cmds[i].v
        OBVIOUS
      <4>2. v \in Seq(0 .. 255)
        BY <2>1, <2>3, <3>2, <4>1, ElementIs
      <4>3. /\ Len(v) \in Nat /\ DOMAIN v = 1 .. Len(v)
            /\ \A k \in 1 .. Len(v) : v[k] \in 0 .. 255
        BY <4>2, LenProperties, ElementOfSeq
      <4>4. PICK m : m = [k \in 1 .. Len(v) |-> DataBytes(<<v[k]>>)]
        OBVIOUS
      <4>5. MeantOne(cmds[i]) = m
        BY <2>3, <3>2, <4>1, <4>3, <4>4 DEF MeantOne
      <4>6. ASSUME NEW k \in 1 .. Len(v) PROVE m[k] \in S
        <5>1. v[k] \in 0 .. 255 /\ m[k] = DataBytes(<<v[k]>>)
          BY <4>3, <4>4
        <5> QED BY <1>3, <5>1
      <4>7. m \in [1 .. Len(v) -> S]
        BY <4>4, <4>6
      <4> QED BY <3>1, <4>3, <4>5, <4>7
    <3>3. CASE ~IsData(cmds[i])
      <4>1. MeantOne(cmds[i]) = <<cmds[i]>> /\ cmds[i] \in S
        BY <1>3, <2>3, <3>3 DEF MeantOne
      <4> QED BY <3>1, <4>1
    <3> QED BY <3>2, <3>3
  <2> QED BY <2>2, <2>3
<1>6. /\ pieces \in [1 .. n -> Seq(0 .. 255)] /\ makes \in [1 .. n -> Seq(S)]
      /\ \A i \in 1 .. n : pieces[i] = Piece(cmds, i) /\ makes[i] = MeantOne(cmds[i])
  BY <1>2, <1>4, <1>5
<1>7. /\ pieces \in Seq(Seq(0 .. 255)) /\ makes \in Seq(Seq(S))
      /\ Len(pieces) = n /\ Len(makes) = n
  <2>1. pieces \in Seq(Seq(0 .. 255)) /\ Len(pieces) = n
    BY <1>2, <1>6
  <2>2. makes \in Seq(Seq(S)) /\ Len(makes) = n
    BY <1>2, <1>6
  <2> QED BY <2>1, <2>2
<1>8. PICK flat, mflat : flat = ComposeOne(cmds) /\ mflat = Meant(cmds)
  OBVIOUS
<1>9. flat = Flattened(pieces) /\ mflat = Flattened(makes)
  <2>1. ComposeOne(cmds) = FlattenSeq([i \in DOMAIN cmds |-> Piece(cmds, i)])
    BY DEF ComposeOne
  <2>2. Meant(cmds) = FlattenSeq([i \in DOMAIN cmds |-> MeantOne(cmds[i])])
    BY DEF Meant, MeantOne
  <2>3. Flattened(pieces) = FlattenSeq(pieces) /\ Flattened(makes) = FlattenSeq(makes)
    BY FlattenIs
  <2> QED BY <1>4, <1>8, <2>1, <2>2, <2>3
<1>10. flat \in Seq(0 .. 255) /\ \E st \in [0 .. n -> Nat] : Placed(pieces, flat, st)
  <2>1. pieces \in Seq(Seq(0 .. 255))
    BY <1>7
  <2>2. /\ Flattened(pieces) \in Seq(0 .. 255)
        /\ \E st \in [0 .. Len(pieces) -> Nat] : Placed(pieces, Flattened(pieces), st)
    BY <2>1, Places
  <2> QED BY <1>7, <1>9, <2>2, Zenon
<1>11. mflat \in Seq(S) /\ \E mt \in [0 .. n -> Nat] : Placed(makes, mflat, mt)
  <2>1. makes \in Seq(Seq(S))
    BY <1>7
  <2>2. /\ Flattened(makes) \in Seq(S)
        /\ \E mt \in [0 .. Len(makes) -> Nat] : Placed(makes, Flattened(makes), mt)
    BY <2>1, Places
  <2> QED BY <1>7, <1>9, <2>2, Zenon
<1>12. PICK st \in [0 .. n -> Nat] : Placed(pieces, flat, st)
  BY <1>10
<1>13. PICK mt \in [0 .. n -> Nat] : Placed(makes, mflat, mt)
  BY <1>11
<1>14. IsSequence(mflat)
  BY <1>11 DEF IsSequence
<1>15. /\ st[0] = 0 /\ Len(flat) = st[n]
       /\ \A i \in 1 .. n : st[i] = st[i - 1] + Len(Piece(cmds, i))
       /\ \A i \in 1 .. n : \A j \in 1 .. Len(Piece(cmds, i)) :
            /\ st[i - 1] + j \in 1 .. Len(flat) /\ flat[st[i - 1] + j] = Piece(cmds, i)[j]
  <2>1. /\ st[0] = 0 /\ Len(flat) = st[n]
        /\ \A i \in 1 .. n : st[i] = st[i - 1] + Len(pieces[i])
        /\ \A i \in 1 .. n : \A j \in 1 .. Len(pieces[i]) :
             st[i - 1] + j \in 1 .. Len(flat) /\ flat[st[i - 1] + j] = pieces[i][j]
    BY <1>7, <1>12 DEF Placed
  <2>2. ASSUME NEW i \in 1 .. n PROVE pieces[i] = Piece(cmds, i)
    BY <1>6
  <2> QED BY <2>1, <2>2, Zenon
<1>16. /\ mt[0] = 0 /\ Len(mflat) = mt[n]
       /\ \A i \in 1 .. n : mt[i] = mt[i - 1] + Len(MeantOne(cmds[i]))
       /\ \A i \in 1 .. n : \A j \in 1 .. Len(MeantOne(cmds[i])) :
            /\ mt[i - 1] + j \in 1 .. Len(mflat)
            /\ mflat[mt[i - 1] + j] = MeantOne(cmds[i])[j]
  <2>1. /\ mt[0] = 0 /\ Len(mflat) = mt[n]
        /\ \A i \in 1 .. n : mt[i] = mt[i - 1] + Len(makes[i])
        /\ \A i \in 1 .. n : \A j \in 1 .. Len(makes[i]) :
             mt[i - 1] + j \in 1 .. Len(mflat) /\ mflat[mt[i - 1] + j] = makes[i][j]
    BY <1>7, <1>13 DEF Placed
  <2>2. ASSUME NEW i \in 1 .. n PROVE makes[i] = MeantOne(cmds[i])
    BY <1>6
  <2> QED BY <2>1, <2>2, Zenon
<1>17. Laid(cmds, flat, st, mflat, mt)
  BY <1>1, <1>2, <1>10, <1>12, <1>13, <1>14, <1>15, <1>16 DEF Laid
<1> QED BY <1>8, <1>17

\* What is still to come, and what has come.
Rest(w, flat, pos) ==
  /\ pos \in 0 .. Len(flat) /\ w \in Seq(0 .. 255) /\ Len(w) = Len(flat) - pos
  /\ \A j \in 1 .. Len(w) : w[j] = flat[pos + j]

FirstOf(g, mflat, m) ==
  /\ m \in 0 .. Len(mflat) /\ IsSequence(g) /\ Len(g) = m
  /\ \A j \in 1 .. m : g[j] = mflat[j]

Tracks(cmds, w, g, p) ==
  \E st, mt : \E pos, m :
    /\ Laid(cmds, ComposeOne(cmds), st, Meant(cmds), mt)
    /\ Rest(w, ComposeOne(cmds), pos) /\ FirstOf(g, Meant(cmds), m)
    /\ Where(cmds, st, mt, pos, m, p)

LEMMA RestNext ==
  ASSUME NEW w, NEW flat \in Seq(0 .. 255), NEW pos, Rest(w, flat, pos), w # <<>>
  PROVE  pos # Len(flat) /\ pos \in Nat /\ Head(w) = flat[pos + 1] /\ Rest(Tail(w), flat, pos + 1)
<1>1. PICK n, l, t : n = Len(flat) /\ l = Len(w) /\ t = Tail(w)
  OBVIOUS
<1>2. /\ pos \in 0 .. n /\ w \in Seq(0 .. 255) /\ l = n - pos /\ n \in Nat /\ l \in Nat
      /\ \A j \in 1 .. l : w[j] = flat[pos + j]
  BY <1>1 DEF Rest
<1>3. l # 0
  BY <1>1, <1>2, EmptySeq
<1>4. Head(w) = w[1] /\ 1 \in 1 .. l
  BY <1>2, <1>3
<1>5. t \in Seq(0 .. 255) /\ Len(t) = l - 1 /\ \A i \in 1 .. l - 1 : t[i] = w[i + 1]
  <2>1. /\ Tail(w) \in Seq(0 .. 255) /\ Len(Tail(w)) = Len(w) - 1
        /\ \A i \in 1 .. Len(Tail(w)) : Tail(w)[i] = w[i + 1]
    BY <1>2, HeadTailProperties
  <2> QED BY <1>1, <2>1
<1>6. ASSUME NEW j \in 1 .. l - 1 PROVE t[j] = flat[pos + 1 + j]
  <2>1. j + 1 \in 1 .. l /\ pos + (j + 1) = pos + 1 + j
    BY <1>2
  <2> QED BY <1>2, <1>5, <2>1
<1>7. pos + 1 \in 0 .. n /\ Len(t) = n - (pos + 1)
  BY <1>2, <1>3, <1>5
<1>8. Rest(t, flat, pos + 1)
  BY <1>1, <1>5, <1>6, <1>7 DEF Rest
<1> QED BY <1>1, <1>2, <1>3, <1>4, <1>8

LEMMA FirstOfNext ==
  ASSUME NEW g, NEW mflat, NEW m, FirstOf(g, mflat, m), m + 1 \in 1 .. Len(mflat),
         IsSequence(mflat), NEW x, x = <<mflat[m + 1]>>
  PROVE  FirstOf(g \o x, mflat, m + 1)
<1>1. PICK S1 : g \in Seq(S1)
  BY DEF FirstOf, IsSequence
<1>2. PICK S, r : S = S1 \cup {mflat[m + 1]} /\ r = g \o x
  OBVIOUS
<1>3. g \in Seq(S) /\ x \in Seq(S) /\ Len(x) = 1 /\ x[1] = mflat[m + 1]
  <2>1. mflat[m + 1] \in S /\ S1 \subseteq S
    BY <1>2
  <2>2. x \in Seq(S) /\ Len(x) = 1 /\ x[1] = mflat[m + 1]
    BY <2>1
  <2>3. g \in Seq(S)
    BY <1>1, <2>1
  <2> QED BY <2>2, <2>3
<1>4. /\ r \in Seq(S) /\ Len(r) = Len(g) + Len(x)
      /\ Len(g) \in Nat /\ Len(x) \in Nat
      /\ \A j \in 1 .. Len(g) : r[j] = g[j]
      /\ \A j \in 1 .. Len(x) : r[Len(g) + j] = x[j]
  BY <1>2, <1>3, JoinIs
<1>5. Len(g) = m /\ m \in Nat /\ \A j \in 1 .. m : g[j] = mflat[j]
  BY <1>4 DEF FirstOf
<1>6. Len(r) = m + 1 /\ r[m + 1] = mflat[m + 1] /\ IsSequence(r)
  BY <1>3, <1>4, <1>5 DEF IsSequence
<1>7. ASSUME NEW j \in 1 .. m + 1 PROVE r[j] = mflat[j]
  <2>1. j = m + 1 \/ j \in 1 .. m
    BY <1>5
  <2> QED BY <1>4, <1>5, <1>6, <2>1
<1>8. m + 1 \in 0 .. Len(mflat)
  OBVIOUS
<1> QED BY <1>2, <1>6, <1>7, <1>8 DEF FirstOf

LEMMA TracksOn ==
  ASSUME NEW cmds, AllElements(cmds), NEW w, NEW g, NEW p, Tracks(cmds, w, g, p), w # <<>>
  PROVE  Tracks(cmds, Tail(w), g \o Feed(p, Head(w)).out, Feed(p, Head(w)))
<1>1. PICK flat, mflat : flat = ComposeOne(cmds) /\ mflat = Meant(cmds)
  OBVIOUS
<1>2. PICK st, mt : \E pos, m :
        /\ Laid(cmds, flat, st, mflat, mt) /\ Rest(w, flat, pos) /\ FirstOf(g, mflat, m)
        /\ Where(cmds, st, mt, pos, m, p)
  BY <1>1 DEF Tracks
<1>3. PICK pos, m :
        /\ Laid(cmds, flat, st, mflat, mt) /\ Rest(w, flat, pos) /\ FirstOf(g, mflat, m)
        /\ Where(cmds, st, mt, pos, m, p)
  BY <1>2
<1>4. flat \in Seq(0 .. 255) /\ IsSequence(mflat)
  BY <1>3 DEF Laid
<1>5. /\ pos # Len(flat) /\ pos \in Nat /\ Head(w) = flat[pos + 1]
      /\ Rest(Tail(w), flat, pos + 1)
  BY <1>3, <1>4, RestNext
<1>6. PICK r : r = Feed(p, Head(w))
  OBVIOUS
<1>7. GoesOn(cmds, st, mflat, mt, pos, m, Feed(p, flat[pos + 1]))
  BY <1>3, <1>5, WhereNext
<1>8. \/ r.out = <<>> /\ Where(cmds, st, mt, pos + 1, m, r)
      \/ /\ m + 1 \in 1 .. Len(mflat) /\ r.out = <<mflat[m + 1]>>
         /\ Where(cmds, st, mt, pos + 1, m + 1, r)
  BY <1>5, <1>6, <1>7 DEF GoesOn
<1>9. CASE r.out = <<>> /\ Where(cmds, st, mt, pos + 1, m, r)
  <2>1. g \o r.out = g
    <3>1. PICK S : g \in Seq(S)
      BY <1>3 DEF FirstOf, IsSequence
    <3> QED BY <1>9, <3>1, ConcatEmptySeq
  <2>2. FirstOf(g \o r.out, mflat, m)
    BY <1>3, <2>1
  <2> QED BY <1>1, <1>3, <1>5, <1>6, <1>9, <2>2 DEF Tracks
<1>10. CASE /\ m + 1 \in 1 .. Len(mflat) /\ r.out = <<mflat[m + 1]>>
            /\ Where(cmds, st, mt, pos + 1, m + 1, r)
  <2>1. FirstOf(g \o r.out, mflat, m + 1)
    BY <1>3, <1>4, <1>10, FirstOfNext
  <2> QED BY <1>1, <1>3, <1>5, <1>6, <1>10, <2>1 DEF Tracks
<1> QED BY <1>8, <1>9, <1>10

\* Unless all elements are labels, the last of the others is of one kind with all
\* that follow.
LEMMA NothingMeant ==
  ASSUME NEW cmds, NEW flat, NEW st, NEW mflat, NEW mt, Laid(cmds, flat, st, mflat, mt),
         ~Settled(cmds, Len(cmds))
  PROVE  mflat = <<>>
<1>1. PICK n : n = Len(cmds)
  OBVIOUS
<1>2. n \in Nat /\ mt \in [0 .. n -> Nat]
  BY <1>1 DEF Laid
<1> DEFINE S == {d \in Nat : \A i \in 1 .. n : i + d > n => IsLabel(cmds[i])}
<1>3. 0 \in S
  BY <1>2
<1>4. ASSUME NEW d \in Nat, d \in S PROVE d + 1 \in S
  <2>1. ASSUME NEW i \in 1 .. n, i + (d + 1) > n, ~IsLabel(cmds[i]) PROVE FALSE
    <3>1. i + d = n
      BY <1>2, <1>4, <2>1
    <3>2. ASSUME NEW j \in i .. n, ~IsLabel(cmds[j]) PROVE j = i
      <4>1. CASE j # i
        <5>1. j \in 1 .. n /\ j + d > n
          BY <1>2, <3>1, <4>1
        <5> QED BY <1>4, <3>2, <5>1
      <4> QED BY <4>1
    <3>3. Finished(cmds, i)
      BY <1>1, <3>2 DEF Finished
    <3> QED BY <1>1, <2>1, <3>3 DEF Settled
  <2> QED BY <2>1
<1>5. ASSUME NEW i \in 1 .. n PROVE IsLabel(cmds[i])
  <2>1. Nat \subseteq S
    <3> HIDE DEF S
    <3> QED BY <1>3, <1>4, Induct
  <2>2. n \in S /\ i + n > n
    BY <1>2, <2>1
  <2> QED BY <2>2
<1> DEFINE T == {v \in Nat : v \in 0 .. n => mt[v] = 0}
<1>6. 0 \in T
  BY DEF Laid
<1>7. ASSUME NEW v \in Nat, v \in T PROVE v + 1 \in T
  <2>1. CASE v + 1 \in 0 .. n
    <3>1. v + 1 \in 1 .. n /\ (v + 1) - 1 = v /\ v \in 0 .. n
      BY <1>2, <2>1
    <3>2. mt[v + 1] = mt[v] + Len(MeantOne(cmds[v + 1]))
      BY <1>1, <3>1 DEF Laid
    <3>3. MeantOne(cmds[v + 1]) = <<>>
      BY <1>5, <3>1 DEF MeantOne
    <3>4. mt[v] = 0
      BY <1>7, <3>1
    <3>5. Len(<<>>) = 0
      OBVIOUS
    <3> QED BY <3>2, <3>3, <3>4, <3>5
  <2> QED BY <2>1
<1>8. mt[n] = 0
  <2>1. Nat \subseteq T
    <3> HIDE DEF T
    <3> QED BY <1>6, <1>7, Induct
  <2> QED BY <1>2, <2>1
<1>9. IsSequence(mflat) /\ Len(mflat) = 0
  BY <1>1, <1>8 DEF Laid
<1> QED BY <1>9, EmptySeq DEF IsSequence

LEMMA WireEnds ==
  ASSUME NEW cmds, AllElements(cmds), NEW g, NEW p, Tracks(cmds, <<>>, g, p),
         Meant(cmds) # <<>>
  PROVE  g = Meant(cmds) /\ p.valid_finish /\ p.state # "Stuck"
<1>1. PICK flat, mflat : flat = ComposeOne(cmds) /\ mflat = Meant(cmds)
  OBVIOUS
<1>2. PICK st, mt : \E pos, m :
        /\ Laid(cmds, flat, st, mflat, mt) /\ Rest(<<>>, flat, pos) /\ FirstOf(g, mflat, m)
        /\ Where(cmds, st, mt, pos, m, p)
  BY <1>1 DEF Tracks
<1>3. PICK pos, m :
        /\ Laid(cmds, flat, st, mflat, mt) /\ Rest(<<>>, flat, pos) /\ FirstOf(g, mflat, m)
        /\ Where(cmds, st, mt, pos, m, p)
  BY <1>2
<1>4. PICK n, f, e : n = Len(cmds) /\ f = Len(flat) /\ e = Len(mflat)
  OBVIOUS
<1>5. /\ n \in Nat /\ st \in [0 .. n -> Nat] /\ mt \in [0 .. n -> Nat]
      /\ f = st[n] /\ e = mt[n] /\ IsSequence(mflat) /\ f \in Nat /\ e \in Nat
  <2>1. /\ n \in Nat /\ st \in [0 .. n -> Nat] /\ mt \in [0 .. n -> Nat]
        /\ f = st[n] /\ e = mt[n] /\ IsSequence(mflat)
    BY <1>3, <1>4 DEF Laid
  <2> QED BY <2>1
<1>6. pos = f
  <2>1. pos \in 0 .. f /\ Len(<<>>) = f - pos /\ Len(<<>>) = 0
    BY <1>3, <1>4 DEF Rest
  <2> QED BY <1>5, <2>1
<1>7. ASSUME NEW i \in 1 .. n, NEW k, NEW ready, At(cmds, i, k, ready, p),
             ~AtEnd(cmds, i, k, ready), pos = st[i - 1] + Into(cmds, i, k, ready)
      PROVE  FALSE
  <2>1. PICK at, piece : at = Into(cmds, i, k, ready) /\ piece = Piece(cmds, i)
    OBVIOUS
  <2>2. Continues(cmds, i, k, ready, piece)
    BY <1>4, <1>7, <2>1, NextByteIs DEF At, AllElements
  <2>3. at \in 0 .. Len(piece) /\ at + 1 \in 1 .. Len(piece)
    BY <1>7, <2>1, <2>2 DEF Continues
  <2>4. st[i - 1] + (at + 1) \in 1 .. f
    BY <1>3, <1>4, <2>1, <2>3 DEF Laid
  <2>5. PICK first : first = st[i - 1]
    OBVIOUS
  <2>6. i - 1 \in 0 .. n
    BY <1>5
  <2>7. first \in Nat /\ at \in Nat
    BY <1>5, <2>3, <2>5, <2>6
  <2>8. f = first + at /\ first + (at + 1) \in 1 .. f
    BY <1>6, <1>7, <2>1, <2>4, <2>5
  <2> QED BY <2>7, <2>8
<1>8. pos = st[n] /\ m = mt[n] /\ Before(cmds, n, p)
  <2>1. Where(cmds, st, mt, pos, m, p)
    BY <1>3
  <2> QED BY <1>4, <1>7, <2>1 DEF Where
<1>9. g = mflat
  <2>1. /\ IsSequence(g) /\ Len(g) = e /\ \A j \in 1 .. e : g[j] = mflat[j]
    BY <1>3, <1>5, <1>8 DEF FirstOf
  <2>2. PICK S1, S2 : g \in Seq(S1) /\ mflat \in Seq(S2)
    BY <1>5, <2>1 DEF IsSequence
  <2>3. PICK S : S = S1 \cup S2
    OBVIOUS
  <2>4. g \in Seq(S) /\ mflat \in Seq(S)
    BY <2>2, <2>3
  <2> QED BY <1>4, <2>1, <2>4, SeqEqual
<1>10. Settled(cmds, n)
  BY <1>1, <1>3, <1>4, NothingMeant
<1>11. PICK j \in 1 .. n : ~IsLabel(cmds[j]) /\ Finished(cmds, j)
  BY <1>10 DEF Settled
<1>12. p.state = Kind(cmds[j]) /\ p.valid_finish
  BY <1>8, <1>11 DEF Before
<1> QED BY <1>1, <1>9, <1>12 DEF Kind

LEMMA NothingSent == Meant(<<>>) = <<>>
<1>1. PICK none : none = <<>>
  OBVIOUS
<1>2. PICK makes : makes = [i \in DOMAIN none |-> MeantOne(none[i])]
  OBVIOUS
<1>3. Meant(none) = FlattenSeq(makes)
  BY <1>2 DEF Meant, MeantOne
<1>4. none \in Seq({}) /\ Len(none) = 0 /\ DOMAIN none = 1 .. 0
  BY <1>1
<1>5. makes \in [1 .. 0 -> {}]
  BY <1>2, <1>4
<1>6. makes \in Seq({}) /\ Len(makes) = 0
  BY <1>5
<1>7. makes = <<>>
  BY <1>6, EmptySeq
<1> QED BY <1>1, <1>3, <1>6, <1>7, FlattenIs DEF Flattened

(***************************************************************************)
(* Where the transmission of what was composed is.                         *)
(***************************************************************************)
TransmissionInv ==
  /\ ParsersInv
  /\ sent = <<>> \/ (sent \in Seq(Elements) /\ Tracks(sent, wire, got, parser))

LEMMA SentElements ==
  ASSUME sent \in Seq(Elements)
  PROVE AllElements(sent)
<1> SUFFICES ASSUME NEW i \in 1 .. Len(sent) PROVE IsElement(sent[i])
  BY DEF AllElements
<1>1. sent[i] \in Elements
  BY ElementOfSeq
<1> QED BY <1>1, ElementsAssumption DEF IsElement

LEMMA TransmissionInitial == CodecInit => TransmissionInv
<1> SUFFICES ASSUME CodecInit PROVE TransmissionInv
  OBVIOUS
<1>1. ParsersInv
  BY ParsersInitial
<1>2. CASE sent \in Composed /\ wire = ComposeOne(sent)
  <2>1. sent \in Seq(Elements)
    <3>1. sent \in BoundedSeq(Elements, MaxLen)
      BY <1>2 DEF Composed
    <3>2. PICK m \in 0 .. MaxLen : sent \in [1 .. m -> Elements]
      BY <3>1 DEF BoundedSeq, SeqOf
    <3>3. m \in Nat
      BY BoundsAssumption
    <3> QED BY <3>2, <3>3
  <2>2. AllElements(sent)
    BY <2>1, SentElements
  <2>3. PICK flat, mflat : flat = ComposeOne(sent) /\ mflat = Meant(sent)
    OBVIOUS
  <2>4. \E st, mt : Laid(sent, flat, st, mflat, mt)
    BY <2>1, <2>2, <2>3, LaidExists
  <2>5. PICK st, mt : Laid(sent, flat, st, mflat, mt)
    BY <2>4
  <2>6. st[0] = 0 /\ mt[0] = 0 /\ 0 \in 0 .. Len(sent) /\ flat \in Seq(0 .. 255)
    BY <2>5 DEF Laid
  <2>7. Before(sent, 0, parser)
    <3>1. IsParser(parser)
      BY <1>1 DEF ParsersInv
    <3>2. parser.partial = <<>> /\ parser.state = "Control"
      BY DEF CodecInit, ParserInit
    <3> QED BY <3>1, <3>2 DEF Before
  <2>8. Where(sent, st, mt, 0, 0, parser)
    <3>1. Where(sent, st, mt, st[0], mt[0], parser)
      BY <2>2, <2>5, <2>6, <2>7, Onward
    <3> QED BY <2>6, <3>1
  <2>9. Rest(wire, flat, 0)
    <3>1. wire = flat /\ Len(flat) \in Nat
      BY <1>2, <2>3, <2>6
    <3> QED BY <2>6, <3>1 DEF Rest
  <2>10. FirstOf(got, mflat, 0)
    <3>1. got = <<>> /\ IsSequence(<<>>) /\ Len(<<>>) = 0
      BY DEF CodecInit, IsSequence
    <3>2. Len(mflat) \in Nat
      BY <2>5 DEF Laid, IsSequence
    <3> QED BY <3>1, <3>2 DEF FirstOf
  <2>11. Tracks(sent, wire, got, parser)
    BY <2>3, <2>5, <2>8, <2>9, <2>10 DEF Tracks
  <2> QED BY <1>1, <2>1, <2>11 DEF TransmissionInv
<1>3. CASE sent = <<>>
  BY <1>1, <1>3 DEF TransmissionInv
<1> QED BY <1>2, <1>3 DEF CodecInit

LEMMA TransmissionStep == TransmissionInv /\ [Byte]_codecVars => TransmissionInv'
<1> SUFFICES ASSUME TransmissionInv, [Byte]_codecVars PROVE TransmissionInv'
  OBVIOUS
<1>1. ParsersInv'
  BY ParsersStep DEF TransmissionInv
<1>2. CASE Byte /\ sent # <<>>
  <2>1. sent \in Seq(Elements) /\ Tracks(sent, wire, got, parser) /\ AllElements(sent)
    BY <1>2, SentElements DEF TransmissionInv
  <2>2. /\ wire # <<>> /\ wire' = Tail(wire) /\ parser' = Feed(parser, Head(wire))
        /\ got' = got \o Feed(parser, Head(wire)).out /\ sent' = sent
    BY <1>2 DEF Byte
  <2>3. Tracks(sent, Tail(wire), got \o Feed(parser, Head(wire)).out, Feed(parser, Head(wire)))
    BY <2>1, <2>2, TracksOn
  <2>4. Tracks(sent', wire', got', parser')
    BY <2>2, <2>3
  <2> QED BY <1>1, <2>1, <2>2, <2>4 DEF TransmissionInv
<1>3. CASE Byte /\ sent = <<>>
  BY <1>1, <1>3 DEF TransmissionInv, Byte
<1>4. CASE UNCHANGED codecVars
  BY <1>1, <1>4 DEF TransmissionInv, codecVars
<1> QED BY <1>2, <1>3, <1>4

(***************************************************************************)
(* Whatever is composed, of any length, of commands and data in any order, *)
(* with the labels where they may be, comes back from both parsers as it   *)
(* was, and its end is a valid one (sh1107/proto/__init__.py, Command      *)
(* .compose and .Parser; vsh/src/Cmd.zig).                                 *)
(***************************************************************************)
THEOREM ComposedComesBack == CodecSpec => []RoundTrip
<1>1. TransmissionInv => RoundTrip
  <2> SUFFICES ASSUME TransmissionInv, wire = <<>>, Meant(sent) # <<>>
               PROVE  /\ got = Meant(sent) /\ zig_got = got
                      /\ parser.valid_finish /\ zig.valid_finish
    BY DEF RoundTrip
  <2>1. sent # <<>>
    BY NothingSent
  <2>2. AllElements(sent) /\ Tracks(sent, <<>>, got, parser)
    BY <2>1, SentElements DEF TransmissionInv
  <2>3. got = Meant(sent) /\ parser.valid_finish /\ parser.state # "Stuck"
    BY <2>2, WireEnds
  <2>4. Alike(parser, zig) /\ zig_got = got
    BY <2>3 DEF TransmissionInv, ParsersInv, Raises
  <2> QED BY <2>3, <2>4 DEF Alike
<1> QED BY <1>1, TransmissionInitial, TransmissionStep, PTL DEF CodecSpec

-------------------------------------------------------------------------------
(***************************************************************************)
(* Where the labels are.                                                   *)
(***************************************************************************)
\* The byte behind the offset of the i-th element is the first of the next one's.
LEMMA OffsetInIs ==
  ASSUME NEW X, NEW cmds \in Seq(X), AllElements(cmds), NEW i \in 1 .. Len(cmds),
         i + 1 \in 1 .. Len(cmds), ~IsLabel(cmds[i + 1]), ToBytes(cmds[i + 1]) # <<>>
  PROVE  /\ OffsetIn(cmds, i) + 1 \in 1 .. Len(ComposeOne(cmds)) /\ OffsetIn(cmds, i) \in Nat
         /\ ComposeOne(cmds)[OffsetIn(cmds, i) + 1] = ToBytes(cmds[i + 1])[1]
<1>1. PICK n, w, tb, piece :
        n = Len(cmds) /\ w = i + 1 /\ tb = ToBytes(cmds[w]) /\ piece = Piece(cmds, w)
  OBVIOUS
<1>2. /\ n \in Nat /\ DOMAIN cmds = 1 .. n /\ i \in 1 .. n /\ i \in Nat /\ w \in 1 .. n
      /\ w - 1 = i /\ i \in 0 .. n /\ i <= n
  BY <1>1, LenProperties
<1>3. IsElement(cmds[w]) /\ ~IsLabel(cmds[w])
  BY <1>1, <1>2 DEF AllElements
<1>4. PICK pieces, flat, before :
        /\ pieces = [j \in DOMAIN cmds |-> Piece(cmds, j)] /\ flat = ComposeOne(cmds)
        /\ before = [j \in 1 .. i |-> Piece(cmds, j)]
  OBVIOUS
<1>5. ASSUME NEW j \in 1 .. n PROVE Piece(cmds, j) \in Seq(0 .. 255)
  <2>1. IsElement(cmds[j])
    BY <1>1 DEF AllElements
  <2>2. CASE IsLabel(cmds[j])
    <3>1. Piece(cmds, j) = <<>>
      BY <2>2 DEF Piece
    <3> QED BY <3>1
  <2>3. CASE ~IsLabel(cmds[j])
    BY <2>1, <2>3, PieceIs DEF Composes
  <2> QED BY <2>2, <2>3
<1>6. pieces \in [1 .. n -> Seq(0 .. 255)] /\ \A j \in 1 .. n : pieces[j] = Piece(cmds, j)
  BY <1>2, <1>4, <1>5
<1>7. pieces \in Seq(Seq(0 .. 255)) /\ Len(pieces) = n
  BY <1>2, <1>6
<1>8. SubSeq(pieces, 1, i) = before
  <2>1. PICK t : t = SubSeq(pieces, 1, i)
    OBVIOUS
  <2>2. /\ t \in Seq(Seq(0 .. 255)) /\ Len(t) = i
        /\ \A j \in 1 .. i : t[j] = pieces[j]
    BY <1>2, <1>7, <2>1
  <2>3. \A j \in 1 .. i : j \in 1 .. n
    BY <1>2
  <2>4. before \in [1 .. i -> Seq(0 .. 255)]
    BY <1>4, <1>5, <2>3
  <2>5. before \in Seq(Seq(0 .. 255)) /\ Len(before) = i
    BY <1>2, <2>4
  <2>6. \A j \in 1 .. i : before[j] = t[j]
    BY <1>4, <1>6, <2>2, <2>3
  <2> QED BY <2>1, <2>2, <2>5, <2>6, SeqEqual
<1>9. flat = Flattened(pieces) /\ FlattenSeq(before) = Flattened(before)
  BY <1>4, FlattenIs DEF ComposeOne
<1>10. \E st \in [0 .. n -> Nat] :
         /\ Placed(pieces, flat, st)
         /\ \A j \in 0 .. n : st[j] = Len(Flattened(SubSeq(pieces, 1, j)))
  BY <1>7, <1>9, Places
<1>11. PICK st \in [0 .. n -> Nat] :
         /\ Placed(pieces, flat, st)
         /\ \A j \in 0 .. n : st[j] = Len(Flattened(SubSeq(pieces, 1, j)))
  BY <1>10
<1>12. PICK x : x = st[i]
  OBVIOUS
<1>13. x \in Nat /\ x = Len(FlattenSeq(before))
  BY <1>2, <1>8, <1>9, <1>11, <1>12
<1>14. \A j \in 1 .. Len(piece) : x + j \in 1 .. Len(flat) /\ flat[x + j] = piece[j]
  <2>1. \A j \in 1 .. Len(pieces[w]) :
          st[w - 1] + j \in 1 .. Len(flat) /\ flat[st[w - 1] + j] = pieces[w][j]
    BY <1>2, <1>7, <1>11 DEF Placed
  <2> QED BY <1>1, <1>2, <1>6, <1>12, <2>1
<1>15. tb \in Seq(0 .. 255) /\ Len(tb) \in Nat /\ Len(tb) # 0
  <2>1. tb \in Seq(0 .. 255) /\ tb # <<>>
    BY <1>1, <1>3, ElementIs
  <2> QED BY <2>1, EmptySeq, LenProperties
<1>16. Composes(cmds, w, piece)
  BY <1>1, <1>3, PieceIs
<1>17. PICK o : o = IF Finished(cmds, w) /\ ~Finishes(cmds, w) THEN 0 ELSE 1
  OBVIOUS
<1>18. OffsetIn(cmds, i) = x + o
  BY <1>1, <1>4, <1>13, <1>17 DEF OffsetIn
<1>19. o + 1 \in 1 .. Len(piece) /\ piece[o + 1] = tb[1] /\ o \in {0, 1}
  <2>1. PICK l : l = Len(tb)
    OBVIOUS
  <2>2. l \in Nat \ {0} /\ 1 \in 1 .. l
    BY <1>15, <2>1
  <2>3. CASE ~Finished(cmds, w)
    <3>1. Len(piece) = 2 * l /\ \A k \in 1 .. l : piece[2 * k] = tb[k]
      BY <1>1, <1>16, <2>1, <2>3 DEF Composes
    <3>2. piece[2 * 1] = tb[1] /\ o = 1
      BY <1>17, <2>2, <2>3, <3>1
    <3> QED BY <2>2, <3>1, <3>2
  <2>4. CASE Finishes(cmds, w)
    <3>1. Len(piece) = 1 + l /\ \A k \in 1 .. l : piece[1 + k] = tb[k]
      BY <1>1, <1>16, <2>1, <2>4 DEF Composes
    <3>2. piece[1 + 1] = tb[1] /\ o = 1
      BY <1>17, <2>2, <2>4, <3>1
    <3> QED BY <2>2, <3>1, <3>2
  <2>5. CASE Finished(cmds, w) /\ ~Finishes(cmds, w)
    <3>1. piece = tb /\ o = 0
      BY <1>1, <1>16, <1>17, <2>5 DEF Composes
    <3> QED BY <2>1, <2>2, <3>1
  <2> QED BY <2>3, <2>4, <2>5
<1>20. x + (o + 1) = x + o + 1 /\ x + o \in Nat
  BY <1>13, <1>19
<1>21. x + o + 1 \in 1 .. Len(flat) /\ flat[x + o + 1] = tb[1]
  BY <1>14, <1>19, <1>20
<1> QED BY <1>1, <1>4, <1>18, <1>20, <1>21

LEMMA SeqIs ==
  ASSUME NEW S, NEW n \in Nat, NEW c \in [1 .. n -> S]
  PROVE c \in Seq(S) /\ Len(c) = n
OBVIOUS

AreTwo(seqs, a, b) == seqs = <<a, b>>

\* A part of each of two sequences, and where the second begins.
LEMMA PartsAre ==
  ASSUME NEW X, NEW a \in Seq(X), AllElements(a), NEW b \in Seq(X), AllElements(b),
         NEW seqs, AreTwo(seqs, a, b)
  PROVE  /\ Len(FlattenSeq(Compose(SubSeq(seqs, 1, 1)))) \in Nat
         /\ \A j \in 1 .. Len(ComposeOne(b)) :
              FlattenSeq(Compose(seqs))[Len(FlattenSeq(Compose(SubSeq(seqs, 1, 1)))) + j]
                = ComposeOne(b)[j]
<1>1. PICK one, two, parts : one = ComposeOne(a) /\ two = ComposeOne(b) /\ parts = <<one, two>>
  OBVIOUS
<1>2. one \in Seq(0 .. 255) /\ two \in Seq(0 .. 255)
  <2>1. \E st, mt : Laid(a, ComposeOne(a), st, Meant(a), mt)
    BY LaidExists
  <2>2. \E st, mt : Laid(b, ComposeOne(b), st, Meant(b), mt)
    BY LaidExists
  <2> QED BY <1>1, <2>1, <2>2 DEF Laid
<1>0. seqs = <<a, b>>
  BY DEF AreTwo
<1>3. DOMAIN seqs = 1 .. 2 /\ seqs[1] = a /\ seqs[2] = b
  BY <1>0
<1>4. Compose(seqs) = parts
  <2>1. PICK c : c = Compose(seqs)
    OBVIOUS
  <2>2. c = [k \in 1 .. 2 |-> ComposeOne(seqs[k])]
    BY <1>3, <2>1 DEF Compose
  <2>3. c \in [1 .. 2 -> {one, two}] /\ c[1] = one /\ c[2] = two
    BY <1>1, <1>3, <2>2
  <2>4. c \in Seq({one, two}) /\ Len(c) = 2
    <3>1. 2 \in Nat
      OBVIOUS
    <3> QED BY <2>3, <3>1, SeqIs
  <2>5. parts \in Seq({one, two}) /\ Len(parts) = 2 /\ parts[1] = one /\ parts[2] = two
    BY <1>1
  <2>6. \A k \in 1 .. 2 : c[k] = parts[k]
    BY <2>3, <2>5
  <2> QED BY <2>1, <2>4, <2>5, <2>6, SeqEqual
<1>5. Compose(SubSeq(seqs, 1, 1)) = SubSeq(parts, 1, 1)
  <2>1. PICK c, s : s = SubSeq(seqs, 1, 1) /\ c = Compose(s)
    OBVIOUS
  <2>2. DOMAIN s = 1 .. 1 /\ s[1] = a
    BY <1>0, <1>3, <2>1
  <2>3. c = [k \in 1 .. 1 |-> ComposeOne(s[k])]
    BY <2>1, <2>2 DEF Compose
  <2>4. c \in [1 .. 1 -> {one}] /\ c[1] = one
    BY <1>1, <2>2, <2>3
  <2>5. c \in Seq({one}) /\ Len(c) = 1
    <3>1. 1 \in Nat
      OBVIOUS
    <3> QED BY <2>4, <3>1, SeqIs
  <2>6. PICK t : t = SubSeq(parts, 1, 1)
    OBVIOUS
  <2>7. t \in Seq({one}) /\ Len(t) = 1 /\ t[1] = one
    BY <1>1, <2>6
  <2>8. \A k \in 1 .. 1 : c[k] = t[k]
    BY <2>4, <2>7
  <2> QED BY <2>1, <2>5, <2>6, <2>7, <2>8, SeqEqual
<1>6. parts \in Seq(Seq(0 .. 255)) /\ Len(parts) = 2 /\ parts[2] = two
  BY <1>1, <1>2
<1>7. PICK flat, head : flat = FlattenSeq(parts) /\ head = Len(Flattened(SubSeq(parts, 1, 1)))
  OBVIOUS
<1>8. flat = Flattened(parts) /\ head = Len(FlattenSeq(SubSeq(parts, 1, 1)))
  BY <1>7, FlattenIs
<1>9. \E st \in [0 .. Len(parts) -> Nat] :
        /\ Placed(parts, flat, st)
        /\ \A j \in 0 .. Len(parts) : st[j] = Len(Flattened(SubSeq(parts, 1, j)))
  BY <1>6, <1>8, Places
<1>10. PICK st \in [0 .. 2 -> Nat] :
        /\ Placed(parts, flat, st)
        /\ \A j \in 0 .. 2 : st[j] = Len(Flattened(SubSeq(parts, 1, j)))
  BY <1>6, <1>9
<1>11. st[1] = head /\ head \in Nat
  BY <1>7, <1>10
<1>12. \A j \in 1 .. Len(two) : flat[head + j] = two[j]
  <2>1. 2 \in 1 .. Len(parts) /\ 2 - 1 = 1
    BY <1>6
  <2>2. \A j \in 1 .. Len(parts[2]) : flat[st[2 - 1] + j] = parts[2][j]
    BY <1>10, <2>1 DEF Placed
  <2> QED BY <1>6, <1>11, <2>1, <2>2
<1> QED BY <1>1, <1>4, <1>5, <1>7, <1>8, <1>11, <1>12

\* An element that is a label is the one of its number.
LEMMA LabelIs ==
  ASSUME NEW c, IsElement(c), IsLabel(c)
  PROVE c = Label(c.v[1])
<1>1. ~IsCommand(c)
  BY CommandParses
<1>2. c = DataBytes(c.v) => c.name = "DataBytes"
  BY DEF DataBytes
<1> QED BY <1>1, <1>2 DEF IsElement, IsLabel

LEMMA NopIs == IsElement(Cmd("Nop", <<>>)) /\ Cmd("Nop", <<>>).name = "Nop"
<1>1. Fields("Nop", 227) = <<>>
  BY DEF Fields
<1>2. "Nop" \in DOMAIN Ranges /\ 227 \in Ranges["Nop"]
  BY RangesAre
<1>3. IsCommand(Cmd("Nop", <<>>))
  BY <1>1, <1>2 DEF IsCommand
<1> QED BY <1>3 DEF IsElement, Cmd

\* Where a label is among two sequences, of which the first has none.
LEMMA OffsetIs ==
  ASSUME NEW X, NEW a \in Seq(X), \A j \in 1 .. Len(a) : a[j].name # "Label",
         NEW b \in Seq(X), NEW i \in 1 .. Len(b), NEW v, b[i] = Label(v),
         \A j \in 1 .. Len(b) : b[j] = b[i] => j = i,
         NEW seqs, AreTwo(seqs, a, b)
  PROVE  Offset(seqs, v) = Len(FlattenSeq(Compose(SubSeq(seqs, 1, 1)))) + OffsetIn(b, i)
<1>1. DOMAIN seqs = {1, 2} /\ seqs[1] = a /\ seqs[2] = b
  BY Z3 DEF AreTwo
<1>2. DOMAIN a = 1 .. Len(a) /\ DOMAIN b = 1 .. Len(b)
  BY LenProperties
<1>3. Label(v).name = "Label"
  BY DEF Label
<1>4. PICK k : k = CHOOSE m \in DOMAIN seqs : \E j \in DOMAIN seqs[m] : seqs[m][j] = Label(v)
  OBVIOUS
<1>5. \E j \in DOMAIN seqs[2] : seqs[2][j] = Label(v)
  BY <1>1, <1>2
<1>6. ~\E j \in DOMAIN seqs[1] : seqs[1][j] = Label(v)
  BY <1>1, <1>2, <1>3
<1>7. k = 2
  <2>1. k \in DOMAIN seqs /\ \E j \in DOMAIN seqs[k] : seqs[k][j] = Label(v)
    BY <1>1, <1>4, <1>5
  <2> QED BY <1>1, <1>6, <2>1
<1>8. PICK x : x = CHOOSE y \in DOMAIN seqs[k] : seqs[k][y] = Label(v)
  OBVIOUS
<1>9. x = i
  <2>1. x \in DOMAIN b /\ b[x] = Label(v)
    BY <1>1, <1>2, <1>7, <1>8
  <2> QED BY <1>2, <2>1
<1>10. Offset(seqs, v) = Len(FlattenSeq(Compose(SubSeq(seqs, 1, k - 1)))) + OffsetIn(seqs[k], x)
  BY <1>4, <1>8 DEF Offset
<1>11. k - 1 = 1
  BY <1>7
<1> QED BY <1>1, <1>7, <1>9, <1>10, <1>11

\* The offset of a label, in the first of two sequences that has any.
OnlyLabel(X, a, b, i, v) ==
  /\ a \in Seq(X) /\ AllElements(a) /\ \A j \in 1 .. Len(a) : a[j].name # "Label"
  /\ b \in Seq(X) /\ AllElements(b) /\ i \in 1 .. Len(b) /\ b[i] = Label(v)
  /\ \A j \in 1 .. Len(b) : b[j] = b[i] => j = i
  /\ i + 1 \in 1 .. Len(b) /\ ~IsLabel(b[i + 1]) /\ ToBytes(b[i + 1]) # <<>>

LEMMA PointsAt ==
  ASSUME NEW X, NEW a, NEW b, NEW i, NEW v, OnlyLabel(X, a, b, i, v),
         NEW seqs, AreTwo(seqs, a, b)
  PROVE  FlattenSeq(Compose(seqs))[Offset(seqs, v) + 1] = ToBytes(b[i + 1])[1]
<1>0. /\ a \in Seq(X) /\ AllElements(a) /\ \A j \in 1 .. Len(a) : a[j].name # "Label"
      /\ b \in Seq(X) /\ AllElements(b) /\ i \in 1 .. Len(b) /\ b[i] = Label(v)
      /\ \A j \in 1 .. Len(b) : b[j] = b[i] => j = i
      /\ i + 1 \in 1 .. Len(b) /\ ~IsLabel(b[i + 1]) /\ ToBytes(b[i + 1]) # <<>>
  BY DEF OnlyLabel
<1>1. PICK head, o, flat : /\ head = Len(FlattenSeq(Compose(SubSeq(seqs, 1, 1))))
                           /\ o = OffsetIn(b, i) /\ flat = FlattenSeq(Compose(seqs))
  OBVIOUS
<1>2. Offset(seqs, v) = head + o
  <2>1. Offset(seqs, v) = Len(FlattenSeq(Compose(SubSeq(seqs, 1, 1)))) + OffsetIn(b, i)
    BY <1>0, OffsetIs
  <2> QED BY <1>1, <2>1
<1>3. head \in Nat /\ \A j \in 1 .. Len(ComposeOne(b)) : flat[head + j] = ComposeOne(b)[j]
  <2>1. /\ Len(FlattenSeq(Compose(SubSeq(seqs, 1, 1)))) \in Nat
        /\ \A j \in 1 .. Len(ComposeOne(b)) :
             FlattenSeq(Compose(seqs))[Len(FlattenSeq(Compose(SubSeq(seqs, 1, 1)))) + j]
               = ComposeOne(b)[j]
    BY <1>0, PartsAre
  <2> QED BY <1>1, <2>1
<1>4. /\ o + 1 \in 1 .. Len(ComposeOne(b)) /\ o \in Nat
      /\ ComposeOne(b)[o + 1] = ToBytes(b[i + 1])[1]
  BY <1>0, <1>1, OffsetInIs
<1>5. head + (o + 1) = Offset(seqs, v) + 1
  BY <1>2, <1>3, <1>4
<1>6. flat[head + (o + 1)] = ToBytes(b[i + 1])[1]
  BY <1>3, <1>4
<1> QED BY <1>1, <1>5, <1>6

\* What is sent may be composed, and stays what it is.
SentInv == sent = <<>> \/ (sent \in Seq(Elements) /\ Composable(sent))

(***************************************************************************)
(* Whatever is composed behind another part, a label's offset is where the *)
(* first byte of its command is (sh1107/proto/__init__.py, compose): the   *)
(* byte that sh1107/rtl/oled/scroller.py writes its offset to.             *)
(***************************************************************************)
THEOREM OffsetsPoint == CodecSpec => []LabelsPoint
<1>1. CodecInit => SentInv
  <2> SUFFICES ASSUME CodecInit, sent # <<>> PROVE SentInv
    BY DEF SentInv
  <2>1. sent \in Composed
    BY DEF CodecInit
  <2>2. sent \in BoundedSeq(Elements, MaxLen) /\ Composable(sent)
    BY <2>1 DEF Composed
  <2>3. PICK m \in 0 .. MaxLen : sent \in [1 .. m -> Elements]
    BY <2>2 DEF BoundedSeq, SeqOf
  <2>4. m \in Nat
    BY BoundsAssumption
  <2> QED BY <2>2, <2>3, <2>4 DEF SentInv
<1>2. SentInv /\ [Byte]_codecVars => SentInv'
  <2>1. [Byte]_codecVars => sent' = sent
    BY DEF Byte, codecVars
  <2> QED BY <2>1 DEF SentInv
<1>3. SentInv => LabelsPoint
  <2>0. SUFFICES ASSUME SentInv, NEW i \in DOMAIN sent, IsLabel(sent[i]),
                      ToBytes(sent[i + 1]) # <<>>,
                      NEW seqs, seqs = << <<Cmd("Nop", <<>>), DataBytes(<< 0 >>)>>, sent >>
               PROVE  FlattenSeq(Compose(seqs))[Offset(seqs, sent[i].v[1]) + 1]
                        = ToBytes(sent[i + 1])[1]
    BY DEF LabelsPoint
  <2>1. sent # <<>>
    BY <2>0
  <2>2. sent \in Seq(Elements) /\ Composable(sent) /\ AllElements(sent)
    BY <2>0, <2>1, SentElements DEF SentInv
  <2>3. DOMAIN sent = 1 .. Len(sent) /\ Len(sent) \in Nat /\ i \in 1 .. Len(sent)
    BY <2>2, LenProperties
  <2>4. /\ i < Len(sent) /\ ~IsLabel(sent[i + 1])
        /\ \A j \in 1 .. Len(sent) : sent[j] = sent[i] => j = i
    BY <2>0, <2>2, <2>3 DEF Composable
  <2>5. PICK first, nop, data :
          nop = Cmd("Nop", <<>>) /\ data = DataBytes(<<0>>) /\ first = <<nop, data>>
    OBVIOUS
  <2>6. AreTwo(seqs, first, sent)
    BY <2>0, <2>5 DEF AreTwo
  <2>7. IsElement(nop) /\ nop.name = "Nop" /\ IsElement(data) /\ data.name = "DataBytes"
    <3>1. data.v = <<0>> /\ data.name = "DataBytes" /\ <<0>> \in Seq(0 .. 255)
      BY <2>5 DEF DataBytes
    <3> QED BY <2>5, <3>1, NopIs DEF IsElement
  <2>8. PICK X : X = Elements \cup {nop, data}
    OBVIOUS
  <2>9. first \in Seq(X) /\ sent \in Seq(X) /\ Len(first) = 2 /\ first[1] = nop /\ first[2] = data
    <3>1. nop \in X /\ data \in X /\ Elements \subseteq X
      BY <2>8
    <3>2. first \in Seq(X) /\ Len(first) = 2 /\ first[1] = nop /\ first[2] = data
      BY <2>5, <3>1
    <3>3. sent \in Seq(X)
      BY <2>2, <3>1
    <3> QED BY <3>2, <3>3
  <2>10. AllElements(first) /\ \A j \in 1 .. Len(first) : first[j].name # "Label"
    <3>1. \A j \in 1 .. Len(first) : j = 1 \/ j = 2
      BY <2>9
    <3> QED BY <2>7, <2>9, <3>1 DEF AllElements
  <2>11. PICK v : v = sent[i].v[1]
    OBVIOUS
  <2>12. sent[i] = Label(v)
    BY <2>0, <2>2, <2>3, <2>11, LabelIs DEF AllElements
  <2>13. i + 1 \in 1 .. Len(sent)
    BY <2>3, <2>4
  <2>14. first \in Seq(X) /\ sent \in Seq(X)
    BY <2>9
  <2>15. FlattenSeq(Compose(seqs))[Offset(seqs, v) + 1] = ToBytes(sent[i + 1])[1]
    <3>1. ToBytes(sent[i + 1]) # <<>> /\ ~IsLabel(sent[i + 1]) /\ AllElements(sent)
      BY <2>0, <2>2, <2>4
    <3>2. i \in 1 .. Len(sent) /\ \A j \in 1 .. Len(sent) : sent[j] = sent[i] => j = i
      BY <2>3, <2>4
    <3>3. OnlyLabel(X, first, sent, i, v)
      BY <2>10, <2>12, <2>13, <2>14, <3>1, <3>2 DEF OnlyLabel
    <3> QED BY <2>6, <3>3, PointsAt
  <2> QED BY <2>11, <2>15
<1> QED BY <1>1, <1>2, <1>3, PTL DEF CodecSpec
===============================================================================
