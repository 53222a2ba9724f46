---------------------------- MODULE WritersProofs -----------------------------
(***************************************************************************)
(* The four writers' counters stay in range, whatever the commands, the    *)
(* ROM, the display's answers and the clock divider.                       *)
(*                                                                         *)
(* What makes it hard is the units that read the ROM: whether a part of a  *)
(* command is followed by another, and so whether another START is queued, *)
(* is read from the ROM behind the part.  So the proof first says where    *)
(* the bytes of ROMContent are, then where in a command each state of the  *)
(* units is (Walk), and only then that the units take turns on the bus.    *)
(*                                                                         *)
(* The second half is the ground for DeliveryProofs: what the controller   *)
(* does while only the units use it (LineInv), and where a unit's words    *)
(* are (Serves): before the first is on the wire (Unsent), until the last  *)
(* is (Underway), or after a refusal (Stopping).                           *)
(***************************************************************************)
EXTENDS Writers, Recursion

(***************************************************************************)
(* Where the bytes of the ROM are.                                         *)
(***************************************************************************)
LEMMA JoinedIs ==
  ASSUME NEW seqs PROVE Concatenation(seqs) = Flattened(seqs)
  BY FlattenIs DEF Concatenation

LEMMA TwoBytes ==
  ASSUME NEW n \in Nat, NEW s, s = LittleEndian(n)
  PROVE  /\ s \in Seq(Nat) /\ Len(s) = 2 /\ s[1] = n % 256 /\ s[2] = n \div 256
         /\ n % 256 \in Nat /\ n % 256 <= n /\ (n % 256) + 256 * (n \div 256) = n
<1>1. /\ n % 256 \in Nat /\ n \div 256 \in Nat /\ n % 256 <= n
      /\ (n % 256) + 256 * (n \div 256) = n
  OBVIOUS
<1>2. PICK a, b : a = n % 256 /\ b = n \div 256
  OBVIOUS
<1>3. s = <<a, b>> /\ a \in Nat /\ b \in Nat
  BY <1>1, <1>2 DEF LittleEndian
<1> QED BY <1>1, <1>2, <1>3

FunctionIsSeq(f, n, S) == f \in [1 .. n -> S]

LEMMA ASequence ==
  ASSUME NEW S, NEW n \in Nat, NEW f, FunctionIsSeq(f, n, S)
  PROVE  f \in Seq(S) /\ Len(f) = n
  BY DEF FunctionIsSeq

\* The length of the part behind the i-th.
NextLen(parts, i) == IF i = Len(parts) THEN 0 ELSE Len(parts[i + 1])

\* at[i] is how much of a command's bytes is before its part i + 1.
BodyLaid(parts, bytes, at) ==
  /\ at \in [0 .. Len(parts) -> Nat] /\ at[0] = 0 /\ at[Len(parts)] = Len(bytes)
  /\ \A i \in 1 .. Len(parts) :
       /\ at[i] = at[i - 1] + Len(parts[i]) + 2
       /\ at[i] <= Len(bytes)
       /\ bytes[at[i - 1] + Len(parts[i]) + 1] = NextLen(parts, i) % 256
       /\ bytes[at[i - 1] + Len(parts[i]) + 2] = NextLen(parts, i) \div 256
       /\ \A j \in 1 .. Len(parts[i]) : bytes[at[i - 1] + j] = parts[i][j]

LEMMA BodyIs ==
  ASSUME NEW parts \in Seq(Seq(0 .. 255))
  PROVE  /\ Body(parts) \in Seq(Nat)
         /\ \E at : BodyLaid(parts, Body(parts), at)
<1>0. PICK n : n = Len(parts)
  OBVIOUS
<1>1. n \in Nat /\ DOMAIN parts = 1 .. n
  BY <1>0, LenProperties
<1>2. ASSUME NEW i \in 1 .. n
      PROVE  /\ parts[i] \in Seq(Nat) /\ Len(parts[i]) \in Nat
             /\ NextLen(parts, i) \in Nat
  <2>1. parts[i] \in Seq(0 .. 255)
    BY <1>0, <1>1, ElementOfSeq
  <2>2. ASSUME NEW p \in Seq(0 .. 255) PROVE p \in Seq(Nat) /\ Len(p) \in Nat
    <3>1. Len(p) \in Nat /\ p \in [1 .. Len(p) -> 0 .. 255]
      <4> HIDE DEF NextLen
      <4> QED BY <2>2, LenProperties, Zenon
    <3>2. PICK m : m = Len(p)
      OBVIOUS
    <3>3. FunctionIsSeq(p, m, Nat)
      <4>1. p \in [1 .. m -> 0 .. 255]
        BY <3>1, <3>2
      <4>2. \A j \in 1 .. m : p[j] \in Nat
        <5>1. ASSUME NEW j \in 1 .. m PROVE p[j] \in Nat
          <6>1. p[j] \in 0 .. 255
            BY <4>1
          <6>2. \A x \in 0 .. 255 : x \in Nat
            OBVIOUS
          <6> QED BY <6>1, <6>2
        <5> QED BY <5>1
      <4>3. p = [j \in 1 .. m |-> p[j]]
        BY <4>1
      <4> QED BY <4>2, <4>3 DEF FunctionIsSeq
    <3> QED BY <3>1, <3>2, <3>3, ASequence
  <2>3. CASE i = n
    BY <1>0, <2>1, <2>2, <2>3 DEF NextLen
  <2>4. CASE i # n
    <3>1. i + 1 \in 1 .. n
      BY <1>1, <2>4
    <3>2. parts[i + 1] \in Seq(0 .. 255)
      BY <1>0, <1>1, <3>1, ElementOfSeq
    <3> QED BY <1>0, <2>1, <2>2, <2>4, <3>2 DEF NextLen
  <2> QED BY <2>3, <2>4
<1>3. PICK seqs : seqs = [i \in DOMAIN parts |->
                            parts[i] \o LittleEndian(NextLen(parts, i))]
  OBVIOUS
<1>4. ASSUME NEW i \in 1 .. n
      PROVE  /\ seqs[i] \in Seq(Nat) /\ Len(seqs[i]) = Len(parts[i]) + 2
             /\ seqs[i][Len(parts[i]) + 1] = NextLen(parts, i) % 256
             /\ seqs[i][Len(parts[i]) + 2] = NextLen(parts, i) \div 256
             /\ \A j \in 1 .. Len(parts[i]) : seqs[i][j] = parts[i][j]
  <2>1. PICK p, m, e, r : p = parts[i] /\ m = NextLen(parts, i) /\ e = LittleEndian(m) /\ r = seqs[i]
    OBVIOUS
  <2>2. p \in Seq(Nat) /\ Len(p) \in Nat /\ m \in Nat /\ r = p \o e
    BY <1>1, <1>2, <1>3, <2>1
  <2>3. e \in Seq(Nat) /\ Len(e) = 2 /\ e[1] = m % 256 /\ e[2] = m \div 256
    <3>1. m \in Nat /\ e = LittleEndian(m)
      BY <2>1, <2>2
    <3> QED BY <3>1, TwoBytes
  <2>4. /\ r \in Seq(Nat) /\ Len(r) = Len(p) + Len(e)
        /\ \A j \in 1 .. Len(p) : r[j] = p[j]
        /\ \A j \in 1 .. Len(e) : r[Len(p) + j] = e[j]
    <3>1. p \in Seq(Nat) /\ e \in Seq(Nat) /\ r = p \o e
      BY <2>2, <2>3
    <3> QED BY <3>1, JoinIs
  <2>5. r[Len(p) + 1] = e[1] /\ r[Len(p) + 2] = e[2]
    BY <2>3, <2>4
  <2> QED BY <2>1, <2>3, <2>4, <2>5
<1>5. seqs \in Seq(Seq(Nat)) /\ Len(seqs) = n
  <2>1. FunctionIsSeq(seqs, n, Seq(Nat))
    BY <1>1, <1>3, <1>4 DEF FunctionIsSeq
  <2> QED BY <1>1, <2>1, ASequence
<1>6. PICK flat : flat = Body(parts)
  OBVIOUS
<1>7. flat = Flattened(seqs)
  <2>1. flat = Concatenation(seqs)
    BY <1>0, <1>3, <1>6 DEF Body, NextLen
  <2> QED BY <2>1, JoinedIs
<1>8. flat \in Seq(Nat) /\ \E st \in [0 .. Len(seqs) -> Nat] : Placed(seqs, flat, st)
  BY <1>5, <1>7, Places
<1>9. PICK st \in [0 .. n -> Nat] : Placed(seqs, flat, st)
  BY <1>5, <1>8
<1>10. st[0] = 0 /\ st[n] = Len(flat)
  BY <1>5, <1>9 DEF Placed
<1>11. ASSUME NEW i \in 1 .. n
       PROVE  /\ st[i] = st[i - 1] + Len(parts[i]) + 2 /\ st[i] <= Len(flat)
              /\ flat[st[i - 1] + Len(parts[i]) + 1] = NextLen(parts, i) % 256
              /\ flat[st[i - 1] + Len(parts[i]) + 2] = NextLen(parts, i) \div 256
              /\ \A j \in 1 .. Len(parts[i]) : flat[st[i - 1] + j] = parts[i][j]
  <2>1. PICK a, b, l, c : a = st[i - 1] /\ b = st[i] /\ l = Len(parts[i]) /\ c = seqs[i]
    OBVIOUS
  <2>2. a \in Nat /\ b \in Nat /\ l \in Nat /\ Len(c) = l + 2
    <3>1. i - 1 \in 0 .. n /\ i \in 0 .. n
      BY <1>1
    <3>2. a \in Nat /\ b \in Nat
      BY <1>9, <2>1, <3>1
    <3> QED BY <1>2, <1>4, <2>1, <3>2
  <2>3. b = a + Len(c)
    BY <1>5, <1>9, <2>1 DEF Placed
  <2>4. b <= Len(flat)
    <3>1. i \in 0 .. n /\ n \in 0 .. n /\ i <= n
      BY <1>1
    <3>2. st[i] <= st[n]
      BY <1>5, <1>9, <3>1 DEF Placed
    <3> QED BY <1>10, <2>1, <3>2
  <2>5. \A j \in 1 .. Len(c) : flat[a + j] = c[j]
    BY <1>5, <1>9, <2>1 DEF Placed
  <2>6. l + 1 \in 1 .. Len(c) /\ l + 2 \in 1 .. Len(c)
    BY <2>2
  <2>7. flat[a + (l + 1)] = c[l + 1] /\ flat[a + (l + 2)] = c[l + 2]
    BY <2>5, <2>6
  <2>8. a + (l + 1) = a + l + 1 /\ a + (l + 2) = a + l + 2 /\ b = a + l + 2
    BY <2>2, <2>3
  <2>9. c[l + 1] = NextLen(parts, i) % 256 /\ c[l + 2] = NextLen(parts, i) \div 256
    BY <1>4, <2>1
  <2>10. /\ flat[a + l + 1] = NextLen(parts, i) % 256
         /\ flat[a + l + 2] = NextLen(parts, i) \div 256
    BY <2>7, <2>8, <2>9
  <2>11. ASSUME NEW j \in 1 .. l PROVE flat[a + j] = parts[i][j]
    <3>1. j \in 1 .. l + 2 /\ j \in 1 .. Len(c)
      BY <2>2
    <3>2. seqs[i][j] = parts[i][j]
      <4>1. j \in 1 .. Len(parts[i])
        BY <2>1
      <4> QED BY <1>4, <4>1
    <3> QED BY <2>1, <2>5, <3>1, <3>2
  <2> QED BY <2>1, <2>4, <2>8, <2>10, <2>11
<1>12. BodyLaid(parts, flat, st)
  BY <1>0, <1>10, <1>11 DEF BodyLaid
<1> QED BY <1>6, <1>8, <1>12

LEMMA CommandsAre ==
  /\ Commands \in Seq(Seq(Seq(0 .. 255))) /\ Len(Commands) \in Nat
  /\ DOMAIN Commands = 1 .. Len(Commands)
  /\ \A k \in 1 .. Len(Commands) :
       /\ Commands[k] \in Seq(Seq(0 .. 255)) /\ Len(Commands[k]) \in Nat \ {0}
       /\ \A i \in 1 .. Len(Commands[k]) :
            /\ Commands[k][i] \in Seq(0 .. 255) /\ Len(Commands[k][i]) \in Nat
            /\ Len(Commands[k][i]) = 0 => Len(Commands[k]) = 1
<1>1. /\ Commands \in Seq(Seq(Seq(0 .. 255))) /\ Len(Commands) \in Nat
      /\ DOMAIN Commands = 1 .. Len(Commands)
  BY CommandsAssumption, LenProperties
<1>2. ASSUME NEW k \in 1 .. Len(Commands)
      PROVE  /\ Commands[k] \in Seq(Seq(0 .. 255)) /\ Len(Commands[k]) \in Nat \ {0}
             /\ \A i \in 1 .. Len(Commands[k]) :
                  /\ Commands[k][i] \in Seq(0 .. 255) /\ Len(Commands[k][i]) \in Nat
                  /\ Len(Commands[k][i]) = 0 => Len(Commands[k]) = 1
  <2>1. PICK parts : parts = Commands[k]
    OBVIOUS
  <2>2. parts \in Seq(Seq(0 .. 255))
    BY <1>1, <2>1, ElementOfSeq
  <2>3. Len(parts) \in Nat /\ DOMAIN parts = 1 .. Len(parts)
    BY <2>2, LenProperties
  <2>4. parts # <<>> /\ \A i \in DOMAIN parts : parts[i] = <<>> => Len(parts) = 1
    BY <1>1, <2>1, CommandsAssumption
  <2>5. Len(parts) # 0
    BY <2>2, <2>4, EmptySeq
  <2>6. ASSUME NEW i \in 1 .. Len(parts)
        PROVE  /\ parts[i] \in Seq(0 .. 255) /\ Len(parts[i]) \in Nat
               /\ Len(parts[i]) = 0 => Len(parts) = 1
    <3>1. PICK p : p = parts[i]
      OBVIOUS
    <3>2. p \in Seq(0 .. 255)
      BY <2>2, <3>1, ElementOfSeq
    <3>3. Len(p) \in Nat /\ (Len(p) = 0 => p = <<>>)
      BY <3>2, LenProperties, EmptySeq
    <3> QED BY <2>3, <2>4, <3>1, <3>2, <3>3
  <2> QED BY <2>1, <2>2, <2>3, <2>5, <2>6
<1> QED BY <1>1, <1>2

\* Where the bytes of each command are behind the index.
LEMMA BodiesLaid ==
  /\ Bodies \in Seq(Seq(Nat)) /\ Len(Bodies) = Len(Commands)
  /\ Concatenation(Bodies) \in Seq(Nat)
  /\ \E st \in [0 .. Len(Commands) -> Nat] :
       /\ Placed(Bodies, Concatenation(Bodies), st)
       /\ \A k \in 1 .. Len(Commands) : Offset(k) = 4 * Len(Commands) + st[k - 1]
<1>1. PICK n, seqs, flat :
        n = Len(Commands) /\ seqs = Bodies /\ flat = Flattened(seqs)
  OBVIOUS
<1>2. n \in Nat /\ DOMAIN Commands = 1 .. n
  BY <1>1, CommandsAre
<1>3. ASSUME NEW k \in 1 .. n PROVE seqs[k] \in Seq(Nat)
  <2>1. PICK parts : parts = Commands[k]
    OBVIOUS
  <2>2. parts \in Seq(Seq(0 .. 255)) /\ seqs[k] = Body(parts)
    BY <1>1, <1>2, <2>1, CommandsAre DEF Bodies
  <2> QED BY <2>2, BodyIs
<1>4. seqs \in Seq(Seq(Nat)) /\ Len(seqs) = n
  <2>1. FunctionIsSeq(seqs, n, Seq(Nat))
    BY <1>1, <1>2, <1>3 DEF FunctionIsSeq, Bodies
  <2> QED BY <1>2, <2>1, ASequence
<1>5. /\ flat \in Seq(Nat)
      /\ \E st \in [0 .. Len(seqs) -> Nat] :
           /\ Placed(seqs, flat, st)
           /\ \A i \in 0 .. Len(seqs) : st[i] = Len(Flattened(SubSeq(seqs, 1, i)))
  BY <1>1, <1>4, Places
<1>6. PICK st \in [0 .. n -> Nat] :
        /\ Placed(seqs, flat, st)
        /\ \A i \in 0 .. n : st[i] = Len(Flattened(SubSeq(seqs, 1, i)))
  BY <1>4, <1>5
<1>7. flat = Concatenation(Bodies)
  BY <1>1, JoinedIs
<1>8. ASSUME NEW k \in 1 .. n PROVE Offset(k) = 4 * n + st[k - 1]
  <2>1. k - 1 \in 0 .. n
    BY <1>2
  <2>2. Offset(k) = 4 * n + Len(Concatenation(SubSeq(seqs, 1, k - 1)))
    BY <1>1 DEF Offset
  <2>3. Concatenation(SubSeq(seqs, 1, k - 1)) = Flattened(SubSeq(seqs, 1, k - 1))
    BY JoinedIs
  <2> QED BY <1>6, <2>1, <2>2, <2>3
<1> QED BY <1>1, <1>4, <1>5, <1>6, <1>7, <1>8

\* The four bytes of the k-th command's entry in the index.
Entry(k, a, b, c, d) ==
  /\ a = Offset(k) % 256 /\ b = Offset(k) \div 256
  /\ c = Len(Commands[k][1]) % 256 /\ d = Len(Commands[k][1]) \div 256

\* Where the index has the offset and the length of each command.
LEMMA IndexLaid ==
  /\ Index \in Seq(Nat) /\ Len(Index) = 4 * Len(Commands)
  /\ \A k \in 1 .. Len(Commands) :
       Entry(k, Index[4 * (k - 1) + 1], Index[4 * (k - 1) + 2],
                Index[4 * (k - 1) + 3], Index[4 * (k - 1) + 4])
<1>1. PICK n : n = Len(Commands)
  OBVIOUS
<1>2. n \in Nat /\ DOMAIN Commands = 1 .. n
  BY <1>1, CommandsAre
<1>3. ASSUME NEW k \in 1 .. n
      PROVE  Offset(k) \in Nat /\ Len(Commands[k][1]) \in Nat
  <2>1. PICK st \in [0 .. n -> Nat] : \A m \in 1 .. n : Offset(m) = 4 * n + st[m - 1]
    BY <1>1, BodiesLaid
  <2>2. k - 1 \in 0 .. n
    BY <1>2
  <2>3. Offset(k) \in Nat
    <3>1. PICK x : x = st[k - 1]
      OBVIOUS
    <3>2. x \in Nat
      BY <2>1, <2>2, <3>1
    <3> QED BY <1>2, <2>1, <3>1, <3>2
  <2>4. Len(Commands[k]) \in Nat \ {0}
    BY <1>1, CommandsAre
  <2>5. 1 \in 1 .. Len(Commands[k])
    BY <2>4
  <2> QED BY <1>1, <2>3, <2>5, CommandsAre
<1>4. PICK seqs : seqs = [k \in DOMAIN Commands |->
                            LittleEndian(Offset(k)) \o LittleEndian(Len(Commands[k][1]))]
  OBVIOUS
<1>5. ASSUME NEW k \in 1 .. n
      PROVE  /\ seqs[k] \in Seq(Nat) /\ Len(seqs[k]) = 4
             /\ Entry(k, seqs[k][1], seqs[k][2], seqs[k][3], seqs[k][4])
  <2>1. PICK x, y, a, b, r : /\ x = Offset(k) /\ y = Len(Commands[k][1])
                             /\ a = LittleEndian(x) /\ b = LittleEndian(y) /\ r = seqs[k]
    OBVIOUS
  <2>2. x \in Nat /\ y \in Nat
    BY <1>3, <2>1
  <2>3. a = LittleEndian(x) /\ b = LittleEndian(y)
    BY <2>1
  <2>4. a \in Seq(Nat) /\ Len(a) = 2 /\ a[1] = x % 256 /\ a[2] = x \div 256
    BY <2>2, <2>3, TwoBytes
  <2>5. b \in Seq(Nat) /\ Len(b) = 2 /\ b[1] = y % 256 /\ b[2] = y \div 256
    BY <2>2, <2>3, TwoBytes
  <2>6. r = a \o b
    BY <1>2, <1>4, <2>1
  <2>7. /\ r \in Seq(Nat) /\ Len(r) = Len(a) + Len(b)
        /\ \A j \in 1 .. Len(a) : r[j] = a[j]
        /\ \A j \in 1 .. Len(b) : r[Len(a) + j] = b[j]
    <3>1. a \in Seq(Nat) /\ b \in Seq(Nat)
      BY <2>4, <2>5
    <3> QED BY <2>6, <3>1, JoinIs
  <2>8. 1 \in 1 .. Len(a) /\ 2 \in 1 .. Len(a) /\ 1 \in 1 .. Len(b) /\ 2 \in 1 .. Len(b)
    BY <2>4, <2>5
  <2>9. r[1] = a[1] /\ r[2] = a[2] /\ r[Len(a) + 1] = b[1] /\ r[Len(a) + 2] = b[2]
    BY <2>7, <2>8
  <2>10. Len(a) + 1 = 3 /\ Len(a) + 2 = 4 /\ Len(r) = 4
    BY <2>4, <2>5, <2>7
  <2>11. r[3] = b[1] /\ r[4] = b[2]
    BY <2>9, <2>10
  <2>12. r[1] = x % 256 /\ r[2] = x \div 256
    BY <2>4, <2>9, Zenon
  <2>13. r[3] = y % 256 /\ r[4] = y \div 256
    BY <2>5, <2>11, Zenon
  <2>14. Entry(k, r[1], r[2], r[3], r[4])
    BY <2>1, <2>12, <2>13, Zenon DEF Entry
  <2> QED BY <2>1, <2>7, <2>10, <2>14, Zenon
<1>6. seqs \in Seq(Seq(Nat)) /\ Len(seqs) = n
  <2>1. FunctionIsSeq(seqs, n, Seq(Nat))
    BY <1>2, <1>4, <1>5 DEF FunctionIsSeq
  <2> QED BY <1>2, <2>1, ASequence
<1>7. PICK flat : flat = Index
  OBVIOUS
<1>8. flat = Flattened(seqs)
  <2>1. flat = Concatenation(seqs)
    BY <1>4, <1>7 DEF Index
  <2> QED BY <2>1, JoinedIs
<1>9. flat \in Seq(Nat) /\ \E st \in [0 .. Len(seqs) -> Nat] : Placed(seqs, flat, st)
  BY <1>6, <1>8, Places
<1>10. PICK st \in [0 .. n -> Nat] : Placed(seqs, flat, st)
  BY <1>6, <1>9
<1> DEFINE T == {v \in Nat : v \in 0 .. n => st[v] = 4 * v}
<1>11. 0 \in T
  BY <1>10 DEF Placed
<1>12. ASSUME NEW v \in Nat, v \in T PROVE v + 1 \in T
  <2>1. CASE v + 1 \in 0 .. n
    <3>1. v + 1 \in 1 .. n /\ (v + 1) - 1 = v /\ v \in 0 .. n
      BY <1>2, <2>1
    <3>2. st[v + 1] = st[v] + Len(seqs[v + 1])
      BY <1>6, <1>10, <3>1 DEF Placed
    <3>3. st[v] = 4 * v /\ Len(seqs[v + 1]) = 4
      BY <1>5, <1>12, <3>1
    <3> QED BY <3>2, <3>3
  <2> QED BY <2>1
<1>13. \A v \in 0 .. n : st[v] = 4 * v
  <2>1. Nat \subseteq T
    <3> HIDE DEF T
    <3> QED BY <1>11, <1>12, Induct
  <2> QED BY <2>1
<1>14. Len(flat) = 4 * n
  BY <1>2, <1>6, <1>10, <1>13 DEF Placed
<1>15. ASSUME NEW k \in 1 .. n
       PROVE  \A j \in 1 .. 4 : flat[4 * (k - 1) + j] = seqs[k][j]
  <2>1. st[k - 1] = 4 * (k - 1)
    BY <1>2, <1>13
  <2>2. \A j \in 1 .. Len(seqs[k]) : flat[st[k - 1] + j] = seqs[k][j]
    BY <1>6, <1>10 DEF Placed
  <2>3. Len(seqs[k]) = 4
    BY <1>5
  <2> QED BY <2>1, <2>2, <2>3, Zenon
<1>16. ASSUME NEW k \in 1 .. n
       PROVE  Entry(k, flat[4 * (k - 1) + 1], flat[4 * (k - 1) + 2],
                       flat[4 * (k - 1) + 3], flat[4 * (k - 1) + 4])
  <2>1. 1 \in 1 .. 4 /\ 2 \in 1 .. 4 /\ 3 \in 1 .. 4 /\ 4 \in 1 .. 4
    OBVIOUS
  <2>2. PICK b : b = 4 * (k - 1)
    OBVIOUS
  <2>3. \A j \in 1 .. 4 : flat[b + j] = seqs[k][j]
    BY <1>15, <2>2, Zenon
  <2>4. /\ flat[b + 1] = seqs[k][1] /\ flat[b + 2] = seqs[k][2]
        /\ flat[b + 3] = seqs[k][3] /\ flat[b + 4] = seqs[k][4]
    BY <2>1, <2>3, Zenon
  <2>5. Entry(k, seqs[k][1], seqs[k][2], seqs[k][3], seqs[k][4])
    BY <1>5
  <2> QED BY <2>2, <2>4, <2>5, Zenon
<1> QED BY <1>1, <1>7, <1>9, <1>14, <1>16, Zenon

\* Where the parts of the k-th command are in the ROM, and what is behind each.
Chain(k, at) ==
  LET parts == Commands[k] IN
  /\ at \in [0 .. Len(parts) -> Nat] /\ at[0] = Offset(k)
  /\ \A i \in 1 .. Len(parts) :
       /\ at[i] = at[i - 1] + Len(parts[i]) + 2
       /\ at[i] <= Len(ROMContent)
       /\ ROMByte(at[i - 1] + Len(parts[i])) = NextLen(parts, i) % 256
       /\ ROMByte(at[i - 1] + Len(parts[i]) + 1) = NextLen(parts, i) \div 256
       /\ \A j \in 1 .. Len(parts[i]) : ROMByte(at[i - 1] + (j - 1)) = parts[i][j]

LEMMA ROMLaid ==
  /\ Len(ROMContent) \in Nat
  /\ \A k \in 1 .. Len(Commands) :
       /\ Entry(k, ROMByte(4 * (k - 1)), ROMByte(4 * (k - 1) + 1),
                   ROMByte(4 * (k - 1) + 2), ROMByte(4 * (k - 1) + 3))
       /\ \E at : Chain(k, at)
<1>1. PICK n, index, bodies, flat, rom :
        /\ n = Len(Commands) /\ index = Index /\ bodies = Bodies
        /\ flat = Concatenation(Bodies) /\ rom = ROMContent
  OBVIOUS
<1>2. n \in Nat /\ DOMAIN Commands = 1 .. n
  BY <1>1, CommandsAre
<1>3. /\ index \in Seq(Nat) /\ Len(index) = 4 * n
      /\ \A k \in 1 .. n :
           Entry(k, index[4 * (k - 1) + 1], index[4 * (k - 1) + 2],
                    index[4 * (k - 1) + 3], index[4 * (k - 1) + 4])
  <2>1. Len(Commands) = n /\ Index = index
    BY <1>1
  <2> QED BY <2>1, IndexLaid, Zenon
<1>4. /\ bodies \in Seq(Seq(Nat)) /\ Len(bodies) = n /\ flat \in Seq(Nat)
      /\ \E st \in [0 .. n -> Nat] :
           /\ Placed(bodies, flat, st)
           /\ \A k \in 1 .. n : Offset(k) = 4 * n + st[k - 1]
  BY <1>1, BodiesLaid
<1>5. PICK st \in [0 .. n -> Nat] :
        /\ Placed(bodies, flat, st)
        /\ \A k \in 1 .. n : Offset(k) = 4 * n + st[k - 1]
  BY <1>4
<1>6. /\ rom \in Seq(Nat) /\ Len(rom) = 4 * n + Len(flat) /\ Len(flat) \in Nat
      /\ \A j \in 1 .. 4 * n : rom[j] = index[j]
      /\ \A j \in 1 .. Len(flat) : rom[4 * n + j] = flat[j]
  <2>1. rom = index \o flat /\ index \in Seq(Nat) /\ flat \in Seq(Nat)
    BY <1>1, <1>3, <1>4 DEF ROMContent
  <2>2. /\ rom \in Seq(Nat) /\ Len(rom) = Len(index) + Len(flat)
        /\ Len(index) \in Nat /\ Len(flat) \in Nat
        /\ \A j \in 1 .. Len(index) : rom[j] = index[j]
        /\ \A j \in 1 .. Len(flat) : rom[Len(index) + j] = flat[j]
    BY <2>1, JoinIs
  <2> QED BY <1>3, <2>2
<1>7. PICK total : total = Len(rom)
  OBVIOUS
<1>8. total \in Nat /\ total = 4 * n + Len(flat)
  BY <1>2, <1>6, <1>7
<1>9. ASSUME NEW j \in Nat, j + 1 <= total PROVE ROMByte(j) = rom[j + 1]
  <2>1. j < Len(ROMContent)
    BY <1>1, <1>7, <1>8, <1>9
  <2> QED BY <1>1, <2>1 DEF ROMByte
<1>10. ASSUME NEW k \in 1 .. n
       PROVE  Entry(k, ROMByte(4 * (k - 1)), ROMByte(4 * (k - 1) + 1),
                       ROMByte(4 * (k - 1) + 2), ROMByte(4 * (k - 1) + 3))
  <2>1. PICK b : b = 4 * (k - 1)
    OBVIOUS
  <2>2. b \in Nat /\ b + 4 <= 4 * n
    BY <1>2, <2>1
  <2>3. ASSUME NEW j \in {0, 1, 2, 3} PROVE ROMByte(b + j) = index[b + j + 1]
    <3>1. b + j \in Nat /\ b + j + 1 <= total /\ b + j + 1 \in 1 .. 4 * n
      <4>1. PICK limit : limit = 4 * n
        OBVIOUS
      <4>2. PICK more : more = Len(flat)
        OBVIOUS
      <4>3. limit \in Nat /\ more \in Nat /\ total = limit + more
        BY <1>2, <1>6, <1>8, <4>1, <4>2
      <4>4. b \in Nat /\ b + 4 <= limit
        BY <2>2, <4>1
      <4>5. j = 0 \/ j = 1 \/ j = 2 \/ j = 3
        OBVIOUS
      <4>6. b + j \in Nat /\ b + j + 1 <= limit /\ b + j + 1 >= 1
        BY <4>3, <4>4, <4>5
      <4> QED BY <4>1, <4>3, <4>6
    <3>2. PICK a : a = b + j
      OBVIOUS
    <3>3. ROMByte(a) = rom[a + 1] /\ rom[a + 1] = index[a + 1]
      <4>1. a \in Nat /\ a + 1 <= total /\ a + 1 \in 1 .. 4 * n
        BY <3>1, <3>2
      <4> QED BY <1>6, <1>9, <4>1
    <3> QED BY <3>2, <3>3
  <2>4. ROMByte(b + 0) = index[b + 0 + 1] /\ ROMByte(b + 1) = index[b + 1 + 1]
    BY <2>3
  <2>5. ROMByte(b + 2) = index[b + 2 + 1] /\ ROMByte(b + 3) = index[b + 3 + 1]
    BY <2>3
  <2>6. /\ b + 0 = b /\ b + 0 + 1 = b + 1 /\ b + 1 + 1 = b + 2
        /\ b + 2 + 1 = b + 3 /\ b + 3 + 1 = b + 4
    BY <2>2
  <2>7. Entry(k, index[b + 1], index[b + 2], index[b + 3], index[b + 4])
    BY <1>3, <2>1, Zenon
  <2>8. ROMByte(b) = index[b + 1] /\ ROMByte(b + 1) = index[b + 2]
    BY <2>4, <2>6, Zenon
  <2>9. ROMByte(b + 2) = index[b + 3] /\ ROMByte(b + 3) = index[b + 4]
    BY <2>5, <2>6, Zenon
  <2> QED BY <2>1, <2>7, <2>8, <2>9, Zenon
<1>11. ASSUME NEW k \in 1 .. n PROVE \E at : Chain(k, at)
  <2>1. PICK parts, body, m, base :
          /\ parts = Commands[k] /\ body = bodies[k] /\ m = Len(parts)
          /\ base = 4 * n + st[k - 1]
    OBVIOUS
  <2>2. /\ parts \in Seq(Seq(0 .. 255)) /\ m \in Nat
        /\ \A i \in 1 .. m : Len(parts[i]) \in Nat
    BY <1>1, <2>1, CommandsAre
  <2>3. body = Body(parts)
    BY <1>1, <1>2, <2>1 DEF Bodies
  <2>4. body \in Seq(Nat) /\ \E pt : BodyLaid(parts, body, pt)
    BY <2>2, <2>3, BodyIs
  <2>5. PICK pt : BodyLaid(parts, body, pt)
    BY <2>4
  <2>6. base \in Nat /\ base = Offset(k) /\ Len(body) \in Nat
    <3>1. st[k - 1] \in Nat
      <4>1. k - 1 \in 0 .. n
        BY <1>2
      <4> QED BY <1>5, <4>1
    <3>2. Offset(k) = 4 * n + st[k - 1]
      BY <1>5, Zenon
    <3>3. PICK x, y : x = st[k - 1] /\ y = 4 * n
      OBVIOUS
    <3>4. x \in Nat /\ y \in Nat /\ base = y + x
      BY <1>2, <2>1, <3>1, <3>3
    <3> QED BY <2>1, <2>4, <3>2, <3>3, <3>4, LenProperties
  <2>7. ASSUME NEW j \in 1 .. Len(body)
        PROVE  base + j <= total /\ rom[base + j] = body[j]
    <3>1. PICK x : x = st[k - 1]
      OBVIOUS
    <3>2. x + j \in 1 .. Len(flat) /\ flat[x + j] = body[j]
      <4>1. \A i \in 1 .. Len(bodies) : \A q \in 1 .. Len(bodies[i]) :
              /\ st[i - 1] + q \in 1 .. Len(flat)
              /\ flat[st[i - 1] + q] = bodies[i][q]
        BY <1>5 DEF Placed
      <4> QED BY <1>4, <2>1, <3>1, <4>1
    <3>3. x \in Nat
      <4>1. k - 1 \in 0 .. n
        BY <1>2
      <4> QED BY <1>5, <3>1, <4>1
    <3>4. rom[4 * n + (x + j)] = flat[x + j]
      BY <1>6, <3>2
    <3>5. 4 * n + (x + j) = base + j
      BY <1>2, <2>1, <3>1, <3>3
    <3>6. base + j <= total
      BY <1>2, <1>6, <1>8, <3>2, <3>3, <3>5
    <3> QED BY <3>2, <3>4, <3>5, <3>6
  <2> DEFINE at == [i \in 0 .. m |-> base + pt[i]]
  <2>8. /\ pt \in [0 .. m -> Nat] /\ pt[0] = 0
        /\ \A i \in 1 .. m : /\ pt[i] = pt[i - 1] + Len(parts[i]) + 2
                             /\ pt[i] <= Len(body)
    BY <2>1, <2>5 DEF BodyLaid
  <2>9. at \in [0 .. m -> Nat] /\ at[0] = Offset(k)
    BY <2>2, <2>6, <2>8
  <2>10. ASSUME NEW i \in 1 .. m
         PROVE  /\ at[i] = at[i - 1] + Len(parts[i]) + 2
                /\ at[i] <= total
                /\ ROMByte(at[i - 1] + Len(parts[i])) = NextLen(parts, i) % 256
                /\ ROMByte(at[i - 1] + Len(parts[i]) + 1) = NextLen(parts, i) \div 256
                /\ \A j \in 1 .. Len(parts[i]) :
                     ROMByte(at[i - 1] + (j - 1)) = parts[i][j]
    <3>1. PICK a, c, l : a = pt[i - 1] /\ c = pt[i] /\ l = Len(parts[i])
      OBVIOUS
    <3>2. a \in Nat /\ c \in Nat /\ l \in Nat /\ c = a + l + 2 /\ c <= Len(body)
      <4>1. i - 1 \in 0 .. m /\ i \in 0 .. m
        BY <2>2
      <4> QED BY <2>2, <2>8, <3>1, <4>1
    <3>3. at[i - 1] = base + a /\ at[i] = base + c
      <4>1. i - 1 \in 0 .. m /\ i \in 0 .. m
        BY <2>2
      <4> QED BY <3>1, <4>1
    <3> HIDE DEF at
    <3>4. a + l + 1 \in 1 .. Len(body) /\ a + l + 2 \in 1 .. Len(body)
      BY <2>6, <3>2
    <3>5. /\ base + (a + l + 1) <= total /\ rom[base + (a + l + 1)] = body[a + l + 1]
          /\ base + (a + l + 2) <= total /\ rom[base + (a + l + 2)] = body[a + l + 2]
      BY <2>7, <3>4
    <3>6. /\ body[a + l + 1] = NextLen(parts, i) % 256
          /\ body[a + l + 2] = NextLen(parts, i) \div 256
      BY <2>1, <2>5, <3>1 DEF BodyLaid
    <3>7. PICK e, f : e = at[i - 1] + l /\ f = at[i - 1] + l + 1
      OBVIOUS
    <3>8. /\ e \in Nat /\ f \in Nat /\ e + 1 = base + (a + l + 1)
          /\ f + 1 = base + (a + l + 2)
      <4>1. at[i - 1] = base + a
        BY <3>3
      <4>2. e = base + a + l /\ f = base + a + l + 1
        BY <3>7, <4>1
      <4>3. base \in Nat /\ a \in Nat /\ l \in Nat
        BY <2>6, <3>2
      <4> QED BY <4>2, <4>3
    <3>9. ROMByte(e) = rom[e + 1] /\ ROMByte(f) = rom[f + 1]
      <4>1. e + 1 <= total /\ f + 1 <= total
        BY <3>5, <3>8
      <4> QED BY <1>9, <3>8, <4>1
    <3>10. ROMByte(e) = NextLen(parts, i) % 256 /\ ROMByte(f) = NextLen(parts, i) \div 256
      BY <3>5, <3>6, <3>8, <3>9
    <3>11. at[i] = at[i - 1] + l + 2 /\ at[i] <= total
      <4>1. base + (a + l + 2) = at[i]
        BY <2>6, <3>2, <3>3
      <4>2. base + a + l + 2 = base + c
        BY <2>6, <3>2
      <4>3. at[i] <= total
        BY <3>5, <4>1
      <4> QED BY <3>3, <4>2, <4>3
    <3>12. ASSUME NEW j \in 1 .. l PROVE ROMByte(at[i - 1] + (j - 1)) = parts[i][j]
      <4>1. a + j \in 1 .. Len(body)
        BY <2>6, <3>2
      <4>2. base + (a + j) <= total /\ rom[base + (a + j)] = body[a + j]
        BY <2>7, <4>1
      <4>3. body[a + j] = parts[i][j]
        BY <2>1, <2>5, <3>1 DEF BodyLaid
      <4>4. PICK g : g = at[i - 1] + (j - 1)
        OBVIOUS
      <4>5. g \in Nat /\ g + 1 = base + (a + j)
        <5>1. at[i - 1] = base + a /\ base \in Nat /\ a \in Nat
          BY <2>6, <3>2, <3>3
        <5> QED BY <4>4, <5>1
      <4>6. ROMByte(g) = rom[g + 1]
        BY <1>9, <4>2, <4>5
      <4> QED BY <4>2, <4>3, <4>4, <4>5, <4>6
    <3> QED BY <3>1, <3>7, <3>10, <3>11, <3>12
  <2>11. PICK bt : bt = at
    OBVIOUS
  <2> HIDE DEF at
  <2>12. Chain(k, bt)
    BY <1>1, <1>7, <2>1, <2>9, <2>10, <2>11 DEF Chain
  <2> QED BY <2>12
<1>12. Len(ROMContent) \in Nat
  BY <1>1, <1>7, <1>8
<1>13. ASSUME NEW k \in 1 .. Len(Commands)
       PROVE  /\ Entry(k, ROMByte(4 * (k - 1)), ROMByte(4 * (k - 1) + 1),
                          ROMByte(4 * (k - 1) + 2), ROMByte(4 * (k - 1) + 3))
              /\ \E at : Chain(k, at)
  <2>1. k \in 1 .. n
    BY <1>1
  <2> QED BY <2>1, <1>10, <1>11, Zenon
<1> QED BY <1>12, <1>13, Zenon

-------------------------------------------------------------------------------
(***************************************************************************)
(* The parts of a command, as numbers.                                     *)
(***************************************************************************)
Starts(k) == CHOOSE at : Chain(k, at)

\* Where part i of the k-th command starts and ends, and how long the next is.
PartStart(k, i) == Starts(k)[i - 1]
PartEnd(k, i)   == PartStart(k, i) + Len(Commands[k][i])
Following(k, i) == NextLen(Commands[k], i)

LEMMA PartLaid ==
  ASSUME NEW k \in DOMAIN Commands, NEW i \in DOMAIN Commands[k]
  PROVE  /\ PartStart(k, i) \in Nat /\ Len(Commands[k][i]) \in Nat
         /\ PartEnd(k, i) + 2 <= Len(ROMContent)
         /\ ROMByte(PartEnd(k, i)) = Following(k, i) % 256
         /\ ROMByte(PartEnd(k, i) + 1) = Following(k, i) \div 256
         /\ \A j \in 1 .. Len(Commands[k][i]) :
              ROMByte(PartStart(k, i) + (j - 1)) = Commands[k][i][j]
         /\ Following(k, i) \in Nat
         /\ Following(k, i) = 0 => i = Len(Commands[k])
         /\ Len(Commands[k][i]) = 0 => Following(k, i) = 0
         /\ Following(k, i) # 0 =>
              /\ i + 1 \in DOMAIN Commands[k]
              /\ Following(k, i) = Len(Commands[k][i + 1])
              /\ PartStart(k, i + 1) = PartEnd(k, i) + 2
<1>1. PICK parts, m, at, total :
        /\ parts = Commands[k] /\ m = Len(parts) /\ at = Starts(k)
        /\ total = Len(ROMContent)
  OBVIOUS
<1>2. /\ m \in Nat /\ DOMAIN parts = 1 .. m
      /\ \A j \in 1 .. m : Len(parts[j]) \in Nat
      /\ k \in 1 .. Len(Commands)
  BY <1>1, CommandsAre
<1>3. Chain(k, at)
  <2>1. \E b : Chain(k, b)
    BY <1>2, ROMLaid
  <2> QED BY <1>1, <2>1 DEF Starts
<1>4. /\ at \in [0 .. m -> Nat]
      /\ \A j \in 1 .. m :
           /\ at[j] = at[j - 1] + Len(parts[j]) + 2
           /\ at[j] <= total
           /\ ROMByte(at[j - 1] + Len(parts[j])) = NextLen(parts, j) % 256
           /\ ROMByte(at[j - 1] + Len(parts[j]) + 1) = NextLen(parts, j) \div 256
           /\ \A q \in 1 .. Len(parts[j]) : ROMByte(at[j - 1] + (q - 1)) = parts[j][q]
  BY <1>1, <1>3 DEF Chain
<1>5. i \in 1 .. m
  BY <1>1, <1>2
<1>6. PICK a, l, n : a = at[i - 1] /\ l = Len(parts[i]) /\ n = NextLen(parts, i)
  OBVIOUS
<1>7. a \in Nat /\ l \in Nat
  <2>1. i - 1 \in 0 .. m
    BY <1>2, <1>5
  <2> QED BY <1>2, <1>4, <1>5, <1>6, <2>1
<1>8. PartStart(k, i) = a /\ PartEnd(k, i) = a + l /\ Following(k, i) = n
  BY <1>1, <1>6 DEF PartStart, PartEnd, Following
<1>9. at[i] = a + l + 2 /\ at[i] <= total
  BY <1>4, <1>5, <1>6
<1>10. ROMByte(a + l) = n % 256 /\ ROMByte(a + l + 1) = n \div 256
  BY <1>4, <1>5, <1>6
<1>11. n \in Nat /\ (n # 0 => i + 1 \in 1 .. m /\ n = Len(parts[i + 1]))
  <2>1. CASE i = m
    BY <1>1, <1>6, <2>1 DEF NextLen
  <2>2. CASE i # m
    <3>1. i + 1 \in 1 .. m
      BY <1>2, <1>5, <2>2
    <3>2. n = Len(parts[i + 1])
      BY <1>1, <1>6, <2>2 DEF NextLen
    <3> QED BY <1>2, <3>1, <3>2
  <2> QED BY <2>1, <2>2
<1>12. l = 0 => n = 0
  <2>1. SUFFICES ASSUME l = 0 PROVE n = 0
    OBVIOUS
  <2>2. parts[i] = <<>>
    <3>1. parts[i] \in Seq(0 .. 255)
      BY <1>1, <1>5, CommandsAre, ElementOfSeq
    <3> QED BY <1>6, <2>1, <3>1, EmptySeq
  <2>3. m = 1
    BY <1>1, <1>2, <1>5, <2>2, CommandsAssumption
  <2>4. i = m
    BY <1>5, <2>3
  <2> QED BY <1>1, <1>6, <2>4 DEF NextLen
<1>13. n # 0 => PartStart(k, i + 1) = a + l + 2
  <2>1. (i + 1) - 1 = i
    BY <1>2, <1>5
  <2> QED BY <1>1, <1>9, <2>1 DEF PartStart
<1>14. \A j \in 1 .. l : ROMByte(a + (j - 1)) = parts[i][j]
  BY <1>4, <1>5, <1>6
<1>15. n = 0 => i = m
  <2>1. SUFFICES ASSUME n = 0, i # m PROVE FALSE
    OBVIOUS
  <2>2. i + 1 \in 1 .. m /\ Len(parts[i + 1]) = 0
    BY <1>1, <1>2, <1>5, <1>6, <2>1 DEF NextLen
  <2>3. m = 1
    <3>1. \A j \in 1 .. m : Len(parts[j]) = 0 => m = 1
      BY <1>1, <1>2, CommandsAre
    <3>2. PICK j : j = i + 1
      OBVIOUS
    <3> QED BY <2>2, <3>1, <3>2
  <2> QED BY <1>5, <2>1, <2>3
<1> QED BY <1>1, <1>2, <1>6, <1>7, <1>8, <1>9, <1>10, <1>11, <1>12, <1>13, <1>14, <1>15

LEMMA FirstPart ==
  ASSUME NEW k \in DOMAIN Commands
  PROVE  /\ 1 \in DOMAIN Commands[k] /\ k \in Nat /\ k >= 1
         /\ Offset(k) = PartStart(k, 1)
         /\ Entry(k, ROMByte(4 * (k - 1)), ROMByte(4 * (k - 1) + 1),
                     ROMByte(4 * (k - 1) + 2), ROMByte(4 * (k - 1) + 3))
<1>1. k \in 1 .. Len(Commands) /\ Len(Commands) \in Nat
  BY CommandsAre
<1>2. Chain(k, Starts(k))
  <2>1. \E b : Chain(k, b)
    BY <1>1, ROMLaid
  <2> QED BY <2>1 DEF Starts
<1>3. Offset(k) = PartStart(k, 1)
  BY <1>2 DEF Chain, PartStart
<1>4. 1 \in DOMAIN Commands[k]
  <2>1. Commands[k] \in Seq(Seq(0 .. 255)) /\ Commands[k] # <<>>
    BY CommandsAre, CommandsAssumption
  <2> QED BY <2>1, EmptySeq, LenProperties
<1>5. Entry(k, ROMByte(4 * (k - 1)), ROMByte(4 * (k - 1) + 1),
               ROMByte(4 * (k - 1) + 2), ROMByte(4 * (k - 1) + 3))
  BY <1>1, ROMLaid, Zenon
<1>6. k \in Nat /\ k >= 1
  BY <1>1
<1> QED BY <1>3, <1>4, <1>5, <1>6, Zenon

-------------------------------------------------------------------------------
(***************************************************************************)
(* The two units that read the ROM, field by field: what a step does to    *)
(* state, address, offset and remain, and where in a command the unit is.  *)
(***************************************************************************)
ROMFields == {"fsm", "busy", "stb", "w_en", "w", "addr", "offset", "remain"}

Becomes(v, state, addr, offset, remain) ==
  v.fsm = state /\ v.addr = addr /\ v.offset = offset /\ v.remain = remain

\* A step of a unit from u to v, while rom_data is data; room: the queue has room.
Rests(u, v) ==
  /\ \/ u.fsm \in {"SEND_WAIT_FOR_I2C", "FIN_WAIT_I2C_DONE"}
     \/ u.fsm = "LOOP_HEAD" /\ u.remain # 0
  /\ v.fsm \in {u.fsm, "IDLE"} /\ (v.fsm = "IDLE" => u.fsm # "LOOP_HEAD")
  /\ v.offset = u.offset /\ v.remain = u.remain /\ v.addr = u.addr

Forgets(u, v) == u.fsm = "IDLE" /\ Becomes(v, "IDLE", 0, 0, 0)

Begins(u, v, index) ==
  u.fsm = "IDLE" /\ Becomes(v, "START_ADDRESSED_OFFSET0", 4 * index, 0, 0)

LooksUp(u, v, data) ==
  \/ /\ u.fsm = "START_ADDRESSED_OFFSET0"
     /\ Becomes(v, "START_ADDRESSED_OFFSET1", u.addr + 1, u.offset, u.remain)
  \/ /\ u.fsm = "START_ADDRESSED_OFFSET1"
     /\ Becomes(v, "START_ADDRESSED_LEN0", u.addr + 1, data, u.remain)
  \/ /\ u.fsm = "START_ADDRESSED_LEN0"
     /\ Becomes(v, "START_ADDRESSED_LEN1", u.addr + 1, u.offset + 256 * data, u.remain)
  \/ /\ u.fsm = "START_ADDRESSED_LEN1"
     /\ Becomes(v, "START_ADDRESSED_DATA", u.offset, u.offset, data)
  \/ /\ u.fsm = "START_ADDRESSED_DATA"
     /\ Becomes(v, "ADDRESS_PERIPHERAL_LATCHED_W_EN", u.addr, u.offset,
                u.remain + 256 * data)

Sends(u, v, room) ==
  \/ /\ u.fsm \in {"ADDRESS_PERIPHERAL_LATCHED_W_EN", "SEQ_BREAK_LATCHED_W_EN"}
     /\ Becomes(v, "LOOP_HEAD", u.addr, u.offset, u.remain)
  \/ /\ u.fsm = "LOOP_HEAD" /\ u.remain # 0 /\ room
     /\ Becomes(v, "SEND_LATCHED_W_EN", u.offset + 1, u.offset + 1, u.remain - 1)
  \/ /\ u.fsm = "SEND_LATCHED_W_EN"
     /\ Becomes(v, "SEND_WAIT_FOR_I2C", u.addr, u.offset, u.remain)
  \/ /\ u.fsm = "SEND_WAIT_FOR_I2C" /\ room
     /\ Becomes(v, "LOOP_HEAD", u.addr, u.offset, u.remain)

EndsPart(u, v, data) ==
  \/ /\ u.fsm = "LOOP_HEAD" /\ u.remain = 0
     /\ Becomes(v, "SEQ_BREAK_ADDRESSED_NEXTLEN1", u.offset + 1, u.offset + 1, u.remain)
  \/ /\ u.fsm = "SEQ_BREAK_ADDRESSED_NEXTLEN1"
     /\ Becomes(v, "SEQ_BREAK_ADDRESSED_FOLLOWING", u.offset + 1, u.offset + 1, data)
  \/ /\ u.fsm = "SEQ_BREAK_ADDRESSED_FOLLOWING" /\ u.remain + 256 * data = 0
     /\ Becomes(v, "FIN_WAIT_I2C_DONE", u.addr, u.offset, u.remain)
  \/ /\ u.fsm = "SEQ_BREAK_ADDRESSED_FOLLOWING" /\ u.remain + 256 * data # 0
     /\ Becomes(v, "SEQ_BREAK_LATCHED_W_EN", u.addr, u.offset, u.remain + 256 * data)

Moves(u, v, start, index, data, room) ==
  \/ Forgets(u, v) \/ Rests(u, v)
  \/ start = 1 /\ Begins(u, v, index)
  \/ LooksUp(u, v, data) \/ Sends(u, v, room) \/ EndsPart(u, v, data)

\* Waiting: no command, or all of one sent.
Between(u) ==
  /\ u.fsm \in {"IDLE", "FIN_WAIT_I2C_DONE"}
  /\ u.offset \in 0 .. Len(ROMContent) /\ u.remain \in 0 .. Len(ROMContent)

\* Looking up the k-th command.
Finding(u, data, k) ==
  LET offset == Offset(k)
      length == Len(Commands[k][1])
  IN
  \/ /\ u.fsm = "START_ADDRESSED_OFFSET0"
     /\ u.addr = 4 * (k - 1)
     /\ u.offset \in 0 .. Len(ROMContent) /\ u.remain \in 0 .. Len(ROMContent)
  \/ /\ u.fsm = "START_ADDRESSED_OFFSET1"
     /\ u.addr = 4 * (k - 1) + 1 /\ data = offset % 256
     /\ u.offset \in 0 .. Len(ROMContent) /\ u.remain \in 0 .. Len(ROMContent)
  \/ /\ u.fsm = "START_ADDRESSED_LEN0"
     /\ u.addr = 4 * (k - 1) + 2 /\ data = offset \div 256
     /\ u.offset = offset % 256 /\ u.remain \in 0 .. Len(ROMContent)
  \/ /\ u.fsm = "START_ADDRESSED_LEN1"
     /\ u.addr = 4 * (k - 1) + 3 /\ data = length % 256
     /\ u.offset = offset /\ u.remain \in 0 .. Len(ROMContent)
  \/ /\ u.fsm = "START_ADDRESSED_DATA"
     /\ u.addr = offset /\ data = length \div 256
     /\ u.offset = offset /\ u.remain = length % 256

\* In part i of the k-th command: some of its bytes are left to be sent.
Within(u, room, k, i) ==
  /\ u.fsm \in {"ADDRESS_PERIPHERAL_LATCHED_W_EN", "LOOP_HEAD", "SEND_LATCHED_W_EN",
                "SEND_WAIT_FOR_I2C", "SEQ_BREAK_LATCHED_W_EN"}
  /\ u.addr = u.offset /\ u.offset \in Nat /\ u.remain \in 0 .. Len(Commands[k][i])
  /\ u.offset + u.remain = PartEnd(k, i)
  /\ u.remain = 0 /\ u.fsm \notin {"SEND_LATCHED_W_EN", "SEND_WAIT_FOR_I2C"} =>
       Following(k, i) = 0 \/ (u.fsm = "LOOP_HEAD" /\ room)

\* Behind part i of the k-th command: reading the length of the next.
PastPart(u, data, room, k, i) ==
  /\ room \/ Following(k, i) = 0
  /\ \/ /\ u.fsm = "SEQ_BREAK_ADDRESSED_NEXTLEN1"
        /\ u.addr = PartEnd(k, i) + 1 /\ u.offset = PartEnd(k, i) + 1
        /\ data = Following(k, i) % 256 /\ u.remain = 0
     \/ /\ u.fsm = "SEQ_BREAK_ADDRESSED_FOLLOWING"
        /\ u.addr = PartEnd(k, i) + 2 /\ u.offset = PartEnd(k, i) + 2
        /\ data = Following(k, i) \div 256 /\ u.remain = Following(k, i) % 256

Walk(u, data, room) ==
  \/ Between(u)
  \/ \E k \in DOMAIN Commands : Finding(u, data, k)
  \/ \E k \in DOMAIN Commands : \E i \in DOMAIN Commands[k] :
       Within(u, room, k, i) \/ PastPart(u, data, room, k, i)

ROMPutting ==
  {"ADDRESS_PERIPHERAL_LATCHED_W_EN", "SEND_LATCHED_W_EN", "SEQ_BREAK_LATCHED_W_EN"}

\* The states that put in a unit's first START: whatever the queue holds.
Firsts == {"START_ADDR_STROBED_W_EN", "ADDRESS_PERIPHERAL_LATCHED_W_EN"}

\* Every other word is put in only when there is room, and one at a time.
Puts(u, v, putting, room) ==
  v.fsm \in putting => (room \/ v.fsm \in Firsts) /\ u.fsm \notin putting

\* The queue keeps its room until a word is put in.
Keeps(u, room, room2) == room /\ u.fsm \notin ROMPutting => room2

LEMMA WalkFinds ==
  ASSUME NEW u, NEW v, NEW data, NEW data2, NEW k \in DOMAIN Commands,
         Finding(u, data, k), LooksUp(u, v, data), data2 = ROMByte(u.addr)
  PROVE  \/ Finding(v, data2, k)
         \/ /\ v.fsm = "ADDRESS_PERIPHERAL_LATCHED_W_EN"
            /\ v.remain = Len(Commands[k][1]) /\ \A room : Within(v, room, k, 1)
<1>1. PICK offset, length, total, b :
        /\ offset = Offset(k) /\ length = Len(Commands[k][1])
        /\ total = Len(ROMContent) /\ b = 4 * (k - 1)
  OBVIOUS
<1>2. /\ 1 \in DOMAIN Commands[k] /\ b \in Nat /\ offset = PartStart(k, 1)
      /\ ROMByte(b) = offset % 256 /\ ROMByte(b + 1) = offset \div 256
      /\ ROMByte(b + 2) = length % 256 /\ ROMByte(b + 3) = length \div 256
  <2>1. /\ 1 \in DOMAIN Commands[k] /\ k \in Nat /\ k >= 1
        /\ Offset(k) = PartStart(k, 1)
        /\ Entry(k, ROMByte(4 * (k - 1)), ROMByte(4 * (k - 1) + 1),
                    ROMByte(4 * (k - 1) + 2), ROMByte(4 * (k - 1) + 3))
    BY FirstPart
  <2>2. b \in Nat
    BY <1>1, <2>1
  <2>3. Entry(k, ROMByte(b), ROMByte(b + 1), ROMByte(b + 2), ROMByte(b + 3))
    BY <1>1, <2>1, Zenon
  <2>4. /\ ROMByte(b) = offset % 256 /\ ROMByte(b + 1) = offset \div 256
        /\ ROMByte(b + 2) = length % 256 /\ ROMByte(b + 3) = length \div 256
    BY <1>1, <2>3, Zenon DEF Entry
  <2> QED BY <1>1, <2>1, <2>2, <2>4, Zenon
<1>3. offset \in Nat /\ length \in Nat /\ total \in Nat /\ offset + length + 2 <= total
  BY <1>1, <1>2, PartLaid, ROMLaid DEF PartEnd
<1>4. PartEnd(k, 1) = offset + length /\ (length = 0 => Following(k, 1) = 0)
  BY <1>1, <1>2, PartLaid DEF PartEnd
<1>5. /\ offset % 256 \in 0 .. total /\ length % 256 \in 0 .. total
      /\ (offset % 256) + 256 * (offset \div 256) = offset
      /\ (length % 256) + 256 * (length \div 256) = length
  BY <1>3
<1>6. CASE u.fsm = "START_ADDRESSED_OFFSET0"
  <2>1. /\ u.addr = b /\ u.offset \in 0 .. total /\ u.remain \in 0 .. total
    BY <1>1, <1>6 DEF Finding
  <2>2. Becomes(v, "START_ADDRESSED_OFFSET1", u.addr + 1, u.offset, u.remain)
    BY <1>6 DEF LooksUp
  <2>3. Finding(v, data2, k)
    BY <1>1, <1>2, <2>1, <2>2 DEF Finding, Becomes
  <2> QED BY <2>3
<1>7. CASE u.fsm = "START_ADDRESSED_OFFSET1"
  <2>1. u.addr = b + 1 /\ data = offset % 256 /\ u.remain \in 0 .. total
    BY <1>1, <1>7 DEF Finding
  <2>2. Becomes(v, "START_ADDRESSED_LEN0", u.addr + 1, data, u.remain)
    BY <1>7 DEF LooksUp
  <2>3. u.addr + 1 = b + 2
    BY <1>2, <2>1
  <2>4. Finding(v, data2, k)
    BY <1>1, <1>2, <2>1, <2>2, <2>3 DEF Finding, Becomes
  <2> QED BY <2>4
<1>8. CASE u.fsm = "START_ADDRESSED_LEN0"
  <2>1. /\ u.addr = b + 2 /\ data = offset \div 256 /\ u.offset = offset % 256
        /\ u.remain \in 0 .. total
    BY <1>1, <1>8 DEF Finding
  <2>2. Becomes(v, "START_ADDRESSED_LEN1", u.addr + 1, u.offset + 256 * data, u.remain)
    BY <1>8 DEF LooksUp
  <2>3. u.addr + 1 = b + 3 /\ u.offset + 256 * data = offset
    BY <1>2, <1>5, <2>1
  <2>4. Finding(v, data2, k)
    BY <1>1, <1>2, <2>1, <2>2, <2>3 DEF Finding, Becomes
  <2> QED BY <2>4
<1>9. CASE u.fsm = "START_ADDRESSED_LEN1"
  <2>1. u.addr = b + 3 /\ data = length % 256 /\ u.offset = offset
    BY <1>1, <1>9 DEF Finding
  <2>2. Becomes(v, "START_ADDRESSED_DATA", u.offset, u.offset, data)
    BY <1>9 DEF LooksUp
  <2>3. Finding(v, data2, k)
    BY <1>1, <1>2, <2>1, <2>2 DEF Finding, Becomes
  <2> QED BY <2>3
<1>10. CASE u.fsm = "START_ADDRESSED_DATA"
  <2>1. /\ u.addr = offset /\ data = length \div 256 /\ u.offset = offset
        /\ u.remain = length % 256
    BY <1>1, <1>10 DEF Finding
  <2>2. Becomes(v, "ADDRESS_PERIPHERAL_LATCHED_W_EN", u.addr, u.offset,
                u.remain + 256 * data)
    BY <1>10 DEF LooksUp
  <2>3. u.remain + 256 * data = length
    BY <1>5, <2>1
  <2>4. /\ v.fsm = "ADDRESS_PERIPHERAL_LATCHED_W_EN"
        /\ v.addr = offset /\ v.offset = offset /\ v.remain = length
    BY <2>1, <2>2, <2>3 DEF Becomes
  <2>5. length \in 0 .. Len(Commands[k][1]) /\ offset + length = PartEnd(k, 1)
    BY <1>1, <1>3, <1>4
  <2>6. \A room : Within(v, room, k, 1)
    BY <1>3, <1>4, <2>4, <2>5 DEF Within
  <2> QED BY <1>1, <2>4, <2>6
<1> QED BY <1>6, <1>7, <1>8, <1>9, <1>10 DEF LooksUp

LEMMA WalkSends ==
  ASSUME NEW u, NEW v, NEW room \in BOOLEAN, NEW room2 \in BOOLEAN,
         NEW k \in DOMAIN Commands, NEW i \in DOMAIN Commands[k],
         Within(u, room, k, i), Sends(u, v, room), Keeps(u, room, room2)
  PROVE  Within(v, room2, k, i)
<1>1. PICK l, end : l = Len(Commands[k][i]) /\ end = PartEnd(k, i)
  OBVIOUS
<1>2. l \in Nat /\ end \in Nat
  BY <1>1, PartLaid DEF PartEnd
<1>3. /\ u.addr = u.offset /\ u.offset \in Nat /\ u.remain \in 0 .. l
      /\ u.offset + u.remain = end
  BY <1>1 DEF Within
<1>4. CASE u.fsm \in {"ADDRESS_PERIPHERAL_LATCHED_W_EN", "SEQ_BREAK_LATCHED_W_EN"}
  <2>1. Becomes(v, "LOOP_HEAD", u.addr, u.offset, u.remain)
    BY <1>4 DEF Sends
  <2>2. u.remain = 0 => Following(k, i) = 0
    BY <1>4 DEF Within
  <2> QED BY <1>1, <1>3, <2>1, <2>2 DEF Within, Becomes
<1>5. CASE u.fsm = "LOOP_HEAD"
  <2>1. u.remain # 0
        /\ Becomes(v, "SEND_LATCHED_W_EN", u.offset + 1, u.offset + 1, u.remain - 1)
    BY <1>5 DEF Sends
  <2>2. PICK o, r : o = u.offset + 1 /\ r = u.remain - 1
    OBVIOUS
  <2>3. o \in Nat /\ r \in 0 .. l /\ o + r = end
    BY <1>2, <1>3, <2>1, <2>2
  <2>4. Becomes(v, "SEND_LATCHED_W_EN", o, o, r)
    BY <2>1, <2>2
  <2> QED BY <1>1, <2>3, <2>4 DEF Within, Becomes
<1>6. CASE u.fsm = "SEND_LATCHED_W_EN"
  <2>1. Becomes(v, "SEND_WAIT_FOR_I2C", u.addr, u.offset, u.remain)
    BY <1>6 DEF Sends
  <2> QED BY <1>1, <1>3, <2>1 DEF Within, Becomes
<1>7. CASE u.fsm = "SEND_WAIT_FOR_I2C"
  <2>1. room /\ Becomes(v, "LOOP_HEAD", u.addr, u.offset, u.remain)
    BY <1>7 DEF Sends
  <2>2. room2
    BY <1>7, <2>1 DEF Keeps, ROMPutting
  <2> QED BY <1>1, <1>3, <2>1, <2>2 DEF Within, Becomes
<1> QED BY <1>4, <1>5, <1>6, <1>7 DEF Sends

\* The end of a part is reached with the queue empty, or with no part to follow.
LEMMA WalkEnds ==
  ASSUME NEW u, NEW v, NEW data, NEW data2,
         NEW room \in BOOLEAN, NEW room2 \in BOOLEAN,
         NEW k \in DOMAIN Commands, NEW i \in DOMAIN Commands[k],
         Within(u, room, k, i), EndsPart(u, v, data), Keeps(u, room, room2),
         data2 = ROMByte(u.addr)
  PROVE  PastPart(v, data2, room2, k, i)
<1>1. PICK l, end : l = Len(Commands[k][i]) /\ end = PartEnd(k, i)
  OBVIOUS
<1>2. /\ u.addr = u.offset /\ u.offset \in Nat /\ u.remain \in 0 .. l
      /\ u.offset + u.remain = end
  BY <1>1 DEF Within
<1>3. /\ u.fsm = "LOOP_HEAD" /\ u.remain = 0
      /\ Becomes(v, "SEQ_BREAK_ADDRESSED_NEXTLEN1", u.offset + 1, u.offset + 1, u.remain)
  BY DEF EndsPart, Within
<1>4. u.addr = end /\ u.offset + 1 = end + 1
  BY <1>2, <1>3
<1>5. data2 = Following(k, i) % 256
  BY <1>1, <1>4, PartLaid
<1>6. room2 \/ Following(k, i) = 0
  BY <1>3 DEF Within, Keeps, ROMPutting
<1> QED BY <1>1, <1>3, <1>4, <1>5, <1>6 DEF PastPart, Becomes

LEMMA WalkOn ==
  ASSUME NEW u, NEW v, NEW data, NEW data2,
         NEW room \in BOOLEAN, NEW room2 \in BOOLEAN,
         NEW k \in DOMAIN Commands, NEW i \in DOMAIN Commands[k],
         PastPart(u, data, room, k, i), EndsPart(u, v, data), Keeps(u, room, room2),
         data2 = ROMByte(u.addr)
  PROVE  \/ /\ u.fsm = "SEQ_BREAK_ADDRESSED_NEXTLEN1"
            /\ v.fsm = "SEQ_BREAK_ADDRESSED_FOLLOWING" /\ PastPart(v, data2, room2, k, i)
         \/ /\ u.fsm = "SEQ_BREAK_ADDRESSED_FOLLOWING" /\ Following(k, i) = 0
            /\ v.fsm = "FIN_WAIT_I2C_DONE" /\ Between(v)
         \/ /\ u.fsm = "SEQ_BREAK_ADDRESSED_FOLLOWING" /\ Following(k, i) # 0
            /\ v.fsm = "SEQ_BREAK_LATCHED_W_EN" /\ room
            /\ \E j \in DOMAIN Commands[k] :
                 j = i + 1 /\ v.remain = Len(Commands[k][j]) /\ Within(v, room2, k, j)
<1>1. PICK n, end, total :
        n = Following(k, i) /\ end = PartEnd(k, i) /\ total = Len(ROMContent)
  OBVIOUS
<1>2. /\ n \in Nat /\ end \in Nat /\ total \in Nat /\ end + 2 <= total
      /\ ROMByte(end + 1) = n \div 256
  BY <1>1, PartLaid, ROMLaid DEF PartEnd
<1>3. (n % 256) + 256 * (n \div 256) = n /\ n % 256 \in 0 .. n
  BY <1>2
<1>4. CASE u.fsm = "SEQ_BREAK_ADDRESSED_NEXTLEN1"
  <2>1. u.addr = end + 1 /\ u.offset = end + 1 /\ data = n % 256 /\ (room \/ n = 0)
    BY <1>1, <1>4 DEF PastPart
  <2>2. Becomes(v, "SEQ_BREAK_ADDRESSED_FOLLOWING", u.offset + 1, u.offset + 1, data)
    BY <1>4 DEF EndsPart
  <2>3. u.offset + 1 = end + 2 /\ data2 = n \div 256
    BY <1>2, <2>1
  <2>4. room2 \/ n = 0
    BY <1>4, <2>1 DEF Keeps, ROMPutting
  <2>5. PastPart(v, data2, room2, k, i)
    BY <1>1, <2>1, <2>2, <2>3, <2>4 DEF PastPart, Becomes
  <2> QED BY <1>4, <2>2, <2>5 DEF Becomes
<1>5. CASE u.fsm = "SEQ_BREAK_ADDRESSED_FOLLOWING"
  <2>1. /\ u.addr = end + 2 /\ u.offset = end + 2 /\ data = n \div 256
        /\ u.remain = n % 256 /\ (room \/ n = 0)
    BY <1>1, <1>5 DEF PastPart
  <2>2. u.remain + 256 * data = n
    BY <1>3, <2>1
  <2>3. CASE n = 0
    <3>1. Becomes(v, "FIN_WAIT_I2C_DONE", u.addr, u.offset, u.remain)
      BY <1>5, <2>2, <2>3 DEF EndsPart
    <3>2. u.offset \in 0 .. total /\ u.remain \in 0 .. total
      BY <1>2, <2>1, <2>3
    <3>3. Between(v)
      BY <1>1, <3>1, <3>2 DEF Between, Becomes
    <3> QED BY <1>1, <1>5, <2>3, <3>1, <3>3 DEF Becomes
  <2>4. CASE n # 0
    <3>1. Becomes(v, "SEQ_BREAK_LATCHED_W_EN", u.addr, u.offset, n)
      BY <1>5, <2>2, <2>4 DEF EndsPart
    <3>2. /\ i + 1 \in DOMAIN Commands[k] /\ n = Len(Commands[k][i + 1])
          /\ PartStart(k, i + 1) = end + 2
      BY <1>1, <2>4, PartLaid
    <3>3. PICK j : j = i + 1
      OBVIOUS
    <3>4. j \in DOMAIN Commands[k] /\ n = Len(Commands[k][j]) /\ PartEnd(k, j) = end + 2 + n
      BY <3>2, <3>3 DEF PartEnd
    <3>5. end + 2 \in Nat /\ n \in 0 .. n
      BY <1>2
    <3>6. Within(v, room2, k, j)
      BY <2>1, <2>4, <3>1, <3>4, <3>5 DEF Within, Becomes
    <3> QED BY <1>1, <1>5, <2>1, <2>4, <3>1, <3>3, <3>4, <3>6 DEF Becomes
  <2> QED BY <2>3, <2>4
<1> QED BY <1>4, <1>5 DEF PastPart

\* What a walk says of the registers.
LEMMA WalkBounds ==
  ASSUME NEW u, NEW data, NEW room \in BOOLEAN, Walk(u, data, room)
  PROVE  u.offset \in 0 .. Len(ROMContent) /\ u.remain \in 0 .. Len(ROMContent)
<1>1. PICK total : total = Len(ROMContent)
  OBVIOUS
<1>2. total \in Nat
  BY <1>1, ROMLaid
<1>3. CASE Between(u)
  BY <1>3 DEF Between
<1>4. ASSUME NEW k \in DOMAIN Commands, Finding(u, data, k)
      PROVE  u.offset \in 0 .. total /\ u.remain \in 0 .. total
  <2>1. PICK offset, length : offset = Offset(k) /\ length = Len(Commands[k][1])
    OBVIOUS
  <2>2. offset \in Nat /\ length \in Nat /\ offset + length + 2 <= total
    <3>1. 1 \in DOMAIN Commands[k] /\ offset = PartStart(k, 1)
      BY <2>1, FirstPart, Zenon
    <3> QED BY <1>1, <2>1, <3>1, PartLaid DEF PartEnd
  <2>3. /\ offset \in 0 .. total /\ offset % 256 \in 0 .. total
        /\ length % 256 \in 0 .. total
    BY <1>2, <2>2
  <2>4. PICK low, least : low = offset % 256 /\ least = length % 256
    OBVIOUS
  <2>5. /\ u.offset \in 0 .. total \/ u.offset \in {low, offset}
        /\ u.remain \in 0 .. total \/ u.remain = least
    BY <1>1, <1>4, <2>1, <2>4, Zenon DEF Finding
  <2> QED BY <2>3, <2>4, <2>5
<1>5. ASSUME NEW k \in DOMAIN Commands, NEW i \in DOMAIN Commands[k],
             Within(u, room, k, i) \/ PastPart(u, data, room, k, i)
      PROVE  u.offset \in 0 .. total /\ u.remain \in 0 .. total
  <2>1. PICK n, end, l : /\ n = Following(k, i) /\ end = PartEnd(k, i)
                         /\ l = Len(Commands[k][i])
    OBVIOUS
  <2>2. /\ n \in Nat /\ end \in Nat /\ l \in Nat /\ l <= end /\ end + 2 <= total
    BY <1>1, <2>1, PartLaid DEF PartEnd
  <2>3. n <= total
    <3>1. CASE n = 0
      BY <1>2, <3>1
    <3>2. CASE n # 0
      <4>1. PICK j : j = i + 1
        OBVIOUS
      <4>2. j \in DOMAIN Commands[k] /\ n = Len(Commands[k][j])
        BY <2>1, <3>2, <4>1, PartLaid
      <4>3. PartStart(k, j) \in Nat /\ PartStart(k, j) + n + 2 <= total
        BY <1>1, <4>2, PartLaid DEF PartEnd
      <4> QED BY <2>2, <1>2, <4>3
    <3> QED BY <3>1, <3>2
  <2>4. n % 256 \in 0 .. total
    BY <1>2, <2>2, <2>3
  <2>5. CASE Within(u, room, k, i)
    <3>1. u.offset \in Nat /\ u.remain \in 0 .. l /\ u.offset + u.remain = end
      BY <2>1, <2>5 DEF Within
    <3> QED BY <1>2, <2>2, <3>1
  <2>6. CASE PastPart(u, data, room, k, i)
    <3>1. /\ u.offset = end + 1 \/ u.offset = end + 2
          /\ u.remain = 0 \/ u.remain = n % 256
      BY <2>1, <2>6 DEF PastPart
    <3> QED BY <1>2, <2>2, <2>4, <3>1
  <2> QED BY <1>5, <2>5, <2>6
<1> QED BY <1>1, <1>3, <1>4, <1>5 DEF Walk

LEMMA WalkGoes ==
  ASSUME NEW u, NEW v, NEW data, NEW data2, NEW start, NEW index,
         NEW room \in BOOLEAN, NEW room2 \in BOOLEAN,
         Walk(u, data, room), Moves(u, v, start, index, data, room),
         u.fsm # "IDLE" => Keeps(u, room, room2) /\ data2 = ROMByte(u.addr),
         start = 1 => index \in Nat /\ index + 1 \in DOMAIN Commands
  PROVE  Walk(v, data2, room2) /\ Puts(u, v, ROMPutting, room)
<1>0. 0 \in 0 .. Len(ROMContent)
  BY ROMLaid
<1>1. u.offset \in 0 .. Len(ROMContent) /\ u.remain \in 0 .. Len(ROMContent)
  BY WalkBounds
<1>2. CASE Between(u)
  <2>1. u.fsm \in {"IDLE", "FIN_WAIT_I2C_DONE"}
    BY <1>2 DEF Between
  <2>2. Rests(u, v) \/ Forgets(u, v) \/ (start = 1 /\ Begins(u, v, index))
    BY <2>1 DEF Moves, LooksUp, Sends, EndsPart
  <2>3. CASE Rests(u, v)
    <3>1. v.fsm \in {"IDLE", "FIN_WAIT_I2C_DONE"}
      BY <2>1, <2>3 DEF Rests
    <3>2. Between(v)
      BY <1>1, <2>3, <3>1 DEF Between, Rests
    <3> QED BY <3>1, <3>2 DEF Walk, Puts, ROMPutting
  <2>4. CASE start = 1 /\ Begins(u, v, index)
    <3>1. PICK k : k = index + 1
      OBVIOUS
    <3>2. k \in DOMAIN Commands /\ 4 * (k - 1) = 4 * index
      BY <2>4, <3>1
    <3>3. /\ v.fsm = "START_ADDRESSED_OFFSET0" /\ v.addr = 4 * (k - 1)
          /\ v.offset = 0 /\ v.remain = 0
      BY <2>4, <3>2 DEF Begins, Becomes
    <3>4. Finding(v, data2, k)
      BY <1>0, <3>3 DEF Finding
    <3> QED BY <3>2, <3>3, <3>4 DEF Walk, Puts, ROMPutting
  <2>5. CASE Forgets(u, v)
    <3>1. Between(v)
      BY <1>0, <2>5 DEF Forgets, Becomes, Between
    <3> QED BY <2>5, <3>1 DEF Forgets, Becomes, Walk, Puts, ROMPutting
  <2> QED BY <2>2, <2>3, <2>4, <2>5
<1>3. ASSUME NEW k \in DOMAIN Commands, Finding(u, data, k)
      PROVE  Walk(v, data2, room2) /\ Puts(u, v, ROMPutting, room)
  <2>1. u.fsm \in {"START_ADDRESSED_OFFSET0", "START_ADDRESSED_OFFSET1",
                   "START_ADDRESSED_LEN0", "START_ADDRESSED_LEN1",
                   "START_ADDRESSED_DATA"}
    BY <1>3 DEF Finding
  <2>2. LooksUp(u, v, data)
    BY <2>1 DEF Moves, Forgets, Rests, Begins, Sends, EndsPart
  <2>3. data2 = ROMByte(u.addr) /\ u.fsm \notin ROMPutting
    BY <2>1 DEF ROMPutting
  <2>4. \/ Finding(v, data2, k)
        \/ v.fsm = "ADDRESS_PERIPHERAL_LATCHED_W_EN" /\ \A r : Within(v, r, k, 1)
    BY <1>3, <2>2, <2>3, WalkFinds
  <2>5. Walk(v, data2, room2)
    <3>1. CASE Finding(v, data2, k)
      BY <3>1 DEF Walk
    <3>2. CASE \A r : Within(v, r, k, 1)
      <4>1. 1 \in DOMAIN Commands[k]
        BY FirstPart, Zenon
      <4> QED BY <3>2, <4>1 DEF Walk
    <3> QED BY <2>4, <3>1, <3>2
  <2>6. v.fsm \in ROMPutting => v.fsm \in Firsts
    BY <2>1, <2>2 DEF LooksUp, Becomes, ROMPutting, Firsts
  <2> QED BY <2>3, <2>5, <2>6 DEF Puts
<1>4. ASSUME NEW k \in DOMAIN Commands, NEW i \in DOMAIN Commands[k],
             Within(u, room, k, i)
      PROVE  Walk(v, data2, room2) /\ Puts(u, v, ROMPutting, room)
  <2>1. u.fsm \in {"ADDRESS_PERIPHERAL_LATCHED_W_EN", "LOOP_HEAD", "SEND_LATCHED_W_EN",
                   "SEND_WAIT_FOR_I2C", "SEQ_BREAK_LATCHED_W_EN"}
    BY <1>4 DEF Within
  <2>2. Rests(u, v) \/ Sends(u, v, room) \/ EndsPart(u, v, data)
    BY <2>1 DEF Moves, Forgets, Begins, LooksUp
  <2>3. CASE Sends(u, v, room)
    <3>1. Within(v, room2, k, i)
      BY <1>4, <2>1, <2>3, WalkSends
    <3>2. Puts(u, v, ROMPutting, room)
      BY <2>3 DEF Puts, Sends, Becomes, ROMPutting
    <3> QED BY <3>1, <3>2 DEF Walk
  <2>4. CASE EndsPart(u, v, data)
    <3>1. data2 = ROMByte(u.addr) /\ Keeps(u, room, room2)
      BY <2>1
    <3>2. PastPart(v, data2, room2, k, i)
      BY <1>4, <2>4, <3>1, WalkEnds
    <3>3. v.fsm \notin ROMPutting
      BY <3>2 DEF PastPart, ROMPutting
    <3> QED BY <3>2, <3>3 DEF Walk, Puts
  <2>5. CASE Rests(u, v)
    <3>1. v.fsm \in {u.fsm, "IDLE"} /\ u.fsm \in {"LOOP_HEAD", "SEND_WAIT_FOR_I2C"}
      BY <2>1, <2>5 DEF Rests
    <3>2. v.fsm \notin ROMPutting
      BY <3>1 DEF ROMPutting
    <3>3. CASE v.fsm = "IDLE"
      <4>1. Between(v)
        BY <1>1, <2>5, <3>3 DEF Rests, Between
      <4> QED BY <3>2, <4>1 DEF Walk, Puts
    <3>4. CASE v.fsm # "IDLE"
      <4>1. v.fsm = u.fsm /\ (v.fsm = "LOOP_HEAD" => v.remain # 0)
        BY <2>5, <3>1, <3>4 DEF Rests
      <4>2. Within(v, room2, k, i)
        BY <1>4, <2>5, <3>1, <4>1 DEF Within, Rests
      <4> QED BY <3>2, <4>2 DEF Walk, Puts
    <3> QED BY <3>3, <3>4
  <2> QED BY <2>2, <2>3, <2>4, <2>5
<1>5. ASSUME NEW k \in DOMAIN Commands, NEW i \in DOMAIN Commands[k],
             PastPart(u, data, room, k, i)
      PROVE  Walk(v, data2, room2) /\ Puts(u, v, ROMPutting, room)
  <2>1. u.fsm \in {"SEQ_BREAK_ADDRESSED_NEXTLEN1", "SEQ_BREAK_ADDRESSED_FOLLOWING"}
    BY <1>5 DEF PastPart
  <2>2. EndsPart(u, v, data)
    BY <2>1 DEF Moves, Forgets, Rests, Begins, LooksUp, Sends
  <2>3. data2 = ROMByte(u.addr)
    BY <2>1
  <2>4. Walk(v, data2, room2) /\ (v.fsm = "SEQ_BREAK_LATCHED_W_EN" => room)
    <3>1. \/ v.fsm = "SEQ_BREAK_ADDRESSED_FOLLOWING" /\ PastPart(v, data2, room2, k, i)
          \/ v.fsm = "FIN_WAIT_I2C_DONE" /\ Between(v)
          \/ room /\ \E j \in DOMAIN Commands[k] : Within(v, room2, k, j)
      BY <1>5, <2>1, <2>2, <2>3, WalkOn
    <3> QED BY <3>1 DEF Walk
  <2>5. v.fsm \in ROMPutting => v.fsm = "SEQ_BREAK_LATCHED_W_EN"
    BY <2>1, <2>2 DEF EndsPart, Becomes, ROMPutting
  <2> QED BY <2>1, <2>4, <2>5 DEF ROMPutting, Puts
<1> QED BY <1>2, <1>3, <1>4, <1>5 DEF Walk

\* A unit's busy and w_en are functions of its FSM's state.
Shape(u, putting) ==
  /\ {"fsm", "busy", "stb", "w_en", "w"} \subseteq DOMAIN u
  /\ u.busy = IF u.fsm = "IDLE" THEN 0 ELSE 1
  /\ u.w_en = IF u.fsm \in putting THEN 1 ELSE 0

ROMShape(u) == Shape(u, ROMPutting) /\ ROMFields \subseteq DOMAIN u

CommonMoves(u, v, data, room) ==
  /\ ROMShape(v) /\ DOMAIN v = DOMAIN u /\ u.fsm # "IDLE"
  /\ Rests(u, v) \/ LooksUp(u, v, data) \/ Sends(u, v, room) \/ EndsPart(u, v, data)

LEMMA RefusedRests ==
  ASSUME NEW u, ROMShape(u), u.fsm \in {"SEND_WAIT_FOR_I2C", "FIN_WAIT_I2C_DONE"}
  PROVE  /\ ROMShape(Refused(u)) /\ DOMAIN Refused(u) = DOMAIN u
         /\ u.fsm # "IDLE" /\ Rests(u, Refused(u))
<1>1. ROMFields \subseteq DOMAIN u /\ u.busy = 1 /\ u.w_en = 0
  BY DEF ROMShape, Shape, ROMPutting
<1>2. CASE busy = 0
  <2>1. PICK v : v = Refused(u)
    OBVIOUS
  <2>2. v = [[u EXCEPT !.busy = 0] EXCEPT !.fsm = "IDLE"]
    BY <1>2, <2>1 DEF Refused, Done, Goto
  <2>3. /\ DOMAIN v = DOMAIN u /\ v.fsm = "IDLE" /\ v.busy = 0 /\ v.w_en = 0
        /\ v.offset = u.offset /\ v.remain = u.remain /\ v.addr = u.addr
    BY <1>1, <2>2 DEF ROMFields
  <2>4. ROMShape(v)
    BY <1>1, <2>3 DEF ROMShape, Shape, ROMPutting, ROMFields
  <2>5. Rests(u, v)
    BY <2>3 DEF Rests
  <2> QED BY <2>1, <2>3, <2>4, <2>5
<1>3. CASE busy # 0
  <2>1. Refused(u) = u
    BY <1>3 DEF Refused
  <2> QED BY <2>1 DEF Rests
<1> QED BY <1>2, <1>3

LEMMA WrCommonMoves ==
  ASSUME ROMShape(wr), WrCommonStep
  PROVE  CommonMoves(wr, wr', rom_data, Writable(in_fifo))
<1>0. /\ ROMShape(wr) /\ Shape(wr, ROMPutting)
      /\ {"fsm", "busy", "stb", "w_en", "w", "addr", "offset", "remain"} \subseteq DOMAIN wr
  BY DEF ROMShape, ROMFields
<1>1. ASSUME WrAddressedOffset0 PROVE CommonMoves(wr, wr', rom_data, Writable(in_fifo))
  <2>1. /\ wr.fsm = "START_ADDRESSED_OFFSET0" /\ DOMAIN wr' = DOMAIN wr
        /\ Becomes(wr', "START_ADDRESSED_OFFSET1", wr.addr + 1, wr.offset,
                   wr.remain)
        /\ wr'.busy = wr.busy /\ wr'.w_en = wr.w_en
    BY <1>0, <1>1 DEF WrAddressedOffset0, Goto, Becomes
  <2>2. LooksUp(wr, wr', rom_data)
    BY <1>1, <2>1 DEF WrAddressedOffset0, LooksUp
  <2> QED BY <1>0, <2>1, <2>2 DEF CommonMoves, ROMShape, Shape, ROMPutting, Becomes
<1>2. ASSUME WrAddressedOffset1 PROVE CommonMoves(wr, wr', rom_data, Writable(in_fifo))
  <2>1. /\ wr.fsm = "START_ADDRESSED_OFFSET1" /\ DOMAIN wr' = DOMAIN wr
        /\ Becomes(wr', "START_ADDRESSED_LEN0", wr.addr + 1, rom_data,
                   wr.remain)
        /\ wr'.busy = wr.busy /\ wr'.w_en = wr.w_en
    BY <1>0, <1>2 DEF WrAddressedOffset1, Goto, Becomes
  <2>2. LooksUp(wr, wr', rom_data)
    BY <1>2, <2>1 DEF WrAddressedOffset1, LooksUp
  <2> QED BY <1>0, <2>1, <2>2 DEF CommonMoves, ROMShape, Shape, ROMPutting, Becomes
<1>3. ASSUME WrAddressedLen0 PROVE CommonMoves(wr, wr', rom_data, Writable(in_fifo))
  <2>1. /\ wr.fsm = "START_ADDRESSED_LEN0" /\ DOMAIN wr' = DOMAIN wr
        /\ Becomes(wr', "START_ADDRESSED_LEN1", wr.addr + 1, wr.offset + 256 * rom_data,
                   wr.remain)
        /\ wr'.busy = wr.busy /\ wr'.w_en = wr.w_en
    BY <1>0, <1>3 DEF WrAddressedLen0, Goto, Becomes
  <2>2. LooksUp(wr, wr', rom_data)
    BY <1>3, <2>1 DEF WrAddressedLen0, LooksUp
  <2> QED BY <1>0, <2>1, <2>2 DEF CommonMoves, ROMShape, Shape, ROMPutting, Becomes
<1>4. ASSUME WrAddressedLen1 PROVE CommonMoves(wr, wr', rom_data, Writable(in_fifo))
  <2>1. /\ wr.fsm = "START_ADDRESSED_LEN1" /\ DOMAIN wr' = DOMAIN wr
        /\ Becomes(wr', "START_ADDRESSED_DATA", wr.offset, wr.offset,
                   rom_data)
        /\ wr'.busy = wr.busy /\ wr'.w_en = wr.w_en
    BY <1>0, <1>4 DEF WrAddressedLen1, Goto, Becomes
  <2>2. LooksUp(wr, wr', rom_data)
    BY <1>4, <2>1 DEF WrAddressedLen1, LooksUp
  <2> QED BY <1>0, <2>1, <2>2 DEF CommonMoves, ROMShape, Shape, ROMPutting, Becomes
<1>5. ASSUME WrAddressedData PROVE CommonMoves(wr, wr', rom_data, Writable(in_fifo))
  <2>1. /\ wr.fsm = "START_ADDRESSED_DATA" /\ DOMAIN wr' = DOMAIN wr
        /\ Becomes(wr', "ADDRESS_PERIPHERAL_LATCHED_W_EN", wr.addr, wr.offset,
                   wr.remain + 256 * rom_data)
        /\ wr'.busy = wr.busy /\ wr'.w_en = 1
    BY <1>0, <1>5 DEF WrAddressedData, Goto, PutStart, Becomes
  <2>2. LooksUp(wr, wr', rom_data)
    BY <1>5, <2>1 DEF WrAddressedData, LooksUp
  <2> QED BY <1>0, <2>1, <2>2 DEF CommonMoves, ROMShape, Shape, ROMPutting, Becomes
<1>6. ASSUME WrAddressPeripheral PROVE CommonMoves(wr, wr', rom_data, Writable(in_fifo))
  <2>1. /\ wr.fsm = "ADDRESS_PERIPHERAL_LATCHED_W_EN" /\ DOMAIN wr' = DOMAIN wr
        /\ Becomes(wr', "LOOP_HEAD", wr.addr, wr.offset,
                   wr.remain)
        /\ wr'.busy = wr.busy /\ wr'.w_en = 0
    BY <1>0, <1>6 DEF WrAddressPeripheral, Goto, Strobe, Release, Becomes
  <2>2. Sends(wr, wr', Writable(in_fifo))
    BY <1>6, <2>1 DEF WrAddressPeripheral, Sends
  <2> QED BY <1>0, <2>1, <2>2 DEF CommonMoves, ROMShape, Shape, ROMPutting, Becomes
<1>7. ASSUME WrPartEnds PROVE CommonMoves(wr, wr', rom_data, Writable(in_fifo))
  <2>1. /\ wr.fsm = "LOOP_HEAD" /\ DOMAIN wr' = DOMAIN wr
        /\ Becomes(wr', "SEQ_BREAK_ADDRESSED_NEXTLEN1", wr.offset + 1, wr.offset + 1,
                   wr.remain)
        /\ wr'.busy = wr.busy /\ wr'.w_en = wr.w_en
    BY <1>0, <1>7 DEF WrPartEnds, Goto, Strobe, NextByte, Becomes
  <2>2. EndsPart(wr, wr', rom_data)
    BY <1>7, <2>1 DEF WrPartEnds, EndsPart
  <2> QED BY <1>0, <2>1, <2>2 DEF CommonMoves, ROMShape, Shape, ROMPutting, Becomes
<1>8. ASSUME WrSendLatched PROVE CommonMoves(wr, wr', rom_data, Writable(in_fifo))
  <2>1. /\ wr.fsm = "SEND_LATCHED_W_EN" /\ DOMAIN wr' = DOMAIN wr
        /\ Becomes(wr', "SEND_WAIT_FOR_I2C", wr.addr, wr.offset,
                   wr.remain)
        /\ wr'.busy = wr.busy /\ wr'.w_en = 0
    BY <1>0, <1>8 DEF WrSendLatched, Goto, Release, Becomes
  <2>2. Sends(wr, wr', Writable(in_fifo))
    BY <1>8, <2>1 DEF WrSendLatched, Sends
  <2> QED BY <1>0, <2>1, <2>2 DEF CommonMoves, ROMShape, Shape, ROMPutting, Becomes
<1>9. ASSUME WrNextLen0 PROVE CommonMoves(wr, wr', rom_data, Writable(in_fifo))
  <2>1. /\ wr.fsm = "SEQ_BREAK_ADDRESSED_NEXTLEN1" /\ DOMAIN wr' = DOMAIN wr
        /\ Becomes(wr', "SEQ_BREAK_ADDRESSED_FOLLOWING", wr.offset + 1, wr.offset + 1,
                   rom_data)
        /\ wr'.busy = wr.busy /\ wr'.w_en = wr.w_en
    BY <1>0, <1>9 DEF WrNextLen0, Goto, NextByte, Becomes
  <2>2. EndsPart(wr, wr', rom_data)
    BY <1>9, <2>1 DEF WrNextLen0, EndsPart
  <2> QED BY <1>0, <2>1, <2>2 DEF CommonMoves, ROMShape, Shape, ROMPutting, Becomes
<1>10. ASSUME WrSeqBreakLatched PROVE CommonMoves(wr, wr', rom_data, Writable(in_fifo))
  <2>1. /\ wr.fsm = "SEQ_BREAK_LATCHED_W_EN" /\ DOMAIN wr' = DOMAIN wr
        /\ Becomes(wr', "LOOP_HEAD", wr.addr, wr.offset,
                   wr.remain)
        /\ wr'.busy = wr.busy /\ wr'.w_en = 0
    BY <1>0, <1>10 DEF WrSeqBreakLatched, Goto, Release, Becomes
  <2>2. Sends(wr, wr', Writable(in_fifo))
    BY <1>10, <2>1 DEF WrSeqBreakLatched, Sends
  <2> QED BY <1>0, <2>1, <2>2 DEF CommonMoves, ROMShape, Shape, ROMPutting, Becomes
<1>11. ASSUME WrWaitForI2C PROVE CommonMoves(wr, wr', rom_data, Writable(in_fifo))
  <2>1. CASE Ready
    <3>1. /\ wr.fsm = "SEND_WAIT_FOR_I2C" /\ DOMAIN wr' = DOMAIN wr
          /\ Becomes(wr', "LOOP_HEAD", wr.addr, wr.offset, wr.remain)
          /\ wr'.busy = wr.busy /\ wr'.w_en = wr.w_en
      BY <1>0, <1>11, <2>1 DEF WrWaitForI2C, Goto, Becomes
    <3>2. Sends(wr, wr', Writable(in_fifo))
      BY <2>1, <3>1 DEF Sends, Ready
    <3> QED BY <1>0, <3>1, <3>2 DEF CommonMoves, ROMShape, Shape, ROMPutting, Becomes
  <2>2. CASE ~Ready
    <3>1. wr.fsm = "SEND_WAIT_FOR_I2C" /\ wr' = Refused(wr)
      BY <1>11, <2>2 DEF WrWaitForI2C
    <3> QED BY <1>0, <3>1, RefusedRests DEF CommonMoves
  <2> QED BY <2>1, <2>2
<1>12. ASSUME WrNextLen1 PROVE CommonMoves(wr, wr', rom_data, Writable(in_fifo))
  <2>1. CASE wr.remain + 256 * rom_data = 0
    <3>1. /\ wr.fsm = "SEQ_BREAK_ADDRESSED_FOLLOWING" /\ DOMAIN wr' = DOMAIN wr
          /\ Becomes(wr', "FIN_WAIT_I2C_DONE", wr.addr, wr.offset, wr.remain)
          /\ wr'.busy = wr.busy /\ wr'.w_en = wr.w_en
      BY <1>0, <1>12, <2>1 DEF WrNextLen1, Goto, Becomes
    <3>2. EndsPart(wr, wr', rom_data)
      BY <2>1, <3>1 DEF EndsPart
    <3> QED BY <1>0, <3>1, <3>2 DEF CommonMoves, ROMShape, Shape, ROMPutting, Becomes
  <2>2. CASE wr.remain + 256 * rom_data # 0
    <3>1. /\ wr.fsm = "SEQ_BREAK_ADDRESSED_FOLLOWING" /\ DOMAIN wr' = DOMAIN wr
          /\ Becomes(wr', "SEQ_BREAK_LATCHED_W_EN", wr.addr, wr.offset,
                     wr.remain + 256 * rom_data)
          /\ wr'.busy = wr.busy /\ wr'.w_en = 1
      BY <1>0, <1>12, <2>2 DEF WrNextLen1, Goto, PutStart, Becomes
    <3>2. EndsPart(wr, wr', rom_data)
      BY <2>2, <3>1 DEF EndsPart
    <3> QED BY <1>0, <3>1, <3>2 DEF CommonMoves, ROMShape, Shape, ROMPutting, Becomes
  <2> QED BY <2>1, <2>2
<1> QED BY <1>1, <1>2, <1>3, <1>4, <1>5, <1>6, <1>7, <1>8, <1>9, <1>10, <1>11, <1>12 DEF WrCommonStep

LEMMA CopyCommonMoves ==
  ASSUME ROMShape(scr), Copy!WrCommonStep
  PROVE  CommonMoves(scr, scr', rom_data, Writable(in_fifo))
<1>0. /\ ROMShape(scr) /\ Shape(scr, ROMPutting)
      /\ {"fsm", "busy", "stb", "w_en", "w", "addr", "offset", "remain"} \subseteq DOMAIN scr
  BY DEF ROMShape, ROMFields
<1>1. ASSUME Copy!WrAddressedOffset0 PROVE CommonMoves(scr, scr', rom_data, Writable(in_fifo))
  <2>1. /\ scr.fsm = "START_ADDRESSED_OFFSET0" /\ DOMAIN scr' = DOMAIN scr
        /\ Becomes(scr', "START_ADDRESSED_OFFSET1", scr.addr + 1, scr.offset,
                   scr.remain)
        /\ scr'.busy = scr.busy /\ scr'.w_en = scr.w_en
    BY <1>0, <1>1 DEF Copy!WrAddressedOffset0, Copy!Goto, Becomes
  <2>2. LooksUp(scr, scr', rom_data)
    BY <1>1, <2>1 DEF Copy!WrAddressedOffset0, LooksUp
  <2> QED BY <1>0, <2>1, <2>2 DEF CommonMoves, ROMShape, Shape, ROMPutting, Becomes
<1>2. ASSUME Copy!WrAddressedOffset1 PROVE CommonMoves(scr, scr', rom_data, Writable(in_fifo))
  <2>1. /\ scr.fsm = "START_ADDRESSED_OFFSET1" /\ DOMAIN scr' = DOMAIN scr
        /\ Becomes(scr', "START_ADDRESSED_LEN0", scr.addr + 1, rom_data,
                   scr.remain)
        /\ scr'.busy = scr.busy /\ scr'.w_en = scr.w_en
    BY <1>0, <1>2 DEF Copy!WrAddressedOffset1, Copy!Goto, Becomes
  <2>2. LooksUp(scr, scr', rom_data)
    BY <1>2, <2>1 DEF Copy!WrAddressedOffset1, LooksUp
  <2> QED BY <1>0, <2>1, <2>2 DEF CommonMoves, ROMShape, Shape, ROMPutting, Becomes
<1>3. ASSUME Copy!WrAddressedLen0 PROVE CommonMoves(scr, scr', rom_data, Writable(in_fifo))
  <2>1. /\ scr.fsm = "START_ADDRESSED_LEN0" /\ DOMAIN scr' = DOMAIN scr
        /\ Becomes(scr', "START_ADDRESSED_LEN1", scr.addr + 1, scr.offset + 256 * rom_data,
                   scr.remain)
        /\ scr'.busy = scr.busy /\ scr'.w_en = scr.w_en
    BY <1>0, <1>3 DEF Copy!WrAddressedLen0, Copy!Goto, Becomes
  <2>2. LooksUp(scr, scr', rom_data)
    BY <1>3, <2>1 DEF Copy!WrAddressedLen0, LooksUp
  <2> QED BY <1>0, <2>1, <2>2 DEF CommonMoves, ROMShape, Shape, ROMPutting, Becomes
<1>4. ASSUME Copy!WrAddressedLen1 PROVE CommonMoves(scr, scr', rom_data, Writable(in_fifo))
  <2>1. /\ scr.fsm = "START_ADDRESSED_LEN1" /\ DOMAIN scr' = DOMAIN scr
        /\ Becomes(scr', "START_ADDRESSED_DATA", scr.offset, scr.offset,
                   rom_data)
        /\ scr'.busy = scr.busy /\ scr'.w_en = scr.w_en
    BY <1>0, <1>4 DEF Copy!WrAddressedLen1, Copy!Goto, Becomes
  <2>2. LooksUp(scr, scr', rom_data)
    BY <1>4, <2>1 DEF Copy!WrAddressedLen1, LooksUp
  <2> QED BY <1>0, <2>1, <2>2 DEF CommonMoves, ROMShape, Shape, ROMPutting, Becomes
<1>5. ASSUME Copy!WrAddressedData PROVE CommonMoves(scr, scr', rom_data, Writable(in_fifo))
  <2>1. /\ scr.fsm = "START_ADDRESSED_DATA" /\ DOMAIN scr' = DOMAIN scr
        /\ Becomes(scr', "ADDRESS_PERIPHERAL_LATCHED_W_EN", scr.addr, scr.offset,
                   scr.remain + 256 * rom_data)
        /\ scr'.busy = scr.busy /\ scr'.w_en = 1
    BY <1>0, <1>5 DEF Copy!WrAddressedData, Copy!Goto, Copy!PutStart, Becomes
  <2>2. LooksUp(scr, scr', rom_data)
    BY <1>5, <2>1 DEF Copy!WrAddressedData, LooksUp
  <2> QED BY <1>0, <2>1, <2>2 DEF CommonMoves, ROMShape, Shape, ROMPutting, Becomes
<1>6. ASSUME Copy!WrAddressPeripheral PROVE CommonMoves(scr, scr', rom_data, Writable(in_fifo))
  <2>1. /\ scr.fsm = "ADDRESS_PERIPHERAL_LATCHED_W_EN" /\ DOMAIN scr' = DOMAIN scr
        /\ Becomes(scr', "LOOP_HEAD", scr.addr, scr.offset,
                   scr.remain)
        /\ scr'.busy = scr.busy /\ scr'.w_en = 0
    BY <1>0, <1>6 DEF Copy!WrAddressPeripheral, Copy!Goto, Copy!Strobe, Copy!Release, Becomes
  <2>2. Sends(scr, scr', Writable(in_fifo))
    BY <1>6, <2>1 DEF Copy!WrAddressPeripheral, Sends
  <2> QED BY <1>0, <2>1, <2>2 DEF CommonMoves, ROMShape, Shape, ROMPutting, Becomes
<1>7. ASSUME Copy!WrPartEnds PROVE CommonMoves(scr, scr', rom_data, Writable(in_fifo))
  <2>1. /\ scr.fsm = "LOOP_HEAD" /\ DOMAIN scr' = DOMAIN scr
        /\ Becomes(scr', "SEQ_BREAK_ADDRESSED_NEXTLEN1", scr.offset + 1, scr.offset + 1,
                   scr.remain)
        /\ scr'.busy = scr.busy /\ scr'.w_en = scr.w_en
    BY <1>0, <1>7 DEF Copy!WrPartEnds, Copy!Goto, Copy!Strobe, Copy!NextByte, Becomes
  <2>2. EndsPart(scr, scr', rom_data)
    BY <1>7, <2>1 DEF Copy!WrPartEnds, EndsPart
  <2> QED BY <1>0, <2>1, <2>2 DEF CommonMoves, ROMShape, Shape, ROMPutting, Becomes
<1>8. ASSUME Copy!WrSendLatched PROVE CommonMoves(scr, scr', rom_data, Writable(in_fifo))
  <2>1. /\ scr.fsm = "SEND_LATCHED_W_EN" /\ DOMAIN scr' = DOMAIN scr
        /\ Becomes(scr', "SEND_WAIT_FOR_I2C", scr.addr, scr.offset,
                   scr.remain)
        /\ scr'.busy = scr.busy /\ scr'.w_en = 0
    BY <1>0, <1>8 DEF Copy!WrSendLatched, Copy!Goto, Copy!Release, Becomes
  <2>2. Sends(scr, scr', Writable(in_fifo))
    BY <1>8, <2>1 DEF Copy!WrSendLatched, Sends
  <2> QED BY <1>0, <2>1, <2>2 DEF CommonMoves, ROMShape, Shape, ROMPutting, Becomes
<1>9. ASSUME Copy!WrNextLen0 PROVE CommonMoves(scr, scr', rom_data, Writable(in_fifo))
  <2>1. /\ scr.fsm = "SEQ_BREAK_ADDRESSED_NEXTLEN1" /\ DOMAIN scr' = DOMAIN scr
        /\ Becomes(scr', "SEQ_BREAK_ADDRESSED_FOLLOWING", scr.offset + 1, scr.offset + 1,
                   rom_data)
        /\ scr'.busy = scr.busy /\ scr'.w_en = scr.w_en
    BY <1>0, <1>9 DEF Copy!WrNextLen0, Copy!Goto, Copy!NextByte, Becomes
  <2>2. EndsPart(scr, scr', rom_data)
    BY <1>9, <2>1 DEF Copy!WrNextLen0, EndsPart
  <2> QED BY <1>0, <2>1, <2>2 DEF CommonMoves, ROMShape, Shape, ROMPutting, Becomes
<1>10. ASSUME Copy!WrSeqBreakLatched PROVE CommonMoves(scr, scr', rom_data, Writable(in_fifo))
  <2>1. /\ scr.fsm = "SEQ_BREAK_LATCHED_W_EN" /\ DOMAIN scr' = DOMAIN scr
        /\ Becomes(scr', "LOOP_HEAD", scr.addr, scr.offset,
                   scr.remain)
        /\ scr'.busy = scr.busy /\ scr'.w_en = 0
    BY <1>0, <1>10 DEF Copy!WrSeqBreakLatched, Copy!Goto, Copy!Release, Becomes
  <2>2. Sends(scr, scr', Writable(in_fifo))
    BY <1>10, <2>1 DEF Copy!WrSeqBreakLatched, Sends
  <2> QED BY <1>0, <2>1, <2>2 DEF CommonMoves, ROMShape, Shape, ROMPutting, Becomes
<1>11. ASSUME Copy!WrWaitForI2C PROVE CommonMoves(scr, scr', rom_data, Writable(in_fifo))
  <2>1. CASE Copy!Ready
    <3>1. /\ scr.fsm = "SEND_WAIT_FOR_I2C" /\ DOMAIN scr' = DOMAIN scr
          /\ Becomes(scr', "LOOP_HEAD", scr.addr, scr.offset, scr.remain)
          /\ scr'.busy = scr.busy /\ scr'.w_en = scr.w_en
      BY <1>0, <1>11, <2>1 DEF Copy!WrWaitForI2C, Copy!Goto, Becomes
    <3>2. Sends(scr, scr', Writable(in_fifo))
      BY <2>1, <3>1 DEF Sends, Copy!Ready, Copy!Writable, Writable
    <3> QED BY <1>0, <3>1, <3>2 DEF CommonMoves, ROMShape, Shape, ROMPutting, Becomes
  <2>2. CASE ~Copy!Ready
    <3>1. scr.fsm = "SEND_WAIT_FOR_I2C" /\ scr' = Copy!Refused(scr)
      BY <1>11, <2>2 DEF Copy!WrWaitForI2C
    <3> QED BY <1>0, <3>1, RefusedRests DEF CommonMoves, Copy!Refused, Copy!Done, Copy!Goto, Refused, Done, Goto
  <2> QED BY <2>1, <2>2
<1>12. ASSUME Copy!WrNextLen1 PROVE CommonMoves(scr, scr', rom_data, Writable(in_fifo))
  <2>1. CASE scr.remain + 256 * rom_data = 0
    <3>1. /\ scr.fsm = "SEQ_BREAK_ADDRESSED_FOLLOWING" /\ DOMAIN scr' = DOMAIN scr
          /\ Becomes(scr', "FIN_WAIT_I2C_DONE", scr.addr, scr.offset, scr.remain)
          /\ scr'.busy = scr.busy /\ scr'.w_en = scr.w_en
      BY <1>0, <1>12, <2>1 DEF Copy!WrNextLen1, Copy!Goto, Becomes
    <3>2. EndsPart(scr, scr', rom_data)
      BY <2>1, <3>1 DEF EndsPart
    <3> QED BY <1>0, <3>1, <3>2 DEF CommonMoves, ROMShape, Shape, ROMPutting, Becomes
  <2>2. CASE scr.remain + 256 * rom_data # 0
    <3>1. /\ scr.fsm = "SEQ_BREAK_ADDRESSED_FOLLOWING" /\ DOMAIN scr' = DOMAIN scr
          /\ Becomes(scr', "SEQ_BREAK_LATCHED_W_EN", scr.addr, scr.offset,
                     scr.remain + 256 * rom_data)
          /\ scr'.busy = scr.busy /\ scr'.w_en = 1
      BY <1>0, <1>12, <2>2 DEF Copy!WrNextLen1, Copy!Goto, Copy!PutStart, Becomes
    <3>2. EndsPart(scr, scr', rom_data)
      BY <2>2, <3>1 DEF EndsPart
    <3> QED BY <1>0, <3>1, <3>2 DEF CommonMoves, ROMShape, Shape, ROMPutting, Becomes
  <2> QED BY <2>1, <2>2
<1> QED BY <1>1, <1>2, <1>3, <1>4, <1>5, <1>6, <1>7, <1>8, <1>9, <1>10, <1>11, <1>12 DEF Copy!WrCommonStep

\* A unit's step as the others see it: it goes to work only when strobed.
Stays(u, v, start) == u.fsm = "IDLE" /\ start # 1 => v.fsm = "IDLE"

LEMMA WrMoves ==
  ASSUME NEW stb, NEW index, ROMShape(wr), WrStep(stb, index)
  PROVE  /\ ROMShape(wr')
         /\ Moves(wr, wr', stb, index, rom_data, Writable(in_fifo))
         /\ Stays(wr, wr', stb)
<1>0. /\ ROMShape(wr) /\ Shape(wr, ROMPutting)
      /\ {"fsm", "busy", "stb", "w_en", "w", "addr", "offset", "remain"} \subseteq DOMAIN wr
  BY DEF ROMShape, ROMFields
<1>1. CASE WrCommonStep
  BY <1>0, <1>1, WrCommonMoves DEF CommonMoves, Moves, Stays
<1>2. CASE WrIdle(stb, index)
  <2>1. CASE stb = 1
    <3>1. /\ wr.fsm = "IDLE" /\ DOMAIN wr' = DOMAIN wr
          /\ Becomes(wr', "START_ADDRESSED_OFFSET0", 4 * index, 0, 0)
          /\ wr'.busy = 1 /\ wr'.w_en = wr.w_en
      BY <1>0, <1>2, <2>1 DEF WrIdle, Forget, Goto, Becomes
    <3> QED BY <1>0, <2>1, <3>1
            DEF Moves, Begins, Stays, ROMShape, Shape, ROMPutting, Becomes
  <2>2. CASE stb # 1
    <3>1. /\ wr.fsm = "IDLE" /\ DOMAIN wr' = DOMAIN wr
          /\ Becomes(wr', "IDLE", 0, 0, 0)
          /\ wr'.busy = wr.busy /\ wr'.w_en = wr.w_en
      BY <1>0, <1>2, <2>2 DEF WrIdle, Forget, Becomes
    <3> QED BY <1>0, <3>1
            DEF Moves, Forgets, Stays, ROMShape, Shape, ROMPutting, Becomes
  <2> QED BY <2>1, <2>2
<1>3. CASE WrSend(rom_data)
  <2>1. CASE Writable(in_fifo)
    <3>1. /\ wr.fsm = "LOOP_HEAD" /\ wr.remain # 0 /\ DOMAIN wr' = DOMAIN wr
          /\ Becomes(wr', "SEND_LATCHED_W_EN", wr.offset + 1, wr.offset + 1, wr.remain - 1)
          /\ wr'.busy = wr.busy /\ wr'.w_en = 1
      BY <1>0, <1>3, <2>1 DEF WrSend, Goto, NextByte, PutData, Strobe, Becomes
    <3> QED BY <1>0, <2>1, <3>1
            DEF Moves, Sends, Stays, ROMShape, Shape, ROMPutting, Becomes
  <2>2. CASE ~Writable(in_fifo)
    <3>1. /\ wr.fsm = "LOOP_HEAD" /\ wr.remain # 0 /\ DOMAIN wr' = DOMAIN wr
          /\ Becomes(wr', "LOOP_HEAD", wr.addr, wr.offset, wr.remain)
          /\ wr'.busy = wr.busy /\ wr'.w_en = wr.w_en
      BY <1>0, <1>3, <2>2 DEF WrSend, Strobe, Becomes
    <3> QED BY <1>0, <3>1 DEF Moves, Rests, Stays, ROMShape, Shape, ROMPutting, Becomes
  <2> QED BY <2>1, <2>2
<1>4. CASE WrFinish
  <2>1. wr.fsm = "FIN_WAIT_I2C_DONE" /\ wr' = Refused(wr)
    BY <1>4 DEF WrFinish
  <2> QED BY <1>0, <2>1, RefusedRests DEF Moves, Stays
<1> QED BY <1>1, <1>2, <1>3, <1>4 DEF WrStep

ScrShape == ROMShape(scr) /\ {"written", "adjusted"} \subseteq DOMAIN scr

LEMMA ScrMoves ==
  ASSUME NEW stb, NEW rst, ScrShape, ScrStep(stb, rst)
  PROVE  /\ ScrShape'
         /\ Moves(scr, scr', stb, OFFSET_SCROLL, rom_data, Writable(in_fifo))
         /\ Stays(scr, scr', stb)
<1>0. /\ ROMShape(scr) /\ Shape(scr, ROMPutting)
      /\ {"fsm", "busy", "stb", "w_en", "w", "addr", "offset", "remain",
          "written", "adjusted"} \subseteq DOMAIN scr
  BY DEF ScrShape, ROMShape, ROMFields
<1>1. CASE Copy!WrCommonStep
  BY <1>0, <1>1, CopyCommonMoves DEF CommonMoves, Moves, Stays, ScrShape
<1>2. CASE ScrIdle(stb, rst)
  <2>1. PICK s : s = [Copy!Forget(scr) EXCEPT !.written = 0,
                                              !.adjusted = IF rst = 1 THEN 0 ELSE @]
    OBVIOUS
  <2>2. /\ scr.fsm = "IDLE" /\ DOMAIN s = DOMAIN scr
        /\ s.fsm = "IDLE" /\ s.busy = scr.busy /\ s.w_en = scr.w_en
        /\ s.addr = 0 /\ s.offset = 0 /\ s.remain = 0
    BY <1>0, <1>2, <2>1 DEF ScrIdle, Copy!Forget
  <2>3. CASE stb = 1
    <3>1. scr' = Goto([s EXCEPT !.busy = 1, !.addr = 4 * OFFSET_SCROLL],
                      "START_ADDRESSED_OFFSET0")
      BY <1>2, <2>1, <2>3 DEF ScrIdle
    <3>2. /\ DOMAIN scr' = DOMAIN scr /\ scr'.busy = 1 /\ scr'.w_en = scr.w_en
          /\ Becomes(scr', "START_ADDRESSED_OFFSET0", 4 * OFFSET_SCROLL, 0, 0)
      BY <1>0, <2>2, <3>1 DEF Goto, Becomes
    <3> QED BY <1>0, <2>2, <2>3, <3>2
            DEF Moves, Begins, Stays, ScrShape, ROMShape, Shape, ROMPutting, Becomes
  <2>4. CASE stb # 1
    <3>1. scr' = s
      BY <1>2, <2>1, <2>4 DEF ScrIdle
    <3> QED BY <1>0, <2>2, <3>1
            DEF Moves, Forgets, Becomes, Stays, ScrShape, ROMShape, Shape, ROMPutting
  <2> QED BY <2>3, <2>4
<1>3. CASE ScrSend
  <2>1. CASE Writable(in_fifo)
    <3>1. /\ scr.fsm = "LOOP_HEAD" /\ scr.remain # 0 /\ DOMAIN scr' = DOMAIN scr
          /\ Becomes(scr', "SEND_LATCHED_W_EN", scr.offset + 1, scr.offset + 1,
                     scr.remain - 1)
          /\ scr'.busy = scr.busy /\ scr'.w_en = 1
      BY <1>0, <1>3, <2>1
         DEF ScrSend, Goto, Copy!NextByte, PutData, Strobe, Count, Becomes
    <3> QED BY <1>0, <2>1, <3>1
            DEF Moves, Sends, Stays, ScrShape, ROMShape, Shape, ROMPutting, Becomes
  <2>2. CASE ~Writable(in_fifo)
    <3>1. /\ scr.fsm = "LOOP_HEAD" /\ scr.remain # 0 /\ DOMAIN scr' = DOMAIN scr
          /\ Becomes(scr', "LOOP_HEAD", scr.addr, scr.offset, scr.remain)
          /\ scr'.busy = scr.busy /\ scr'.w_en = scr.w_en
      BY <1>0, <1>3, <2>2 DEF ScrSend, Strobe, Becomes
    <3> QED BY <1>0, <3>1
            DEF Moves, Rests, Stays, ScrShape, ROMShape, Shape, ROMPutting, Becomes
  <2> QED BY <2>1, <2>2
<1>4. CASE ScrFinish
  <2>1. scr.fsm = "FIN_WAIT_I2C_DONE"
    BY <1>4 DEF ScrFinish
  <2>2. CASE busy = 0 /\ ack = 1 /\ Writable(in_fifo)
    <3>1. scr' = Done([scr EXCEPT !.adjusted = (@ + 1) % Rows])
      BY <1>4, <2>2 DEF ScrFinish
    <3>2. /\ DOMAIN scr' = DOMAIN scr
          /\ Becomes(scr', "IDLE", scr.addr, scr.offset, scr.remain)
          /\ scr'.busy = 0 /\ scr'.w_en = scr.w_en
      BY <1>0, <3>1 DEF Done, Goto, Becomes
    <3> QED BY <1>0, <2>1, <3>2
            DEF Moves, Rests, Stays, ScrShape, ROMShape, Shape, ROMPutting, Becomes
  <2>3. CASE ~(busy = 0 /\ ack = 1 /\ Writable(in_fifo))
    <3>1. scr' = Refused(scr)
      BY <1>4, <2>3 DEF ScrFinish
    <3> QED BY <1>0, <2>1, <3>1, RefusedRests DEF Moves, Stays, ScrShape
  <2> QED BY <2>2, <2>3
<1> QED BY <1>1, <1>2, <1>3, <1>4 DEF ScrStep

\* The position stays on the display.
LEMMA ScrAdjusts ==
  ASSUME NEW stb, NEW rst, ScrShape, ScrStep(stb, rst), scr.adjusted \in 0 .. Rows - 1
  PROVE  scr'.adjusted \in 0 .. Rows - 1
<1>0. {"fsm", "busy", "stb", "w_en", "w", "addr", "offset", "remain",
       "written", "adjusted"} \subseteq DOMAIN scr
  BY DEF ScrShape, ROMShape, ROMFields
<1>1. 0 \in 0 .. Rows - 1 /\ (scr.adjusted + 1) % Rows \in 0 .. Rows - 1
  BY RowsAssumption
<1>2. CASE Copy!WrCommonStep
  <2>1. CASE Copy!WrAddressedOffset0 \/ Copy!WrAddressedOffset1 \/ Copy!WrAddressedLen0
    <3>1. scr'.adjusted = scr.adjusted
      BY <1>0, <2>1 DEF Copy!WrAddressedOffset0, Copy!WrAddressedOffset1,
                        Copy!WrAddressedLen0, Copy!Goto
    <3> QED BY <3>1
  <2>2. CASE Copy!WrAddressedLen1 \/ Copy!WrAddressedData
    <3>1. scr'.adjusted = scr.adjusted
      BY <1>0, <2>2 DEF Copy!WrAddressedLen1, Copy!WrAddressedData, Copy!PutStart,
                        Copy!Strobe, Copy!Goto
    <3> QED BY <3>1
  <2>3. CASE Copy!WrAddressPeripheral
    <3>1. scr' = Copy!Goto(Copy!Strobe(Copy!Release(scr), 1), "LOOP_HEAD")
      BY <2>3 DEF Copy!WrAddressPeripheral
    <3>2. scr'.adjusted = scr.adjusted
      BY <1>0, <3>1 DEF Copy!Release, Copy!Strobe, Copy!Goto
    <3> QED BY <3>2
  <2>4. CASE Copy!WrPartEnds
    <3>1. scr'.adjusted = scr.adjusted
      BY <1>0, <2>4 DEF Copy!WrPartEnds, Copy!Strobe, Copy!NextByte, Copy!Goto
    <3> QED BY <3>1
  <2>5. CASE Copy!WrSendLatched
    <3>1. scr'.adjusted = scr.adjusted
      BY <1>0, <2>5 DEF Copy!WrSendLatched, Copy!Release, Copy!Goto
    <3> QED BY <3>1
  <2>6. CASE Copy!WrWaitForI2C
    <3>1. scr'.adjusted = scr.adjusted
      BY <1>0, <2>6 DEF Copy!WrWaitForI2C, Copy!Refused, Copy!Done, Copy!Goto
    <3> QED BY <3>1
  <2>7. CASE Copy!WrNextLen0 \/ Copy!WrNextLen1 \/ Copy!WrSeqBreakLatched
    <3>1. scr'.adjusted = scr.adjusted
      BY <1>0, <2>7 DEF Copy!WrNextLen0, Copy!WrNextLen1, Copy!WrSeqBreakLatched,
                        Copy!PutStart, Copy!Strobe, Copy!Release, Copy!NextByte, Copy!Goto
    <3> QED BY <3>1
  <2> QED BY <1>2, <2>1, <2>2, <2>3, <2>4, <2>5, <2>6, <2>7 DEF Copy!WrCommonStep
<1>3. CASE ScrIdle(stb, rst)
  <2>1. scr'.adjusted \in {0, scr.adjusted}
    BY <1>0, <1>3 DEF ScrIdle, Copy!Forget, Goto
  <2> QED BY <1>1, <2>1
<1>4. CASE ScrSend
  <2>1. scr'.adjusted = scr.adjusted
    BY <1>0, <1>4 DEF ScrSend, Goto, Count, Copy!NextByte, PutData, Strobe
  <2> QED BY <2>1
<1>5. CASE ScrFinish
  <2>1. scr'.adjusted \in {scr.adjusted, (scr.adjusted + 1) % Rows}
    BY <1>0, <1>5 DEF ScrFinish, Refused, Done, Goto
  <2> QED BY <1>1, <2>1
<1> QED BY <1>2, <1>3, <1>4, <1>5 DEF ScrStep

-------------------------------------------------------------------------------
(***************************************************************************)
(* The two units that do not read the ROM.                                 *)
(***************************************************************************)
LocPutting ==
  {"START_ADDR_STROBED_W_EN", "START_CONTROL_STROBED_W_EN", "START_PAGE_STROBED_W_EN",
   "START_COL_LOWER_STROBED_W_EN", "START_COL_HIGHER_STROBED_W_EN"}

ClsPutting ==
  {"START_ADDR_STROBED_W_EN", "START_CONTROL_STROBED_W_EN",
   "START_COL_LOWER_STROBED_W_EN", "START_COL_HIGHER_STROBED_W_EN",
   "LOOP_PAGE_STROBED_W_EN", "LOOP_ADDR_STROBED_W_EN", "LOOP_CONTROL_STROBED_W_EN",
   "LOOP_NEXT_PAGE_ADDR_STROBED_W_EN"}

\* What every step is made of: a word is put, the word goes, or nothing changes.
Queues(u, v)   == DOMAIN v = DOMAIN u /\ v.busy = u.busy /\ v.w_en = 1
WordGoes(u, v) == DOMAIN v = DOMAIN u /\ v.busy = u.busy /\ v.w_en = 0
NoWord(u, v)   == DOMAIN v = DOMAIN u /\ v.busy = u.busy /\ v.w_en = u.w_en
Ends(u, v)     == DOMAIN v = DOMAIN u /\ v.busy = 0 /\ v.w_en = u.w_en /\ v.fsm = "IDLE"

\* The steps of a unit at work, from a state to a state.
UnitSteps(u, v, putting, room) ==
  \/ Queues(u, v) /\ u.fsm \notin putting /\ v.fsm \in putting /\ room
  \/ WordGoes(u, v) /\ u.fsm \in putting /\ v.fsm \notin putting /\ v.fsm # "IDLE"
  \/ NoWord(u, v) /\ u.fsm \notin putting /\ v.fsm = u.fsm
  \/ Ends(u, v) /\ u.fsm \notin putting

LEMMA UnitGoes ==
  ASSUME NEW u, NEW v, NEW putting, NEW room, NEW stb, Shape(u, putting),
         "IDLE" \notin putting, u.fsm # "IDLE", UnitSteps(u, v, putting, room)
  PROVE  Shape(v, putting) /\ Puts(u, v, putting, room) /\ Stays(u, v, stb)
  BY DEF Shape, Puts, Stays, UnitSteps, Queues, WordGoes, NoWord, Ends

LEMMA RefusedEnds ==
  ASSUME NEW u, {"fsm", "busy", "stb", "w_en", "w"} \subseteq DOMAIN u
  PROVE  (NoWord(u, Refused(u)) /\ Refused(u).fsm = u.fsm) \/ Ends(u, Refused(u))
<1>1. CASE busy = 0
  <2>1. PICK v : v = Refused(u)
    OBVIOUS
  <2>2. v = [[u EXCEPT !.busy = 0] EXCEPT !.fsm = "IDLE"]
    BY <1>1, <2>1 DEF Refused, Done, Goto
  <2> QED BY <2>1, <2>2 DEF Ends
<1>2. CASE busy # 0
  BY <1>2 DEF Refused, NoWord
<1> QED BY <1>1, <1>2

LEMMA LocMoves ==
  ASSUME NEW stb, NEW adjust, Shape(loc, LocPutting), LocStep(stb, adjust)
  PROVE  /\ Shape(loc', LocPutting)
         /\ Puts(loc, loc', LocPutting, Writable(in_fifo))
         /\ Stays(loc, loc', stb)
<1>0. /\ Shape(loc, LocPutting)
      /\ {"fsm", "busy", "stb", "w_en", "w"} \subseteq DOMAIN loc
  BY DEF Shape
<1> DEFINE Good == /\ Shape(loc', LocPutting)
                   /\ Puts(loc, loc', LocPutting, Writable(in_fifo))
                   /\ Stays(loc, loc', stb)
           Going == loc.fsm # "IDLE" /\ UnitSteps(loc, loc', LocPutting, Writable(in_fifo))
<1> SUFFICES Good
  OBVIOUS
<1>1. Going => Good
  <2>1. "IDLE" \notin LocPutting
    BY DEF LocPutting
  <2> QED BY <1>0, <2>1, UnitGoes
<1>2. CASE LocIdle(stb)
  <2>1. CASE stb = 1
    <3>1. /\ DOMAIN loc' = DOMAIN loc /\ loc'.busy = 1 /\ loc'.w_en = 1
          /\ loc'.fsm = "START_ADDR_STROBED_W_EN" /\ loc.fsm = "IDLE"
      BY <1>0, <1>2, <2>1 DEF LocIdle, Goto, PutStart
    <3> QED BY <1>0, <2>1, <3>1 DEF Shape, Puts, Stays, LocPutting, Firsts
  <2>2. CASE stb # 1
    <3>1. loc' = loc /\ loc.fsm = "IDLE"
      BY <1>2, <2>2 DEF LocIdle
    <3> QED BY <1>0, <3>1 DEF Puts, Stays, LocPutting
  <2> QED BY <2>1, <2>2
<1>3. CASE LocAddrQueued
  <2>1. /\ WordGoes(loc, loc') /\ loc.fsm = "START_ADDR_STROBED_W_EN"
        /\ loc'.fsm = "START_ADDR_STROBED_STB"
    BY <1>0, <1>3 DEF LocAddrQueued, Goto, Strobe, Release, WordGoes
  <2> QED BY <1>1, <2>1 DEF UnitSteps, LocPutting
<1>4. CASE LocControl
  <2>1. CASE Writable(in_fifo)
    <3>1. /\ Queues(loc, loc') /\ loc.fsm = "START_ADDR_STROBED_STB"
          /\ loc'.fsm = "START_CONTROL_STROBED_W_EN"
      BY <1>0, <1>4, <2>1 DEF LocControl, Goto, Strobe, PutData, Queues
    <3> QED BY <1>1, <2>1, <3>1 DEF UnitSteps, LocPutting
  <2>2. CASE ~Writable(in_fifo)
    <3>1. /\ NoWord(loc, loc') /\ loc.fsm = "START_ADDR_STROBED_STB"
          /\ loc'.fsm = loc.fsm
      BY <1>0, <1>4, <2>2 DEF LocControl, Strobe, NoWord
    <3> QED BY <1>1, <3>1 DEF UnitSteps, LocPutting
  <2> QED BY <2>1, <2>2
<1>5. ASSUME NEW from \in LocPutting, NEW to, to \notin LocPutting, to # "IDLE",
             LocStrobed(from, to)
      PROVE  Good
  <2>1. WordGoes(loc, loc') /\ loc.fsm = from /\ loc'.fsm = to /\ from # "IDLE"
    BY <1>0, <1>5 DEF LocStrobed, Goto, Release, WordGoes, LocPutting
  <2>2. Going
    BY <1>5, <2>1 DEF UnitSteps
  <2> QED BY <1>1, <2>2
<1>6. ASSUME NEW n, NEW to \in LocPutting, loc.fsm \notin LocPutting, loc.fsm # "IDLE",
             Ready, loc' = Goto(PutNext(loc, n), to)
      PROVE  Good
  <2>1. Queues(loc, loc') /\ loc'.fsm = to /\ Writable(in_fifo)
    BY <1>0, <1>6 DEF Goto, PutNext, Queues, Ready
  <2>2. Going
    BY <1>6, <2>1 DEF UnitSteps
  <2> QED BY <1>1, <2>2
<1>7. ASSUME loc.fsm \notin LocPutting, loc.fsm # "IDLE", loc' = Refused(loc)
      PROVE  Good
  <2>1. (NoWord(loc, loc') /\ loc'.fsm = loc.fsm) \/ Ends(loc, loc')
    BY <1>0, <1>7, RefusedEnds
  <2>2. Going
    BY <1>7, <2>1 DEF UnitSteps
  <2> QED BY <1>1, <2>2
<1>8. ASSUME StartRow(adjust), loc.fsm \notin LocPutting, loc.fsm # "IDLE", Ready
      PROVE  Good
  <2>1. PICK n : loc' = Goto(PutNext(loc, n), "START_COL_LOWER_STROBED_W_EN")
    BY <1>8 DEF StartRow
  <2>2. "START_COL_LOWER_STROBED_W_EN" \in LocPutting
    BY DEF LocPutting
  <2> HIDE DEF Good
  <2> QED BY <1>6, <1>8, <2>1, <2>2
<1>9. CASE LocPage(adjust)
  <2>1. loc.fsm \notin LocPutting /\ loc.fsm # "IDLE"
    BY <1>9 DEF LocPage, LocPutting
  <2>2. CASE /\ Ready
             /\ loc' = Goto(PutNext(loc, SetPageAddress(0) + Rows - col),
                            "START_PAGE_STROBED_W_EN")
    <3>1. "START_PAGE_STROBED_W_EN" \in LocPutting
      BY DEF LocPutting
    <3> HIDE DEF Good
    <3> QED BY <1>6, <2>1, <2>2, <3>1
  <2>3. CASE Ready /\ StartRow(adjust)
    BY <1>8, <2>1, <2>3
  <2>4. CASE loc' = Done(loc)
    <3>1. Ends(loc, loc')
      BY <1>0, <2>4 DEF Done, Goto, Ends
    <3>2. Going
      BY <2>1, <3>1 DEF UnitSteps
    <3> QED BY <1>1, <3>2
  <2>5. CASE loc' = Refused(loc)
    BY <1>7, <2>1, <2>5
  <2> HIDE DEF Good
  <2> QED BY <1>9, <2>2, <2>3, <2>4, <2>5 DEF LocPage
<1>10. CASE LocColLower(adjust)
  <2>1. loc.fsm \notin LocPutting /\ loc.fsm # "IDLE"
    BY <1>10 DEF LocColLower, LocPutting
  <2>2. (Ready /\ StartRow(adjust)) \/ loc' = Refused(loc)
    BY <1>10 DEF LocColLower
  <2> HIDE DEF Good
  <2> QED BY <1>7, <1>8, <2>1, <2>2
<1>11. CASE LocColHigher(adjust)
  <2>1. loc.fsm \notin LocPutting /\ loc.fsm # "IDLE"
    BY <1>11 DEF LocColHigher, LocPutting
  <2>2. \/ /\ Ready
           /\ \E n : loc' = Goto(PutNext(loc, n), "START_COL_HIGHER_STROBED_W_EN")
        \/ loc' = Refused(loc)
    BY <1>11 DEF LocColHigher
  <2>3. "START_COL_HIGHER_STROBED_W_EN" \in LocPutting
    BY DEF LocPutting
  <2> HIDE DEF Good
  <2> QED BY <1>6, <1>7, <2>1, <2>2, <2>3
<1>12. CASE LocFinish
  <2>1. loc.fsm \notin LocPutting /\ loc.fsm # "IDLE" /\ loc' = Refused(loc)
    BY <1>12 DEF LocFinish, LocPutting
  <2> QED BY <1>7, <2>1
<1>13. ASSUME \E from \in LocPutting : \E to :
                to \notin LocPutting /\ to # "IDLE" /\ LocStrobed(from, to)
       PROVE  Good
  <2> HIDE DEF Good
  <2> QED BY <1>5, <1>13
<1>14. CASE \/ LocStrobed("START_CONTROL_STROBED_W_EN", "START_CONTROL_UNSTROBED_W_EN")
            \/ LocStrobed("START_PAGE_STROBED_W_EN", "START_PAGE_UNSTROBED_W_EN")
            \/ LocStrobed("START_COL_LOWER_STROBED_W_EN",
                          "START_COL_LOWER_UNSTROBED_W_EN")
            \/ LocStrobed("START_COL_HIGHER_STROBED_W_EN",
                          "START_COL_HIGHER_UNSTROBED_W_EN")
  <2>1. \E from \in LocPutting : \E to :
          to \notin LocPutting /\ to # "IDLE" /\ LocStrobed(from, to)
    BY <1>14 DEF LocPutting
  <2> QED BY <1>13, <2>1
<1> HIDE DEF Good
<1> QED BY <1>2, <1>3, <1>4, <1>9, <1>10, <1>11, <1>12, <1>14 DEF LocStep

\* Clser counts pages and columns up to their last.
ClsCounts(u) == u.page \in 0 .. LastPage /\ u.column \in 0 .. Columns

ClsShape(u) ==
  Shape(u, ClsPutting) /\ {"page", "column"} \subseteq DOMAIN u /\ ClsCounts(u)

LEMMA ClsMoves ==
  ASSUME NEW stb, ClsShape(cls), ClsStep(stb)
  PROVE  /\ ClsShape(cls')
         /\ Puts(cls, cls', ClsPutting, Writable(in_fifo))
         /\ Stays(cls, cls', stb)
<1>0. /\ Shape(cls, ClsPutting) /\ ClsCounts(cls)
      /\ {"fsm", "busy", "stb", "w_en", "w", "page", "column"} \subseteq DOMAIN cls
      /\ LastPage \in Nat /\ Columns \in Nat
  BY PagesAssumption DEF Shape, ClsShape
<1> DEFINE Good == /\ ClsShape(cls')
                   /\ Puts(cls, cls', ClsPutting, Writable(in_fifo))
                   /\ Stays(cls, cls', stb)
           Going == /\ cls.fsm # "IDLE" /\ ClsCounts(cls')
                    /\ UnitSteps(cls, cls', ClsPutting, Writable(in_fifo))
<1> SUFFICES Good
  OBVIOUS
<1>1. Going => Good
  <2>1. "IDLE" \notin ClsPutting
    BY DEF ClsPutting
  <2>2. Going => /\ Shape(cls', ClsPutting) /\ Stays(cls, cls', stb)
                 /\ Puts(cls, cls', ClsPutting, Writable(in_fifo))
    BY <1>0, <2>1, UnitGoes
  <2>3. Going => DOMAIN cls' = DOMAIN cls
    BY DEF UnitSteps, Queues, WordGoes, NoWord, Ends
  <2> QED BY <1>0, <2>2, <2>3 DEF ClsShape
<1>2. CASE ClsIdle(stb)
  <2>1. CASE stb = 1
    <3>1. /\ DOMAIN cls' = DOMAIN cls /\ cls'.busy = 1 /\ cls'.w_en = 1
          /\ cls'.fsm = "START_ADDR_STROBED_W_EN" /\ cls.fsm = "IDLE"
          /\ cls'.page = 0 /\ cls'.column = 0
      BY <1>0, <1>2, <2>1 DEF ClsIdle, Goto, PutStart
    <3> QED BY <1>0, <2>1, <3>1
            DEF ClsShape, ClsCounts, Shape, Puts, Stays, ClsPutting, Firsts
  <2>2. CASE stb # 1
    <3>1. /\ cls' = [cls EXCEPT !.page = 0, !.column = 0] /\ cls.fsm = "IDLE"
      BY <1>2, <2>2 DEF ClsIdle
    <3>2. /\ DOMAIN cls' = DOMAIN cls /\ cls'.busy = cls.busy /\ cls'.w_en = cls.w_en
          /\ cls'.fsm = "IDLE" /\ cls'.page = 0 /\ cls'.column = 0
      BY <1>0, <3>1
    <3> QED BY <1>0, <3>1, <3>2 DEF ClsShape, ClsCounts, Shape, Puts, Stays, ClsPutting
  <2> QED BY <2>1, <2>2
<1>3. CASE ClsAddrQueued
  <2>1. /\ WordGoes(cls, cls') /\ cls.fsm = "START_ADDR_STROBED_W_EN"
        /\ cls'.fsm = "START_ADDR_STROBED_STB" /\ ClsCounts(cls')
    BY <1>0, <1>3 DEF ClsAddrQueued, Goto, Strobe, Release, WordGoes, ClsCounts
  <2> QED BY <1>1, <2>1 DEF UnitSteps, ClsPutting
<1>4. CASE ClsControl
  <2>1. CASE Writable(in_fifo)
    <3>1. /\ Queues(cls, cls') /\ cls.fsm = "START_ADDR_STROBED_STB"
          /\ cls'.fsm = "START_CONTROL_STROBED_W_EN" /\ ClsCounts(cls')
      BY <1>0, <1>4, <2>1 DEF ClsControl, Goto, Strobe, PutData, Queues, ClsCounts
    <3> QED BY <1>1, <2>1, <3>1 DEF UnitSteps, ClsPutting
  <2>2. CASE ~Writable(in_fifo)
    <3>1. /\ NoWord(cls, cls') /\ cls.fsm = "START_ADDR_STROBED_STB"
          /\ cls'.fsm = cls.fsm /\ ClsCounts(cls')
      BY <1>0, <1>4, <2>2 DEF ClsControl, Strobe, NoWord, ClsCounts
    <3> QED BY <1>1, <3>1 DEF UnitSteps, ClsPutting
  <2> QED BY <2>1, <2>2
<1>5. CASE ClsDataControl
  <2>1. CASE Writable(in_fifo)
    <3>1. /\ Queues(cls, cls') /\ cls.fsm = "LOOP_ADDR_UNSTROBED_W_EN"
          /\ cls'.fsm = "LOOP_CONTROL_STROBED_W_EN" /\ ClsCounts(cls')
      BY <1>0, <1>5, <2>1 DEF ClsDataControl, Goto, PutData, Queues, ClsCounts
    <3> QED BY <1>1, <2>1, <3>1 DEF UnitSteps, ClsPutting
  <2>2. CASE ~Writable(in_fifo)
    <3>1. /\ NoWord(cls, cls') /\ cls.fsm = "LOOP_ADDR_UNSTROBED_W_EN"
          /\ cls'.fsm = cls.fsm /\ ClsCounts(cls')
      BY <1>0, <1>5, <2>2 DEF ClsDataControl, NoWord, ClsCounts
    <3> QED BY <1>1, <3>1 DEF UnitSteps, ClsPutting
  <2> QED BY <2>1, <2>2
<1>6. ASSUME \E from \in ClsPutting : \E to :
               to \notin ClsPutting /\ to # "IDLE" /\ ClsStrobed(from, to)
      PROVE  Good
  <2>1. PICK from, to : /\ from \in ClsPutting /\ to \notin ClsPutting /\ to # "IDLE"
                        /\ ClsStrobed(from, to)
    BY <1>6
  <2>2. /\ WordGoes(cls, cls') /\ cls.fsm = from /\ cls'.fsm = to /\ from # "IDLE"
        /\ ClsCounts(cls')
    BY <1>0, <2>1 DEF ClsStrobed, Goto, Release, WordGoes, ClsPutting, ClsCounts
  <2>3. Going
    BY <2>1, <2>2 DEF UnitSteps
  <2> QED BY <1>1, <2>3
<1>7. ASSUME cls.fsm \notin ClsPutting, cls.fsm # "IDLE", cls' = Refused(cls)
      PROVE  Good
  <2>1. (NoWord(cls, cls') /\ cls'.fsm = cls.fsm) \/ Ends(cls, cls')
    BY <1>0, <1>7, RefusedEnds
  <2>2. ClsCounts(cls')
    BY <1>0, <1>7 DEF Refused, Done, Goto, ClsCounts
  <2>3. Going
    BY <1>7, <2>1, <2>2 DEF UnitSteps
  <2> QED BY <1>1, <2>3
<1>8. ASSUME \E n, to : /\ to \in ClsPutting /\ cls.fsm \notin ClsPutting
                        /\ cls.fsm # "IDLE" /\ ClsSend(cls.fsm, n, to)
      PROVE  Good
  <2>1. PICK n, to : /\ to \in ClsPutting /\ cls.fsm \notin ClsPutting
                     /\ cls.fsm # "IDLE" /\ ClsSend(cls.fsm, n, to)
    BY <1>8
  <2>2. CASE Ready
    <3>1. /\ Queues(cls, cls') /\ cls'.fsm = to /\ Writable(in_fifo) /\ ClsCounts(cls')
      BY <1>0, <2>1, <2>2 DEF ClsSend, Goto, PutNext, Queues, Ready, ClsCounts
    <3>2. Going
      BY <2>1, <3>1 DEF UnitSteps
    <3> QED BY <1>1, <3>2
  <2>3. CASE ~Ready
    <3>1. cls' = Refused(cls)
      BY <2>1, <2>3 DEF ClsSend
    <3> HIDE DEF Good
    <3> QED BY <1>7, <2>1, <3>1
  <2> QED BY <2>2, <2>3
<1>9. CASE ClsDataStart
  <2>1. CASE Ready
    <3>1. /\ Queues(cls, cls') /\ cls.fsm = "LOOP_PAGE_UNSTROBED_W_EN"
          /\ cls'.fsm = "LOOP_ADDR_STROBED_W_EN" /\ Writable(in_fifo) /\ ClsCounts(cls')
      BY <1>0, <1>9, <2>1 DEF ClsDataStart, Goto, PutStart, Queues, Ready, ClsCounts
    <3> QED BY <1>1, <3>1 DEF UnitSteps, ClsPutting
  <2>2. CASE ~Ready
    <3>1. cls' = Refused(cls) /\ cls.fsm = "LOOP_PAGE_UNSTROBED_W_EN"
      BY <1>9, <2>2 DEF ClsDataStart
    <3>2. cls.fsm \notin ClsPutting /\ cls.fsm # "IDLE"
      BY <3>1 DEF ClsPutting
    <3> HIDE DEF Good
    <3> QED BY <1>7, <3>1, <3>2
  <2> QED BY <2>1, <2>2
<1>10. CASE ClsLoop
  <2>1. cls.fsm = "LOOP_CONTROL_UNSTROBED_W_EN"
    BY <1>10 DEF ClsLoop
  <2>2. cls.fsm \notin ClsPutting /\ cls.fsm # "IDLE"
    BY <2>1 DEF ClsPutting
  <2>3. CASE Ready /\ cls.column # Columns
    <3>1. cls' = Goto(PutNext([cls EXCEPT !.column = @ + 1], 0), "LOOP_CONTROL_STROBED_W_EN")
      BY <1>10, <2>3 DEF ClsLoop
    <3>2. /\ Queues(cls, cls') /\ cls'.fsm = "LOOP_CONTROL_STROBED_W_EN"
          /\ cls'.page = cls.page /\ cls'.column = cls.column + 1
      BY <1>0, <3>1 DEF Goto, PutNext, Queues
    <3>3. ClsCounts(cls')
      BY <1>0, <2>3, <3>2 DEF ClsCounts
    <3> QED BY <1>1, <2>1, <2>3, <3>2, <3>3 DEF UnitSteps, ClsPutting, Ready
  <2>4. CASE Ready /\ cls.column = Columns /\ cls.page # LastPage
    <3>1. cls' = Goto(PutStart([cls EXCEPT !.column = 0, !.page = @ + 1]),
                      "LOOP_NEXT_PAGE_ADDR_STROBED_W_EN")
      BY <1>10, <2>4 DEF ClsLoop
    <3>2. /\ Queues(cls, cls') /\ cls'.fsm = "LOOP_NEXT_PAGE_ADDR_STROBED_W_EN"
          /\ cls'.page = cls.page + 1 /\ cls'.column = 0
      BY <1>0, <3>1 DEF Goto, PutStart, Queues
    <3>3. ClsCounts(cls')
      BY <1>0, <2>4, <3>2 DEF ClsCounts
    <3> QED BY <1>1, <2>1, <2>4, <3>2, <3>3 DEF UnitSteps, ClsPutting, Ready
  <2>5. CASE Ready /\ cls.column = Columns /\ cls.page = LastPage
    <3>1. cls' = Done(cls)
      BY <1>10, <2>5 DEF ClsLoop
    <3>2. Ends(cls, cls') /\ ClsCounts(cls')
      BY <1>0, <3>1 DEF Done, Goto, Ends, ClsCounts
    <3> QED BY <1>1, <2>2, <3>2 DEF UnitSteps
  <2>6. CASE ~Ready
    <3>1. cls' = Refused(cls)
      BY <1>10, <2>6 DEF ClsLoop
    <3> HIDE DEF Good
    <3> QED BY <1>7, <2>2, <3>1
  <2> QED BY <2>3, <2>4, <2>5, <2>6
<1>11. CASE \/ ClsSend("START_CONTROL_UNSTROBED_W_EN", SetLowerColumnAddress(0),
                       "START_COL_LOWER_STROBED_W_EN")
            \/ ClsSend("START_COL_LOWER_UNSTROBED_W_EN", SetHigherColumnAddress(0),
                       "START_COL_HIGHER_STROBED_W_EN")
            \/ ClsSend("START_COL_HIGHER_UNSTROBED_W_EN", SetPageAddress(cls.page),
                       "LOOP_PAGE_STROBED_W_EN")
  <2>1. \E from, n, to : ClsSend(from, n, to) /\ from \notin ClsPutting
                           /\ from # "IDLE" /\ to \in ClsPutting
    BY <1>11 DEF ClsPutting
  <2>2. PICK from, n, to : ClsSend(from, n, to) /\ from \notin ClsPutting
                             /\ from # "IDLE" /\ to \in ClsPutting
    BY <2>1
  <2>3. cls.fsm = from
    BY <2>2 DEF ClsSend
  <2> HIDE DEF Good
  <2> QED BY <1>8, <2>2, <2>3
<1>12. CASE
         \/ ClsStrobed("START_CONTROL_STROBED_W_EN",
                       IF cls.page = 0 THEN "START_CONTROL_UNSTROBED_W_EN"
                                       ELSE "START_COL_HIGHER_UNSTROBED_W_EN")
         \/ ClsStrobed("START_COL_LOWER_STROBED_W_EN",
                       "START_COL_LOWER_UNSTROBED_W_EN")
         \/ ClsStrobed("START_COL_HIGHER_STROBED_W_EN",
                       "START_COL_HIGHER_UNSTROBED_W_EN")
         \/ ClsStrobed("LOOP_PAGE_STROBED_W_EN", "LOOP_PAGE_UNSTROBED_W_EN")
         \/ ClsStrobed("LOOP_ADDR_STROBED_W_EN", "LOOP_ADDR_UNSTROBED_W_EN")
         \/ ClsStrobed("LOOP_CONTROL_STROBED_W_EN", "LOOP_CONTROL_UNSTROBED_W_EN")
         \/ ClsStrobed("LOOP_NEXT_PAGE_ADDR_STROBED_W_EN", "START_ADDR_STROBED_STB")
  <2>1. \E from \in ClsPutting : \E to :
          to \notin ClsPutting /\ to # "IDLE" /\ ClsStrobed(from, to)
    BY <1>12 DEF ClsPutting
  <2> HIDE DEF Good
  <2> QED BY <1>6, <2>1
<1> HIDE DEF Good
<1> QED BY <1>2, <1>3, <1>4, <1>5, <1>9, <1>10, <1>11, <1>12 DEF ClsStep

-------------------------------------------------------------------------------
(***************************************************************************)
(* The units on the bus.                                                   *)
(***************************************************************************)
AtRest(u) == u.fsm = "IDLE"

ShapesInv ==
  /\ Shape(loc, LocPutting) /\ ClsShape(cls) /\ ROMShape(wr) /\ ScrShape
  /\ scr.adjusted \in 0 .. Rows - 1

\* At most one unit is at work.
AloneInv ==
  /\ ~AtRest(wr) => AtRest(loc) /\ AtRest(cls) /\ AtRest(scr)
  /\ ~AtRest(loc) => AtRest(cls) /\ AtRest(scr)
  /\ ~AtRest(cls) => AtRest(scr)

AllIdle == AtRest(loc) /\ AtRest(cls) /\ AtRest(wr) /\ AtRest(scr)

\* What the OLED module asks for, and when.
Asked(r) ==
  \/ \E at, cell \in 0 .. Rows : r = Locate(at, cell)
  \/ r = Clear \/ r = Scroll
  \/ \E index \in Nat, rst \in Bit :
       /\ index + 1 \in DOMAIN Commands /\ Commands[index + 1][1] # <<>>
       /\ r = WriteROM(index, rst)

AskedInv == req = None \/ (Asked(req) /\ AllIdle)

FollowInv == \A r \in follow : Asked(r)

\* A unit with a word on its lines has room for it, unless it is the first START.
Roomy(u, putting) == u.fsm \in putting \ Firsts => Writable(in_fifo)

RoomInv ==
  /\ Roomy(loc, LocPutting) /\ Roomy(cls, ClsPutting)
  /\ Roomy(wr, ROMPutting) /\ Roomy(scr, ROMPutting)

WalksInv ==
  Walk(wr, rom_data, Writable(in_fifo)) /\ Walk(scr, rom_data, Writable(in_fifo))

CellInv == row \in 0 .. Rows /\ col \in 0 .. Rows

BusInv ==
  /\ ShapesInv /\ AloneInv /\ AskedInv /\ FollowInv /\ RoomInv /\ WalksInv /\ CellInv

LEMMA BusInit == WritersInit => BusInv
<1> SUFFICES ASSUME WritersInit PROVE BusInv
  OBVIOUS
<1>1. PICK n \in 0 .. Rows - 1 : n = 0 /\ UnitsInit(n)
  BY RowsAssumption DEF WritersInit
<1>2. /\ loc = IdleUnit /\ cls = IdleUnitWith([page |-> 0, column |-> 0])
      /\ wr = IdleUnitWith([addr |-> 0, offset |-> 0, remain |-> 0])
      /\ scr = IdleUnitWith([written |-> 0, adjusted |-> n, addr |-> 0,
                             offset |-> 0, remain |-> 0])
      /\ row = 0 /\ col = 0
  BY <1>1 DEF UnitsInit, LocInit, ClsInit, WrInit, ScrInit
<1>3. /\ {"fsm", "busy", "stb", "w_en", "w"} = DOMAIN loc
      /\ loc.fsm = "IDLE" /\ loc.busy = 0 /\ loc.w_en = 0
  BY <1>2 DEF IdleUnit
<1>4. /\ {"fsm", "busy", "stb", "w_en", "w", "page", "column"} = DOMAIN cls
      /\ cls.fsm = "IDLE" /\ cls.busy = 0 /\ cls.w_en = 0
      /\ cls.page = 0 /\ cls.column = 0
  BY <1>2 DEF IdleUnitWith, IdleUnit
<1>5. /\ {"fsm", "busy", "stb", "w_en", "w", "addr", "offset", "remain"} = DOMAIN wr
      /\ wr.fsm = "IDLE" /\ wr.busy = 0 /\ wr.w_en = 0
      /\ wr.offset = 0 /\ wr.remain = 0
  BY <1>2 DEF IdleUnitWith, IdleUnit
<1>6. /\ {"fsm", "busy", "stb", "w_en", "w", "addr", "offset", "remain",
          "written", "adjusted"} = DOMAIN scr
      /\ scr.fsm = "IDLE" /\ scr.busy = 0 /\ scr.w_en = 0
      /\ scr.offset = 0 /\ scr.remain = 0 /\ scr.adjusted = n
  BY <1>2 DEF IdleUnitWith, IdleUnit
<1>7. ShapesInv
  <2>1. Shape(loc, LocPutting)
    BY <1>3 DEF Shape, LocPutting
  <2>2. ClsShape(cls)
    BY <1>4, PagesAssumption DEF ClsShape, ClsCounts, Shape, ClsPutting
  <2>3. ROMShape(wr) /\ ROMShape(scr)
    BY <1>5, <1>6 DEF ROMShape, ROMFields, Shape, ROMPutting
  <2>4. scr.adjusted \in 0 .. Rows - 1
    BY <1>6
  <2> QED BY <1>6, <2>1, <2>2, <2>3, <2>4 DEF ShapesInv, ScrShape
<1>8. AloneInv /\ RoomInv
  BY <1>3, <1>4, <1>5, <1>6
     DEF AloneInv, RoomInv, Roomy, AtRest, LocPutting, ClsPutting, ROMPutting
<1>9. WalksInv
  <2>1. 0 \in 0 .. Len(ROMContent)
    BY ROMLaid
  <2>2. Between(wr) /\ Between(scr)
    BY <1>5, <1>6, <2>1 DEF Between
  <2> QED BY <2>2 DEF WalksInv, Walk
<1>10. AskedInv /\ FollowInv /\ CellInv
  BY <1>2, RowsAssumption DEF WritersInit, AskedInv, FollowInv, CellInv
<1> QED BY <1>7, <1>8, <1>9, <1>10 DEF BusInv

\* The unit that is at work has the bus and, if it reads the ROM, the ROM.
LEMMA OwnerIs ==
  ASSUME BusInv
  PROVE  /\ ~AtRest(loc) => Owner(IdleUnit) = loc
         /\ ~AtRest(cls) => Owner(IdleUnit) = cls
         /\ ~AtRest(wr) => Owner(IdleUnit) = wr /\ ROMAddr = wr.addr
         /\ ~AtRest(scr) => Owner(IdleUnit) = scr /\ ROMAddr = scr.addr
         /\ AllIdle => Owner(IdleUnit).w_en = 0
         /\ AnyBusy <=> ~AllIdle
<1>1. /\ loc.busy = IF AtRest(loc) THEN 0 ELSE 1
      /\ cls.busy = IF AtRest(cls) THEN 0 ELSE 1
      /\ wr.busy = IF AtRest(wr) THEN 0 ELSE 1
      /\ scr.busy = IF AtRest(scr) THEN 0 ELSE 1
  BY DEF BusInv, ShapesInv, ClsShape, ROMShape, ScrShape, Shape, AtRest
<1>2. AloneInv
  BY DEF BusInv
<1>3. ASSUME ~AtRest(wr) PROVE Owner(IdleUnit) = wr /\ ROMAddr = wr.addr
  BY <1>1, <1>3 DEF Owner, ROMAddr
<1>4. ASSUME ~AtRest(loc) PROVE Owner(IdleUnit) = loc
  BY <1>1, <1>2, <1>4 DEF Owner, AloneInv
<1>5. ASSUME ~AtRest(cls) PROVE Owner(IdleUnit) = cls
  BY <1>1, <1>2, <1>5 DEF Owner, AloneInv
<1>6. ASSUME ~AtRest(scr) PROVE Owner(IdleUnit) = scr /\ ROMAddr = scr.addr
  BY <1>1, <1>2, <1>6 DEF Owner, ROMAddr, AloneInv
<1>7. ASSUME AllIdle PROVE Owner(IdleUnit).w_en = 0
  <2>1. IdleUnit.w_en = 0
    BY DEF IdleUnit
  <2> QED BY <1>1, <1>7, <2>1 DEF Owner, AllIdle
<1>8. AnyBusy <=> ~AllIdle
  BY <1>1 DEF AnyBusy, AllIdle
<1> QED BY <1>3, <1>4, <1>5, <1>6, <1>7, <1>8

\* Room is kept but by the word of the unit at work.
LEMMA RoomKept ==
  ASSUME BusInv, NEW sda_i, Gateware(sda_i)
  PROVE  /\ ~AtRest(wr) => Keeps(wr, Writable(in_fifo), Writable(in_fifo)')
         /\ ~AtRest(scr) => Keeps(scr, Writable(in_fifo), Writable(in_fifo)')
         /\ Writable(in_fifo) /\ Owner(IdleUnit).w_en = 0 => Writable(in_fifo)'
<1>1. in_fifo' = FifoNext(in_fifo, Owner(IdleUnit).w_en, Owner(IdleUnit).w, r_en)
  BY DEF Gateware, Tick
<1>2. Writable(in_fifo) /\ Owner(IdleUnit).w_en = 0 => Writable(in_fifo)'
  BY <1>1 DEF FifoNext, Writable
<1>3. /\ wr.fsm \notin ROMPutting => wr.w_en = 0
      /\ scr.fsm \notin ROMPutting => scr.w_en = 0
  BY DEF BusInv, ShapesInv, ROMShape, ScrShape, Shape
<1> QED BY <1>2, <1>3, OwnerIs DEF Keeps

LEMMA AskedUnits ==
  ASSUME NEW r, Asked(r)
  PROVE  /\ r.unit \in {"locator", "clser", "rom_writer", "scroller"}
         /\ r.unit = "locator" => r.row \in 0 .. Rows /\ r.col \in 0 .. Rows
         /\ r.unit = "rom_writer" =>
              /\ r.index \in Nat /\ r.index + 1 \in DOMAIN Commands
              /\ Commands[r.index + 1][1] # <<>>
<1>1. ASSUME NEW at \in 0 .. Rows, NEW cell \in 0 .. Rows, r = Locate(at, cell)
      PROVE  r.unit = "locator" /\ r.row \in 0 .. Rows /\ r.col \in 0 .. Rows
  BY <1>1 DEF Locate
<1>2. ASSUME r = Clear \/ r = Scroll PROVE r.unit \in {"clser", "scroller"}
  BY <1>2 DEF Clear, Scroll
<1>3. ASSUME NEW index \in Nat, NEW rst \in Bit, index + 1 \in DOMAIN Commands,
             r = WriteROM(index, rst)
      PROVE  r.unit = "rom_writer" /\ r.index = index
  BY <1>3 DEF WriteROM
<1>4. CASE \E at, cell \in 0 .. Rows : r = Locate(at, cell)
  <2>1. r.unit = "locator" /\ r.row \in 0 .. Rows /\ r.col \in 0 .. Rows
    BY <1>1, <1>4
  <2> QED BY <2>1
<1>5. CASE \E index \in Nat, rst \in Bit :
             /\ index + 1 \in DOMAIN Commands /\ Commands[index + 1][1] # <<>>
             /\ r = WriteROM(index, rst)
  <2>1. PICK index \in Nat : /\ r.unit = "rom_writer" /\ r.index = index
                             /\ index + 1 \in DOMAIN Commands
                             /\ Commands[index + 1][1] # <<>>
    BY <1>3, <1>5
  <2> QED BY <2>1
<1> QED BY <1>2, <1>4, <1>5 DEF Asked

\* The user asks for what the units can do.
LEMMA UserAsks ==
  /\ \A r \in Requests \cup Prints : Asked(r)
  /\ \A r : Asked(r) => \A f \in Behind(r) : Asked(f)
<1>1. 1 \in 0 .. Rows /\ Rows \in 0 .. Rows
  BY RowsAssumption
<1>2. ASSUME NEW r, r \in Locates PROVE Asked(r)
  <2>1. PICK cell \in Cells : r = Locate(cell[1], cell[2])
    BY <1>2 DEF Locates
  <2>2. cell[1] \in 0 .. Rows /\ cell[2] \in 0 .. Rows
    BY CellsAssumption
  <2> QED BY <2>1, <2>2 DEF Asked
<1>3. ASSUME NEW i \in ROMIndices, NEW rst \in Bit PROVE Asked(WriteROM(i, rst))
  BY IndicesAssumption DEF Asked
<1>4. ASSUME NEW r \in Requests PROVE Asked(r)
  <2>1. CASE r = Clear
    BY <2>1 DEF Asked
  <2>2. CASE r \in {WriteROM(index, IF index = OFFSET_INIT THEN 1 ELSE 0) :
                      index \in ROMIndices \ Characters}
    <3>1. PICK i \in ROMIndices, rst \in Bit : r = WriteROM(i, rst)
      BY <2>2 DEF Bit
    <3> QED BY <1>3, <3>1
  <2> QED BY <1>2, <2>1, <2>2 DEF Requests
<1>5. ASSUME NEW r \in Prints PROVE Asked(r)
  <2>1. CASE r \in Glyphs
    <3>1. PICK i \in ROMIndices : r = WriteROM(i, 0)
      BY <2>1, IndicesAssumption DEF Glyphs
    <3> QED BY <1>3, <3>1 DEF Bit
  <2>2. CASE r = Scroll
    BY <2>2 DEF Asked
  <2> QED BY <1>2, <2>1, <2>2 DEF Prints
<1>6. ASSUME NEW r, NEW f \in Behind(r) PROVE Asked(f)
  <2>1. f \in {Locate(1, 1), Locate(Rows, 1), Scroll} \cup Locates
    BY <1>6, Zenon DEF Behind
  <2> QED BY <1>1, <1>2, <2>1 DEF Asked
<1> QED BY <1>4, <1>5, <1>6

\* A request is made of idle units only.
LEMMA Requested ==
  ASSUME BusInv
  PROVE  /\ req.unit # "none" => AllIdle
         /\ req.unit = "rom_writer" =>
              /\ req.index \in Nat /\ req.index + 1 \in DOMAIN Commands
              /\ Commands[req.index + 1][1] # <<>>
<1>1. CASE req = None
  BY <1>1 DEF None
<1>2. CASE Asked(req) /\ AllIdle
  BY <1>2, AskedUnits
<1> QED BY <1>1, <1>2 DEF BusInv, AskedInv

LEMMA BusNext == BusInv /\ [WritersNext]_vars => BusInv'
<1> SUFFICES ASSUME BusInv, [WritersNext]_vars PROVE BusInv'
  OBVIOUS
<1>1. CASE UNCHANGED vars
  <2>1. UNCHANGED <<unitVars, in_fifo, req, follow>>
    BY <1>1 DEF vars, i2cVars
  <2> QED BY <2>1
          DEF BusInv, ShapesInv, AloneInv, AskedInv, FollowInv, RoomInv, WalksInv, CellInv,
              ScrShape, AllIdle, unitVars, Writable, Roomy, AtRest
<1>2. CASE WritersNext
  <2>1. PICK sda_i \in Bit : Gateware(sda_i) /\ User
    BY <1>2 DEF WritersNext
  <2>2. PICK sl, sc, sw, ss, index, rst :
          /\ sl = Strobed(req, "locator") /\ sc = Strobed(req, "clser")
          /\ sw = Strobed(req, "rom_writer") /\ ss = Strobed(req, "scroller")
          /\ index = (IF sw = 1 THEN req.index ELSE 0)
          /\ rst = (IF sw = 1 THEN req.rst ELSE 0)
    OBVIOUS
  <2>3. /\ LocStep(sl, scr.adjusted) /\ ClsStep(sc) /\ WrStep(sw, index)
        /\ ScrStep(ss, rst) /\ ReadPort(ROMAddr)
    BY <2>1, <2>2 DEF Gateware, UnitsStep
  <2>4. /\ sl = 1 => req.unit = "locator"
        /\ sc = 1 => req.unit = "clser"
        /\ sw = 1 => req.unit = "rom_writer"
        /\ ss = 1 => req.unit = "scroller"
    BY <2>2 DEF Strobed
  <2>5. (sl = 1 \/ sc = 1 \/ sw = 1 \/ ss = 1) => AllIdle
    BY <2>4, Requested
  <2>6. sw = 1 => index \in Nat /\ index + 1 \in DOMAIN Commands
    BY <2>2, <2>4, Requested
  <2>7. /\ Shape(loc, LocPutting) /\ ClsShape(cls) /\ ROMShape(wr) /\ ScrShape
        /\ scr.adjusted \in 0 .. Rows - 1
    BY DEF BusInv, ShapesInv
  <2>8. /\ Shape(loc', LocPutting)
        /\ Puts(loc, loc', LocPutting, Writable(in_fifo)) /\ Stays(loc, loc', sl)
    BY <2>3, <2>7, LocMoves
  <2>9. /\ ClsShape(cls')
        /\ Puts(cls, cls', ClsPutting, Writable(in_fifo)) /\ Stays(cls, cls', sc)
    BY <2>3, <2>7, ClsMoves
  <2>10. /\ ROMShape(wr') /\ Stays(wr, wr', sw)
         /\ Moves(wr, wr', sw, index, rom_data, Writable(in_fifo))
    BY <2>3, <2>7, WrMoves
  <2>11. /\ ScrShape' /\ Stays(scr, scr', ss)
         /\ Moves(scr, scr', ss, OFFSET_SCROLL, rom_data, Writable(in_fifo))
    BY <2>3, <2>7, ScrMoves
  <2>12. ShapesInv'
    <3>1. scr'.adjusted \in 0 .. Rows - 1
      BY <2>3, <2>7, ScrAdjusts
    <3> QED BY <2>8, <2>9, <2>10, <2>11, <3>1 DEF ShapesInv
  <2>13. /\ ~AtRest(loc') => ~AtRest(loc) \/ (sl = 1 /\ AllIdle)
         /\ ~AtRest(cls') => ~AtRest(cls) \/ (sc = 1 /\ AllIdle)
         /\ ~AtRest(wr') => ~AtRest(wr) \/ (sw = 1 /\ AllIdle)
         /\ ~AtRest(scr') => ~AtRest(scr) \/ (ss = 1 /\ AllIdle)
    BY <2>5, <2>8, <2>9, <2>10, <2>11 DEF Stays, AtRest
  <2>14. AloneInv'
    <3>1. CASE AllIdle
      <4>1. /\ ~AtRest(loc') => req.unit = "locator"
            /\ ~AtRest(cls') => req.unit = "clser"
            /\ ~AtRest(wr') => req.unit = "rom_writer"
            /\ ~AtRest(scr') => req.unit = "scroller"
        BY <2>4, <2>13, <3>1 DEF AllIdle
      <4> QED BY <4>1 DEF AloneInv, AtRest
    <3>2. CASE ~AllIdle
      <4>1. /\ ~AtRest(loc') => ~AtRest(loc) /\ (~AtRest(cls') => ~AtRest(cls))
            /\ ~AtRest(cls') => ~AtRest(cls)
            /\ ~AtRest(wr') => ~AtRest(wr)
            /\ ~AtRest(scr') => ~AtRest(scr)
        BY <2>13, <3>2
      <4> QED BY <4>1 DEF BusInv, AloneInv, AtRest
    <3> QED BY <3>1, <3>2
  <2>15. Writable(in_fifo) /\ Owner(IdleUnit).w_en = 0 => Writable(in_fifo)'
    BY <2>1, RoomKept
  <2>16. /\ WalksInv'
         /\ Puts(wr, wr', ROMPutting, Writable(in_fifo))
         /\ Puts(scr, scr', ROMPutting, Writable(in_fifo))
    <3>1. rom_data' = ROMByte(ROMAddr)
      BY <2>3 DEF ReadPort
    <3>2. Walk(wr, rom_data, Writable(in_fifo)) /\ Walk(scr, rom_data, Writable(in_fifo))
      BY DEF BusInv, WalksInv
    <3>3. Writable(in_fifo) \in BOOLEAN /\ Writable(in_fifo)' \in BOOLEAN
      BY DEF Writable
    <3>5. /\ Walk(wr', rom_data', Writable(in_fifo)')
          /\ Puts(wr, wr', ROMPutting, Writable(in_fifo))
      <4>1. wr.fsm # "IDLE" => /\ Keeps(wr, Writable(in_fifo), Writable(in_fifo)')
                                 /\ rom_data' = ROMByte(wr.addr)
        BY <2>1, <3>1, RoomKept, OwnerIs DEF AtRest
      <4> QED BY <2>10, <3>2, <3>3, <4>1, <2>6, WalkGoes
    <3>6. /\ Walk(scr', rom_data', Writable(in_fifo)')
          /\ Puts(scr, scr', ROMPutting, Writable(in_fifo))
      <4>1. scr.fsm # "IDLE" => /\ Keeps(scr, Writable(in_fifo), Writable(in_fifo)')
                                 /\ rom_data' = ROMByte(scr.addr)
        BY <2>1, <3>1, RoomKept, OwnerIs DEF AtRest
      <4> QED BY <2>11, <3>2, <3>3, <4>1, ScrollAssumption, WalkGoes
    <3> QED BY <3>5, <3>6 DEF WalksInv
  <2>17. RoomInv'
    <3>1. ASSUME NEW u, NEW v, NEW putting, Shape(u, putting),
                 Puts(u, v, putting, Writable(in_fifo)), v.fsm \in putting \ Firsts,
                 AllIdle \/ Owner(IdleUnit) = u
          PROVE  Writable(in_fifo)'
      <4>1. Writable(in_fifo) /\ u.w_en = 0
        BY <3>1 DEF Puts, Shape
      <4>2. Owner(IdleUnit).w_en = 0
        BY <3>1, <4>1, OwnerIs
      <4> QED BY <2>15, <4>1, <4>2
    <3>2. /\ AtRest(loc') \/ AllIdle \/ Owner(IdleUnit) = loc
          /\ AtRest(cls') \/ AllIdle \/ Owner(IdleUnit) = cls
          /\ AtRest(wr') \/ AllIdle \/ Owner(IdleUnit) = wr
          /\ AtRest(scr') \/ AllIdle \/ Owner(IdleUnit) = scr
      BY <2>13, OwnerIs
    <3>3. /\ AtRest(loc') => loc'.fsm \notin LocPutting
          /\ AtRest(cls') => cls'.fsm \notin ClsPutting
          /\ AtRest(wr') => wr'.fsm \notin ROMPutting
          /\ AtRest(scr') => scr'.fsm \notin ROMPutting
      BY DEF AtRest, LocPutting, ClsPutting, ROMPutting
    <3>4. /\ Shape(cls, ClsPutting) /\ Shape(wr, ROMPutting) /\ Shape(scr, ROMPutting)
      BY <2>7 DEF ClsShape, ROMShape, ScrShape
    <3>5. loc'.fsm \in LocPutting \ Firsts => Writable(in_fifo)'
      BY <2>7, <2>8, <3>1, <3>2, <3>3
    <3>6. cls'.fsm \in ClsPutting \ Firsts => Writable(in_fifo)'
      BY <2>9, <3>1, <3>2, <3>3, <3>4
    <3>7. wr'.fsm \in ROMPutting \ Firsts => Writable(in_fifo)'
      BY <2>16, <3>1, <3>2, <3>3, <3>4
    <3>8. scr'.fsm \in ROMPutting \ Firsts => Writable(in_fifo)'
      BY <2>16, <3>1, <3>2, <3>3, <3>4
    <3> QED BY <3>5, <3>6, <3>7, <3>8 DEF RoomInv, Roomy
  <2>18. FollowInv /\ (req' = None \/ (Asked(req') /\ Free))
    <3>1. CASE Work
      BY <3>1 DEF Work, BusInv
    <3>2. CASE Ask \/ Draw
      BY <3>2, UserAsks DEF Ask, Draw, StrobeUnit, BusInv
    <3>3. CASE GoOn
      BY <3>3 DEF GoOn, StrobeUnit, BusInv, FollowInv
    <3> QED BY <2>1, <3>1, <3>2, <3>3 DEF User
  <2>19. FollowInv'
    <3>1. follow' = follow \/ (Asked(req') /\ follow' = Behind(req'))
      BY <2>1, <2>18, UserAsks DEF User, Work, Ask, Draw, GoOn, StrobeUnit, FollowInv
    <3>2. CASE follow' = follow
      BY <2>18, <3>2 DEF FollowInv, Asked
    <3>3. CASE Asked(req') /\ follow' = Behind(req')
      <4>1. \A f \in Behind(req') : Asked(f)
        BY <3>3, UserAsks
      <4> QED BY <3>3, <4>1 DEF FollowInv, Asked
    <3> QED BY <3>1, <3>2, <3>3
  <2>20. AskedInv'
    <3>1. CASE req' = None
      BY <3>1 DEF AskedInv
    <3>2. CASE Asked(req') /\ Free
      <4>1. AllIdle /\ req = None
        BY <3>2, OwnerIs DEF Free
      <4>2. req.unit = "none"
        BY <4>1 DEF None
      <4>3. sl # 1 /\ sc # 1 /\ sw # 1 /\ ss # 1
        BY <2>4, <4>2
      <4>4. AllIdle'
        BY <2>13, <4>1, <4>3 DEF AllIdle, AtRest
      <4>5. Asked(req)'
        BY <3>2 DEF Asked
      <4> QED BY <4>4, <4>5 DEF AskedInv
    <3> QED BY <2>18, <3>1, <3>2
  <2>21. CellInv'
    <3>1. TakeOperands(req', req # None) /\ row \in 0 .. Rows /\ col \in 0 .. Rows
      BY <2>1 DEF User, BusInv, CellInv
    <3>2. CASE req'.unit = "locator"
      <4>1. Asked(req')
        BY <2>18, <3>2 DEF None
      <4>2. req'.row \in 0 .. Rows /\ req'.col \in 0 .. Rows
        BY <3>2, <4>1, AskedUnits
      <4> QED BY <3>1, <3>2, <4>2 DEF TakeOperands, CellInv
    <3>3. CASE req'.unit # "locator"
      BY <3>1, <3>3, RowsAssumption DEF TakeOperands, CellInv
    <3> QED BY <3>2, <3>3
  <2> QED BY <2>12, <2>14, <2>16, <2>17, <2>19, <2>20, <2>21 DEF BusInv
<1> QED BY <1>1, <1>2

LEMMA BusAlways == WritersSpec => []BusInv
<1> QED BY BusInit, BusNext, PTL DEF WritersSpec

\* No command, however long, takes a unit's counters past the widths and
\* positions the code declares for them: ROM offsets stay inside the ROM.
THEOREM CountersHold == WritersSpec => []WritersTypeOK
<1>1. BusInv => WritersTypeOK
  <2> SUFFICES ASSUME BusInv PROVE WritersTypeOK
    OBVIOUS
  <2>1. row \in 0 .. Rows /\ col \in 0 .. Rows
    BY DEF BusInv, CellInv
  <2>2. cls.page \in 0 .. LastPage /\ cls.column \in 0 .. Columns
    BY DEF BusInv, ShapesInv, ClsShape, ClsCounts
  <2>3. Writable(in_fifo) \in BOOLEAN
    BY DEF Writable
  <2>4. /\ wr.offset \in 0 .. Len(ROMContent) /\ wr.remain \in 0 .. Len(ROMContent)
        /\ scr.offset \in 0 .. Len(ROMContent) /\ scr.remain \in 0 .. Len(ROMContent)
    BY <2>3, WalkBounds DEF BusInv, WalksInv
  <2>5. scr.adjusted \in 0 .. Rows - 1
    BY DEF BusInv, ShapesInv
  <2> QED BY <2>1, <2>2, <2>4, <2>5 DEF WritersTypeOK
<1> QED BY <1>1, BusAlways, PTL

-------------------------------------------------------------------------------
(***************************************************************************)
(* The controller while only the four units use it: it only writes.        *)
(***************************************************************************)
Sending == fsm \notin {"IDLE", "FIN_SCL_LOW", "FIN_SCL_HIGH"}

\* In how many cycles, at the least, the acknowledgement of the byte on the wire
\* is looked at: until then the user can still queue a word in time.
Ahead ==
  IF fsm = "WRITE_ACK_BIT_SCL_LOW" THEN ClkMax - cnt
  ELSE IF fsm = "WRITE_DATA_BIT_SCL_HIGH" /\ byte_ix = LastBit THEN 2 * ClkMax - cnt
  ELSE IF fsm \in {"START_WAIT_SCL", "WRITE_DATA_BIT_SCL_LOW", "WRITE_DATA_BIT_SCL_HIGH",
                   "REP_START_SCL_LOW", "REP_START_SCL_HIGH"} THEN 2 * ClkMax
  ELSE 0

\* What a unit queues: a START that asks for a write, or a byte.
ForUser(w) == w.kind = "DATA" \/ w = StartWord

WriteStates ==
  {"IDLE", "START_WAIT_SCL", "WRITE_DATA_BIT_SCL_LOW", "WRITE_DATA_BIT_SCL_HIGH",
   "WRITE_ACK_BIT_SCL_LOW", "WRITE_ACK_BIT_SCL_HIGH", "COMMON_ACK_BIT_SCL_HIGH",
   "REP_START_SCL_LOW", "REP_START_SCL_HIGH", "FIN_SCL_LOW", "FIN_SCL_HIGH"}

LineInv ==
  /\ fsm \in WriteStates /\ cnt \in 0 .. ClkMax - 1
  /\ ack \in Bit /\ r_en \in Bit /\ rw = W
  /\ busy = (IF fsm = "IDLE" THEN 0 ELSE 1) /\ en = busy
  /\ ack = 0 => fsm \in {"COMMON_ACK_BIT_SCL_HIGH", "FIN_SCL_LOW", "FIN_SCL_HIGH", "IDLE"}
  /\ r_en = 1 => /\ Queued
                 /\ fsm \in {"START_WAIT_SCL", "WRITE_DATA_BIT_SCL_LOW",
                             "REP_START_SCL_LOW", "FIN_SCL_LOW"}
  /\ in_fifo = <<>> \/ in_fifo = <<FrontWord>>
  /\ Queued => ForUser(FrontWord)

\* A word is taken from the queue, to be sent.
TakesWord == Queued /\ r_en = 0 /\ Sending' /\ r_en' = 1 /\ ack' = 1

\* The controller's step, as a unit sees it.
LineStep(stb) ==
  \/ fsm = "IDLE" /\ stb = 1 /\ TakesWord
  \/ /\ fsm = "IDLE" /\ ~(stb = 1 /\ Queued)
     /\ fsm' = "IDLE" /\ r_en' = 0 /\ ack' = ack /\ r_en = 0
  \/ Sending /\ ack = 1 /\ TakesWord
  \/ /\ Sending /\ Ahead = 0 /\ r_en = 0 /\ (~Queued \/ ack = 0)
     /\ fsm' = "FIN_SCL_LOW" /\ ack' = ack /\ r_en' = (IF Queued THEN 1 ELSE 0)
  \/ /\ Sending /\ Sending' /\ r_en' = 0
     /\ Ahead >= 1 => Ahead' >= Ahead - 1 /\ ack' = ack
     /\ r_en = 1 => Ahead >= 6
     /\ ack = 0 => ack' = 0
  \/ fsm \in {"FIN_SCL_LOW", "FIN_SCL_HIGH"} /\ ~Sending' /\ r_en' = 0 /\ ack' = ack

\* The words of the control bytes: what a unit may leave in the queue.
ControlWords == {DataWord(b) : b \in ControlBytes}

\* A START of the units asks for a write, and so does a control byte taken for one.
LEMMA StartWrites ==
  /\ RwOf(StartWord) = W
  /\ \A w \in ControlWords : RwOf(w) = W /\ ForUser(w)
<1>1. LastBit \in Nat /\ Addr \in Nat
  BY LastBitAssumption, AddrAssumption
<1>2. ASSUME NEW n \in Nat PROVE ByteOf(2 * n)[LastBit] = 0
  BY <1>1, <1>2 DEF ByteOf
<1>3. RwOf(StartWord) = W
  <2>1. StartWord.data = ByteOf(2 * Addr + 0) /\ 2 * Addr + 0 = 2 * Addr
    BY <1>1 DEF StartWord, W
  <2> QED BY <1>1, <1>2, <2>1 DEF RwOf, W
<1>4. ASSUME NEW w \in ControlWords PROVE RwOf(w) = W /\ ForUser(w)
  <2>1. PICK n \in Nat : w = DataWord(2 * n)
    <3>1. PICK b \in ControlBytes : w = DataWord(b)
      BY DEF ControlWords
    <3>2. b = 2 * 0 \/ b = 2 * 32 \/ b = 2 * 64 \/ b = 2 * 96
      BY DEF ControlBytes
    <3> QED BY <3>1, <3>2
  <2>2. w.kind = "DATA" /\ w.data = ByteOf(2 * n)
    BY <2>1 DEF DataWord
  <2> QED BY <1>2, <2>2 DEF RwOf, W, ForUser
<1> QED BY <1>3, <1>4

LEMMA AheadIs == LineInv => Ahead \in Nat /\ (Sending /\ r_en = 1 => Ahead >= 6)
<1>1. ClkMax \in Nat /\ ClkMax >= 3
  BY ClkMaxAssumption DEF CounterMax
<1> QED BY <1>1 DEF LineInv, Ahead, Sending

LEMMA LineMoves ==
  ASSUME LineInv, NEW stb, NEW w_en, NEW w, NEW sda_i \in Bit, Tick(stb, w_en, w, 0, sda_i),
         w_en = 1 => ForUser(w), fsm = "IDLE" /\ stb = 1 /\ Queued => RwOf(FrontWord) = W
  PROVE  LineInv' /\ LineStep(stb)
<1>1. ClkMax \in Nat /\ ClkMax >= 3 /\ ClkMax \div 2 < ClkMax - 1
  BY ClkMaxAssumption DEF CounterMax
<1>2. /\ cnt' = CounterNext(ClkMax, en, cnt) /\ in_fifo' = FifoNext(in_fifo, w_en, w, r_en)
      /\ FsmStep(stb, sda_i)
  BY DEF Tick
<1>3. /\ cnt \in 0 .. ClkMax - 1 /\ en \in Bit /\ ack \in Bit /\ r_en \in Bit
      /\ busy = (IF fsm = "IDLE" THEN 0 ELSE 1) /\ en = busy /\ rw = W /\ fsm \in WriteStates
  BY DEF LineInv, Bit
<1>4. /\ cnt' \in 0 .. ClkMax - 1 /\ cnt' <= cnt + 1
      /\ fsm # "IDLE" /\ Full => cnt' = 0
  BY <1>1, <1>2, <1>3 DEF CounterNext, Full, AtFull, Bit
<1> DEFINE Drops(limit) == \A a, b : a = limit - cnt /\ b = limit - cnt' => b >= a - 1
<1>25. Drops(ClkMax) /\ Drops(2 * ClkMax)
  <2>1. PICK c, d : c = cnt /\ d = cnt'
    OBVIOUS
  <2>2. c \in Nat /\ d \in Nat /\ d <= c + 1
    BY <1>1, <1>3, <1>4, <2>1
  <2> QED BY <1>1, <2>1, <2>2
<1>5. /\ in_fifo' = <<>> \/ in_fifo' = <<FrontWord'>>
      /\ Queued' => ForUser(FrontWord)'
      /\ Queued /\ r_en = 0 => Queued'
  <2>1. CASE Writable(in_fifo) /\ w_en = 1
    <3>1. in_fifo' = <<w>>
      BY <1>2, <2>1 DEF FifoNext
    <3>2. ForUser(w)' /\ FrontWord' = w
      BY <2>1, <3>1 DEF ForUser, FrontWord
    <3>3. ForUser(FrontWord)'
      BY <3>2 DEF ForUser
    <3> QED BY <2>1, <3>1, <3>2, <3>3 DEF Queued, Readable, Writable
  <2>2. CASE ~(Writable(in_fifo) /\ w_en = 1)
    <3>1. in_fifo' = (IF r_en = 1 THEN <<>> ELSE in_fifo)
      BY <1>2, <2>2 DEF FifoNext
    <3> QED BY <3>1 DEF Queued, Readable, FrontWord, LineInv, ForUser
  <2> QED BY <2>1, <2>2
<1>6. Queued => FrontWord.kind = "DATA" \/ FrontWord = StartWord
  BY DEF LineInv, ForUser
<1> DEFINE Good == LineInv' /\ LineStep(stb)
<1> SUFFICES Good
  OBVIOUS
<1>7. ASSUME fsm' \in WriteStates, ack' \in Bit, r_en' \in Bit, rw' = W,
             busy' = (IF fsm' = "IDLE" THEN 0 ELSE 1), en' = busy',
             ack' = 0 => fsm' \in {"COMMON_ACK_BIT_SCL_HIGH", "FIN_SCL_LOW", "FIN_SCL_HIGH", "IDLE"},
             r_en' = 1 => /\ Queued /\ r_en = 0
                          /\ fsm' \in {"START_WAIT_SCL", "WRITE_DATA_BIT_SCL_LOW",
                                       "REP_START_SCL_LOW", "FIN_SCL_LOW"}
      PROVE  LineInv'
  BY <1>4, <1>5, <1>7 DEF LineInv, WriteStates
<1>8. Ahead \in Nat /\ (Sending /\ r_en = 1 => Ahead >= 6)
  BY AheadIs
\* A step on which nothing is taken.
<1>9. ASSUME Sending, Sending', fsm' \in WriteStates, r_en' = 0, UNCHANGED <<statusVars, rw>>,
             ack = 0 => fsm' = "COMMON_ACK_BIT_SCL_HIGH",
             Ahead >= 1 => Ahead' >= Ahead - 1
      PROVE  Good
  <2>1. UNCHANGED <<en, busy, ack, rw>>
    BY <1>9 DEF statusVars
  <2>2. LineInv'
    BY <1>3, <1>7, <1>9, <2>1 DEF Sending, Bit
  <2>3. LineStep(stb)
    BY <1>8, <1>9, <2>1 DEF LineStep
  <2> QED BY <2>2, <2>3
<1>10. CASE Idle /\ ~(stb = 1 /\ Queued)
  <2>1. fsm = "IDLE" /\ fsm' = "IDLE" /\ r_en' = 0 /\ UNCHANGED <<en, busy, ack, rw>>
    BY <1>10 DEF Idle, statusVars, shiftVars
  <2>2. LineInv'
    BY <1>3, <1>7, <2>1 DEF Bit
  <2>3. r_en = 0
    BY <1>3, <2>1 DEF LineInv, Bit
  <2> QED BY <1>10, <2>1, <2>2, <2>3 DEF LineStep
<1>11. CASE IdleStart /\ stb = 1
  <2>1. /\ fsm = "IDLE" /\ Queued /\ fsm' = "START_WAIT_SCL" /\ r_en' = 1
        /\ busy' = 1 /\ ack' = 1 /\ en' = 1 /\ rw' = RwOf(FrontWord)
    BY <1>11 DEF IdleStart, Latch
  <2>2. r_en = 0
    BY <1>3, <2>1 DEF LineInv, Bit
  <2>3. rw' = W
    BY <1>11, <2>1
  <2>4. LineInv'
    BY <1>3, <1>7, <2>1, <2>2, <2>3 DEF Bit, WriteStates
  <2>5. TakesWord
    BY <2>1, <2>2 DEF TakesWord, Sending
  <2> QED BY <1>11, <2>1, <2>4, <2>5 DEF LineStep
<1>12. CASE StartWaitScl
  <2>1. /\ fsm = "START_WAIT_SCL" /\ fsm' \in {"START_WAIT_SCL", "WRITE_DATA_BIT_SCL_LOW"}
        /\ r_en' = 0 /\ UNCHANGED <<statusVars, rw>>
    BY <1>12 DEF StartWaitScl, Advance, shiftVars
  <2>2. Ahead' = 2 * ClkMax /\ Ahead = 2 * ClkMax
    BY <2>1 DEF Ahead
  <2>3. Ahead' >= Ahead - 1 /\ ack # 0
    BY <1>1, <2>1, <2>2 DEF LineInv
  <2> QED BY <1>9, <2>1, <2>3 DEF Sending, WriteStates
<1>13. CASE WriteDataBitLow
  <2>1. /\ fsm = "WRITE_DATA_BIT_SCL_LOW" /\ r_en' = 0 /\ UNCHANGED <<statusVars, rw, byte_ix>>
        /\ fsm' = IF Full THEN "WRITE_DATA_BIT_SCL_HIGH" ELSE "WRITE_DATA_BIT_SCL_LOW"
    BY <1>13 DEF WriteDataBitLow, Advance, shiftVars
  <2>2. Ahead = 2 * ClkMax /\ Ahead' = 2 * ClkMax
    <3>1. Ahead = 2 * ClkMax
      BY <2>1 DEF Ahead
    <3>2. CASE Full
      <4>1. fsm' = "WRITE_DATA_BIT_SCL_HIGH" /\ cnt' = 0
        BY <1>4, <2>1, <3>2
      <4>2. Ahead' = (IF byte_ix' = LastBit THEN 2 * ClkMax - 0 ELSE 2 * ClkMax)
        BY <4>1 DEF Ahead
      <4> QED BY <1>1, <3>1, <4>2
    <3>3. CASE ~Full
      BY <2>1, <3>1, <3>3 DEF Ahead
    <3> QED BY <3>2, <3>3
  <2>3. Ahead' >= Ahead - 1 /\ ack # 0
    BY <1>1, <2>1, <2>2 DEF LineInv
  <2> QED BY <1>9, <2>1, <2>3 DEF Sending, WriteStates
<1>14. CASE WriteDataBitHigh
  <2>1. /\ fsm = "WRITE_DATA_BIT_SCL_HIGH" /\ r_en' = 0 /\ UNCHANGED <<statusVars, rw>>
        /\ fsm' = (IF ~Full THEN fsm ELSE IF byte_ix = LastBit THEN "WRITE_ACK_BIT_SCL_LOW"
                                                    ELSE "WRITE_DATA_BIT_SCL_LOW")
        /\ ~Full => byte_ix' = byte_ix
    BY <1>14 DEF WriteDataBitHigh, Advance
  <2>2. CASE byte_ix = LastBit
    <3>1. Ahead = 2 * ClkMax - cnt
      BY <2>1, <2>2 DEF Ahead
    <3>2. CASE Full
      <4>1. Ahead' = ClkMax /\ cnt = ClkMax - 1
        BY <1>1, <1>4, <2>1, <2>2, <3>2 DEF Ahead, Full, AtFull
      <4> QED BY <1>1, <1>9, <2>1, <3>1, <4>1 DEF Sending, WriteStates, LineInv
    <3>3. CASE ~Full
      <4>1. Ahead' = 2 * ClkMax - cnt'
        BY <2>1, <2>2, <3>3 DEF Ahead
      <4>2. Ahead' >= Ahead - 1
        BY <1>25, <3>1, <4>1
      <4> QED BY <1>9, <2>1, <3>3, <4>2 DEF Sending, WriteStates, LineInv
    <3> QED BY <3>2, <3>3
  <2>3. CASE byte_ix # LastBit
    <3>1. Ahead = 2 * ClkMax /\ Ahead' = 2 * ClkMax
      BY <2>1, <2>3 DEF Ahead
    <3>2. Ahead' >= Ahead - 1 /\ ack # 0
      BY <1>1, <2>1, <3>1 DEF LineInv
    <3> QED BY <1>9, <2>1, <2>3, <3>2 DEF Sending, WriteStates
  <2> QED BY <2>2, <2>3
<1>15. CASE WriteAckBitLow
  <2>1. /\ fsm = "WRITE_ACK_BIT_SCL_LOW" /\ r_en' = 0 /\ UNCHANGED <<statusVars, rw>>
        /\ fsm' = IF Full THEN "WRITE_ACK_BIT_SCL_HIGH" ELSE fsm
    BY <1>15 DEF WriteAckBitLow, Advance, shiftVars
  <2>2. Ahead = ClkMax - cnt
    BY <2>1 DEF Ahead
  <2>3. Ahead' >= Ahead - 1
    <3>1. CASE Full
      <4>1. Ahead' = 0 /\ cnt = ClkMax - 1
        BY <2>1, <3>1 DEF Ahead, Full, AtFull
      <4> QED BY <1>1, <2>2, <4>1
    <3>2. CASE ~Full
      <4>1. Ahead' = ClkMax - cnt'
        BY <2>1, <3>2 DEF Ahead
      <4> QED BY <1>25, <2>2, <4>1
    <3> QED BY <3>1, <3>2
  <2>4. ack # 0
    BY <2>1 DEF LineInv
  <2> QED BY <1>9, <2>1, <2>3, <2>4 DEF Sending, WriteStates
<1>16. CASE WriteAckBitHigh(sda_i)
  <2>1. /\ fsm = "WRITE_ACK_BIT_SCL_HIGH" /\ r_en' = 0 /\ UNCHANGED <<en, busy, rw>>
        /\ fsm' = (IF Half THEN "COMMON_ACK_BIT_SCL_HIGH" ELSE fsm)
        /\ ack' = IF Half THEN 1 - sda_i ELSE ack
    BY <1>16 DEF WriteAckBitHigh, Advance, shiftVars
  <2>2. ack # 0 /\ r_en = 0 /\ Ahead = 0
    BY <1>3, <2>1 DEF LineInv, Bit, Ahead
  <2>3. ack' \in Bit
    BY <1>3, <2>1 DEF Bit
  <2>4. LineInv'
    BY <1>3, <1>7, <2>1, <2>2, <2>3 DEF Bit, WriteStates
  <2>5. Sending /\ Sending'
    BY <2>1 DEF Sending
  <2> QED BY <2>1, <2>2, <2>4, <2>5 DEF LineStep
<1>17. CASE AckWait
  <2>1. /\ fsm = "COMMON_ACK_BIT_SCL_HIGH" /\ fsm' = fsm /\ r_en' = 0
        /\ UNCHANGED <<statusVars, rw>>
    BY <1>17 DEF AckWait, shiftVars
  <2>2. Ahead = 0
    BY <2>1 DEF Ahead
  <2> QED BY <1>9, <2>1, <2>2 DEF Sending, WriteStates
<1>18. CASE NextWrite
  <2>1. /\ fsm = "COMMON_ACK_BIT_SCL_HIGH" /\ fsm' = "WRITE_DATA_BIT_SCL_LOW" /\ r_en' = 1
        /\ Queued /\ ack = 1 /\ UNCHANGED <<en, busy, ack, rw>>
    BY <1>18 DEF NextWrite, AckDone, Continues, Latch, statusVars
  <2>2. r_en = 0
    BY <1>3, <2>1 DEF LineInv, Bit
  <2>3. LineInv'
    BY <1>3, <1>7, <2>1, <2>2 DEF Bit, WriteStates
  <2>4. Sending /\ TakesWord
    BY <2>1, <2>2 DEF TakesWord, Sending
  <2> QED BY <2>1, <2>3, <2>4 DEF LineStep
<1>19. CASE RepeatStart
  <2>1. /\ fsm = "COMMON_ACK_BIT_SCL_HIGH" /\ fsm' = "REP_START_SCL_LOW" /\ r_en' = 1
        /\ Queued /\ ack = 1 /\ UNCHANGED <<en, busy, ack>> /\ rw' = RwOf(FrontWord)
        /\ FrontWord.kind = "START"
    BY <1>19 DEF RepeatStart, AckDone, Continues, Latch, statusVars
  <2>2. r_en = 0
    BY <1>3, <2>1 DEF LineInv, Bit
  <2>3. rw' = W
    BY <1>6, <2>1, StartWrites
  <2>4. LineInv'
    BY <1>3, <1>7, <2>1, <2>2, <2>3 DEF Bit, WriteStates
  <2>5. Sending /\ TakesWord
    BY <2>1, <2>2 DEF TakesWord, Sending
  <2> QED BY <2>1, <2>4, <2>5 DEF LineStep
<1>20. CASE Finish
  <2>1. /\ fsm = "COMMON_ACK_BIT_SCL_HIGH" /\ fsm' = "FIN_SCL_LOW"
        /\ r_en' = (IF Queued THEN 1 ELSE 0) /\ UNCHANGED <<en, busy, ack, rw>>
        /\ ~Continues("DATA") /\ ~(Continues("START") /\ rw = W)
    BY <1>20 DEF Finish, AckDone, statusVars, shiftVars
  <2>2. r_en = 0 /\ Ahead = 0
    BY <1>3, <2>1 DEF LineInv, Bit, Ahead
  <2>3. LineInv'
    BY <1>3, <1>7, <2>1, <2>2 DEF Bit, WriteStates
  <2>4. ~Queued \/ ack = 0
    <3>1. StartWord.kind = "START"
      BY DEF StartWord
    <3> QED BY <1>3, <1>6, <2>1, <3>1 DEF Continues, Bit
  <2>5. Sending
    BY <2>1 DEF Sending
  <2> QED BY <2>1, <2>2, <2>3, <2>4, <2>5 DEF LineStep
<1>21. CASE RepStartLow \/ RepStartHigh
  <2>1. /\ fsm \in {"REP_START_SCL_LOW", "REP_START_SCL_HIGH"}
        /\ fsm' \in {"REP_START_SCL_LOW", "REP_START_SCL_HIGH", "WRITE_DATA_BIT_SCL_LOW"}
        /\ r_en' = 0 /\ UNCHANGED <<statusVars, rw>>
    BY <1>21 DEF RepStartLow, RepStartHigh, Advance, shiftVars
  <2>2. Ahead = 2 * ClkMax /\ Ahead' = 2 * ClkMax
    BY <2>1 DEF Ahead
  <2>3. Ahead' >= Ahead - 1 /\ ack # 0
    BY <1>1, <2>1, <2>2 DEF LineInv
  <2> QED BY <1>9, <2>1, <2>3 DEF Sending, WriteStates
<1>22. CASE FinLow
  <2>1. /\ fsm = "FIN_SCL_LOW" /\ fsm' \in {"FIN_SCL_LOW", "FIN_SCL_HIGH"}
        /\ r_en' = 0 /\ UNCHANGED <<en, busy, ack, rw>>
    BY <1>22 DEF FinLow, Advance, statusVars, shiftVars
  <2>2. LineInv'
    BY <1>3, <1>7, <2>1 DEF Bit, WriteStates
  <2> QED BY <2>1, <2>2 DEF LineStep, Sending
<1>23. CASE FinHigh
  <2>1. /\ fsm = "FIN_SCL_HIGH" /\ fsm' = (IF Full THEN "IDLE" ELSE fsm)
        /\ r_en' = 0 /\ UNCHANGED <<ack, rw>>
        /\ en' = (IF Full THEN 0 ELSE en) /\ busy' = IF Full THEN 0 ELSE busy
    BY <1>23 DEF FinHigh, Advance, shiftVars
  <2>2. LineInv'
    BY <1>3, <1>7, <2>1 DEF Bit, WriteStates
  <2> QED BY <2>1, <2>2 DEF LineStep, Sending
<1>24. ~(ReadDataBitLow \/ ReadDataBitHigh(sda_i) \/ ReadDataBitLastHigh \/ ReadAckBitLow
         \/ NextRead)
  BY <1>3 DEF ReadDataBitLow, ReadDataBitHigh, ReadDataBitLastHigh, ReadAckBitLow, NextRead,
              Advance, WriteStates, W, R
<1> HIDE DEF Good
<1> QED BY <1>2, <1>10, <1>11, <1>12, <1>13, <1>14, <1>15, <1>16, <1>17, <1>18, <1>19, <1>20,
           <1>21, <1>22, <1>23, <1>24 DEF FsmStep

-------------------------------------------------------------------------------
(***************************************************************************)
(* A unit on the controller.  The unit has so far put n words of its       *)
(* script into its registers for the queue; when n words are not all, the  *)
(* next will be there in lag cycles at the latest, if the queue has room.  *)
(* The first is its START, whichever word is sent in its place.            *)
(***************************************************************************)
Fits(u, n, lag, words) ==
  /\ Len(words) \in Nat /\ Len(words) >= 2 /\ words = [i \in 1 .. Len(words) |-> words[i]]
  /\ words[1] \in {StartWord} \cup ControlWords /\ words[2] \in ControlWords
  /\ n \in 0 .. Len(words) /\ lag \in 0 .. 5
  /\ lag = 0 => n = Len(words) /\ u.w_en = 0
  /\ u.w_en = 1 => /\ n # 0 /\ lag = 1 /\ ForUser(u.w)
                   /\ u.w = (IF n = 1 THEN StartWord ELSE words[n])
  /\ u.stb = 1 => n = 1 /\ u.w_en = 0
  /\ u.w_en \in Bit /\ u.stb \in Bit

\* The unit puts a word, gives it to the queue, or waits: for room, for the
\* controller to be ready, or for a number of cycles.
PutsNext(u, n, lag, v, m, next) ==
  /\ u.w_en = 0 /\ v.w_en = 1 /\ v.stb = 0 /\ m = n + 1 /\ next = 1
  /\ n = 0 \/ (Writable(in_fifo) /\ lag >= 2)

GivesWord(u, n, v, m) ==
  u.w_en = 1 /\ v.w_en = 0 /\ m = n /\ (v.stb = 1 <=> n = 1)

WaitsOn(u, n, lag, v, m, next) ==
  /\ u.w_en = 0 /\ v.w_en = 0 /\ v.stb = 0 /\ m = n
  /\ \/ Queued \/ n = 0 \/ next < lag \/ (next = 0 /\ lag = 0)
     \/ next = lag /\ busy # 0 /\ ~Ready

Works(u, n, lag, v, m, next) ==
  \/ PutsNext(u, n, lag, v, m, next)
  \/ GivesWord(u, n, v, m)
  \/ WaitsOn(u, n, lag, v, m, next)

\* The unit ends its command: the controller is idle, or has taken all.
Stops(u, n, v, words) ==
  /\ v.fsm = "IDLE" /\ v.busy = 0 /\ v.stb = 0 /\ u.w_en = 0 /\ u.stb = 0 /\ n \notin {0, 1}
  /\ busy = 0 \/ (Ready /\ n = Len(words))

\* A unit has found the byte before acknowledged, or nearly sent, and will not
\* look at it again before it queues its next word.
Bold(u, n, words) ==
  /\ u.fsm \in {"LOOP_HEAD", "SEQ_BREAK_ADDRESSED_NEXTLEN1",
                "SEQ_BREAK_ADDRESSED_FOLLOWING"}
  /\ u.w_en = 0 /\ n \notin {0, 1} /\ n < Len(words) /\ words[n + 1] \notin ControlWords

\* A word is queued only by a unit that was ready for it, but for a START's
\* control byte.
Minds(u, n, v, m, words) ==
  /\ u.w_en = 0 /\ v.w_en = 1 /\ n # 0 =>
       Ready \/ Bold(u, n, words) \/ words[m] \in ControlWords
  /\ Bold(v, m, words) => u.w_en = 0 /\ (Ready \/ Bold(u, n, words))

\* Where the n words are: on the wire, but for one that waits.
Sent(words, k) == [i \in 1 .. k |-> words[i]]
Waits(u) == IF u.w_en = 1 \/ (Queued /\ r_en = 0) THEN 1 ELSE 0

\* Nothing of the command is on the wire.  The controller is idle, with a word left
\* behind or without, or still ends what it did before; the START is on its way.
Unsent(u, n) ==
  /\ taken = <<>> /\ r_en = 0
  /\ ack = 0 /\ Sending => ~Queued
  /\ \/ /\ u.stb = 0 /\ ((n = 0 /\ u.w_en = 0) \/ (n = 1 /\ u.w_en = 1))
        /\ Queued => fsm = "IDLE" /\ FrontWord = script[1] /\ FrontWord \in ControlWords
        /\ ~Queued => script[1] = StartWord
     \/ n = 1 /\ u.w_en = 0 /\ Queued /\ FrontWord = script[1]

\* All but the last of the n words are on the wire, and a next will be in time.
Underway(u, n, lag) ==
  /\ u.stb = 0 /\ n # 0
  /\ Waits(u) <= n - 1 /\ taken = Sent(script, n - Waits(u))
  /\ Queued /\ r_en = 0 => FrontWord = script[n]
  /\ busy = 1 => ack = 1
  /\ Bold(u, n, script) => ~Queued
  /\ \/ ~Sending /\ lag = 0 /\ ~Queued
     \/ Sending /\ (Queued \/ Ahead >= lag)

\* A byte is refused, and the controller stops.  What the unit still queues is a
\* START's control byte.
Stopping(u, n) ==
  /\ ack = 0 /\ n # 0 /\ ~(u.w_en = 1 /\ n = 1) /\ (u.stb = 1 => fsm # "IDLE")
  /\ ~Bold(u, n, script)
  /\ u.w_en = 1 => u.w \in ControlWords
  /\ Queued /\ r_en = 0 /\ ~Sending => FrontWord \in ControlWords

Serves(u, n, lag) ==
  \/ refused /\ Stopping(u, n)
  \/ ~refused /\ (Unsent(u, n) \/ Underway(u, n, lag))

LEMMA SentIs ==
  ASSUME NEW words, NEW k \in Nat, words = [i \in 1 .. Len(words) |-> words[i]]
  PROVE  /\ Len(Sent(words, k)) = k
         /\ Append(Sent(words, k), words[k + 1]) = Sent(words, k + 1)
         /\ Sent(words, 0) = <<>>
         /\ k = Len(words) => Sent(words, k) = words
<1>1. Len(Sent(words, k)) = k /\ Sent(words, 0) = <<>>
  BY DEF Sent
<1>2. Append(Sent(words, k), words[k + 1]) = Sent(words, k + 1)
  <2>1. Append(Sent(words, k), words[k + 1])
          = [i \in 1 .. k + 1 |-> IF i = k + 1 THEN words[k + 1] ELSE Sent(words, k)[i]]
    BY <1>1
  <2>2. ASSUME NEW i \in 1 .. k + 1
        PROVE  (IF i = k + 1 THEN words[k + 1] ELSE Sent(words, k)[i]) = words[i]
    BY DEF Sent
  <2> QED BY <2>1, <2>2 DEF Sent
<1>3. k = Len(words) => Sent(words, k) = words
  BY DEF Sent
<1> QED BY <1>1, <1>2, <1>3

\* What a step puts on the wire, of a command that goes on.
Forwards ==
  \/ taken' = taken /\ (refused' <=> refused)
  \/ /\ ~refused /\ Len(taken) < Len(script)
     /\ taken' = Append(taken, script[Len(taken) + 1]) /\ ~refused'
  \/ ~refused /\ refused' /\ UNCHANGED taken

\* The step of the controller and of the history while a unit u has the bus.
OnBus(u, n) ==
  /\ LineInv /\ LineInv' /\ LineStep(u.stb)
  /\ in_fifo' = FifoNext(in_fifo, u.w_en, u.w, r_en)
  /\ u.w_en = 1 /\ n # 1 => Writable(in_fifo)

Records ==
  /\ script' = script
  /\ taken' = (IF Takes THEN Append(taken, FrontWord) ELSE taken)
  /\ refused' = (refused \/ Refuses)

\* What the steps below need of the definitions above.
LEMMA Serving ==
  ASSUME NEW u, NEW v, NEW n, NEW lag, NEW m, NEW next, OnBus(u, n), Records,
         Fits(u, n, lag, script), Fits(v, m, next, script)
  PROVE  /\ n \in Nat /\ n <= Len(script) /\ lag \in Nat /\ lag <= 5
         /\ m \in Nat /\ m <= Len(script) /\ next \in Nat /\ next <= 5
         /\ Len(script) \in Nat /\ Len(script) >= 2
         /\ lag = 0 => n = Len(script) /\ u.w_en = 0
         /\ u.w_en = 1 => n # 0 /\ lag = 1 /\ u.w = (IF n = 1 THEN StartWord ELSE script[n])
         /\ v.w_en = 1 => m # 0 /\ v.w = (IF m = 1 THEN StartWord ELSE script[m])
         /\ u.stb = 1 => n = 1 /\ u.w_en = 0
         /\ v.stb = 1 => m = 1 /\ v.w_en = 0
         /\ u.w_en \in {0, 1} /\ v.w_en \in {0, 1} /\ u.stb \in {0, 1} /\ v.stb \in {0, 1}
         /\ script[2] \in ControlWords
         /\ Ahead \in Nat /\ Ahead' \in Nat /\ (Sending /\ r_en = 1 => Ahead >= 6)
         /\ script' = script /\ ack \in {0, 1} /\ ack' \in {0, 1} /\ r_en \in {0, 1}
         /\ r_en' \in {0, 1} /\ LineStep(u.stb)
         /\ busy = (IF fsm = "IDLE" THEN 0 ELSE 1)
         /\ busy' = (IF fsm' = "IDLE" THEN 0 ELSE 1)
         /\ r_en = 1 => Queued
         /\ r_en' = 1 => Queued'
         /\ u.w_en = 1 /\ n # 1 => ~Queued
         /\ ack = 0 /\ Sending => r_en = 0
         /\ ack' = 0 /\ Sending' => fsm' = "COMMON_ACK_BIT_SCL_HIGH"
         /\ u.w_en = 1 /\ ~Queued => Queued' /\ FrontWord' = u.w
         /\ (u.w_en = 0 \/ Queued) /\ r_en = 0 =>
              (Queued' <=> Queued) /\ FrontWord' = FrontWord
         /\ (u.w_en = 0 \/ Queued) /\ r_en = 1 => ~Queued'
<1>1. /\ n \in Nat /\ n <= Len(script) /\ lag \in Nat /\ lag <= 5
      /\ m \in Nat /\ m <= Len(script) /\ next \in Nat /\ next <= 5
      /\ Len(script) \in Nat /\ Len(script) >= 2
      /\ lag = 0 => n = Len(script) /\ u.w_en = 0
      /\ u.w_en = 1 => n # 0 /\ lag = 1 /\ u.w = (IF n = 1 THEN StartWord ELSE script[n])
      /\ v.w_en = 1 => m # 0 /\ v.w = (IF m = 1 THEN StartWord ELSE script[m])
      /\ u.stb = 1 => n = 1 /\ u.w_en = 0
      /\ v.stb = 1 => m = 1 /\ v.w_en = 0
      /\ u.w_en \in {0, 1} /\ v.w_en \in {0, 1} /\ u.stb \in {0, 1} /\ v.stb \in {0, 1}
      /\ script[2] \in ControlWords
  BY DEF Fits, Bit
<1>2. /\ Ahead \in Nat /\ Ahead' \in Nat /\ (Sending /\ r_en = 1 => Ahead >= 6)
  <2>1. (LineInv => Ahead \in Nat)'
    BY AheadIs, PTL
  <2> QED BY <2>1, AheadIs DEF OnBus
<1>3. /\ script' = script /\ ack \in {0, 1} /\ ack' \in {0, 1} /\ r_en \in {0, 1}
      /\ r_en' \in {0, 1} /\ LineStep(u.stb)
      /\ busy = (IF fsm = "IDLE" THEN 0 ELSE 1) /\ busy' = (IF fsm' = "IDLE" THEN 0 ELSE 1)
      /\ r_en = 1 => Queued
      /\ r_en' = 1 => Queued'
      /\ u.w_en = 1 /\ n # 1 => ~Queued
  BY DEF OnBus, Records, LineInv, Bit, Queued, Readable, Writable
<1>4. /\ ack = 0 /\ Sending => r_en = 0
      /\ ack' = 0 /\ Sending' => fsm' = "COMMON_ACK_BIT_SCL_HIGH"
  BY <1>3 DEF OnBus, LineInv, Sending, Bit
<1>5. /\ u.w_en = 1 /\ ~Queued => Queued' /\ FrontWord' = u.w
      /\ (u.w_en = 0 \/ Queued) /\ r_en = 0 => (Queued' <=> Queued) /\ FrontWord' = FrontWord
      /\ (u.w_en = 0 \/ Queued) /\ r_en = 1 => ~Queued'
  BY <1>1, <1>3 DEF OnBus, FifoNext, Queued, Readable, Writable, FrontWord
<1> QED BY <1>1, <1>2, <1>3, <1>4, <1>5

\* After a refusal nothing more is taken, and what is queued is a control byte.
LEMMA ServedStopping ==
  ASSUME NEW u, NEW v, NEW n, NEW lag, NEW m, NEW next, OnBus(u, n), Records,
         Fits(u, n, lag, script), Fits(v, m, next, script), Stopping(u, n), refused,
         Works(u, n, lag, v, m, next), Minds(u, n, v, m, script)
  PROVE  Serves(v, m, next)' /\ Forwards
<1>1. /\ ack = 0 /\ n # 0 /\ ~(u.w_en = 1 /\ n = 1) /\ (u.stb = 1 => fsm # "IDLE")
      /\ ~Bold(u, n, script) /\ (u.w_en = 1 => u.w \in ControlWords)
      /\ Queued /\ r_en = 0 /\ ~Sending => FrontWord \in ControlWords
  BY DEF Stopping
<1>2. ~Ready
  BY <1>1 DEF Ready
<1>3. n \in Nat /\ m \in Nat /\ u.w_en \in {0, 1}
  BY Serving
<1>4. ack' = 0 /\ ~Takes /\ (r_en' = 1 \/ Sending' \/ ~Sending \/ ~Queued)
  BY <1>1, Serving DEF LineStep, TakesWord, Takes, Sending
<1>5. m # 0 /\ v.stb = 0 /\ (v.w_en = 1 => m = n + 1 /\ u.w_en = 0)
  BY <1>1, <1>3, Serving DEF Works, PutsNext, GivesWord, WaitsOn
<1>6. ~Bold(v, m, script) /\ (v.w_en = 1 => m # 1 /\ v.w \in ControlWords)
  <2>1. ~Bold(v, m, script)
    BY <1>1, <1>2 DEF Minds
  <2>2. ASSUME v.w_en = 1 PROVE m # 1 /\ v.w \in ControlWords
    <3>1. m # 1
      BY <1>1, <1>3, <1>5, <2>2
    <3>2. v.w = script[m]
      BY <2>2, <3>1, Serving
    <3>3. script[m] \in ControlWords
      BY <1>1, <1>2, <1>5, <2>2 DEF Minds
    <3> QED BY <3>1, <3>2, <3>3
  <2> QED BY <2>1, <2>2
<1>7. ~Bold(v, m, script)'
  BY <1>6, Serving DEF Bold
<1>8. Queued' /\ r_en' = 0 /\ ~Sending' => FrontWord' \in ControlWords
  <2>1. CASE u.w_en = 1
    <3>1. ~Queued
      BY <1>1, <2>1, Serving
    <3> QED BY <1>1, <2>1, <3>1, Serving
  <2>2. CASE u.w_en = 0
    BY <1>1, <1>4, <2>2, Serving
  <2> QED BY <1>3, <2>1, <2>2
<1>9. (Queued /\ r_en = 0 /\ ~Sending => FrontWord \in ControlWords)'
  BY <1>8 DEF ControlWords
<1>10. (v.w_en = 1 => v.w \in ControlWords)'
  BY <1>6 DEF ControlWords
<1>11. Stopping(v, m)'
  BY <1>4, <1>5, <1>6, <1>7, <1>9, <1>10 DEF Stopping
<1>12. taken' = taken /\ refused'
  BY <1>4 DEF Records
<1> QED BY <1>11, <1>12 DEF Serves, Forwards

\* Until the first word is on the wire.
LEMMA ServedUnsent ==
  ASSUME NEW u, NEW v, NEW n, NEW lag, NEW m, NEW next, OnBus(u, n), Records,
         Fits(u, n, lag, script), Fits(v, m, next, script), Unsent(u, n), ~refused,
         Works(u, n, lag, v, m, next)
  PROVE  Serves(v, m, next)' /\ Forwards
<1>1. taken = <<>> /\ r_en = 0 /\ (ack = 0 /\ Sending => ~Queued)
  BY DEF Unsent
<1> DEFINE Coming(x, k) == x.stb = 0 /\ ((k = 0 /\ x.w_en = 0) \/ (k = 1 /\ x.w_en = 1))
           StartWaits == n = 1 /\ u.w_en = 0 /\ Queued /\ FrontWord = script[1]
<1>2. \/ /\ Coming(u, n)
         /\ Queued => fsm = "IDLE" /\ FrontWord = script[1] /\ FrontWord \in ControlWords
         /\ ~Queued => script[1] = StartWord
      \/ StartWaits
  BY DEF Unsent
\* The unit's own step.
<1>3. \/ Coming(u, n) /\ Coming(v, m) /\ u.w_en = 0 /\ (Queued' <=> Queued)
      \/ Coming(u, n) /\ m = 1 /\ v.w_en = 0 /\ Queued' /\ FrontWord' = script[1]
      \/ StartWaits /\ m = 1 /\ v.w_en = 0 /\ v.stb = 0 /\ Queued' /\ FrontWord' = script[1]
  <2>1. CASE StartWaits
    <3>1. Queued' /\ FrontWord' = script[1]
      BY <1>1, <2>1, Serving
    <3>2. ~Writable(in_fifo)
      BY <2>1 DEF Queued, Readable, Writable
    <3>3. m = 1 /\ v.w_en = 0 /\ v.stb = 0
      BY <2>1, <3>2 DEF Works, PutsNext, GivesWord, WaitsOn
    <3> QED BY <2>1, <3>1, <3>3
  <2>2. CASE Coming(u, n) /\ u.w_en = 0
    <3>1. Queued' <=> Queued
      BY <1>1, <2>2, Serving
    <3>2. Coming(v, m)
      BY <2>2 DEF Works, PutsNext, GivesWord, WaitsOn
    <3> QED BY <2>2, <3>1, <3>2
  <2>3. CASE Coming(u, n) /\ u.w_en = 1
    <3>1. n = 1 /\ m = 1 /\ v.w_en = 0
      BY <2>3 DEF Works, PutsNext, GivesWord, WaitsOn
    <3>2. u.w = StartWord
      BY <2>3, <3>1, Serving
    <3>3. Queued' /\ FrontWord' = script[1]
      BY <1>1, <1>2, <2>3, <3>2, Serving
    <3> QED BY <2>3, <3>1, <3>3
  <2> QED BY <1>2, <2>1, <2>2, <2>3
<1>4. /\ ack' \in {0, 1} /\ ack \in {0, 1} /\ script' = script /\ r_en' \in {0, 1}
      /\ LineStep(u.stb) /\ m \in Nat /\ Len(script) \in Nat /\ Len(script) >= 2
  BY Serving
<1>5. Queued' <=> in_fifo' # <<>>
  BY DEF Queued, Readable
\* The word is taken.
<1>6. ASSUME TakesWord, (fsm = "IDLE" /\ u.stb = 1) \/ Sending
      PROVE  Serves(v, m, next)' /\ Forwards
  <2>1. Queued /\ r_en' = 1 /\ ack' = 1 /\ Sending'
    BY <1>6 DEF TakesWord
  <2>2. StartWaits
    BY <1>2, <1>6, <2>1 DEF Sending
  <2>3. m = 1 /\ v.w_en = 0 /\ v.stb = 0 /\ Queued' /\ FrontWord = script[1]
    BY <1>3, <2>1, <2>2, Serving
  <2>4. taken' = Append(taken, script[1])
    <3>1. Takes
      BY <2>1 DEF Takes, Sending
    <3> QED BY <2>3, <3>1 DEF Records
  <2>5. ~refused'
    <3>1. ~Refuses
      BY <2>1 DEF Refuses
    <3> QED BY <3>1, Zenon DEF Records
  <2>6. taken' = Sent(script, 1)
    <3>1. Append(Sent(script, 0), script[0 + 1]) = Sent(script, 0 + 1) /\ Sent(script, 0) = <<>>
      BY SentIs DEF Fits
    <3> QED BY <1>1, <2>4, <3>1
  <2>7. Waits(v)' = 0
    BY <2>1, <2>3 DEF Waits
  <2>8. ~Bold(v, m, script)'
    BY <2>3 DEF Bold
  <2>9. Underway(v, m, next)'
    BY <1>4, <2>1, <2>3, <2>6, <2>7, <2>8 DEF Underway
  <2>10. Len(taken) = 0
    BY <1>1
  <2>11. Forwards
    BY <1>4, <2>4, <2>5, <2>10 DEF Forwards
  <2> QED BY <2>5, <2>9, <2>11 DEF Serves
\* No word is taken; what waits may be refused with the byte before it.
<1>7. ASSUME r_en' = 0, StartWaits \/ ~Queued \/ fsm' = "IDLE", Sending' \/ ~Refuses,
             Coming(v, m) /\ Queued => fsm' = "IDLE"
      PROVE  Serves(v, m, next)' /\ Forwards
  <2>1. taken' = <<>> /\ taken' = taken
    BY <1>1, <1>7 DEF Records, Takes
  <2>2. CASE Refuses
    <3>1. Queued' /\ Sending' /\ ack' = 0
      BY <1>5, <1>7, <2>1, <2>2 DEF Refuses
    <3>2. m = 1 /\ v.w_en = 0
      BY <1>2, <1>3, <1>7, <2>2, <3>1 DEF Refuses
    <3>3. ~Bold(v, m, script)'
      BY <3>2 DEF Bold
    <3>4. Stopping(v, m)'
      BY <3>1, <3>2, <3>3 DEF Stopping, Sending
    <3> QED BY <2>1, <2>2, <3>4 DEF Serves, Records, Forwards
  <2>3. CASE ~Refuses
    <3>1. ~refused'
      BY <2>3 DEF Records
    <3>2. ack' = 0 /\ Sending' => ~Queued'
      BY <1>5, <2>3, Serving DEF Refuses
    <3>3. CASE Coming(v, m) /\ (Queued' <=> Queued) /\ Coming(u, n) /\ u.w_en = 0
      <4>1. Queued => FrontWord' = FrontWord
        BY <1>1, <3>3, Serving
      <4>2. ~StartWaits
        BY <3>3
      <4>3. Queued' => fsm' = "IDLE" /\ FrontWord' = script'[1] /\ FrontWord' \in ControlWords
        BY <1>2, <1>4, <1>7, <3>3, <4>1, <4>2
      <4>4. (FrontWord \in ControlWords)' <=> FrontWord' \in ControlWords
        BY DEF ControlWords
      <4>5. ~Queued' => script'[1] = StartWord
        BY <1>2, <1>4, <3>3, <4>2
      <4> QED BY <1>7, <2>1, <3>1, <3>2, <3>3, <4>3, <4>4, <4>5 DEF Serves, Unsent, Forwards
    <3>4. CASE m = 1 /\ v.w_en = 0 /\ Queued' /\ FrontWord' = script[1]
      BY <1>4, <1>7, <2>1, <3>1, <3>2, <3>4 DEF Serves, Unsent, Forwards
    <3> QED BY <1>3, <3>3, <3>4
  <2> QED BY <2>2, <2>3
<1> HIDE DEF Coming, StartWaits
<1>8. CASE fsm = "IDLE" /\ u.stb = 1 /\ TakesWord
  BY <1>6, <1>8
<1>9. CASE Sending /\ ack = 1 /\ TakesWord
  BY <1>6, <1>9
<1>10. ASSUME Sending PROVE StartWaits \/ ~Queued
  BY <1>2, <1>10 DEF Sending
<1>105. ASSUME fsm # "IDLE" PROVE ~Queued \/ StartWaits
  BY <1>2, <1>105
<1>11. Coming(v, m) => ~StartWaits
  BY <1>3 DEF Coming, StartWaits
<1>12. CASE /\ fsm = "IDLE" /\ ~(u.stb = 1 /\ Queued)
            /\ fsm' = "IDLE" /\ r_en' = 0 /\ ack' = ack /\ r_en = 0
  BY <1>7, <1>12 DEF Refuses
<1>13. CASE /\ Sending /\ Ahead = 0 /\ r_en = 0 /\ (~Queued \/ ack = 0)
            /\ fsm' = "FIN_SCL_LOW" /\ ack' = ack /\ r_en' = (IF Queued THEN 1 ELSE 0)
  <2>1. ~Queued
    BY <1>1, <1>13
  <2> QED BY <1>7, <1>13, <2>1 DEF Refuses
<1>14. CASE /\ Sending /\ Sending' /\ r_en' = 0
            /\ Ahead >= 1 => Ahead' >= Ahead - 1 /\ ack' = ack
            /\ r_en = 1 => Ahead >= 6
            /\ ack = 0 => ack' = 0
  <2>1. StartWaits \/ ~Queued
    BY <1>10, <1>14
  <2> QED BY <1>7, <1>11, <1>14, <2>1
<1>15. CASE fsm \in {"FIN_SCL_LOW", "FIN_SCL_HIGH"} /\ ~Sending' /\ r_en' = 0 /\ ack' = ack
  <2>1. StartWaits \/ ~Queued
    BY <1>105, <1>15
  <2> QED BY <1>7, <1>11, <1>15, <2>1 DEF Refuses, Sending
<1> QED BY <1>4, <1>8, <1>9, <1>12, <1>13, <1>14, <1>15 DEF LineStep

\* While words are on the wire and none is refused.
LEMMA ServedUnderway ==
  ASSUME NEW u, NEW v, NEW n, NEW lag, NEW m, NEW next, OnBus(u, n), Records,
         Fits(u, n, lag, script), Fits(v, m, next, script), Underway(u, n, lag), ~refused,
         Works(u, n, lag, v, m, next), Minds(u, n, v, m, script)
  PROVE  Serves(v, m, next)' /\ Forwards
<1>1. /\ n \in Nat /\ n <= Len(script) /\ lag \in Nat /\ m \in Nat /\ next \in Nat
      /\ Len(script) \in Nat
      /\ lag = 0 => n = Len(script) /\ u.w_en = 0
      /\ u.w_en = 1 => lag = 1 /\ ~(n = 1)
      /\ u.w_en = 1 /\ n # 1 => u.w = script[n]
      /\ u.w_en \in {0, 1} /\ v.w_en \in {0, 1}
  BY Serving DEF Underway, Waits
<1>2. \A k \in Nat : /\ Len(Sent(script, k)) = k
                     /\ Append(Sent(script, k), script[k + 1]) = Sent(script, k + 1)
  BY SentIs DEF Fits
<1>3. /\ Ahead \in Nat /\ Ahead' \in Nat /\ (Sending /\ r_en = 1 => Ahead >= 6)
      /\ script' = script /\ ack \in {0, 1} /\ ack' \in {0, 1} /\ r_en \in {0, 1}
      /\ r_en' \in {0, 1} /\ LineStep(u.stb)
      /\ busy = (IF fsm = "IDLE" THEN 0 ELSE 1) /\ busy' = (IF fsm' = "IDLE" THEN 0 ELSE 1)
      /\ r_en = 1 => Queued
      /\ r_en' = 1 => Queued'
      /\ u.w_en = 1 => ~Queued
      /\ ack' = 0 /\ Sending' => fsm' = "COMMON_ACK_BIT_SCL_HIGH"
  BY <1>1, Serving
<1>4. /\ u.w_en = 1 => Queued' /\ FrontWord' = u.w
      /\ u.w_en = 0 /\ r_en = 0 => (Queued' <=> Queued) /\ FrontWord' = FrontWord
      /\ u.w_en = 0 /\ r_en = 1 => ~Queued'
  BY <1>3, Serving
<1>5. /\ u.stb = 0 /\ n # 0 /\ Waits(u) <= n - 1 /\ taken = Sent(script, n - Waits(u))
      /\ Queued /\ r_en = 0 => FrontWord = script[n]
      /\ busy = 1 => ack = 1
      /\ Bold(u, n, script) => ~Queued
      /\ \/ ~Sending /\ lag = 0 /\ ~Queued
         \/ Sending /\ (Queued \/ Ahead >= lag)
  BY DEF Underway
<1>6. /\ v.stb = 0 /\ m # 0
      /\ PutsNext(u, n, lag, v, m, next) \/ GivesWord(u, n, v, m)
           \/ WaitsOn(u, n, lag, v, m, next)
  <2>1. CASE PutsNext(u, n, lag, v, m, next)
    BY <1>1, <2>1 DEF PutsNext
  <2>2. CASE GivesWord(u, n, v, m)
    BY <1>1, <1>5, <2>2, Serving DEF GivesWord
  <2>3. CASE WaitsOn(u, n, lag, v, m, next)
    BY <1>5, <2>3 DEF WaitsOn
  <2> QED BY <2>1, <2>2, <2>3 DEF Works
<1>7. Bold(v, m, script) => u.w_en = 0 /\ ~Queued /\ ~Queued'
  <2> SUFFICES ASSUME Bold(v, m, script) PROVE u.w_en = 0 /\ ~Queued /\ ~Queued'
    OBVIOUS
  <2>1. u.w_en = 0 /\ (Ready \/ Bold(u, n, script))
    BY DEF Minds
  <2>2. ~Queued
    BY <1>5, <2>1 DEF Ready, Queued, Readable, Writable
  <2> QED BY <1>3, <1>4, <2>1, <2>2
<1>8. Bold(v, m, script)' <=> Bold(v, m, script)
  BY <1>3 DEF Bold, ControlWords
<1>9. taken # <<>>
  <2>1. PICK k : k = n - Waits(u)
    OBVIOUS
  <2>2. k \in Nat /\ k # 0 /\ taken = Sent(script, k)
    BY <1>1, <1>5, <2>1 DEF Waits
  <2>3. Len(taken) = k
    BY <1>2, <2>2
  <2>4. Len(<<>>) = 0
    OBVIOUS
  <2> QED BY <2>2, <2>3, <2>4
\* What is left to show once nothing is refused.
<1> DEFINE Place ==
             \/ ~Sending' /\ next = 0 /\ ~Queued'
             \/ Sending' /\ (Queued' \/ Ahead' >= next)
           Fronts == Queued' /\ r_en' = 0 => FrontWord' = script[m]
<1>10. ASSUME ~Takes, ~Refuses, busy' = 1 => ack' = 1, Waits(v)' <= m - 1,
              n - Waits(u) = m - Waits(v)', Fronts, Place
       PROVE  Serves(v, m, next)' /\ Forwards
  <2>1. taken' = taken /\ ~refused'
    <3>1. ~refused'
      BY <1>10, Zenon DEF Records
    <3> QED BY <1>10, <3>1 DEF Records
  <2>2. Underway(v, m, next)'
    BY <1>3, <1>5, <1>6, <1>7, <1>8, <1>10, <2>1 DEF Underway
  <2> QED BY <2>1, <2>2 DEF Serves, Forwards
<1>11. ASSUME Queued, r_en = 0, r_en' = 1, ack' = 1, Sending'
       PROVE  Serves(v, m, next)' /\ Forwards
  <2>1. u.w_en = 0 /\ Waits(u) = 1 /\ FrontWord = script[n] /\ Queued'
    BY <1>1, <1>3, <1>4, <1>5, <1>11 DEF Waits
  <2>2. Takes /\ ~Refuses
    BY <1>11 DEF Takes, Refuses, Sending
  <2>3. m = n /\ v.w_en = 0
    BY <1>5, <1>6, <1>11, <2>1 DEF PutsNext, GivesWord, WaitsOn, Queued, Readable, Writable
  <2>4. Waits(v)' = 0
    BY <1>11, <2>3 DEF Waits
  <2>5. PICK k : k = n - 1
    OBVIOUS
  <2>6. k \in Nat /\ k + 1 = n /\ taken = Sent(script, k)
    BY <1>1, <1>5, <2>1, <2>5
  <2>7. taken' = Append(taken, script[k + 1]) /\ taken' = Sent(script, k + 1) /\ Len(taken) = k
    BY <1>2, <2>1, <2>2, <2>6 DEF Records
  <2>8. ~refused'
    BY <2>2, Zenon DEF Records
  <2>9. ~Bold(v, m, script)'
    BY <1>7, <1>8, <1>11
  <2>10. Underway(v, m, next)'
    BY <1>1, <1>3, <1>6, <1>11, <2>1, <2>3, <2>4, <2>6, <2>7, <2>9 DEF Underway
  <2>11. taken' = Append(taken, script[Len(taken) + 1])
    <3>1. Len(taken) + 1 = k + 1
      BY <2>7
    <3> QED BY <2>7, <3>1, Zenon
  <2>12. Len(taken) < Len(script)
    BY <1>1, <2>6, <2>7
  <2>13. Forwards
    BY <2>8, <2>11, <2>12, Zenon DEF Forwards
  <2> QED BY <2>8, <2>10, <2>13 DEF Serves
<1>12. CASE fsm = "IDLE" /\ u.stb = 1 /\ TakesWord
  BY <1>5, <1>12
<1>13. CASE Sending /\ ack = 1 /\ TakesWord
  BY <1>11, <1>13 DEF TakesWord
\* The controller stops, or is idle: all is on the wire.
<1>14. ASSUME lag = 0, ~Queued, r_en' = 0, ~Sending', busy' = 1 => ack' = 1
       PROVE  Serves(v, m, next)' /\ Forwards
  <2>1. n = Len(script) /\ u.w_en = 0 /\ r_en = 0
    BY <1>1, <1>3, <1>14
  <2>2. ~Queued' /\ ~Takes /\ ~Refuses
    BY <1>4, <1>14, <2>1 DEF Takes, Refuses, Sending
  <2>3. m = n /\ v.w_en = 0 /\ next = 0
    BY <1>1, <1>5, <1>6, <1>14, <2>1 DEF PutsNext, GivesWord, WaitsOn
  <2>4. Waits(u) = 0 /\ Waits(v)' = 0
    BY <1>14, <2>1, <2>2, <2>3 DEF Waits
  <2>5. Place /\ Fronts
    BY <1>14, <2>2, <2>3
  <2> HIDE DEF Place, Fronts
  <2> QED BY <1>1, <1>5, <1>10, <1>14, <2>2, <2>3, <2>4, <2>5
<1>15. CASE /\ fsm = "IDLE" /\ ~(u.stb = 1 /\ Queued)
            /\ fsm' = "IDLE" /\ r_en' = 0 /\ ack' = ack /\ r_en = 0
  BY <1>3, <1>5, <1>14, <1>15 DEF Sending
<1>16. CASE /\ Sending /\ Ahead = 0 /\ r_en = 0 /\ (~Queued \/ ack = 0)
            /\ fsm' = "FIN_SCL_LOW" /\ ack' = ack /\ r_en' = (IF Queued THEN 1 ELSE 0)
  <2>1. busy = 1 /\ ack = 1
    BY <1>3, <1>5, <1>16 DEF Sending
  <2>2. ~Queued /\ lag = 0
    BY <1>1, <1>5, <1>16, <2>1
  <2> QED BY <1>14, <1>16, <2>1, <2>2 DEF Sending
<1>17. CASE fsm \in {"FIN_SCL_LOW", "FIN_SCL_HIGH"} /\ ~Sending' /\ r_en' = 0 /\ ack' = ack
  <2>1. busy = 1 /\ ack = 1 /\ ~Queued /\ lag = 0
    BY <1>3, <1>5, <1>17 DEF Sending
  <2> QED BY <1>14, <1>17, <2>1
<1>18. CASE /\ Sending /\ Sending' /\ r_en' = 0
            /\ Ahead >= 1 => Ahead' >= Ahead - 1 /\ ack' = ack
            /\ r_en = 1 => Ahead >= 6
            /\ ack = 0 => ack' = 0
  <2>1. /\ busy = 1 /\ ack = 1 /\ busy' = 1 /\ ~Takes
        /\ Queued \/ Ahead >= lag
    BY <1>3, <1>5, <1>18 DEF Sending, Takes
  <2>2. CASE ack' = 0
    <3>1. Ahead = 0 /\ r_en = 0
      BY <1>3, <1>18, <2>1, <2>2
    <3>2. taken' = taken
      BY <2>1 DEF Records
    <3>3. refused'
      BY <1>3, <1>9, <1>18, <2>2, <3>2 DEF Records, Refuses
    <3>4. u.w_en = 0
      BY <1>1, <1>3, <2>1, <3>1
    <3>5. v.w_en = 0
      BY <1>1, <1>5, <1>6, <2>1, <3>1, <3>4
         DEF PutsNext, GivesWord, WaitsOn, Queued, Readable, Writable
    <3>6. ~Bold(v, m, script)
      <4> SUFFICES ASSUME Bold(v, m, script) PROVE FALSE
        OBVIOUS
      <4>1. ~Queued
        BY <1>7
      <4>2. lag = 0
        BY <1>1, <2>1, <3>1, <4>1
      <4>3. m = n
        BY <1>6, <3>4, <3>5 DEF PutsNext, GivesWord, WaitsOn
      <4> QED BY <1>1, <4>2, <4>3 DEF Bold
    <3>7. Stopping(v, m)'
      BY <1>6, <1>8, <1>18, <2>2, <3>5, <3>6 DEF Stopping
    <3> QED BY <3>2, <3>3, <3>7 DEF Serves, Forwards
  <2>3. CASE ack' = 1
    <3>0. ~Refuses
      BY <2>3 DEF Refuses
    <3>1. CASE PutsNext(u, n, lag, v, m, next)
      <4>1. u.w_en = 0 /\ v.w_en = 1 /\ m = n + 1 /\ next = 1 /\ ~Queued /\ lag >= 2
        BY <1>5, <3>1 DEF PutsNext, Queued, Readable, Writable
      <4>2. r_en = 0 /\ ~Queued' /\ Ahead' >= next
        BY <1>1, <1>3, <1>4, <1>18, <2>1, <4>1
      <4>3. Waits(u) = 0 /\ Waits(v)' = 1
        BY <4>1 DEF Waits
      <4>4. Place /\ Fronts
        BY <1>1, <1>18, <4>1, <4>2
      <4>5. Waits(v)' <= m - 1 /\ n - Waits(u) = m - Waits(v)'
        BY <1>1, <1>5, <4>1, <4>3
      <4> HIDE DEF Place, Fronts
      <4> QED BY <1>10, <2>1, <2>3, <3>0, <4>4, <4>5
    <3>2. CASE GivesWord(u, n, v, m)
      <4>1. u.w_en = 1 /\ v.w_en = 0 /\ m = n
        BY <3>2 DEF GivesWord
      <4>2. Waits(u) = 1 /\ Queued' /\ FrontWord' = script[m] /\ Waits(v)' = 1
        BY <1>1, <1>4, <1>18, <4>1 DEF Waits
      <4>3. Place /\ Fronts
        BY <1>18, <4>1, <4>2
      <4> HIDE DEF Place, Fronts
      <4> QED BY <1>1, <1>5, <1>10, <2>1, <2>3, <3>0, <4>1, <4>2, <4>3
    <3>3. CASE WaitsOn(u, n, lag, v, m, next)
      <4>1. u.w_en = 0 /\ v.w_en = 0 /\ m = n
        BY <3>3 DEF WaitsOn
      <4>2. CASE r_en = 1
        <5>1. ~Queued' /\ Waits(u) = 0 /\ Waits(v)' = 0
          BY <1>4, <4>1, <4>2 DEF Waits
        <5>2. Ahead' >= next
          BY <1>1, <1>3, <1>18, <4>2, Serving
        <5>3. Place /\ Fronts
          BY <1>18, <4>1, <5>1, <5>2
        <5> HIDE DEF Place, Fronts
        <5> QED BY <1>1, <1>5, <1>10, <2>1, <2>3, <3>0, <4>1, <5>1, <5>3
      <4>3. CASE r_en = 0 /\ Queued
        <5>1. Queued' /\ FrontWord' = FrontWord /\ Waits(u) = 1 /\ Waits(v)' = 1
          BY <1>4, <1>18, <4>1, <4>3 DEF Waits
        <5>2. Place /\ Fronts
          BY <1>5, <1>18, <4>1, <4>3, <5>1
        <5> HIDE DEF Place, Fronts
        <5> QED BY <1>1, <1>5, <1>10, <2>1, <2>3, <3>0, <4>1, <5>1, <5>2
      <4>4. CASE r_en = 0 /\ ~Queued
        <5>1. ~Queued' /\ Waits(u) = 0 /\ Waits(v)' = 0 /\ Ready
          BY <1>4, <2>1, <4>1, <4>4 DEF Waits, Ready, Queued, Readable, Writable
        <5>2. next < lag \/ next = 0
          BY <1>5, <3>3, <4>4, <5>1 DEF WaitsOn
        <5>3. Ahead' >= next
          BY <1>1, <1>3, <1>18, <2>1, <4>4, <5>2
        <5>4. Place /\ Fronts
          BY <1>18, <4>1, <5>1, <5>3
        <5> HIDE DEF Place, Fronts
        <5> QED BY <1>1, <1>5, <1>10, <2>1, <2>3, <3>0, <4>1, <5>1, <5>4
      <4> QED BY <1>3, <4>2, <4>3, <4>4
    <3> QED BY <1>6, <3>1, <3>2, <3>3
  <2> QED BY <1>3, <2>2, <2>3
<1> HIDE DEF Place, Fronts
<1> QED BY <1>3, <1>12, <1>13, <1>15, <1>16, <1>17, <1>18 DEF LineStep

LEMMA Served ==
  ASSUME NEW u, NEW v, NEW n, NEW lag, NEW m, NEW next, OnBus(u, n), Records,
         Fits(u, n, lag, script), Fits(v, m, next, script), Serves(u, n, lag),
         Works(u, n, lag, v, m, next), Minds(u, n, v, m, script)
  PROVE  Serves(v, m, next)' /\ Forwards
<1>1. CASE refused /\ Stopping(u, n)
  BY <1>1, ServedStopping
<1>2. CASE ~refused /\ Unsent(u, n)
  BY <1>2, ServedUnsent
<1>3. CASE ~refused /\ Underway(u, n, lag)
  BY <1>3, ServedUnderway
<1> QED BY <1>1, <1>2, <1>3 DEF Serves

\* A command ends with all of its words on the wire, or refused.
LEMMA Ended ==
  ASSUME NEW u, NEW v, NEW n, NEW lag, LineInv, Fits(u, n, lag, script),
         Serves(u, n, lag), Stops(u, n, v, script)
  PROVE  refused \/ (taken = script /\ ~Queued)
<1> SUFFICES ASSUME ~refused PROVE taken = script /\ ~Queued
  OBVIOUS
<1>1. n \notin {0, 1} /\ u.w_en = 0 /\ u.stb = 0 /\ Len(script) \in Nat
      /\ (lag = 0 => n = Len(script))
  BY DEF Stops, Fits
<1>2. /\ Waits(u) <= n - 1 /\ taken = Sent(script, n - Waits(u))
      /\ \/ ~Sending /\ lag = 0 /\ ~Queued
         \/ Sending /\ (Queued \/ Ahead >= lag)
  BY <1>1 DEF Serves, Unsent, Underway
<1>3. n = Len(script) /\ Waits(u) = 0 /\ ~Queued
  <2>1. CASE busy = 0
    <3>1. ~Sending
      BY <2>1 DEF LineInv, Sending
    <3> QED BY <1>1, <1>2, <3>1 DEF Waits
  <2>2. CASE Ready /\ n = Len(script)
    <3>1. ~Queued
      BY <2>2 DEF Ready, Queued, Readable, Writable
    <3> QED BY <1>1, <2>2, <3>1 DEF Waits
  <2> QED BY <2>1, <2>2 DEF Stops
<1>4. taken = Sent(script, Len(script))
  BY <1>1, <1>2, <1>3
<1> QED BY <1>1, <1>3, <1>4, SentIs DEF Fits

\* The queue at the end is empty, but after a refusal: then it may hold a control
\* byte, and the controller is idle.
LEMMA Leaves ==
  ASSUME NEW u, NEW v, NEW n, NEW lag, OnBus(u, n), Fits(u, n, lag, script),
         Serves(u, n, lag), Stops(u, n, v, script)
  PROVE  Queued' => refused /\ fsm' = "IDLE" /\ FrontWord' \in ControlWords
<1>1. /\ LineInv /\ LineStep(u.stb) /\ u.w_en = 0 /\ u.stb = 0 /\ r_en \in {0, 1}
      /\ r_en = 1 => Queued
  BY DEF OnBus, Stops, LineInv, Bit
<1>2. /\ r_en = 0 => (Queued' <=> Queued) /\ FrontWord' = FrontWord
      /\ r_en = 1 => ~Queued'
  BY <1>1 DEF OnBus, FifoNext, Queued, Readable, FrontWord
<1>3. CASE ~refused
  <2>1. ~Queued
    BY <1>1, <1>3, Ended
  <2> QED BY <1>1, <1>2, <2>1
<1>4. CASE refused
  <2>1. ack = 0 /\ (Queued /\ r_en = 0 /\ ~Sending => FrontWord \in ControlWords)
    BY <1>4 DEF Serves, Stopping
  <2>2. busy = 0
    BY <2>1 DEF Stops, Ready
  <2>3. fsm = "IDLE"
    BY <1>1, <2>2 DEF LineInv
  <2>4. fsm' = "IDLE" /\ r_en = 0 /\ ~Sending
    BY <1>1, <2>3 DEF LineStep, Sending
  <2> QED BY <1>2, <1>4, <2>1, <2>4
<1> QED BY <1>3, <1>4

\* The step in which a unit is strobed, on a controller that is idle or not: the
\* unit's first word is on its lines, or it looks its words up.
LEMMA Opens ==
  ASSUME NEW v, NEW n, NEW w, LineInv, LineInv', LineStep(0),
         in_fifo' = FifoNext(in_fifo, 0, w, r_en),
         Queued => fsm = "IDLE" /\ FrontWord \in ControlWords,
         script'[1] = (IF Queued THEN FrontWord ELSE StartWord),
         v.stb = 0, (n = 1 /\ v.w_en = 1) \/ (n = 0 /\ v.w_en = 0),
         taken = <<>>, ~refused,
         taken' = (IF Takes THEN Append(taken, FrontWord) ELSE taken),
         refused' = (refused \/ Refuses)
  PROVE  Unsent(v, n)' /\ taken' = <<>> /\ ~refused'
<1>1. r_en = 0 /\ r_en' \in {0, 1} /\ (fsm = "IDLE" => fsm' = "IDLE")
  BY DEF LineInv, Bit, LineStep, Sending
<1>2. (Queued' <=> Queued) /\ FrontWord' = FrontWord
  BY <1>1 DEF FifoNext, Queued, Readable, FrontWord
<1>3. r_en' = 0
  BY DEF LineStep, TakesWord, Sending
<1>4. ~Takes
  BY <1>3 DEF Takes
<1>5. ~Refuses
  BY <1>1, <1>2, <1>4 DEF Refuses, Queued, Readable
<1>6. taken' = <<>> /\ ~refused'
  BY <1>4, <1>5, Zenon
<1>7. Queued' => fsm' = "IDLE" /\ FrontWord' = script'[1] /\ FrontWord' \in ControlWords
  BY <1>1, <1>2
<1>8. (FrontWord \in ControlWords)' <=> FrontWord' \in ControlWords
  BY DEF ControlWords
<1>9. ~Queued' => script'[1] = StartWord
  BY <1>2
<1>10. ack' = 0 /\ Sending' => ~Queued'
  BY <1>7 DEF Sending
<1> QED BY <1>3, <1>6, <1>7, <1>8, <1>9, <1>10 DEF Unsent
===============================================================================
