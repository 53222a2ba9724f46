------------------------------ MODULE Recursion -------------------------------
(***************************************************************************)
(* Induction over the natural numbers in a form that takes a set where the *)
(* library's takes an operator, what the proofs about recursive functions  *)
(* rest on; and what it says of sequences joined into one.                 *)
(***************************************************************************)
EXTENDS Naturals, SequenceTheorems, WellFoundedInduction, TLAPS

\* A set with zero and every successor has all natural numbers: of the others
\* there would be a smallest.
LEMMA Induct ==
  ASSUME NEW S, 0 \in S, \A n \in Nat : n \in S => n + 1 \in S
  PROVE  Nat \subseteq S
<1> DEFINE T == Nat \ S
<1> SUFFICES ASSUME T # {} PROVE FALSE
  OBVIOUS
<1>1. PICK m \in T : \A y \in T : ~(<<y, m>> \in OpToRel(<, Nat))
  <2>1. T \subseteq Nat
    OBVIOUS
  <2> HIDE DEF T
  <2> QED BY <2>1, WFMin, NatLessThanWellFounded
<1>2. m # 0 /\ m - 1 \in Nat
  OBVIOUS
<1>3. m - 1 \notin T
  <2>1. m - 1 < m /\ m \in Nat /\ m - 1 \in Nat
    BY <1>2
  <2>2. <<m - 1, m>> \in OpToRel(<, Nat)
    BY <2>1, Zenon DEF OpToRel
  <2> HIDE DEF T
  <2> QED BY <1>1, <2>2
<1> QED BY <1>2, <1>3

\* Of some of the first n numbers there is a largest.
LEMMA Largest ==
  ASSUME NEW n \in Nat, NEW S \in SUBSET (1 .. n), S # {}
  PROVE  \E i \in S : \A j \in S : j <= i
<1> DEFINE T == {m \in Nat : \E i \in S : m = n - i}
<1>1. T \subseteq Nat /\ T # {}
  <2>1. PICK i \in S : TRUE
    OBVIOUS
  <2>2. n - i \in Nat
    BY <2>1
  <2> QED BY <2>1, <2>2
<1>2. PICK m \in T : \A y \in T : ~(<<y, m>> \in OpToRel(<, Nat))
  <2> HIDE DEF T
  <2> QED BY <1>1, WFMin, NatLessThanWellFounded
<1>3. PICK i \in S : m = n - i
  OBVIOUS
<1>4. ASSUME NEW j \in S PROVE j <= i
  <2>1. n - j \in T /\ n - j \in Nat /\ m \in Nat /\ i \in 1 .. n /\ j \in 1 .. n
    OBVIOUS
  <2>2. ~(n - j < m)
    <3>1. n - j < m => <<n - j, m>> \in OpToRel(<, Nat)
      BY <2>1, Zenon DEF OpToRel
    <3> HIDE DEF T
    <3> QED BY <1>2, <2>1, <3>1
  <2> QED BY <1>3, <2>1, <2>2
<1> QED BY <1>4

-------------------------------------------------------------------------------
(***************************************************************************)
(* FlattenSeq (of the community modules), which joins sequences: where     *)
(* each of them, and each of its elements, goes.                           *)
(***************************************************************************)
LOCAL INSTANCE SequencesExt

\* The recursive function, for the first n of the sequences.
Flats(f, seqs, n) ==
  f = [i \in 1 .. n |-> IF i = 1 THEN seqs[i] ELSE f[i - 1] \o seqs[i]]

LEMMA FlatsExist ==
  ASSUME NEW seqs, NEW n \in Nat
  PROVE  \E f : Flats(f, seqs, n)
<1> DEFINE S == {v \in Nat : \E f : Flats(f, seqs, v)}
<1>1. 0 \in S
  <2>1. Flats([i \in 1 .. 0 |-> seqs[i]], seqs, 0)
    BY DEF Flats
  <2> QED BY <2>1
<1>2. ASSUME NEW v \in Nat, v \in S PROVE v + 1 \in S
  <2>1. PICK f : Flats(f, seqs, v)
    BY <1>2
  <2>2. PICK x : x = IF v = 0 THEN seqs[1] ELSE f[v] \o seqs[v + 1]
    OBVIOUS
  <2> DEFINE g == [i \in 1 .. v + 1 |-> IF i = v + 1 THEN x ELSE f[i]]
  <2>3. ASSUME NEW i \in 1 .. v + 1
        PROVE  g[i] = IF i = 1 THEN seqs[i] ELSE g[i - 1] \o seqs[i]
    <3>1. CASE i = v + 1 /\ i = 1
      <4>1. v = 0
        BY <3>1
      <4> QED BY <2>2, <3>1, <4>1
    <3>2. CASE i = v + 1 /\ i # 1
      <4>1. v # 0 /\ g[i] = x /\ g[i - 1] = f[v]
        BY <3>2
      <4> HIDE DEF g
      <4> QED BY <2>2, <3>2, <4>1
    <3>3. CASE i # v + 1 /\ i = 1
      <4>1. i \in 1 .. v
        BY <3>3
      <4>2. f[i] = seqs[i]
        BY <2>1, <3>3, <4>1 DEF Flats
      <4> QED BY <3>3, <4>2
    <3>4. CASE i # v + 1 /\ i # 1
      <4>1. i \in 1 .. v /\ i - 1 \in 1 .. v /\ i - 1 # v + 1
        BY <3>4
      <4>2. f[i] = f[i - 1] \o seqs[i]
        BY <2>1, <3>4, <4>1 DEF Flats
      <4>3. g[i] = f[i] /\ g[i - 1] = f[i - 1]
        BY <4>1
      <4> HIDE DEF g
      <4> QED BY <3>4, <4>2, <4>3
    <3> QED BY <3>1, <3>2, <3>3, <3>4
  <2>4. PICK h : h = g
    OBVIOUS
  <2>5. h = [i \in 1 .. v + 1 |-> h[i]]
    BY <2>4
  <2>6. \A i \in 1 .. v + 1 : h[i] = IF i = 1 THEN seqs[i] ELSE h[i - 1] \o seqs[i]
    BY <2>3, <2>4
  <2> HIDE DEF g
  <2>7. Flats(h, seqs, v + 1)
    BY <2>5, <2>6 DEF Flats
  <2> QED BY <2>7
<1>3. Nat \subseteq S
  <2> HIDE DEF S
  <2> QED BY <1>1, <1>2, Induct
<1> QED BY <1>3

FlatOf(seqs, n) == CHOOSE f : Flats(f, seqs, n)

Flattened(seqs) ==
  IF Len(seqs) = 0 THEN seqs ELSE FlatOf(seqs, Len(seqs))[Len(seqs)]

LEMMA FlattenIs ==
  ASSUME NEW seqs
  PROVE  FlattenSeq(seqs) = Flattened(seqs)
  BY DEF FlattenSeq, Flattened, FlatOf, Flats

\* A sequence joined to another one.
LEMMA JoinIs ==
  ASSUME NEW S, NEW a \in Seq(S), NEW b \in Seq(S), NEW r, r = a \o b
  PROVE  /\ r \in Seq(S) /\ Len(r) = Len(a) + Len(b)
         /\ Len(a) \in Nat /\ Len(b) \in Nat
         /\ \A j \in 1 .. Len(a) : r[j] = a[j]
         /\ \A j \in 1 .. Len(b) : r[Len(a) + j] = b[j]
<1>1. /\ a \o b \in Seq(S) /\ Len(a \o b) = Len(a) + Len(b)
      /\ Len(a) \in Nat /\ Len(b) \in Nat
      /\ \A i \in 1 .. Len(a) + Len(b) :
           (a \o b)[i] = IF i <= Len(a) THEN a[i] ELSE b[i - Len(a)]
  BY ConcatProperties
<1>2. PICK la, lb : la = Len(a) /\ lb = Len(b)
  OBVIOUS
<1>3. /\ la \in Nat /\ lb \in Nat
      /\ \A i \in 1 .. la + lb : r[i] = IF i <= la THEN a[i] ELSE b[i - la]
  BY <1>1, <1>2
<1>4. ASSUME NEW j \in 1 .. la PROVE r[j] = a[j]
  <2>1. j \in 1 .. la + lb /\ j <= la
    BY <1>3
  <2> QED BY <1>3, <2>1
<1>5. ASSUME NEW j \in 1 .. lb PROVE r[la + j] = b[j]
  <2>1. la + j \in 1 .. la + lb /\ ~(la + j <= la) /\ (la + j) - la = j
    BY <1>3
  <2> QED BY <1>3, <2>1
<1> QED BY <1>1, <1>2, <1>4, <1>5

JoinsUp(f, seqs, n) ==
  /\ n # 0 => f[1] = seqs[1]
  /\ \A i \in 1 .. n : i # 1 => f[i] = f[i - 1] \o seqs[i]

LEMMA FlatOfIs ==
  ASSUME NEW seqs, NEW n \in Nat
  PROVE  JoinsUp(FlatOf(seqs, n), seqs, n)
<1> DEFINE f == FlatOf(seqs, n)
<1>1. Flats(f, seqs, n)
  BY FlatsExist DEF FlatOf
<1> HIDE DEF f
<1>2. \A i \in 1 .. n : f[i] = IF i = 1 THEN seqs[i] ELSE f[i - 1] \o seqs[i]
  BY <1>1 DEF Flats
<1>3. n # 0 => f[1] = seqs[1]
  <2>1. n # 0 => 1 \in 1 .. n
    OBVIOUS
  <2> QED BY <1>2, <2>1
<1>4. \A i \in 1 .. n : i # 1 => f[i] = f[i - 1] \o seqs[i]
  BY <1>2, Zenon
<1>5. JoinsUp(f, seqs, n)
  BY <1>3, <1>4 DEF JoinsUp
<1> QED BY <1>5 DEF f

\* The first i sequences joined do not depend on how many there are.
LEMMA FlatOfPrefix ==
  ASSUME NEW seqs, NEW n \in Nat, NEW t, NEW m \in Nat, m <= n,
         \A i \in 1 .. m : t[i] = seqs[i]
  PROVE  \A i \in 1 .. m : FlatOf(t, m)[i] = FlatOf(seqs, n)[i]
<1>1. PICK f, g : f = FlatOf(seqs, n) /\ g = FlatOf(t, m)
  OBVIOUS
<1>2. /\ n # 0 => f[1] = seqs[1]
      /\ \A i \in 1 .. n : i # 1 => f[i] = f[i - 1] \o seqs[i]
      /\ m # 0 => g[1] = t[1]
      /\ \A i \in 1 .. m : i # 1 => g[i] = g[i - 1] \o t[i]
  <2>1. JoinsUp(FlatOf(seqs, n), seqs, n) /\ JoinsUp(FlatOf(t, m), t, m)
    BY FlatOfIs
  <2> QED BY <1>1, <2>1, Zenon DEF JoinsUp
<1> DEFINE S == {v \in Nat : v \in 1 .. m => g[v] = f[v]}
<1>3. 0 \in S
  OBVIOUS
<1>4. ASSUME NEW v \in Nat, v \in S PROVE v + 1 \in S
  <2>1. CASE v + 1 \in 1 .. m /\ v = 0
    <3>1. g[1] = t[1] /\ f[1] = seqs[1] /\ t[1] = seqs[1]
      BY <1>2, <2>1
    <3> QED BY <2>1, <3>1
  <2>2. CASE v + 1 \in 1 .. m /\ v # 0
    <3>1. v \in 1 .. m /\ v + 1 \in 1 .. n /\ v + 1 # 1 /\ (v + 1) - 1 = v
      BY <2>2
    <3>2. g[v + 1] = g[v] \o t[v + 1] /\ f[v + 1] = f[v] \o seqs[v + 1]
      BY <1>2, <2>2, <3>1
    <3>3. g[v] = f[v] /\ t[v + 1] = seqs[v + 1]
      BY <1>4, <2>2, <3>1
    <3>4. g[v + 1] = f[v + 1]
      BY <3>2, <3>3
    <3> QED BY <3>4
  <2>3. CASE v + 1 \notin 1 .. m
    BY <2>3
  <2> QED BY <2>1, <2>2, <2>3
<1>5. Nat \subseteq S
  <2> HIDE DEF S
  <2> QED BY <1>3, <1>4, Induct
<1> QED BY <1>1, <1>5

\* Where the joined sequences are: st[i] is how much comes before the one after
\* the i-th.
Placed(seqs, flat, st) ==
  /\ st[0] = 0
  /\ \A i \in 1 .. Len(seqs) : st[i] = st[i - 1] + Len(seqs[i])
  /\ \A i, k \in 0 .. Len(seqs) : i <= k => st[i] <= st[k]
  /\ Len(flat) = st[Len(seqs)]
  /\ \A i \in 1 .. Len(seqs) : \A j \in 1 .. Len(seqs[i]) :
       /\ st[i - 1] + j \in 1 .. Len(flat)
       /\ flat[st[i - 1] + j] = seqs[i][j]

LEMMA Places ==
  ASSUME NEW S, NEW seqs \in Seq(Seq(S))
  PROVE  /\ Flattened(seqs) \in Seq(S)
         /\ \E st \in [0 .. Len(seqs) -> Nat] :
              /\ Placed(seqs, Flattened(seqs), st)
              /\ \A i \in 0 .. Len(seqs) : st[i] = Len(Flattened(SubSeq(seqs, 1, i)))
<1>0. PICK n, flat : n = Len(seqs) /\ flat = Flattened(seqs)
  OBVIOUS
<1> USE <1>0
<1>1. n \in Nat /\ \A i \in 1 .. n : seqs[i] \in Seq(S) /\ Len(seqs[i]) \in Nat
  OBVIOUS
<1>2. PICK f : f = FlatOf(seqs, n)
  OBVIOUS
<1>3. /\ n # 0 => f[1] = seqs[1]
      /\ \A i \in 1 .. n : i # 1 => f[i] = f[i - 1] \o seqs[i]
  <2>1. JoinsUp(FlatOf(seqs, n), seqs, n)
    BY <1>1, FlatOfIs
  <2> QED BY <1>2, <2>1, Zenon DEF JoinsUp
<1> DEFINE st == [i \in 0 .. n |-> IF i = 0 THEN 0 ELSE Len(f[i])]
           Here(v) == /\ f[v] \in Seq(S) /\ st[v] = st[v - 1] + Len(seqs[v])
                      /\ \A k \in 0 .. v : st[k] \in Nat /\ st[k] <= st[v]
                      /\ \A k \in 1 .. v : \A j \in 1 .. Len(seqs[k]) :
                           /\ st[k - 1] + j \in 1 .. st[v]
                           /\ f[v][st[k - 1] + j] = seqs[k][j]
           T == {v \in Nat : v \in 1 .. n => Here(v)}
<1>4. 0 \in T
  OBVIOUS
<1>5. ASSUME NEW v \in Nat, v \in T PROVE v + 1 \in T
  <2>1. CASE v + 1 \in 1 .. n /\ v = 0
    <3>1. f[1] = seqs[1] /\ f[1] \in Seq(S) /\ Len(f[1]) \in Nat
      BY <1>1, <1>3, <2>1
    <3>2. st[0] = 0 /\ st[1] = Len(f[1])
      BY <2>1
    <3> HIDE DEF st
    <3>3. ASSUME NEW k \in 1 .. 1, NEW j \in 1 .. Len(seqs[k])
          PROVE  st[k - 1] + j \in 1 .. st[1] /\ f[1][st[k - 1] + j] = seqs[k][j]
      BY <3>1, <3>2
    <3>4. ASSUME NEW k \in 0 .. 1 PROVE st[k] \in Nat /\ st[k] <= st[1]
      BY <3>1, <3>2
    <3>5. Here(1)
      BY <3>1, <3>2, <3>3, <3>4
    <3> HIDE DEF Here
    <3>6. v + 1 = 1 /\ v + 1 \in Nat
      BY <2>1
    <3>7. Here(v + 1)
      BY <3>5, <3>6, Zenon
    <3> QED BY <3>6, <3>7
  <2>2. CASE v + 1 \in 1 .. n /\ v # 0
    <3>1. PICK w : w = v + 1
      OBVIOUS
    <3>2. /\ v \in 1 .. n /\ w \in 1 .. n /\ w # 1 /\ w - 1 = v /\ w \in Nat
          /\ seqs[w] \in Seq(S)
      BY <1>1, <2>2, <3>1
    <3>3. Here(v) /\ st[v] = Len(f[v]) /\ st[w] = Len(f[w])
      <4>1. st[v] = Len(f[v]) /\ st[w] = Len(f[w])
        BY <3>2
      <4> HIDE DEF st, Here
      <4>2. Here(v)
        BY <1>5, <3>2
      <4> QED BY <4>1, <4>2
    <3>4. f[w] = f[v] \o seqs[w]
      BY <1>3, <3>2
    <3> HIDE DEF st
    <3>5. /\ f[w] \in Seq(S) /\ st[w] = st[v] + Len(seqs[w])
          /\ st[v] \in Nat /\ Len(seqs[w]) \in Nat
          /\ \A j \in 1 .. st[v] : f[w][j] = f[v][j]
          /\ \A j \in 1 .. Len(seqs[w]) : f[w][st[v] + j] = seqs[w][j]
      <4>1. PICK a, b, r : a = f[v] /\ b = seqs[w] /\ r = f[w]
        OBVIOUS
      <4>2. a \in Seq(S) /\ b \in Seq(S) /\ r = a \o b
        BY <3>2, <3>3, <3>4, <4>1
      <4>3. /\ r \in Seq(S) /\ Len(r) = Len(a) + Len(b)
            /\ Len(a) \in Nat /\ Len(b) \in Nat
            /\ \A j \in 1 .. Len(a) : r[j] = a[j]
            /\ \A j \in 1 .. Len(b) : r[Len(a) + j] = b[j]
        BY <4>2, JoinIs
      <4>4. st[v] = Len(a) /\ st[w] = Len(r)
        BY <3>3, <4>1
      <4> QED BY <4>1, <4>3, <4>4
    <3>6. ASSUME NEW k \in 0 .. w PROVE st[k] \in Nat /\ st[k] <= st[w]
      <4>1. CASE k = w
        BY <3>5, <4>1
      <4>2. CASE k # w
        <5>1. k \in 0 .. v
          BY <3>1, <4>2
        <5>2. st[k] \in Nat /\ st[k] <= st[v]
          BY <3>3, <5>1
        <5> QED BY <3>5, <5>2
      <4> QED BY <4>1, <4>2
    <3>7. ASSUME NEW k \in 1 .. w, NEW j \in 1 .. Len(seqs[k])
          PROVE  st[k - 1] + j \in 1 .. st[w] /\ f[w][st[k - 1] + j] = seqs[k][j]
      <4>1. CASE k = w
        <5>1. k - 1 = v
          BY <3>2, <4>1
        <5>2. j \in 1 .. Len(seqs[w])
          BY <4>1, Zenon
        <5>3. f[w][st[v] + j] = seqs[w][j]
          BY <3>5, <5>2, Zenon
        <5>4. PICK a, b, c : a = st[v] /\ b = Len(seqs[w]) /\ c = st[w]
          OBVIOUS
        <5>5. a \in Nat /\ b \in Nat /\ c = a + b /\ j \in 1 .. b
          BY <3>5, <5>2, <5>4, Zenon
        <5>6. a + j \in 1 .. c
          BY <5>5
        <5> QED BY <4>1, <5>1, <5>3, <5>4, <5>6, Zenon
      <4>2. CASE k # w
        <5>1. k \in 1 .. v
          BY <3>1, <4>2
        <5>2. st[k - 1] + j \in 1 .. st[v] /\ f[v][st[k - 1] + j] = seqs[k][j]
          BY <3>3, <5>1
        <5>3. f[w][st[k - 1] + j] = f[v][st[k - 1] + j]
          BY <3>5, <5>2, Zenon
        <5>4. st[v] <= st[w] /\ st[w] \in Nat
          <6>1. PICK a, b, c : a = st[v] /\ b = Len(seqs[w]) /\ c = st[w]
            OBVIOUS
          <6>2. a \in Nat /\ b \in Nat /\ c = a + b
            BY <3>5, <6>1, Zenon
          <6> QED BY <6>1, <6>2
        <5>5. PICK q, a, c : q = st[k - 1] + j /\ a = st[v] /\ c = st[w]
          OBVIOUS
        <5>6. q \in 1 .. a /\ a \in Nat /\ c \in Nat /\ a <= c
          BY <3>5, <5>2, <5>4, <5>5, Zenon
        <5>7. q \in 1 .. c
          BY <5>6
        <5> QED BY <5>2, <5>3, <5>5, <5>7, Zenon
      <4> QED BY <4>1, <4>2
    <3>8. Here(w)
      BY <3>2, <3>5, <3>6, <3>7
    <3> QED BY <3>1, <3>2, <3>8
  <2>3. CASE v + 1 \notin 1 .. n
    BY <2>3
  <2> QED BY <2>1, <2>2, <2>3
<1>6. \A v \in 1 .. n : Here(v)
  <2>1. Nat \subseteq T
    <3> HIDE DEF T
    <3> QED BY <1>4, <1>5, Induct
  <2> HIDE DEF Here
  <2> QED BY <2>1
<1>7. /\ flat \in Seq(S) /\ Len(flat) = st[n] /\ (n # 0 => flat = f[n])
  <2>1. CASE n = 0
    <3>1. seqs = <<>>
      <4>1. Len(seqs) = 0 /\ seqs \in Seq(Seq(S))
        BY <2>1
      <4> QED BY <4>1, EmptySeq
    <3>2. flat = <<>>
      BY <2>1, <3>1 DEF Flattened
    <3> QED BY <2>1, <3>2
  <2>2. CASE n # 0
    <3>1. n \in 1 .. n /\ flat = f[n]
      BY <1>1, <1>2, <2>2 DEF Flattened
    <3>2. f[n] \in Seq(S) /\ st[n] = Len(f[n])
      <4>1. st[n] = Len(f[n])
        BY <2>2, <3>1
      <4> HIDE DEF st
      <4> QED BY <1>6, <3>1, <4>1
    <3> HIDE DEF st
    <3> QED BY <3>1, <3>2
  <2> QED BY <2>1, <2>2
<1>8. st \in [0 .. n -> Nat]
  <2>1. ASSUME NEW i \in 0 .. n PROVE st[i] \in Nat
    <3>1. CASE i = 0
      BY <3>1
    <3>2. CASE i # 0
      <4>1. i \in 1 .. n /\ i \in 0 .. i
        BY <1>1, <3>2
      <4> HIDE DEF st
      <4> QED BY <1>6, <4>1
    <3> QED BY <3>1, <3>2
  <2>2. st = [i \in 0 .. n |-> st[i]]
    OBVIOUS
  <2>3. PICK g : g = st
    OBVIOUS
  <2> HIDE DEF st
  <2> QED BY <2>1, <2>2, <2>3
<1>9. Placed(seqs, flat, st)
  <2>1. st[0] = 0
    OBVIOUS
  <2> HIDE DEF st
  <2>2. \A i \in 1 .. n : st[i] = st[i - 1] + Len(seqs[i])
    BY <1>6
  <2>3. ASSUME NEW i \in 0 .. n, NEW k \in 0 .. n, i <= k PROVE st[i] <= st[k]
    <3>1. CASE k = 0
      <4>1. i = k /\ st[k] \in Nat
        BY <1>8, <2>3, <3>1
      <4> QED BY <4>1
    <3>2. CASE k # 0
      <4>1. k \in 1 .. n /\ i \in 0 .. k
        BY <1>1, <2>3, <3>2
      <4> QED BY <1>6, <4>1
    <3> QED BY <3>1, <3>2
  <2>4. ASSUME NEW i \in 1 .. n, NEW j \in 1 .. Len(seqs[i])
        PROVE  st[i - 1] + j \in 1 .. Len(flat) /\ flat[st[i - 1] + j] = seqs[i][j]
    <3>1. n \in 1 .. n /\ flat = f[n] /\ Len(flat) = st[n]
      BY <1>1, <1>7
    <3>2. Here(n)
      BY <1>6, <3>1
    <3> QED BY <3>1, <3>2
  <2> QED BY <1>7, <2>1, <2>2, <2>3, <2>4 DEF Placed
<1>10. ASSUME NEW i \in 0 .. n PROVE st[i] = Len(Flattened(SubSeq(seqs, 1, i)))
  <2>1. PICK t : t = SubSeq(seqs, 1, i)
    OBVIOUS
  <2>2. i \in Nat /\ Len(t) = i /\ \A k \in 1 .. i : t[k] = seqs[k]
    BY <1>1, <2>1
  <2>3. CASE i = 0
    <3>1. Flattened(t) = t /\ st[i] = 0
      BY <2>2, <2>3 DEF Flattened
    <3> HIDE DEF st
    <3> QED BY <2>1, <2>2, <2>3, <3>1
  <2>4. CASE i # 0
    <3>1. Flattened(t) = FlatOf(t, i)[i] /\ st[i] = Len(f[i])
      BY <2>2, <2>4 DEF Flattened
    <3>2. i <= n /\ i \in 1 .. i
      BY <1>1, <2>2, <2>4
    <3>3. FlatOf(t, i)[i] = f[i]
      <4>1. \A k \in 1 .. i : FlatOf(t, i)[k] = FlatOf(seqs, n)[k]
        BY <1>1, <2>2, <3>2, FlatOfPrefix
      <4> QED BY <1>2, <3>2, <4>1
    <3> HIDE DEF st
    <3> QED BY <2>1, <3>1, <3>3
  <2> QED BY <2>3, <2>4
<1> HIDE DEF st
<1> QED BY <1>0, <1>7, <1>8, <1>9, <1>10
================================================================================
