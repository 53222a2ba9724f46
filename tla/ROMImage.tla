------------------------------- MODULE ROMImage -------------------------------
(***************************************************************************)
(* The layout of the flash ROM, sh1107/rom/__init__.py.  A command is a    *)
(* sequence of parts, each of which is the bytes of one I2C transmission.  *)
(* An index of (offset, length of the first part) pairs comes first; each  *)
(* part is followed by the length of the next, or by zero.                 *)
(***************************************************************************)
EXTENDS Naturals, Sequences
LOCAL INSTANCE SequencesExt

CONSTANT Commands   \* the commands of the image; the first has index 0

\* A command has a part, empty only if it is the one part: the code asserts that
\* no later part is empty, and of its commands only those of one part may be.
ASSUME CommandsAssumption ==
  /\ Commands \in Seq(Seq(Seq(0 .. 255)))
  /\ \A k \in DOMAIN Commands :
       /\ Commands[k] # <<>>
       /\ \A i \in DOMAIN Commands[k] :
            Commands[k][i] = <<>> => Len(Commands[k]) = 1

VARIABLE rom_data   \* the byte the ROM's read port puts out

Concatenation(seqs) == FlattenSeq(seqs)

\* struct.pack("<H", n)
LittleEndian(n) == <<n % 256, n \div 256>>

\* The bytes of a command: each part with the length of the one that follows.
Body(parts) ==
  Concatenation([i \in DOMAIN parts |->
    parts[i] \o LittleEndian(IF i = Len(parts) THEN 0 ELSE Len(parts[i + 1]))])

Bodies == [k \in DOMAIN Commands |-> Body(Commands[k])]

\* Where the k-th command starts: behind the index and the commands before it.
Offset(k) == 4 * Len(Commands) + Len(Concatenation(SubSeq(Bodies, 1, k - 1)))

Index ==
  Concatenation([k \in DOMAIN Commands |->
    LittleEndian(Offset(k)) \o LittleEndian(Len(Commands[k][1]))])

ROMContent == Index \o Concatenation(Bodies)

\* The byte at an address; nothing reads past the end for its value.
ROMByte(addr) == IF addr < Len(ROMContent) THEN ROMContent[addr + 1] ELSE 0

\* The synchronous read port: the byte addressed in this cycle, in the next.
ReadPort(addr) == rom_data' = ROMByte(addr)
===============================================================================
