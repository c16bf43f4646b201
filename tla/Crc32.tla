------------------------------- MODULE Crc32 -------------------------------
(***************************************************************************)
(* The checksum on which packer and patcher agree: archiver::crc32b, with  *)
(* an overload for a block of memory, which compress calls on what it has  *)
(* read, and one for a file, which the patcher calls on what it has        *)
(* written (archiver/archiver.cpp).                                        *)
(*                                                                         *)
(* A word is the set of its bits that are 1; bit 0 is the lowest.  The two *)
(* loops run side by side, one byte of each a step, over a block and a     *)
(* file of the same size: patcher and packer run at different times, but   *)
(* neither loop sees the other, so nothing is lost.                        *)
(***************************************************************************)
EXTENDS Integers, Sequences

CONSTANTS
  W,         \* the bits of an unsigned int
  Poly,      \* 0xEDB88320
  Blocks     \* the contents of the block, and of the file

Word == SUBSET (0 .. W - 1)
Char == SUBSET (0 .. 7)

ASSUME WordAssumption == W \in Nat /\ W >= 8

\* Poly's top bit is 1, as it is in 0xEDB88320.
ASSUME PolyAssumption == Poly \in Word /\ W - 1 \in Poly

ASSUME InputAssumption == Blocks \subseteq Seq(Char)

VARIABLES
  signed,    \* whether char is signed, in the one build of both programs
  src,       \* the block
  file,      \* the file's bytes
  i,         \* how many bytes of each have been taken
  crc,       \* the register of crc32b(src, size)
  file_crc   \* the register of crc32b(path)

vars == <<signed, src, file, i, crc, file_crc>>

TypeOK ==
  /\ signed \in BOOLEAN
  /\ src \in Seq(Char) /\ file \in Seq(Char) /\ Len(file) = Len(src)
  /\ i \in 0 .. Len(src)
  /\ crc \in Word /\ file_crc \in Word

-----------------------------------------------------------------------------
Xor(a, b) == (a \ b) \cup (b \ a)

\* Mutant of Extended: the sign is masked away with the bit that carries it.
ExtendedMasked(byte) == byte \ {7}

\* char converted to unsigned int: a signed char carries its bit 7 up.
Extended(byte) == IF signed /\ 7 \in byte THEN byte \cup 8 .. W - 1 ELSE byte

\* Mutant of Shifted: crc << 1.
ShiftedLeft(word) == {k + 1 : k \in word}

\* crc >> 1
Shifted(word) == {k \in 0 .. W - 2 : k + 1 \in word}

\* mask is all ones or zero, as bit 0 is.
Step(word) == IF 0 \in word THEN Xor(Shifted(word), Poly) ELSE Shifted(word)

\* for (j = 7; j >= 0; j--)
Eight(word) == Step(Step(Step(Step(Step(Step(Step(Step(word))))))))

Absorb(word, byte) == Eight(Xor(word, Extended(byte)))

Ones == 0 .. W - 1

\* ~crc
Not(word) == Ones \ word

-----------------------------------------------------------------------------
Init ==
  /\ signed \in BOOLEAN
  /\ src \in Blocks
  /\ file \in {b \in Blocks : Len(b) = Len(src)}
  /\ i = 0
  /\ crc = Ones
  /\ file_crc = Ones

Space == {5}   \* ' '

\* Mutant of NextByte: without std::noskipws the stream skips a space.
NextByteSkips ==
  /\ i < Len(src)
  /\ i' = i + 1
  /\ crc' = Absorb(crc, src[i + 1])
  /\ file_crc' = IF file[i + 1] = Space THEN file_crc ELSE Absorb(file_crc, file[i + 1])
  /\ UNCHANGED <<signed, src, file>>

\* One turn of each loop.
NextByte ==
  /\ i < Len(src)
  /\ i' = i + 1
  /\ crc' = Absorb(crc, src[i + 1])
  /\ file_crc' = Absorb(file_crc, file[i + 1])
  /\ UNCHANGED <<signed, src, file>>

Next == NextByte

Spec == Init /\ [][Next]_vars

-----------------------------------------------------------------------------
(* Properties *)

\* Among the first n bytes, block and file agree; or agree but for the k-th.
Same(n) == \A m \in 1 .. n : src[m] = file[m]
SameBut(k, n) == src[k] # file[k] /\ \A m \in 1 .. n : m # k => src[m] = file[m]

\* A file that has the block's bytes has its checksum, and one that differs from
\* it in a single byte, wherever and however, never has: at every moment of the
\* loops, so for contents of every length.
OneByteSeen ==
  /\ Same(i) => crc = file_crc
  /\ \A k \in 1 .. i : SameBut(k, i) => crc # file_crc
=============================================================================
