---------------------------- MODULE Crc32Proofs ----------------------------
(***************************************************************************)
(* Proofs about crc32b for every word width, every polynomial with its top *)
(* bit set, signed and unsigned char, and contents of every length.        *)
(***************************************************************************)
EXTENDS Crc32, TLAPS

\* Exclusive or of words is a word, and can be undone.
LEMMA XorLemma ==
  ASSUME NEW a \in Word, NEW b \in Word
  PROVE  /\ Xor(a, b) \in Word
         /\ \A c \in Word : Xor(a, c) = Xor(b, c) => a = b
         /\ \A c \in Word : Xor(c, a) = Xor(c, b) => a = b
  BY DEF Word, Xor

\* A char becomes a word, and no two chars the same one.
LEMMA ExtendedLemma ==
  ASSUME NEW a \in Char, NEW b \in Char
  PROVE  /\ Extended(a) \in Word
         /\ Extended(a) = Extended(b) => a = b
<1>1. W \in Nat /\ W >= 8
  BY WordAssumption
<1>2. Extended(a) \in Word
  BY <1>1 DEF Extended, Word, Char
<1>3. ASSUME NEW c \in Char
      PROVE  \A k \in 0 .. 7 : k \in Extended(c) <=> k \in c
  BY <1>1 DEF Extended, Char
<1>4. ASSUME Extended(a) = Extended(b)
      PROVE  a = b
  BY <1>3, <1>4 DEF Char
<1>5. QED
  BY <1>2, <1>4

\* A shifted word is a word that lacks the top bit, and keeps all bits but one.
LEMMA ShiftedLemma ==
  ASSUME NEW a \in Word, NEW b \in Word
  PROVE  /\ Shifted(a) \in Word
         /\ W - 1 \notin Shifted(a)
         /\ Shifted(a) = Shifted(b) /\ (0 \in a <=> 0 \in b) => a = b
<1>1. W \in Nat /\ W >= 8
  BY WordAssumption
<1>2. Shifted(a) \in Word /\ W - 1 \notin Shifted(a)
  BY <1>1 DEF Shifted, Word
<1>3. ASSUME Shifted(a) = Shifted(b), 0 \in a <=> 0 \in b,
             NEW k \in 0 .. W - 1
      PROVE  k \in a <=> k \in b
  <2>1. CASE k = 0
    BY <1>3, <2>1
  <2>2. CASE k # 0
    <3>1. k - 1 \in 0 .. W - 2 /\ (k - 1) + 1 = k
      BY <1>1, <2>2
    <3>2. /\ k - 1 \in Shifted(a) <=> k \in a
          /\ k - 1 \in Shifted(b) <=> k \in b
      BY <3>1 DEF Shifted
    <3>3. QED
      BY <1>3, <3>2
  <2>3. QED
    BY <2>1, <2>2
<1>4. ASSUME Shifted(a) = Shifted(b), 0 \in a <=> 0 \in b
      PROVE  a = b
  BY <1>3, <1>4 DEF Word
<1>5. QED
  BY <1>2, <1>4

\* A step gives a word, from which the word before it can be told: the top bit
\* of the result is the bit that was shifted out.
LEMMA StepLemma ==
  ASSUME NEW a \in Word, NEW b \in Word
  PROVE  /\ Step(a) \in Word
         /\ Step(a) = Step(b) => a = b
<1>1. Step(a) \in Word
  BY ShiftedLemma, XorLemma, PolyAssumption DEF Step
<1>2. ASSUME NEW c \in Word
      PROVE  W - 1 \in Step(c) <=> 0 \in c
  <2>1. W - 1 \notin Shifted(c)
    BY ShiftedLemma
  <2>2. QED
    BY <2>1, PolyAssumption DEF Step, Xor
<1>3. ASSUME Step(a) = Step(b)
      PROVE  a = b
  <2>1. 0 \in a <=> 0 \in b
    BY <1>2, <1>3
  <2>2. Shifted(a) \in Word /\ Shifted(b) \in Word
    BY ShiftedLemma
  <2>3. Shifted(a) = Shifted(b)
    BY <1>3, <2>1, <2>2, XorLemma, PolyAssumption DEF Step
  <2>4. QED
    BY <2>1, <2>3, ShiftedLemma
<1>4. QED
  BY <1>1, <1>3

\* So do the eight steps of a byte.
LEMMA EightLemma ==
  ASSUME NEW a \in Word, NEW b \in Word
  PROVE  /\ Eight(a) \in Word
         /\ Eight(a) = Eight(b) => a = b
<1>1. ASSUME NEW c \in Word, NEW d \in Word
      PROVE  LET c2 == Step(Step(c))
                 d2 == Step(Step(d))
             IN  c2 \in Word /\ (c2 = d2 => c = d)
  BY StepLemma
<1>2. ASSUME NEW c \in Word, NEW d \in Word
      PROVE  LET c4 == Step(Step(Step(Step(c))))
                 d4 == Step(Step(Step(Step(d))))
             IN  c4 \in Word /\ d4 \in Word /\ (c4 = d4 => c = d)
  BY <1>1
<1>3. QED
  BY <1>2 DEF Eight

\* Taking in a byte keeps different registers different when the byte is the
\* same, and makes equal ones differ when it is not.
LEMMA AbsorbLemma ==
  ASSUME NEW u \in Word, NEW v \in Word, NEW a \in Char, NEW b \in Char
  PROVE  /\ Absorb(u, a) \in Word
         /\ Absorb(u, a) = Absorb(v, a) => u = v
         /\ Absorb(u, a) = Absorb(u, b) => a = b
<1>1. Extended(a) \in Word /\ Extended(b) \in Word
  BY ExtendedLemma
<1>2. /\ Xor(u, Extended(a)) \in Word
      /\ Xor(v, Extended(a)) \in Word
      /\ Xor(u, Extended(b)) \in Word
  BY <1>1, XorLemma
<1>3. Absorb(u, a) \in Word
  BY <1>2, EightLemma DEF Absorb
<1>4. Absorb(u, a) = Absorb(v, a) => u = v
  BY <1>1, <1>2, EightLemma, XorLemma DEF Absorb
<1>5. Absorb(u, a) = Absorb(u, b) => a = b
  BY <1>1, <1>2, EightLemma, XorLemma, ExtendedLemma DEF Absorb
<1>6. QED
  BY <1>3, <1>4, <1>5

-----------------------------------------------------------------------------
\* The loops' variables keep their types: the registers stay words.
THEOREM TypeCorrect == Spec => []TypeOK
<1>1. Init => TypeOK
  <2>1. Ones \in Word
    BY WordAssumption DEF Ones, Word
  <2>2. QED
    BY <2>1, InputAssumption DEF Init, TypeOK
<1>2. TypeOK /\ [Next]_vars => TypeOK'
  <2>. SUFFICES ASSUME TypeOK, [Next]_vars
                PROVE  TypeOK'
    OBVIOUS
  <2>1. CASE NextByte
    <3>1. /\ i + 1 \in 1 .. Len(src) /\ i + 1 \in 1 .. Len(file)
          /\ src[i + 1] \in Char /\ file[i + 1] \in Char
      BY <2>1 DEF NextByte, TypeOK
    <3>2. crc' \in Word /\ file_crc' \in Word
      BY <2>1, <3>1, AbsorbLemma DEF NextByte, TypeOK
    <3>3. QED
      BY <2>1, <3>1, <3>2 DEF NextByte, TypeOK
  <2>2. CASE UNCHANGED vars
    BY <2>2 DEF vars, TypeOK
  <2>3. QED
    BY <2>1, <2>2 DEF Next
<1>3. QED
  BY <1>1, <1>2, PTL DEF Spec

\* A file that differs from the block in one byte has another checksum, and one
\* that does not differ has the same, whatever their length (both loops of
\* crc32b, and so IsFileCorrect's comparison of the packer's with its own).
THEOREM OneByteDetected == Spec => []OneByteSeen
<1>1. Init => OneByteSeen
  BY DEF Init, OneByteSeen
<1>2. TypeOK /\ OneByteSeen /\ [Next]_vars => OneByteSeen'
  <2>. SUFFICES ASSUME TypeOK, OneByteSeen, [Next]_vars
                PROVE  OneByteSeen'
    OBVIOUS
  <2>1. CASE NextByte
    <3>. DEFINE n == i + 1
    <3>1. /\ n \in 1 .. Len(src) /\ i \in 0 .. Len(src)
          /\ src[n] \in Char /\ file[n] \in Char
          /\ crc \in Word /\ file_crc \in Word
      BY <2>1 DEF NextByte, TypeOK
    <3>2. /\ i' = n /\ UNCHANGED <<signed, src, file>>
          /\ crc' = Absorb(crc, src[n])
          /\ file_crc' = Absorb(file_crc, file[n])
      BY <2>1 DEF NextByte
    <3>3. ASSUME Same(n)
          PROVE  crc' = file_crc'
      <4>1. Same(i) /\ src[n] = file[n]
        BY <3>1, <3>3 DEF Same
      <4>2. QED
        BY <3>2, <4>1 DEF OneByteSeen
    <3>4. ASSUME NEW k \in 1 .. n, SameBut(k, n)
          PROVE  crc' # file_crc'
      <4>1. CASE k = n
        <5>1. Same(i) /\ src[n] # file[n]
          BY <3>1, <3>4, <4>1 DEF Same, SameBut
        <5>2. crc = file_crc
          BY <5>1 DEF OneByteSeen
        <5>3. QED
          BY <3>1, <3>2, <5>1, <5>2, AbsorbLemma
      <4>2. CASE k # n
        <5>1. k \in 1 .. i /\ SameBut(k, i) /\ src[n] = file[n]
          BY <3>1, <3>4, <4>2 DEF SameBut
        <5>2. crc # file_crc
          BY <5>1 DEF OneByteSeen
        <5>3. QED
          BY <3>1, <3>2, <5>1, <5>2, AbsorbLemma
      <4>3. QED
        BY <4>1, <4>2
    <3>5. Same(i)' <=> Same(n)
      BY <3>2 DEF Same
    <3>6. \A k \in 1 .. n : SameBut(k, i)' <=> SameBut(k, n)
      BY <3>2 DEF SameBut
    <3>7. QED
      BY <3>2, <3>3, <3>4, <3>5, <3>6 DEF OneByteSeen
  <2>2. CASE UNCHANGED vars
    BY <2>2 DEF vars, OneByteSeen, Same, SameBut
  <2>3. QED
    BY <2>1, <2>2 DEF Next
<1>3. QED
  BY <1>1, <1>2, TypeCorrect, PTL DEF Spec
=============================================================================
