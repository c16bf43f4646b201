------------------------ MODULE Crc32StandardProofs ------------------------
(***************************************************************************)
(* crc32b computes the CRC-32 of the standard, for contents of every       *)
(* length: while a byte goes into the register, eight exponents more are   *)
(* eliminated in the long division of the message, and the register is the *)
(* mirror image of what is left.                                           *)
(***************************************************************************)
EXTENDS Crc32Standard, Crc32Proofs, SequenceTheorems, WellFoundedInduction

\* A nonempty set of natural numbers has a smallest member.
LEMMA Smallest ==
  ASSUME NEW S \in SUBSET Nat, S # {}
  PROVE  \E n \in S : \A k \in S : n <= k
<1> DEFINE R == OpToRel(<, Nat)
<1>1. IsWellFoundedOn(R, Nat)
  BY NatLessThanWellFounded
<1>2. \A a, b \in Nat : a < b => <<a, b>> \in R
  BY DEF OpToRel
<1> HIDE DEF R
<1>3. PICK n \in S : \A k \in S : ~(<<k, n>> \in R)
  BY <1>1, WFMin
<1>4. \A k \in S : k \in Nat /\ n \in Nat /\ ~(k < n)
  BY <1>2, <1>3
<1>5. \A k \in S : n <= k
  BY <1>4
<1>6. QED
  BY <1>5

-----------------------------------------------------------------------------
(* Long division.                                                          *)

\* What is left of poly after each of the n steps.
Divides(rest, poly, n) ==
  rest = [k \in 0 .. n |-> IF k = 0 THEN poly ELSE Eliminated(rest[k - 1], 32 + n - k)]

\* The steps leave no choice.
LEMMA OneDivision ==
  ASSUME NEW poly, NEW n \in Nat, NEW r, NEW s, Divides(r, poly, n), Divides(s, poly, n)
  PROVE  r = s
<1> DEFINE Differ == {k \in 0 .. n : r[k] # s[k]}
<1>1. ASSUME Differ # {} PROVE FALSE
  <2>0. Differ \in SUBSET Nat
    OBVIOUS
  <2>1. PICK k \in Differ : \A j \in Differ : k <= j
    <3> HIDE DEF Differ
    <3> QED BY <1>1, <2>0, Smallest
  <2>2. k \in 0 .. n /\ r[k] # s[k]
    BY <2>1
  <2>3. CASE k = 0
    BY <2>2, <2>3 DEF Divides
  <2>4. CASE k # 0
    <3>1. k - 1 \in 0 .. n /\ ~(k <= k - 1)
      BY <2>2, <2>4
    <3>2. r[k - 1] = s[k - 1]
      BY <2>1, <3>1
    <3>3. /\ r[k] = Eliminated(r[k - 1], 32 + n - k)
          /\ s[k] = Eliminated(s[k - 1], 32 + n - k)
      BY <2>2, <2>4 DEF Divides
    <3>4. QED
      BY <2>2, <3>2, <3>3
  <2>5. QED
    BY <2>3, <2>4
<1>2. \A k \in 0 .. n : r[k] = s[k]
  BY <1>1
<1>3. r = [k \in 0 .. n |-> r[k]] /\ s = [k \in 0 .. n |-> s[k]]
  BY DEF Divides
<1>4. QED
  BY <1>2, <1>3

\* So the remainder is where any of them ends.
LEMMA RemainderIs ==
  ASSUME NEW poly, NEW n \in Nat, NEW r, Divides(r, poly, n)
  PROVE  Remainder(poly, n) = r[n]
<1> DEFINE Rest[k \in 0 .. n] == IF k = 0 THEN poly ELSE Eliminated(Rest[k - 1], 32 + n - k)
<1>1. Divides(Rest, poly, n)
  BY DEF Divides
<1>2. Rest = r
  <2> HIDE DEF Rest
  <2> QED BY <1>1, OneDivision
<1>3. QED
  BY <1>2 DEF Remainder

-----------------------------------------------------------------------------
(* A register and its mirror image.                                        *)

\* The word as a polynomial, bit 0 as the exponent top.
Mirror(word, top) == {top - k : k \in word}

LEMMA Width ==
  /\ W = 32 /\ Word = SUBSET (0 .. 31)
  /\ Poly \in Word
  /\ \A e \in Nat : e >= 32 => {g + e - 32 : g \in Generator} = {e} \cup Mirror(Poly, e - 1)
<1>1. W = 32 /\ Poly = {31 - g : g \in Generator \ {32}}
  BY StandardAssumption
<1>2. Word = SUBSET (0 .. 31) /\ Poly \in Word
  BY <1>1, PolyAssumption DEF Word
<1>3. ASSUME NEW e \in Nat, e >= 32
      PROVE  {g + e - 32 : g \in Generator} = {e} \cup Mirror(Poly, e - 1)
  <2>1. 32 \in Generator /\ \A g \in Generator : g \in 0 .. 32
    BY DEF Generator
  <2>2. ASSUME NEW x \in {g + e - 32 : g \in Generator}
        PROVE  x \in {e} \cup Mirror(Poly, e - 1)
    <3>1. PICK g \in Generator : x = g + e - 32
      OBVIOUS
    <3>2. CASE g = 32
      BY <3>1, <3>2
    <3>3. CASE g # 32
      <4>1. 31 - g \in Poly
        BY <1>1, <3>3
      <4>2. x = (e - 1) - (31 - g)
        BY <2>1, <3>1
      <4>3. QED
        BY <4>1, <4>2 DEF Mirror
    <3>4. QED
      BY <3>2, <3>3
  <2>3. ASSUME NEW x \in {e} \cup Mirror(Poly, e - 1)
        PROVE  x \in {g + e - 32 : g \in Generator}
    <3>1. CASE x = e
      <4>1. x = 32 + e - 32
        BY <3>1
      <4>2. QED
        BY <2>1, <4>1
    <3>2. CASE x # e
      <4>1. PICK k \in Poly : x = (e - 1) - k
        BY <3>2 DEF Mirror
      <4>2. PICK g \in Generator : k = 31 - g
        BY <1>1
      <4>3. x = g + e - 32
        BY <2>1, <4>1, <4>2
      <4>4. QED
        BY <4>3
    <3>3. QED
      BY <3>1, <3>2
  <2>4. QED
    BY <2>2, <2>3
<1>4. QED
  BY <1>1, <1>2, <1>3

\* Mirrored, exclusive or remains what it is.
LEMMA MirrorXor ==
  ASSUME NEW a \in Word, NEW b \in Word, NEW top \in Nat
  PROVE  Mirror(Xor(a, b), top) = Xor(Mirror(a, top), Mirror(b, top))
<1>1. \A k \in a : k \in 0 .. 31
  BY Width
<1>2. \A k \in b : k \in 0 .. 31
  BY Width
<1>3. QED
  BY <1>1, <1>2 DEF Mirror, Xor

\* To shift the register is to look one exponent further down.
LEMMA MirrorShifted ==
  ASSUME NEW a \in Word, NEW top \in Nat
  PROVE  Mirror(Shifted(a), top) = Mirror(a, top + 1) \ {top + 1}
<1>1. \A k \in a : k \in 0 .. 31
  BY Width
<1>2. Shifted(a) = {k \in 0 .. 30 : k + 1 \in a}
  BY Width DEF Shifted
<1>3. ASSUME NEW x \in Mirror(Shifted(a), top)
      PROVE  x \in Mirror(a, top + 1) \ {top + 1}
  <2>1. PICK k \in Shifted(a) : x = top - k
    BY DEF Mirror
  <2>2. k \in 0 .. 30 /\ k + 1 \in a
    BY <1>2, <2>1
  <2>3. x = (top + 1) - (k + 1) /\ x # top + 1
    BY <2>1, <2>2
  <2>4. QED
    BY <2>2, <2>3 DEF Mirror
<1>4. ASSUME NEW x \in Mirror(a, top + 1), x # top + 1
      PROVE  x \in Mirror(Shifted(a), top)
  <2>1. PICK k \in a : x = (top + 1) - k
    BY DEF Mirror
  <2>2. k - 1 \in 0 .. 30 /\ (k - 1) + 1 = k /\ x = top - (k - 1)
    BY <1>1, <1>4, <2>1
  <2>3. k - 1 \in Shifted(a)
    BY <1>2, <2>1, <2>2
  <2>4. QED
    BY <2>2, <2>3 DEF Mirror
<1>5. QED
  BY <1>3, <1>4

\* A step of the register eliminates an exponent.
LEMMA StepEliminates ==
  ASSUME NEW a \in Word, NEW e \in Nat, e >= 32
  PROVE  /\ Step(a) \in Word
         /\ Eliminated(Mirror(a, e), e) = Mirror(Step(a), e - 1)
<1>1. Step(a) \in Word
  BY StepLemma
<1>2. \A k \in a : k \in 0 .. 31
  BY Width
<1>3. e \in Mirror(a, e) <=> 0 \in a
  BY <1>2 DEF Mirror
<1>4. e - 1 \in Nat /\ (e - 1) + 1 = e
  OBVIOUS
<1>5. Mirror(Shifted(a), e - 1) = Mirror(a, e) \ {e}
  BY <1>4, MirrorShifted
<1>6. CASE 0 \notin a
  <2>1. Step(a) = Shifted(a) /\ Eliminated(Mirror(a, e), e) = Mirror(a, e)
    BY <1>3, <1>6 DEF Step, Eliminated
  <2>2. QED
    BY <1>1, <1>3, <1>5, <1>6, <2>1
<1>7. CASE 0 \in a
  <2>1. Eliminated(Mirror(a, e), e) = Xor(Mirror(a, e), {e} \cup Mirror(Poly, e - 1))
    BY <1>3, <1>7, Width DEF Eliminated
  <2>2. e \notin Mirror(Poly, e - 1)
    <3>1. \A k \in Poly : k \in 0 .. 31
      BY Width
    <3>2. QED
      BY <3>1 DEF Mirror
  <2>3. Xor(Mirror(a, e), {e} \cup Mirror(Poly, e - 1)) = Xor(Mirror(a, e) \ {e}, Mirror(Poly, e - 1))
    BY <1>3, <1>7, <2>2 DEF Xor
  <2>4. Shifted(a) \in Word /\ Poly \in Word
    BY ShiftedLemma, Width
  <2>5. Mirror(Step(a), e - 1) = Xor(Mirror(Shifted(a), e - 1), Mirror(Poly, e - 1))
    BY <1>4, <1>7, <2>4, MirrorXor DEF Step
  <2>6. QED
    BY <1>1, <1>5, <2>1, <2>3, <2>5
<1>8. QED
  BY <1>6, <1>7

-----------------------------------------------------------------------------
(* A byte more.                                                            *)

Up(poly) == {x + 8 : x \in poly}
Bits(bytes) == {q \in (1 .. Len(bytes)) \X (0 .. 7) : q[2] \in bytes[q[1]]}
Exponent(n, p) == 32 + n - 1 - (8 * (p[1] - 1) + p[2])

LEMMA Exponents ==
  ASSUME NEW n \in Nat, NEW p, NEW at \in Nat, NEW k \in Nat, p[1] = at, p[2] = k
  PROVE  /\ Exponent(n, p) = 39 + n - 8 * at - k
         /\ Exponent(n, p) \in Int
         /\ Exponent(n + 8, p) = Exponent(n, p) + 8
  BY DEF Exponent

LEMMA UpXor ==
  ASSUME NEW S \in SUBSET Int, NEW T \in SUBSET Int
  PROVE  /\ Up(S) \in SUBSET Int
         /\ Up(Xor(S, T)) = Xor(Up(S), Up(T))
<1>1. Up(S) \in SUBSET Int
  <2>1. \A x \in Int : x + 8 \in Int
    OBVIOUS
  <2>2. QED
    BY <2>1 DEF Up
<1>2. \A x, y \in Int : x + 8 = y + 8 => x = y
  OBVIOUS
<1>3. \A x \in Int : (x + 8 \in Up(S) <=> x \in S) /\ (x + 8 \in Up(T) <=> x \in T)
  BY <1>2 DEF Up
<1>4. \A x \in Up(Xor(S, T)) : x \in Xor(Up(S), Up(T))
  BY <1>3 DEF Up, Xor
<1>5. \A x \in Xor(Up(S), Up(T)) : x \in Up(Xor(S, T))
  BY <1>3 DEF Up, Xor
<1>6. QED
  BY <1>1, <1>4, <1>5

\* The message moves eight exponents up, and the byte takes those below.
LEMMA MessageGrows ==
  ASSUME NEW b \in Seq(Char), NEW c \in Char
  PROVE  /\ Message(b) \in SUBSET Int
         /\ Message(Append(b, c)) = Xor(Up(Message(b)), Mirror(c, 39))
<1> DEFINE n == 8 * Len(b)
           d == Append(b, c)
           Old == {Exponent(n, p) : p \in Bits(b)}
           New == {Exponent(n + 8, p) : p \in Bits(d)}
<1>1. /\ d \in Seq(Char) /\ Len(d) = Len(b) + 1 /\ 8 * Len(d) = n + 8 /\ n \in Nat
      /\ \A k \in 1 .. Len(b) : d[k] = b[k]
      /\ d[Len(b) + 1] = c
  BY AppendProperties, LenProperties
<1>2. \A k \in c : k \in 0 .. 7
  BY DEF Char
<1>3. Message(b) = Xor(Old, n .. n + 31) /\ Message(d) = Xor(New, n + 8 .. n + 8 + 31)
  BY <1>1 DEF Message, Bits, Exponent
<1>4. \A p \in Bits(b) : /\ p = <<p[1], p[2]>> /\ p[1] \in 1 .. Len(b) /\ p[2] \in 0 .. 7
                         /\ p[2] \in b[p[1]]
  BY DEF Bits
<1>5. \A p \in Bits(d) : /\ p = <<p[1], p[2]>> /\ p[1] \in 1 .. Len(b) + 1 /\ p[2] \in 0 .. 7
                         /\ p[2] \in d[p[1]]
  BY <1>1 DEF Bits
<1>6. Old \in SUBSET Int /\ \A x \in Old : x >= 32
  <2> SUFFICES ASSUME NEW p \in Bits(b)
               PROVE  Exponent(n, p) \in Int /\ Exponent(n, p) >= 32
    OBVIOUS
  <2>1. /\ p[1] \in Nat /\ p[2] \in Nat /\ p[1] <= Len(b) /\ p[2] <= 7
    BY <1>1, <1>4
  <2>2. Exponent(n, p) = 39 + n - 8 * p[1] - p[2]
    BY <1>1, <2>1, Exponents
  <2>3. QED
    BY <1>1, <2>1, <2>2
<1>7. ASSUME NEW x \in New
      PROVE  x \in Up(Old) \cup Mirror(c, 39)
  <2>1. PICK p \in Bits(d) : x = Exponent(n + 8, p)
    OBVIOUS
  <2>2. CASE p[1] = Len(b) + 1
    <3>1. p[2] \in c
      BY <1>1, <1>5, <2>2
    <3>2. x = 39 - p[2]
      <4>1. Len(b) + 1 \in Nat /\ p[2] \in Nat /\ n + 8 \in Nat
        BY <1>1, <1>5
      <4>2. x = 39 + (n + 8) - 8 * (Len(b) + 1) - p[2]
        BY <2>1, <2>2, <4>1, Exponents
      <4>3. QED
        BY <1>1, <4>1, <4>2
    <3>3. QED
      BY <3>1, <3>2 DEF Mirror
  <2>3. CASE p[1] # Len(b) + 1
    <3>1. p[1] \in 1 .. Len(b) /\ p[2] \in b[p[1]]
      BY <1>1, <1>5, <2>3
    <3>2. p \in Bits(b)
      BY <1>5, <3>1 DEF Bits
    <3>3. x = Exponent(n, p) + 8
      <4>1. p[1] \in Nat /\ p[2] \in Nat
        BY <1>1, <1>5
      <4>2. QED
        BY <1>1, <2>1, <4>1, Exponents
    <3>4. QED
      BY <3>2, <3>3 DEF Up
  <2>4. QED
    BY <2>2, <2>3
<1>8. ASSUME NEW x \in Up(Old) \cup Mirror(c, 39)
      PROVE  x \in New
  <2>1. CASE x \in Up(Old)
    <3>1. PICK p \in Bits(b) : x = Exponent(n, p) + 8
      BY <2>1 DEF Up
    <3>2. p \in Bits(d)
      BY <1>1, <1>4 DEF Bits
    <3>3. x = Exponent(n + 8, p)
      <4>1. p[1] \in Nat /\ p[2] \in Nat
        BY <1>1, <1>4
      <4>2. QED
        BY <1>1, <3>1, <4>1, Exponents
    <3>4. QED
      BY <3>2, <3>3
  <2>2. CASE x \in Mirror(c, 39)
    <3>1. PICK k \in c : x = 39 - k
      BY <2>2 DEF Mirror
    <3>2. <<Len(b) + 1, k>> \in Bits(d)
      BY <1>1, <1>2 DEF Bits
    <3>3. x = Exponent(n + 8, <<Len(b) + 1, k>>)
      BY <1>1, <1>2, <3>1 DEF Exponent
    <3>4. QED
      BY <3>2, <3>3
  <2>3. QED
    BY <2>1, <2>2
<1>9. New = Up(Old) \cup Mirror(c, 39) /\ Up(Old) \cap Mirror(c, 39) = {}
  <2>1. \A x \in Up(Old) : x >= 40
    <3> HIDE DEF Old
    <3> QED BY <1>6 DEF Up
  <2>2. \A x \in Mirror(c, 39) : x <= 39
    BY <1>2 DEF Mirror
  <2>3. Up(Old) \cap Mirror(c, 39) = {}
    <3> SUFFICES ASSUME NEW x \in Up(Old), x \in Mirror(c, 39) PROVE FALSE
      OBVIOUS
    <3>1. x \in Int
      <4> HIDE DEF Old
      <4> QED BY <1>6, UpXor, Zenon
    <3>2. QED
      BY <2>1, <2>2, <3>1
  <2> HIDE DEF New, Old
  <2>4. QED
    BY <1>7, <1>8, <2>3
<1> HIDE DEF Old, New, n, d
<1>10. Up(n .. n + 31) = n + 8 .. n + 8 + 31
  <2>1. ASSUME NEW x \in n + 8 .. n + 8 + 31 PROVE x \in Up(n .. n + 31)
    <3>1. x - 8 \in n .. n + 31 /\ x = (x - 8) + 8
      BY <1>1
    <3>2. QED
      BY <3>1 DEF Up
  <2>2. \A x \in Up(n .. n + 31) : x \in n + 8 .. n + 8 + 31
    BY <1>1 DEF Up
  <2>3. QED
    BY <2>1, <2>2
<1>11. Up(Xor(Old, n .. n + 31)) = Xor(Up(Old), Up(n .. n + 31))
  <2>1. n .. n + 31 \in SUBSET Int
    BY <1>1
  <2>2. \A S, T \in SUBSET Int : Up(Xor(S, T)) = Xor(Up(S), Up(T))
    BY UpXor
  <2>3. QED
    BY <1>6, <2>1, <2>2
<1>12. Xor(Up(Old) \cup Mirror(c, 39), n + 8 .. n + 8 + 31)
       = Xor(Xor(Up(Old), n + 8 .. n + 8 + 31), Mirror(c, 39))
  BY <1>9 DEF Xor
<1>13. Message(b) \in SUBSET Int
  BY <1>1, <1>3, <1>6 DEF Xor
<1>14. QED
  BY <1>3, <1>9, <1>10, <1>11, <1>12, <1>13 DEF d

\* The eight steps, one after another.
LEMMA EightSteps ==
  ASSUME NEW a \in Word
  PROVE  \E s \in [0 .. 8 -> Word] :
           s[0] = a /\ s[8] = Eight(a) /\ \A j \in 1 .. 8 : s[j] = Step(s[j - 1])
<1> DEFINE a1 == Step(a)
           a2 == Step(a1)
           a3 == Step(a2)
           a4 == Step(a3)
           a5 == Step(a4)
           a6 == Step(a5)
           a7 == Step(a6)
           a8 == Step(a7)
           s == [j \in 0 .. 8 |-> CASE j = 0 -> a  [] j = 1 -> a1 [] j = 2 -> a2 [] j = 3 -> a3
                                    [] j = 4 -> a4 [] j = 5 -> a5 [] j = 6 -> a6 [] j = 7 -> a7
                                    [] OTHER -> a8]
<1>1. a1 \in Word /\ a2 \in Word /\ a3 \in Word /\ a4 \in Word
  BY StepLemma
<1>2. a5 \in Word /\ a6 \in Word /\ a7 \in Word /\ a8 \in Word
  BY <1>1, StepLemma
<1>3. a8 = Eight(a)
  BY DEF Eight
<1>4. /\ a1 = Step(a) /\ a2 = Step(a1) /\ a3 = Step(a2) /\ a4 = Step(a3)
      /\ a5 = Step(a4) /\ a6 = Step(a5) /\ a7 = Step(a6) /\ a8 = Step(a7)
  OBVIOUS
<1> HIDE DEF a1, a2, a3, a4, a5, a6, a7, a8
<1>5. s \in [0 .. 8 -> Word]
  BY <1>1, <1>2
<1>6. s[0] = a /\ s[8] = Eight(a)
  BY <1>3
<1>7. \A j \in 1 .. 8 : s[j] = Step(s[j - 1])
  <2> TAKE j \in 1 .. 8
  <2>1. j = 1 \/ j = 2 \/ j = 3 \/ j = 4 \/ j = 5 \/ j = 6 \/ j = 7 \/ j = 8
    OBVIOUS
  <2>2. /\ s[1] = a1 /\ s[2] = a2 /\ s[3] = a3 /\ s[4] = a4
        /\ s[5] = a5 /\ s[6] = a6 /\ s[7] = a7 /\ s[8] = a8
    OBVIOUS
  <2> HIDE DEF s
  <2>3. QED
    BY <1>4, <1>6, <2>1, <2>2
<1> HIDE DEF s
<1>8. QED
  BY <1>5, <1>6, <1>7

\* To eliminate an exponent eight further up, above those of the byte, is the same.
LEMMA EliminatedUp ==
  ASSUME NEW S \in SUBSET Int, NEW e \in Int, e >= 32, NEW c \in Char
  PROVE  /\ Eliminated(S, e) \in SUBSET Int
         /\ Eliminated(Xor(Up(S), Mirror(c, 39)), e + 8) = Xor(Up(Eliminated(S, e)), Mirror(c, 39))
<1> DEFINE G == {g + e - 32 : g \in Generator}
           H == {g + (e + 8) - 32 : g \in Generator}
           M == Mirror(c, 39)
<1>1. \A g \in Generator : g \in 0 .. 32
  BY DEF Generator
<1>2. G \in SUBSET Int
  BY <1>1
<1>3. H = Up(G)
  <2>1. \A g \in Generator : g + (e + 8) - 32 = (g + e - 32) + 8
    BY <1>1
  <2>2. QED
    BY <2>1 DEF Up
<1>4. \A k \in c : k \in 0 .. 7
  BY DEF Char
<1>5. e + 8 \notin M
  BY <1>4 DEF Mirror
<1>6. Up(S) \in SUBSET Int /\ Up(G) \in SUBSET Int /\ (e + 8 \in Up(S) <=> e \in S)
  BY <1>2 DEF Up
<1>7. e + 8 \in Xor(Up(S), M) <=> e \in S
  BY <1>5, <1>6 DEF Xor
<1>8. Eliminated(S, e) = IF e \in S THEN Xor(S, G) ELSE S
  BY DEF Eliminated
<1>9. Eliminated(Xor(Up(S), M), e + 8) = IF e \in S THEN Xor(Xor(Up(S), M), H) ELSE Xor(Up(S), M)
  BY <1>7 DEF Eliminated
<1>10. Up(Xor(S, G)) = Xor(Up(S), Up(G))
  BY <1>2, UpXor
<1> HIDE DEF G, H, M
<1>11. Xor(Xor(Up(S), M), H) = Xor(Up(Xor(S, G)), M)
  BY <1>3, <1>10 DEF Xor
<1>12. Eliminated(S, e) \in SUBSET Int
  BY <1>2, <1>8 DEF Xor
<1>13. QED
  BY <1>8, <1>9, <1>11, <1>12 DEF M

LEMMA Mirrored ==
  ASSUME NEW w \in Word
  PROVE  /\ \A k \in w : k \in 0 .. 31
         /\ \A top \in Int : Mirror(w, top) \in SUBSET Int
         /\ Up(Mirror(w, 31)) = Mirror(w, 39)
<1>1. \A k \in w : k \in 0 .. 31
  BY Width
<1>2. \A top \in Int : Mirror(w, top) \in SUBSET Int
  BY <1>1 DEF Mirror
<1>3. \A k \in w : 39 - k = (31 - k) + 8
  BY <1>1
<1>4. Up(Mirror(w, 31)) = Mirror(w, 39)
  BY <1>3 DEF Up, Mirror
<1>5. QED
  BY <1>1, <1>2, <1>4

\* The division of a message goes on with its next byte, and ends with what the
\* register then holds.
LEMMA DivisionGrows ==
  ASSUME NEW b \in Seq(Char), NEW c \in Char, NEW reg \in Word,
         NEW n \in Nat, n = 8 * Len(b),
         NEW f \in [0 .. n -> SUBSET Int],
         Divides(f, Message(b), n), f[n] = Mirror(reg, 31)
  PROVE  \E g \in [0 .. n + 8 -> SUBSET Int] :
           /\ Divides(g, Message(Append(b, c)), n + 8)
           /\ g[n + 8] = Mirror(Eight(Xor(reg, c)), 31)
<1> DEFINE M == Mirror(c, 39)
           x == Xor(reg, c)
<1>1. c \in Word /\ x \in Word
  <2>1. c \in Word
    BY Width DEF Char
  <2>2. QED
    BY <2>1, XorLemma
<1>2. PICK s \in [0 .. 8 -> Word] :
        s[0] = x /\ s[8] = Eight(x) /\ \A j \in 1 .. 8 : s[j] = Step(s[j - 1])
  BY <1>1, EightSteps
<1> DEFINE g == [k \in 0 .. n + 8 |-> IF k <= n THEN Xor(Up(f[k]), M)
                                      ELSE Mirror(s[k - n], 39 - (k - n))]
<1>3. \A w \in Word, top \in Int : Mirror(w, top) \in SUBSET Int
  BY Mirrored
<1>4. M \in SUBSET Int
  BY <1>1, <1>3
<1>5. g \in [0 .. n + 8 -> SUBSET Int]
  <2> SUFFICES ASSUME NEW k \in 0 .. n + 8
               PROVE  (IF k <= n THEN Xor(Up(f[k]), M) ELSE Mirror(s[k - n], 39 - (k - n))) \in SUBSET Int
    OBVIOUS
  <2>1. CASE k <= n
    <3>1. f[k] \in SUBSET Int
      BY <2>1
    <3>2. Up(f[k]) \in SUBSET Int
      BY <3>1 DEF Up
    <3>3. QED
      BY <1>4, <2>1, <3>2 DEF Xor
  <2>2. CASE ~(k <= n)
    <3>1. k - n \in 0 .. 8 /\ 39 - (k - n) \in Int
      BY ONLY n \in Nat, k \in 0 .. n + 8, <2>2
    <3>2. s[k - n] \in Word
      BY <3>1
    <3>3. QED
      BY <1>3, <2>2, <3>1, <3>2
  <2>3. QED
    BY <2>1, <2>2
<1>6. Xor(Up(f[n]), M) = Mirror(s[0], 39)
  <2>1. Up(Mirror(reg, 31)) = Mirror(reg, 39)
    BY Mirrored
  <2>2. Mirror(Xor(reg, c), 39) = Xor(Mirror(reg, 39), M)
    BY <1>1, MirrorXor
  <2>3. QED
    BY <1>2, <2>1, <2>2
<1> HIDE DEF M, x
<1>7. /\ \A k \in 0 .. n : g[k] = Xor(Up(f[k]), M)
      /\ \A k \in n .. n + 8 : g[k] = Mirror(s[k - n], 39 - (k - n))
  <2>1. \A k \in n .. n + 8 : g[k] = Mirror(s[k - n], 39 - (k - n))
    <3> TAKE k \in n .. n + 8
    <3>1. CASE k = n
      <4>1. k - n = 0 /\ 39 - (k - n) = 39
        BY <3>1
      <4>2. QED
        BY <1>6, <3>1, <4>1
    <3>2. CASE k # n
      BY <3>2
    <3>3. QED
      BY <3>1, <3>2
  <2>2. \A k \in 0 .. n : k \in 0 .. n + 8 /\ k <= n
    OBVIOUS
  <2>3. \A k \in 0 .. n : g[k] = Xor(Up(f[k]), M)
    BY <2>2
  <2> HIDE DEF g
  <2>4. QED
    BY <2>1, <2>3
<1> DEFINE Rest(k) == IF k = 0 THEN Message(Append(b, c)) ELSE Eliminated(g[k - 1], 32 + (n + 8) - k)
<1>8. DOMAIN g = 0 .. n + 8 /\ g = [k \in 0 .. n + 8 |-> g[k]]
  OBVIOUS
<1> HIDE DEF g
<1>9. ASSUME NEW k \in 0 .. n + 8
      PROVE  g[k] = Rest(k)
  <2>1. CASE k = 0
    <3>1. f[0] = Message(b)
      BY DEF Divides
    <3>2. g[0] = Xor(Up(Message(b)), M)
      BY <1>7, <3>1
    <3>3. QED
      BY <2>1, <3>2, MessageGrows DEF M
  <2>2. CASE k \in 1 .. n
    <3> DEFINE e == 32 + n - k
    <3>1. e \in Int /\ e >= 32 /\ e + 8 = 32 + (n + 8) - k /\ k - 1 \in 0 .. n /\ k \in 0 .. n /\ k # 0
      BY <2>2
    <3>2. f[k] = Eliminated(f[k - 1], e)
      BY <3>1 DEF Divides
    <3>3. f[k - 1] \in SUBSET Int
      BY <3>1
    <3>4. g[k] = Xor(Up(f[k]), M) /\ g[k - 1] = Xor(Up(f[k - 1]), M)
      BY <1>7, <3>1
    <3> HIDE DEF e
    <3>5. Eliminated(Xor(Up(f[k - 1]), M), e + 8) = Xor(Up(Eliminated(f[k - 1], e)), M)
      BY <3>1, <3>3, EliminatedUp DEF M
    <3>6. QED
      BY <3>1, <3>2, <3>4, <3>5
  <2>3. CASE k \in n + 1 .. n + 8
    <3> DEFINE j == k - n
               e == 39 - ((k - 1) - n)
    <3>1. /\ j \in 1 .. 8 /\ j - 1 \in 0 .. 8 /\ j - 1 = (k - 1) - n
          /\ e \in Nat /\ e >= 32 /\ e - 1 = 39 - j /\ e = 32 + (n + 8) - k
          /\ k \in n .. n + 8 /\ k - 1 \in n .. n + 8 /\ k # 0
      <4>1. k \in Int /\ n + 1 <= k /\ k <= n + 8
        BY <2>3
      <4>2. j \in 1 .. 8 /\ j - 1 \in 0 .. 8 /\ j - 1 = (k - 1) - n
        BY ONLY n \in Nat, <4>1
      <4>3. e \in Nat /\ e >= 32 /\ e - 1 = 39 - j /\ e = 32 + (n + 8) - k
        BY <4>1
      <4>4. k \in n .. n + 8 /\ k - 1 \in n .. n + 8 /\ k # 0
        BY <4>1
      <4> HIDE DEF j, e
      <4>5. QED
        BY <4>2, <4>3, <4>4
    <3>2. g[k] = Mirror(s[j], 39 - j) /\ g[k - 1] = Mirror(s[j - 1], e)
      BY <1>7, <3>1
    <3> HIDE DEF j, e
    <3>3. s[j] = Step(s[j - 1]) /\ s[j - 1] \in Word
      BY <1>2, <3>1
    <3>4. Eliminated(Mirror(s[j - 1], e), e) = Mirror(Step(s[j - 1]), e - 1)
      BY <3>1, <3>3, StepEliminates
    <3>5. QED
      BY <3>1, <3>2, <3>3, <3>4
  <2>4. QED
    BY <2>1, <2>2, <2>3
<1>10. Divides(g, Message(Append(b, c)), n + 8)
  <2>1. [k \in 0 .. n + 8 |-> g[k]] = [k \in 0 .. n + 8 |-> Rest(k)]
    <3> HIDE DEF Rest
    <3> QED BY <1>9
  <2>2. QED
    BY <1>8, <2>1 DEF Divides
<1>11. g[n + 8] = Mirror(Eight(Xor(reg, c)), 31)
  <2>1. n + 8 \in n .. n + 8 /\ (n + 8) - n = 8 /\ 39 - 8 = 31
    OBVIOUS
  <2>2. QED
    BY <1>2, <1>7, <2>1 DEF x
<1>12. QED
  BY <1>5, <1>10, <1>11

-----------------------------------------------------------------------------
(* The loops.                                                              *)

\* The division of what has been taken of bytes has come to the register.
Remains(bytes, k, reg) ==
  LET b == SubSeq(bytes, 1, k)
  IN  Plain(b) => \E f \in [0 .. 8 * k -> SUBSET Int] :
                    Divides(f, Message(b), 8 * k) /\ f[8 * k] = Mirror(reg, 31)

IInv == Remains(src, i, crc) /\ Remains(file, i, file_crc)

\* Before the first byte there is nothing to divide.
LEMMA NothingDivided ==
  ASSUME NEW bytes \in Seq(Char)
  PROVE  Remains(bytes, 0, Ones)
<1> DEFINE b == SubSeq(bytes, 1, 0)
           f == [k \in 0 .. 0 |-> 0 .. 31]
<1>1. b = <<>>
  BY SubSeqProperties
<1>2. Message(b) = 0 .. 31
  BY <1>1 DEF Message, Xor
<1>3. Divides(f, Message(b), 0)
  BY <1>2 DEF Divides
<1>4. Mirror(Ones, 31) = 0 .. 31
  <2>1. Ones = 0 .. 31
    BY Width DEF Ones
  <2>2. \A x \in 0 .. 31 : 31 - x \in 0 .. 31 /\ x = 31 - (31 - x)
    OBVIOUS
  <2>3. QED
    BY <2>1, <2>2 DEF Mirror
<1>5. f \in [0 .. 0 -> SUBSET Int] /\ f[0] = 0 .. 31
  OBVIOUS
<1> HIDE DEF f
<1>6. f[8 * 0] = Mirror(Ones, 31) /\ f \in [0 .. 8 * 0 -> SUBSET Int] /\ Divides(f, Message(b), 8 * 0)
  <2>1. 8 * 0 = 0
    OBVIOUS
  <2>2. QED
    BY <1>3, <1>4, <1>5, <2>1, Zenon
<1>7. QED
  BY <1>6, Zenon DEF Remains

\* A byte more goes into the division as it goes into the register.
LEMMA ByteDivided ==
  ASSUME NEW bytes \in Seq(Char), NEW k \in Nat, k < Len(bytes), NEW reg \in Word,
         Remains(bytes, k, reg)
  PROVE  Remains(bytes, k + 1, Absorb(reg, bytes[k + 1]))
<1> DEFINE b == SubSeq(bytes, 1, k)
           c == bytes[k + 1]
           d == SubSeq(bytes, 1, k + 1)
           n == 8 * k
<1>1. Len(bytes) \in Nat /\ k + 1 \in 1 .. Len(bytes) /\ c \in Char
  BY LenProperties
<1>2. /\ b \in Seq(Char) /\ Len(b) = k /\ \A j \in 1 .. k : b[j] = bytes[j]
      /\ d \in Seq(Char) /\ Len(d) = k + 1 /\ \A j \in 1 .. k + 1 : d[j] = bytes[j]
  BY <1>1, SubSeqProperties
<1> HIDE DEF b, c, d
<1>3. d = Append(b, c)
  <2>1. /\ Append(b, c) \in Seq(Char) /\ Len(Append(b, c)) = k + 1
        /\ \A j \in 1 .. k : Append(b, c)[j] = b[j]
        /\ Append(b, c)[k + 1] = c
    BY <1>1, <1>2, AppendProperties
  <2>2. \A j \in 1 .. k + 1 : d[j] = Append(b, c)[j]
    BY <1>2, <2>1 DEF c
  <2>3. QED
    BY <1>2, <2>1, <2>2, SeqEqual
<1>4. SUFFICES ASSUME Plain(d)
               PROVE  \E g \in [0 .. 8 * (k + 1) -> SUBSET Int] :
                        /\ Divides(g, Message(d), 8 * (k + 1))
                        /\ g[8 * (k + 1)] = Mirror(Absorb(reg, c), 31)
  BY DEF Remains, c, d
<1>5. Plain(b)
  BY <1>2, <1>4 DEF Plain
<1>6. Extended(c) = c
  BY <1>1, <1>2, <1>4 DEF Plain, Extended, c
<1>7. PICK f \in [0 .. n -> SUBSET Int] : Divides(f, Message(b), n) /\ f[n] = Mirror(reg, 31)
  BY <1>5 DEF Remains, b
<1>8. n \in Nat /\ n = 8 * Len(b) /\ 8 * (k + 1) = n + 8
  BY <1>2
<1> HIDE DEF n
<1>9. \E g \in [0 .. n + 8 -> SUBSET Int] :
        /\ Divides(g, Message(Append(b, c)), n + 8)
        /\ g[n + 8] = Mirror(Eight(Xor(reg, c)), 31)
  BY <1>1, <1>2, <1>7, <1>8, DivisionGrows
<1>10. QED
  BY <1>3, <1>6, <1>8, <1>9 DEF Absorb

\* What the division has come to is the checksum.
LEMMA RemainsStandard ==
  ASSUME NEW bytes \in Seq(Char), NEW k \in 0 .. Len(bytes), NEW reg \in Word,
         Remains(bytes, k, reg), Plain(SubSeq(bytes, 1, k))
  PROVE  Not(reg) = Standard(SubSeq(bytes, 1, k))
<1> DEFINE b == SubSeq(bytes, 1, k)
<1>1. b \in Seq(Char) /\ Len(b) = k
  BY LenProperties, SubSeqProperties
<1>2. PICK f \in [0 .. 8 * k -> SUBSET Int] :
        Divides(f, Message(b), 8 * k) /\ f[8 * k] = Mirror(reg, 31)
  BY DEF Remains
<1> HIDE DEF b
<1>3. Remainder(Message(b), 8 * k) = Mirror(reg, 31)
  BY <1>2, RemainderIs
<1>4. \A x \in 0 .. 31 : 31 - x \in Mirror(reg, 31) <=> x \in reg
  <2>1. \A j \in reg : j \in 0 .. 31
    BY Mirrored
  <2>2. \A x, j \in 0 .. 31 : 31 - x = 31 - j => x = j
    OBVIOUS
  <2>3. QED
    BY <2>1, <2>2 DEF Mirror
<1>5. Ones = 0 .. 31
  BY Width DEF Ones
<1>6. Standard(b) = {x \in 0 .. 31 : x \notin reg}
  BY <1>1, <1>3, <1>4 DEF Standard
<1>7. QED
  BY <1>5, <1>6 DEF Not, b

\* Both overloads of crc32b compute the standard's CRC-32 of whatever they have
\* taken, of any length, where it is text of characters below 128, or char is
\* unsigned.
THEOREM ComputesTheStandard == Spec => []ComputesCrc32OfPlain
<1>1. Init => IInv
  BY InputAssumption, NothingDivided DEF Init, IInv
<1>2. TypeOK /\ IInv /\ [Next]_vars => IInv'
  <2> SUFFICES ASSUME TypeOK, IInv, [Next]_vars
               PROVE  IInv'
    OBVIOUS
  <2>1. CASE NextByte
    <3>1. i \in Nat /\ i < Len(src) /\ i < Len(file) /\ src \in Seq(Char) /\ file \in Seq(Char)
      BY <2>1 DEF NextByte, TypeOK
    <3>2. Remains(src, i + 1, Absorb(crc, src[i + 1]))
      BY <3>1, ByteDivided DEF TypeOK, IInv
    <3>3. Remains(file, i + 1, Absorb(file_crc, file[i + 1]))
      BY <3>1, ByteDivided DEF TypeOK, IInv
    <3>4. /\ i' = i + 1 /\ crc' = Absorb(crc, src[i + 1])
          /\ file_crc' = Absorb(file_crc, file[i + 1]) /\ UNCHANGED <<signed, src, file>>
      BY <2>1 DEF NextByte
    <3>5. QED
      BY <3>2, <3>3, <3>4 DEF IInv, Remains, Plain
  <2>2. CASE UNCHANGED vars
    BY <2>2 DEF vars, IInv, Remains, Plain
  <2>3. QED
    BY <2>1, <2>2 DEF Next
<1>3. TypeOK /\ IInv => ComputesCrc32OfPlain
  BY RemainsStandard DEF TypeOK, IInv, ComputesCrc32OfPlain
<1>4. QED
  BY <1>1, <1>2, <1>3, TypeCorrect, PTL DEF Spec
=============================================================================
