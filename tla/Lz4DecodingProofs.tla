------------------------- MODULE Lz4DecodingProofs -------------------------
(***************************************************************************)
(* Proofs about Lz4Decoding.  The copies of LZ4_decompress_generic write   *)
(* more than they are asked to, so what keeps them inside is how much room *)
(* each part of a sequence leaves to the next one.  The proof goes up the  *)
(* way the decoder is built: numbers and copies; the reading of a token,   *)
(* an offset and a length; each kind of match and of literals; a step of   *)
(* either loop; the loops.                                                 *)
(***************************************************************************)
EXTENDS Lz4Decoding, WellFoundedInduction, TLAPS

-----------------------------------------------------------------------------
(* Numbers.                                                                *)

\* A nonempty set of natural numbers has a smallest member.
LEMMA MinOfNaturals ==
  ASSUME NEW S \in SUBSET Nat, S # {}
  PROVE  Min(S) \in S /\ \A k \in S : Min(S) <= k
<1> DEFINE R == OpToRel(<, Nat)
<1>1. IsWellFoundedOn(R, Nat)
  BY NatLessThanWellFounded
<1>2. \A a, b \in Nat : a < b => <<a, b>> \in R
  BY DEF OpToRel
<1> HIDE DEF R
<1>3. \E n \in S : \A k \in S : ~(<<k, n>> \in R)
  BY <1>1, WFMin
<1>4. \E n \in S : \A k \in S : n <= k
  <2>1. PICK n \in S : \A k \in S : ~(<<k, n>> \in R)
    BY <1>3
  <2>2. \A k \in S : k \in Nat /\ n \in Nat /\ ~(k < n)
    BY <1>2, <2>1
  <2>3. \A k \in S : n <= k
    BY <2>2
  <2> QED BY <2>3
<1> QED BY <1>4 DEF Min

\* What a byte and half a token hold.
LEMMA Sizes ==
  /\ ML_MASK \in Nat /\ ML_MASK >= 1 /\ ML_MASK <= 15 /\ RUN_MASK = ML_MASK
  /\ BYTE \in Nat /\ BYTE >= 3 /\ BYTE + 1 = (ML_MASK + 1) * (ML_MASK + 1)
  /\ HALF \in Nat /\ HALF >= 1
<1> DEFINE s == (ML_MASK + 1) * (ML_MASK + 1)
<1>1. ML_MASK \in 1 .. 15 /\ BYTE \in Nat /\ BYTE + 1 = s /\ HALF \in 1 .. BYTE + 1
  BY SizesAssumption
<1>2. s >= 4
  BY <1>1
<1>3. BYTE >= 3
  <2> HIDE DEF s
  <2> QED BY <1>1, <1>2
<1>4. HALF \in Nat /\ HALF >= 1
  <2> HIDE DEF s
  <2> QED BY <1>1
<1> QED BY <1>1, <1>3, <1>4 DEF RUN_MASK

\* Half of a token.
LEMMA Halves ==
  \A t \in 0 .. BYTE : t \div (ML_MASK + 1) \in 0 .. ML_MASK /\ t % (ML_MASK + 1) \in 0 .. ML_MASK
<1> SUFFICES ASSUME NEW t \in 0 .. BYTE
             PROVE  t \div (ML_MASK + 1) \in 0 .. ML_MASK /\ t % (ML_MASK + 1) \in 0 .. ML_MASK
  OBVIOUS
<1> DEFINE w == ML_MASK + 1
<1> DEFINE q == t \div w
<1>1. w \in Nat /\ w >= 1 /\ t \in Nat /\ t < w * w
  BY Sizes
<1> HIDE DEF w
<1>2. q \in Nat /\ w * q <= t /\ t % w \in 0 .. w - 1
  BY <1>1
<1> HIDE DEF q
<1>3. q < w
  BY <1>1, <1>2
<1> QED BY <1>2, <1>3, Sizes DEF w, q


\* An offset of two bytes is inside the window.
LEMMA Window ==
  /\ KB64 \in Nat /\ KB64 >= 1
  /\ \A a, b \in Int : (a % HALF) + HALF * (b % HALF) \in 0 .. KB64 - 1
<1>1. HALF \in Nat /\ HALF >= 1
  BY Sizes
<1>2. KB64 \in Nat /\ KB64 >= 1
  BY <1>1 DEF KB64
<1>3. ASSUME NEW p \in 0 .. HALF - 1, NEW q \in 0 .. HALF - 1
      PROVE  p + HALF * q \in 0 .. KB64 - 1
  <2>1. HALF * q \in Nat /\ HALF * q <= HALF * (HALF - 1)
    BY <1>1
  <2>2. HALF * (HALF - 1) = KB64 - HALF
    BY <1>1 DEF KB64
  <2> QED BY <1>1, <1>2, <2>1, <2>2
<1>4. \A a \in Int : a % HALF \in 0 .. HALF - 1
  BY <1>1
<1> QED BY <1>2, <1>3, <1>4

\* The larger of two numbers.
LEMMA MaxOfTwo ==
  \A a, b \in Int : Max({a, b}) = IF a >= b THEN a ELSE b
  BY DEF Max

\* The smaller of two numbers.
LEMMA MinOfTwo ==
  \A a, b \in Int : Min({a, b}) = IF a <= b THEN a ELSE b
  BY DEF Min

\* The smallest of three numbers.
LEMMA MinOfThree ==
  \A a, b, c \in Int :
    LET n == Min({a, b, c}) IN n \in {a, b, c} /\ n <= a /\ n <= b /\ n <= c
<1> SUFFICES ASSUME NEW a \in Int, NEW b \in Int, NEW c \in Int
             PROVE  LET n == Min({a, b, c}) IN n \in {a, b, c} /\ n <= a /\ n <= b /\ n <= c
  OBVIOUS
<1>1. \E n \in {a, b, c} : \A k \in {a, b, c} : n <= k
  <2>1. CASE a <= b /\ a <= c
    BY <2>1
  <2>2. CASE b <= a /\ b <= c
    BY <2>2
  <2>3. CASE c <= a /\ c <= b
    BY <2>3
  <2> QED BY <2>1, <2>2, <2>3
<1> QED BY <1>1 DEF Min

\* A copy by groups ends less than a group behind what it was asked to reach,
\* or is one group.
LEMMA WildEnds ==
  \A d, e \in Int : \A w \in {1, 8, 32} :
    /\ WildEnd(d, e, w) \in Int
    /\ e <= d => WildEnd(d, e, w) = d + w
    /\ e > d  => WildEnd(d, e, w) >= e /\ WildEnd(d, e, w) <= e + w - 1
<1> SUFFICES ASSUME NEW d \in Int, NEW e \in Int, NEW w \in {1, 8, 32}
             PROVE  /\ WildEnd(d, e, w) \in Int
                    /\ e <= d => WildEnd(d, e, w) = d + w
                    /\ e > d  => WildEnd(d, e, w) >= e /\ WildEnd(d, e, w) <= e + w - 1
  OBVIOUS
<1>1. CASE w = 1
  BY <1>1 DEF WildEnd
<1>2. CASE w = 8
  BY <1>2 DEF WildEnd
<1>3. CASE w = 32
  BY <1>3 DEF WildEnd
<1> QED BY <1>1, <1>2, <1>3

\* Byte by byte there is nothing beyond it.
LEMMA OneByOne ==
  ASSUME NEW d \in Int, NEW e \in Int, e > d
  PROVE  WildEnd(d, e, 1) = e
<1> DEFINE n == WildEnd(d, e, 1)
<1>1. n \in Int /\ (e > d => n >= e /\ n <= e + 1 - 1)
  BY WildEnds
<1> HIDE DEF n
<1>2. n = e
  BY <1>1
<1> QED BY <1>2 DEF n

\* So one by groups of 8 stays below a limit that a group and the whole keep far
\* enough away from.
LEMMA WildBelow8 ==
  ASSUME NEW d \in Int, NEW e \in Int, NEW limit \in Int, d + 8 <= limit, e + 7 <= limit
  PROVE  WildEnd(d, e, 8) \in Int /\ WildEnd(d, e, 8) <= limit
<1> DEFINE n == WildEnd(d, e, 8)
<1>1. n \in Int /\ (e <= d => n = d + 8) /\ (e > d => n <= e + 7)
  BY WildEnds
<1> HIDE DEF n
<1>2. n <= limit
  BY <1>1
<1> QED BY <1>1, <1>2 DEF n

\* So one by groups of 32 stays below a limit that a group and the whole keep far
\* enough away from.
LEMMA WildBelow32 ==
  ASSUME NEW d \in Int, NEW e \in Int, NEW limit \in Int, d + 32 <= limit, e + 31 <= limit
  PROVE  WildEnd(d, e, 32) \in Int /\ WildEnd(d, e, 32) <= limit
<1> DEFINE n == WildEnd(d, e, 32)
<1>1. n \in Int /\ (e <= d => n = d + 32) /\ (e > d => n <= e + 31)
  BY WildEnds
<1> HIDE DEF n
<1>2. n <= limit
  BY <1>1
<1> QED BY <1>1, <1>2 DEF n

-----------------------------------------------------------------------------
(* Calls.                                                                  *)

\* A call of one of the functions that watch both ends.
Checked(x) ==
  /\ x.b \in Seq(0 .. BYTE) /\ x.b # <<>>
  /\ x.dst \in Nat /\ x.cap \in Nat /\ x.cap > 0
  /\ x.safe = TRUE /\ x.partial \in BOOLEAN
  /\ x.mode \in {"noDict", "withPrefix64k", "usingExtDict"}
  /\ x.low \in Int /\ x.low <= x.dst
  /\ x.dictSize \in Nat /\ (x.mode # "usingExtDict" => x.dictSize = 0)

\* The ends of the block and of the destination.
LEMMA EndsOfBuffers ==
  ASSUME NEW x, Checked(x)
  PROVE  /\ iendOf(x) \in Nat /\ iendOf(x) >= 1
         /\ x.dst \in Nat /\ oendOf(x) \in Nat /\ oendOf(x) >= x.dst + 1
         /\ oendOf(x) = x.dst + x.cap
  BY DEF Checked, iendOf, oendOf

\* A byte of the block is one.
LEMMA BytesOfBlock ==
  ASSUME NEW x, Checked(x), NEW i \in Int
  PROVE  In(x, i) \in 0 .. BYTE /\ (i >= iendOf(x) => In(x, i) = 0)
  BY Sizes DEF Checked, In, iendOf

\* An offset is less than a window.
LEMMA OffsetsRead ==
  ASSUME NEW x, Checked(x), NEW i \in Nat
  PROVE  LZ4_readLE16(<<In(x, i), In(x, i + 1)>>, 0) \in 0 .. KB64 - 1
<1>1. In(x, i) \in Int /\ In(x, i + 1) \in Int
  BY BytesOfBlock, Sizes
<1> DEFINE b == <<In(x, i), In(x, i + 1)>>
<1>2. b[0 + 1] = In(x, i) /\ b[0 + 2] = In(x, i + 1)
  OBVIOUS
<1> HIDE DEF b
<1>3. (b[0 + 1] % HALF) + HALF * (b[0 + 2] % HALF) \in 0 .. KB64 - 1
  BY <1>1, <1>2, Window
<1> QED BY <1>3 DEF LZ4_readLE16, b

\* What the bytes of a length add up to is no less than what it began with; all
\* of them but the last lie before the limit that is watched, and unless the
\* limit was met the last one does too.
LEMMA LengthsRead ==
  ASSUME NEW x, Checked(x), NEW i \in Nat, NEW limit \in Int, limit <= iendOf(x),
         NEW sum \in Nat, NEW initial \in BOOLEAN
  PROVE  LET r == read_variable_length(x, i, limit, sum, initial)
         IN  /\ r.error \in {"initial_error", "loop_error", "ok"}
             /\ r.error # "initial_error" => ~initial \/ i < limit
             /\ r.length \in Nat /\ r.length >= sum
             /\ r.ip \in Nat /\ r.ip >= i
             /\ r.error # "initial_error" => r.ip >= i + 1 /\ (r.ip <= i + 1 \/ r.ip <= limit)
             /\ r.error = "ok" => r.ip < limit
<1> DEFINE e == Max({i, iendOf(x)})
           S == {k \in i .. e : In(x, k) # BYTE \/ (x.safe /\ k + 1 >= limit)}
           stop == Min(S)
<1>1. iendOf(x) \in Nat
  BY EndsOfBuffers
<1>2. e \in Nat /\ e >= i /\ e >= iendOf(x)
  BY <1>1, MaxOfTwo
<1>3. x.safe = TRUE
  BY DEF Checked
<1> HIDE DEF e
<1>4. e \in S
  BY <1>1, <1>2, BytesOfBlock, Sizes
<1>5. S \in SUBSET Nat
  BY <1>2
<1>6. stop \in S /\ \A k \in S : stop <= k
  BY <1>4, <1>5, MinOfNaturals
<1>7. stop \in Nat /\ stop >= i /\ stop <= e
  BY <1>2, <1>6
<1>8. stop <= i \/ stop <= limit - 1
  <2>1. CASE limit - 1 > i
    <3>1. limit - 1 \in S
      BY <1>1, <1>2, <1>3, <2>1
    <3> QED BY <1>6, <3>1
  <2>2. CASE limit - 1 <= i
    <3>1. i \in S
      BY <1>1, <1>2, <1>3, <2>2
    <3> QED BY <1>6, <3>1
  <2> QED BY <2>1, <2>2
<1>9. In(x, stop) \in Nat
  BY <1>7, BytesOfBlock, Sizes
<1> DEFINE r == read_variable_length(x, i, limit, sum, initial)
<1>10. r = IF initial /\ i >= limit THEN [length |-> sum, ip |-> i, error |-> "initial_error"]
           ELSE [length |-> sum + BYTE * (stop - i) + In(x, stop), ip |-> stop + 1,
                 error |-> IF stop + 1 >= limit THEN "loop_error" ELSE "ok"]
  BY <1>3 DEF read_variable_length, e, S, stop
<1> HIDE DEF S, stop, r
<1>11. BYTE * (stop - i) \in Nat
  BY <1>7, Sizes
<1> DEFINE more == BYTE * (stop - i)
<1> HIDE DEF more
<1>12. CASE initial /\ i >= limit
  <2>1. r.error = "initial_error" /\ r.length = sum /\ r.ip = i
    BY <1>10, <1>12
  <2> QED BY <2>1 DEF r
<1>13. CASE ~(initial /\ i >= limit)
  <2>1. /\ r.length = sum + more + In(x, stop) /\ r.ip = stop + 1
        /\ r.error = IF stop + 1 >= limit THEN "loop_error" ELSE "ok"
    BY <1>10, <1>13 DEF more
  <2>2. sum + more + In(x, stop) \in Nat /\ sum + more + In(x, stop) >= sum
    BY <1>9, <1>11 DEF more
  <2> QED BY <1>7, <1>8, <1>13, <2>1, <2>2 DEF r
<1> QED BY <1>12, <1>13

-----------------------------------------------------------------------------
(* Memory.                                                                 *)

\* n is what memory was, m, but for the destination.
Spares(x, m, n) ==
  /\ DOMAIN n = DOMAIN m
  /\ \A a \in DOMAIN m : a \notin x.dst .. oendOf(x) - 1 => n[a] = m[a]

\* What two steps leave alone both of them do.
LEMMA SparesBoth ==
  ASSUME NEW x, NEW m, NEW n, NEW o, Spares(x, m, n), Spares(x, n, o)
  PROVE  Spares(x, m, o)
  BY DEF Spares

\* A copy into the destination.
LEMMA CopySpares ==
  ASSUME NEW x, Checked(x), NEW m, NEW d \in Int, NEW s, NEW n \in Int,
         d >= x.dst, d + n <= oendOf(x)
  PROVE  Spares(x, m, Copy(m, d, s, n))
  BY EndsOfBuffers DEF Spares, Copy

\* A copy by groups whose last group is in the destination.
LEMMA WildSpares ==
  ASSUME NEW x, Checked(x), NEW m, NEW d \in Int, NEW s, NEW e \in Int, NEW w \in {1, 8, 32},
         d >= x.dst, WildEnd(d, e, w) <= oendOf(x)
  PROVE  Spares(x, m, WildCopy(m, d, s, e, w))
<1>1. WildEnd(d, e, w) \in Int
  BY WildEnds
<1> QED BY <1>1, EndsOfBuffers DEF Spares, WildCopy

\* The first eight bytes of a match.
LEMMA NearSpares ==
  ASSUME NEW x, Checked(x), NEW m, NEW d \in Int, NEW s, NEW offset,
         d >= x.dst, d + 8 <= oendOf(x)
  PROVE  Spares(x, m, CopyNear(m, d, s, offset).m)
<1> DEFINE m0 == [a \in DOMAIN m |-> IF a \in d .. d + 3 THEN 0 ELSE m[a]]
           m1 == Copy(m0, d, s, 1)
           m2 == Copy(m1, d + 1, s + 1, 1)
           m3 == Copy(m2, d + 2, s + 2, 1)
           m4 == Copy(m3, d + 3, s + 3, 1)
           m5 == Copy(m4, d + 4, s + inc32table[offset + 1], 4)
<1>1. CopyNear(m, d, s, offset).m = m5
  BY DEF CopyNear
<1>2. Spares(x, m, m0)
  BY EndsOfBuffers DEF Spares
<1>3. oendOf(x) \in Int
  BY EndsOfBuffers
<1> HIDE DEF m0
<1>4. Spares(x, m0, m1)
  BY <1>3, CopySpares
<1> HIDE DEF m1
<1>5. Spares(x, m1, m2)
  BY <1>3, EndsOfBuffers, CopySpares
<1> HIDE DEF m2
<1>6. Spares(x, m2, m3)
  BY <1>3, EndsOfBuffers, CopySpares
<1> HIDE DEF m3
<1>7. Spares(x, m3, m4)
  BY <1>3, EndsOfBuffers, CopySpares
<1> HIDE DEF m4
<1>8. Spares(x, m4, m5)
  BY <1>3, EndsOfBuffers, CopySpares
<1> HIDE DEF m5
<1> QED BY <1>1, <1>2, <1>4, <1>5, <1>6, <1>7, <1>8, SparesBoth

\* A match of the fast loop, near: its first sixteen bytes, and up to seven more
\* than it has.
LEMMA UsingOffsetSpares ==
  ASSUME NEW x, Checked(x), NEW m, NEW d \in Int, NEW s, NEW e \in Int, NEW offset,
         d >= x.dst, d + 16 <= oendOf(x), e + 7 <= oendOf(x)
  PROVE  Spares(x, m, LZ4_memcpy_using_offset(m, d, s, e, offset))
<1>0. oendOf(x) \in Int /\ x.dst \in Int
  BY EndsOfBuffers
<1>1. WildEnd(d, e, 8) \in Int /\ WildEnd(d, e, 8) <= oendOf(x)
  BY <1>0, WildBelow8
<1>2. WildEnd(d + 8, e, 8) \in Int /\ WildEnd(d + 8, e, 8) <= oendOf(x)
  BY <1>0, WildBelow8
<1>3. CASE offset \in {1, 2, 4}
  BY <1>0, <1>1, <1>3 DEF Spares, LZ4_memcpy_using_offset
<1>4. CASE offset \notin {1, 2, 4} /\ offset < 8
  <2> DEFINE near == CopyNear(m, d, s, offset)
  <2>1. Spares(x, m, near.m)
    BY <1>0, NearSpares
  <2>2. LZ4_memcpy_using_offset(m, d, s, e, offset) = WildCopy(near.m, d + 8, near.s, e, 8)
    BY <1>4 DEF LZ4_memcpy_using_offset, LZ4_memcpy_using_offset_base, LZ4_wildCopy8
  <2> HIDE DEF near
  <2>3. Spares(x, near.m, WildCopy(near.m, d + 8, near.s, e, 8))
    BY <1>0, <1>2, WildSpares
  <2> QED BY <2>1, <2>2, <2>3, SparesBoth
<1>5. CASE offset \notin {1, 2, 4} /\ ~(offset < 8)
  <2> DEFINE near == Copy(m, d, s, 8)
  <2>1. Spares(x, m, near)
    BY <1>0, CopySpares
  <2>2. LZ4_memcpy_using_offset(m, d, s, e, offset) = WildCopy(near, d + 8, s + 8, e, 8)
    BY <1>5 DEF LZ4_memcpy_using_offset, LZ4_memcpy_using_offset_base, LZ4_wildCopy8
  <2> HIDE DEF near
  <2>3. Spares(x, near, WildCopy(near, d + 8, s + 8, e, 8))
    BY <1>0, <1>2, WildSpares
  <2> QED BY <2>1, <2>2, <2>3, SparesBoth
<1> QED BY <1>3, <1>4, <1>5

-----------------------------------------------------------------------------
(* How far the decoding has come.                                          *)

\* The fields of a decoding.
Decoder(d) ==
  DOMAIN d = {"pc", "ip", "op", "m", "token", "length", "offset", "rd", "before"}

\* Nothing was read behind the block, written outside the destination or looked
\* for before the history, and the sequence in hand is one that a block can hold.
Inside(x, m, d) ==
  /\ Decoder(d)
  /\ d.ip \in 0 .. iendOf(x) /\ d.rd \in 0 .. iendOf(x)
  /\ d.op \in x.dst .. oendOf(x)
  /\ d.token \in 0 .. BYTE /\ d.length \in Nat /\ d.offset \in 0 .. KB64 - 1
  /\ d.before = 0
  /\ Spares(x, m, d.m)

\* Going on.
LEMMA AdvanceFields ==
  ASSUME NEW d, Decoder(d), NEW n
  PROVE  LET r == Advance(d, n)
         IN  /\ Decoder(r)
             /\ r.ip = d.ip + n /\ r.op = d.op + n
             /\ r.pc = d.pc /\ r.m = d.m /\ r.token = d.token /\ r.length = d.length
             /\ r.offset = d.offset /\ r.rd = d.rd /\ r.before = d.before
  BY DEF Advance, Decoder

\* Giving up.
LEMMA FailFields ==
  ASSUME NEW d, Decoder(d)
  PROVE  LET r == Fail(d)
         IN  /\ Decoder(r)
             /\ r.pc = "error"
             /\ r.ip = d.ip /\ r.op = d.op /\ r.m = d.m /\ r.token = d.token /\ r.length = d.length
             /\ r.offset = d.offset /\ r.rd = d.rd /\ r.before = d.before
  BY DEF Fail, Decoder

\* Literals copied, and what is copied with them.
LEMMA LiteralsInside ==
  ASSUME NEW x, Checked(x), NEW m, NEW d, Inside(x, m, d), NEW k \in Nat, NEW n \in Nat,
         d.op + k <= oendOf(x), d.ip + k <= iendOf(x), n <= k
  PROVE  LET r == Advance(CopyIn(x, d, k), n)
         IN  /\ Inside(x, m, r)
             /\ r.ip = d.ip + n /\ r.op = d.op + n
             /\ r.pc = d.pc /\ r.token = d.token /\ r.length = d.length
             /\ r.offset = d.offset
<1> DEFINE c == CopyIn(x, d, k)
<1>1. /\ Decoder(c)
      /\ c.pc = d.pc /\ c.ip = d.ip /\ c.op = d.op /\ c.token = d.token /\ c.length = d.length
      /\ c.offset = d.offset /\ c.before = d.before
      /\ c.rd = Max({d.rd, d.ip + k})
      /\ c.m = [a \in DOMAIN d.m |-> IF a \in d.op .. d.op + k - 1
                                     THEN In(x, d.ip + a - d.op) ELSE d.m[a]]
  BY DEF CopyIn, Decoder, Inside
<1>2. /\ d.ip \in Nat /\ d.ip <= iendOf(x) /\ d.rd \in Nat /\ d.rd <= iendOf(x)
      /\ d.op \in Nat /\ d.op >= x.dst /\ d.op <= oendOf(x)
      /\ oendOf(x) \in Nat /\ x.dst \in Nat /\ iendOf(x) \in Nat
  BY EndsOfBuffers DEF Inside
<1>3. c.rd \in 0 .. iendOf(x)
  BY <1>1, <1>2, MaxOfTwo
<1>4. Spares(x, d.m, c.m)
  BY <1>1, <1>2 DEF Spares
<1> HIDE DEF c
<1>5. Spares(x, m, c.m)
  BY <1>4, SparesBoth DEF Inside
<1> DEFINE r == Advance(c, n)
<1>6. /\ Decoder(r)
      /\ r.ip = d.ip + n /\ r.op = d.op + n
      /\ r.pc = d.pc /\ r.m = c.m /\ r.token = d.token /\ r.length = d.length
      /\ r.offset = d.offset /\ r.rd = c.rd /\ r.before = d.before
  BY <1>1, AdvanceFields
<1> HIDE DEF r
<1>7. r.ip \in 0 .. iendOf(x) /\ r.op \in x.dst .. oendOf(x)
  BY <1>2, <1>6
<1>8. Inside(x, m, r)
  BY <1>3, <1>5, <1>6, <1>7 DEF Inside
<1> QED BY <1>6, <1>8 DEF r, c

-----------------------------------------------------------------------------
(* Reading a sequence.                                                     *)

\* What being inside says of each number.
LEMMA InsideNumbers ==
  ASSUME NEW x, Checked(x), NEW m, NEW d, Inside(x, m, d)
  PROVE  /\ d.ip \in Nat /\ d.ip <= iendOf(x) /\ d.rd \in Nat /\ d.rd <= iendOf(x)
         /\ d.op \in Nat /\ d.op >= x.dst /\ d.op <= oendOf(x)
         /\ d.length \in Nat /\ d.offset \in Nat /\ d.offset <= KB64 - 1
         /\ oendOf(x) \in Nat /\ x.dst \in Nat /\ iendOf(x) \in Nat
<1>1. KB64 \in Nat /\ oendOf(x) \in Nat /\ x.dst \in Nat /\ iendOf(x) \in Nat
  BY EndsOfBuffers, Window
<1>2. /\ d.ip \in 0 .. iendOf(x) /\ d.rd \in 0 .. iendOf(x)
      /\ d.op \in x.dst .. oendOf(x)
      /\ d.length \in Nat /\ d.offset \in 0 .. KB64 - 1
  BY DEF Inside
<1> QED BY <1>1, <1>2

\* A token is inside the block when one byte of it is, and so is its length; the
\* length of literals is below the mask when its half is.
LEMMA TokenInside ==
  ASSUME NEW x, Checked(x), NEW m, NEW d, Inside(x, m, d), d.ip < iendOf(x)
  PROVE  LET t == Token(x, d)
         IN  /\ Inside(x, m, t)
             /\ t.op = d.op /\ t.ip >= d.ip + 1
             /\ t.pc = "error" \/ t.pc = d.pc
             /\ t.token \div (ML_MASK + 1) # RUN_MASK => t.pc = d.pc /\ t.length < RUN_MASK
<1> DEFINE b == In(x, d.ip)
           short == b \div (ML_MASK + 1)
           r == read_variable_length(x, d.ip + 1, iendOf(x) - RUN_MASK, RUN_MASK, x.safe)
           d1 == [d EXCEPT !.token = b, !.length = short, !.ip = @ + 1, !.rd = Max({@, d.ip + 1})]
           d2 == [d1 EXCEPT !.length = r.length, !.ip = r.ip, !.rd = Max({@, r.ip})]
           t == Token(x, d)
<1>1. t = IF short # RUN_MASK THEN d1 ELSE IF r.error = "initial_error" THEN Fail(d1) ELSE d2
  BY DEF Token
<1>2. /\ d.ip \in Nat /\ d.rd \in Nat /\ d.rd <= iendOf(x) /\ iendOf(x) \in Nat
      /\ d.ip + 1 \in Nat /\ d.ip + 1 <= iendOf(x)
  BY InsideNumbers
<1>3. b \in 0 .. BYTE
  BY <1>2, BytesOfBlock
<1>4. short \in 0 .. ML_MASK /\ short \in Nat
  BY <1>3, Halves, Sizes
<1>5. /\ r.length \in Nat /\ r.ip \in Nat /\ r.ip >= d.ip + 1
      /\ r.error # "initial_error" => r.ip <= iendOf(x)
  <2>1. x.safe = TRUE /\ RUN_MASK \in Nat /\ RUN_MASK >= 1
    BY Sizes DEF Checked
  <2>2. iendOf(x) - RUN_MASK \in Int /\ iendOf(x) - RUN_MASK <= iendOf(x)
    BY <1>2, <2>1
  <2>3. /\ r.length \in Nat /\ r.ip \in Nat /\ r.ip >= d.ip + 1
        /\ r.error # "initial_error" => d.ip + 1 < iendOf(x) - RUN_MASK
        /\ r.error # "initial_error" => r.ip <= d.ip + 1 + 1 \/ r.ip <= iendOf(x) - RUN_MASK
    <3> DEFINE limit == iendOf(x) - RUN_MASK
    <3>1. r = read_variable_length(x, d.ip + 1, limit, RUN_MASK, TRUE)
      BY <2>1
    <3>2. limit \in Int /\ limit <= iendOf(x) /\ TRUE \in BOOLEAN
      BY <2>2
    <3> HIDE DEF limit, r
    <3> DEFINE i == d.ip + 1
               q == read_variable_length(x, i, limit, RUN_MASK, TRUE)
    <3>3. i \in Nat /\ RUN_MASK \in Nat
      BY <1>2, <2>1
    <3> HIDE DEF i
    <3>4. /\ q.error \in {"initial_error", "loop_error", "ok"}
          /\ q.error # "initial_error" => ~TRUE \/ i < limit
          /\ q.length \in Nat /\ q.length >= RUN_MASK
          /\ q.ip \in Nat /\ q.ip >= i
          /\ q.error # "initial_error" => q.ip >= i + 1 /\ (q.ip <= i + 1 \/ q.ip <= limit)
          /\ q.error = "ok" => q.ip < limit
      BY <3>2, <3>3, LengthsRead, Zenon
    <3>5. r = q
      BY <3>1 DEF i
    <3> QED BY <3>4, <3>5 DEF limit, i
  <2> HIDE DEF r
  <2> QED BY <1>2, <2>1, <2>3
<1>6. /\ Decoder(d1)
      /\ d1.pc = d.pc /\ d1.ip = d.ip + 1 /\ d1.op = d.op /\ d1.m = d.m /\ d1.token = b
      /\ d1.length = short /\ d1.offset = d.offset /\ d1.before = d.before
      /\ d1.rd = Max({d.rd, d.ip + 1})
  BY DEF Inside, Decoder
<1>7. d1.rd \in 0 .. iendOf(x) /\ d1.ip \in 0 .. iendOf(x)
  <2> HIDE DEF d1
  <2> QED BY <1>2, <1>6, MaxOfTwo
<1>8. /\ Decoder(d2)
      /\ d2.pc = d1.pc /\ d2.ip = r.ip /\ d2.op = d1.op /\ d2.m = d1.m /\ d2.token = d1.token
      /\ d2.length = r.length /\ d2.offset = d1.offset /\ d2.before = d1.before
      /\ d2.rd = Max({d1.rd, r.ip})
  <2> HIDE DEF d1, r
  <2> QED BY <1>6 DEF Decoder
<1> HIDE DEF d1, d2, short, b, r
<1>9. Inside(x, m, d1)
  BY <1>3, <1>4, <1>6, <1>7 DEF Inside
<1>10. CASE short # RUN_MASK
  <2>1. t = d1
    BY <1>1, <1>10
  <2>2. short < RUN_MASK
    BY <1>4, <1>10, Sizes
  <2> QED BY <1>2, <1>6, <1>9, <2>1, <2>2
<1>11. CASE short = RUN_MASK /\ r.error = "initial_error"
  <2>1. t = Fail(d1)
    BY <1>1, <1>11
  <2> HIDE DEF t
  <2>2. /\ Decoder(t) /\ t.pc = "error"
        /\ t.ip = d1.ip /\ t.op = d1.op /\ t.m = d1.m /\ t.token = d1.token /\ t.length = d1.length
        /\ t.offset = d1.offset /\ t.rd = d1.rd /\ t.before = d1.before
    BY <1>6, <2>1, FailFields
  <2>3. Inside(x, m, t)
    BY <1>9, <2>2 DEF Inside
  <2>4. t.token \div (ML_MASK + 1) = RUN_MASK
    BY <1>6, <1>11, <2>2 DEF short
  <2> QED BY <1>2, <1>6, <2>2, <2>3, <2>4 DEF t
<1>12. CASE short = RUN_MASK /\ r.error # "initial_error"
  <2>1. t = d2
    BY <1>1, <1>12
  <2>2. d2.rd \in 0 .. iendOf(x) /\ d2.ip \in 0 .. iendOf(x)
    BY <1>2, <1>5, <1>7, <1>8, <1>12, MaxOfTwo
  <2>3. Inside(x, m, d2)
    BY <1>5, <1>8, <1>9, <2>2 DEF Inside
  <2>4. d2.token \div (ML_MASK + 1) = RUN_MASK
    BY <1>6, <1>8, <1>12 DEF short
  <2> QED BY <1>5, <1>6, <1>8, <2>1, <2>3, <2>4
<1> QED BY <1>10, <1>11, <1>12

\* An offset is inside the block when two bytes of it are.
LEMMA OffsetInside ==
  ASSUME NEW x, Checked(x), NEW m, NEW d, Inside(x, m, d), d.ip + 2 <= iendOf(x)
  PROVE  LET o == Offset(x, d)
         IN  /\ Inside(x, m, o)
             /\ o.ip = d.ip + 2 /\ o.op = d.op /\ o.pc = d.pc /\ o.token = d.token
             /\ o.length = d.token % (ML_MASK + 1) /\ o.length <= ML_MASK
<1> DEFINE o == Offset(x, d)
           f == LZ4_readLE16(<<In(x, d.ip), In(x, d.ip + 1)>>, 0)
<1>1. /\ Decoder(o)
      /\ o.pc = d.pc /\ o.ip = d.ip + 2 /\ o.op = d.op /\ o.m = d.m /\ o.token = d.token
      /\ o.length = d.token % (ML_MASK + 1) /\ o.offset = f /\ o.before = d.before
      /\ o.rd = Max({d.rd, d.ip + 2})
  BY DEF Offset, Inside, Decoder
<1>2. /\ d.ip \in Nat /\ d.rd \in Nat /\ d.rd <= iendOf(x) /\ iendOf(x) \in Nat
  BY InsideNumbers
<1>3. f \in 0 .. KB64 - 1
  BY <1>2, OffsetsRead
<1> HIDE DEF o, f
<1>4. o.length \in 0 .. ML_MASK
  BY <1>1, Halves DEF Inside
<1>5. o.length \in Nat /\ o.length <= ML_MASK
  BY <1>4, Sizes
<1>6. o.ip \in 0 .. iendOf(x) /\ o.rd \in 0 .. iendOf(x)
  BY <1>1, <1>2, MaxOfTwo
<1>7. Inside(x, m, o)
  BY <1>1, <1>3, <1>5, <1>6 DEF Inside
<1> QED BY <1>1, <1>5, <1>7 DEF o

\* The length of a match is inside the block when one byte of it is, and leaves
\* the last literals unless it is wrong.
LEMMA MatchLengthInside ==
  ASSUME NEW x, Checked(x), NEW m, NEW d, Inside(x, m, d), d.ip < iendOf(x)
  PROVE  LET n == MatchLength(x, d)
         IN  /\ Inside(x, m, n)
             /\ n.op = d.op /\ n.ip >= d.ip /\ n.token = d.token
             /\ \/ n.pc = "error"
                \/ n.pc = d.pc /\ n.ip < iendOf(x) /\ n.length >= MINMATCH
<1> DEFINE r == read_variable_length(x, d.ip, iendOf(x) - LASTLITERALS + 1, ML_MASK, FALSE)
           n == MatchLength(x, d)
           d1 == [d EXCEPT !.length = @ + MINMATCH]
           d2 == [Fail(d) EXCEPT !.ip = r.ip, !.rd = Max({@, r.ip})]
           d3 == [d EXCEPT !.length = r.length + MINMATCH, !.ip = r.ip, !.rd = Max({@, r.ip})]
<1>1. n = IF d.length # ML_MASK THEN d1 ELSE IF r.error # "ok" THEN d2 ELSE d3
  BY DEF MatchLength
<1>2. /\ d.ip \in Nat /\ d.rd \in Nat /\ d.rd <= iendOf(x) /\ iendOf(x) \in Nat /\ d.length \in Nat
  BY InsideNumbers
<1>3. /\ r.length \in Nat /\ r.ip \in Nat /\ r.ip >= d.ip
      /\ r.error = "ok" => r.ip < iendOf(x)
      /\ r.ip <= iendOf(x)
  <2>1. /\ iendOf(x) - LASTLITERALS + 1 \in Int /\ iendOf(x) - LASTLITERALS + 1 <= iendOf(x)
        /\ ML_MASK \in Nat /\ FALSE \in BOOLEAN
    BY <1>2, Sizes DEF LASTLITERALS
  <2> DEFINE limit == iendOf(x) - LASTLITERALS + 1
  <2> HIDE DEF limit
  <2>2. /\ r.error \in {"initial_error", "loop_error", "ok"}
        /\ r.length \in Nat /\ r.ip \in Nat /\ r.ip >= d.ip
        /\ r.error # "initial_error" => r.ip <= d.ip + 1 \/ r.ip <= limit
        /\ r.error = "ok" => r.ip < limit
    BY <1>2, <2>1, LengthsRead DEF limit
  <2>3. r.error # "initial_error"
    BY DEF read_variable_length
  <2> HIDE DEF r
  <2>4. limit \in Int /\ limit <= iendOf(x)
    BY <2>1 DEF limit
  <2> QED BY <1>2, <2>2, <2>3, <2>4
<1> HIDE DEF r
<1>4. CASE d.length # ML_MASK
  <2>1. n = d1
    BY <1>1, <1>4
  <2>2. /\ Decoder(d1)
        /\ d1.pc = d.pc /\ d1.ip = d.ip /\ d1.op = d.op /\ d1.m = d.m /\ d1.token = d.token
        /\ d1.length = d.length + MINMATCH /\ d1.offset = d.offset /\ d1.before = d.before
        /\ d1.rd = d.rd
    BY DEF Inside, Decoder
  <2> HIDE DEF d1
  <2>3. d1.length \in Nat /\ d1.length >= MINMATCH
    BY <1>2, <2>2 DEF MINMATCH
  <2>4. Inside(x, m, d1)
    BY <2>2, <2>3 DEF Inside
  <2> QED BY <1>2, <2>1, <2>2, <2>3, <2>4
<1>5. CASE d.length = ML_MASK /\ r.error # "ok"
  <2>1. n = d2
    BY <1>1, <1>5
  <2>2. Decoder(d)
    BY DEF Inside
  <2>3. /\ Decoder(d2)
        /\ d2.pc = "error" /\ d2.ip = r.ip /\ d2.op = d.op /\ d2.m = d.m /\ d2.token = d.token
        /\ d2.length = d.length /\ d2.offset = d.offset /\ d2.before = d.before
        /\ d2.rd = Max({d.rd, r.ip})
    <3> DEFINE g == Fail(d)
    <3>1. /\ Decoder(g) /\ g.pc = "error"
          /\ g.ip = d.ip /\ g.op = d.op /\ g.m = d.m /\ g.token = d.token /\ g.length = d.length
          /\ g.offset = d.offset /\ g.rd = d.rd /\ g.before = d.before
      BY <2>2, FailFields
    <3>2. d2 = [g EXCEPT !.ip = r.ip, !.rd = Max({g.rd, r.ip})]
      OBVIOUS
    <3> HIDE DEF g, d2
    <3> QED BY <3>1, <3>2 DEF Decoder
  <2> HIDE DEF d2
  <2>4. d2.rd \in 0 .. iendOf(x) /\ d2.ip \in 0 .. iendOf(x)
    BY <1>2, <1>3, <2>3, MaxOfTwo
  <2>5. Inside(x, m, d2)
    BY <2>3, <2>4 DEF Inside
  <2> QED BY <1>3, <2>1, <2>3, <2>5
<1>6. CASE d.length = ML_MASK /\ r.error = "ok"
  <2>1. n = d3
    BY <1>1, <1>6
  <2>2. /\ Decoder(d3)
        /\ d3.pc = d.pc /\ d3.ip = r.ip /\ d3.op = d.op /\ d3.m = d.m /\ d3.token = d.token
        /\ d3.length = r.length + MINMATCH /\ d3.offset = d.offset /\ d3.before = d.before
        /\ d3.rd = Max({d.rd, r.ip})
    BY DEF Inside, Decoder
  <2> HIDE DEF d3
  <2>3. d3.length \in Nat /\ d3.length >= MINMATCH
    BY <1>3, <2>2 DEF MINMATCH
  <2>4. d3.rd \in 0 .. iendOf(x) /\ d3.ip \in 0 .. iendOf(x)
    BY <1>2, <1>3, <2>2, MaxOfTwo
  <2>5. Inside(x, m, d3)
    BY <2>2, <2>3, <2>4 DEF Inside
  <2> QED BY <1>3, <1>6, <2>1, <2>2, <2>3, <2>5
<1> QED BY <1>4, <1>5, <1>6

-----------------------------------------------------------------------------
(* Copying a match.                                                        *)

\* What is done next does not matter.
LEMMA PcInside ==
  ASSUME NEW x, NEW m, NEW d, Inside(x, m, d), NEW p
  PROVE  LET r == [d EXCEPT !.pc = p]
         IN  /\ Inside(x, m, r)
             /\ r.pc = p /\ r.ip = d.ip /\ r.op = d.op /\ r.m = d.m /\ r.token = d.token
             /\ r.length = d.length /\ r.offset = d.offset /\ r.rd = d.rd /\ r.before = d.before
<1> DEFINE r == [d EXCEPT !.pc = p]
<1>1. /\ Decoder(r)
      /\ r.pc = p /\ r.ip = d.ip /\ r.op = d.op /\ r.m = d.m /\ r.token = d.token
      /\ r.length = d.length /\ r.offset = d.offset /\ r.rd = d.rd /\ r.before = d.before
  BY DEF Inside, Decoder
<1> HIDE DEF r
<1>2. Inside(x, m, r)
  BY <1>1 DEF Inside
<1> QED BY <1>1, <1>2 DEF r

\* Giving up leaves everything where it was.
LEMMA FailInside ==
  ASSUME NEW x, NEW m, NEW d, Inside(x, m, d)
  PROVE  LET r == Fail(d)
         IN  Inside(x, m, r) /\ r.pc = "error" /\ r.ip = d.ip /\ r.op = d.op
  BY PcInside DEF Fail

\* The match lies in the history that ends at the destination.
Reaches(x, d) == d.op - d.offset >= HistoryOf(x)

\* Then it is not looked for before it.
LEMMA ReachesHistory ==
  ASSUME NEW x, Checked(x), NEW m, NEW d, Inside(x, m, d), Reaches(x, d)
  PROVE  Before(x, d, d.op - d.offset) = 0
<1>1. d.op \in Nat /\ d.offset \in Nat /\ KB64 \in Nat /\ x.dst \in Nat
  BY InsideNumbers, Window
<1>2. x.low \in Int
  BY DEF Checked
<1>3. HistoryOf(x) \in Int
  BY <1>1, <1>2 DEF HistoryOf, LZ4_DISTANCE_MAX
<1>4. HistoryOf(x) - (d.op - d.offset) \in Int /\ HistoryOf(x) - (d.op - d.offset) <= 0
  BY <1>1, <1>3 DEF Reaches
<1>5. d.before = 0
  BY DEF Inside
<1> QED BY <1>4, <1>5, MaxOfTwo DEF Before

\* No offset leaves a window of history, and one that is checked leaves none.
LEMMA CheckedReaches ==
  ASSUME NEW x, Checked(x), NEW m, NEW d, Inside(x, m, d),
         \/ x.mode = "withPrefix64k"
         \/ d.op - d.offset >= x.low
         \/ x.mode # "usingExtDict" /\ ~OutsideBuffers(x, d)
  PROVE  Reaches(x, d)
<1>1. /\ d.op \in Nat /\ d.op >= x.dst /\ x.dst \in Nat
      /\ d.offset \in Nat /\ d.offset <= KB64 - 1 /\ KB64 \in Nat /\ KB64 >= 1
  BY InsideNumbers, Window
<1>2. x.low \in Int
  BY DEF Checked
<1>3. CASE x.mode = "withPrefix64k"
  BY <1>1, <1>3 DEF Reaches, HistoryOf, LZ4_DISTANCE_MAX
<1>4. CASE x.mode # "withPrefix64k" /\ d.op - d.offset >= x.low
  BY <1>4 DEF Reaches, HistoryOf
<1>5. CASE x.mode # "withPrefix64k" /\ x.mode # "usingExtDict" /\ ~OutsideBuffers(x, d)
  <2>1. x.dictSize = 0 /\ x.safe = TRUE
    BY <1>5 DEF Checked
  <2>2. ~(d.op - d.offset + 0 < x.low)
    BY <1>1, <1>5, <2>1 DEF OutsideBuffers, checkOffset
  <2>3. d.op - d.offset >= x.low
    BY <1>1, <1>2, <2>2
  <2> QED BY <1>4, <1>5, <2>3
<1> QED BY <1>3, <1>4, <1>5

\* A copied match: only the output, where it is written next, what is done then and
\* how far back a match was looked for are new.
LEMMA MatchCopied ==
  ASSUME NEW x, NEW m, NEW d, Inside(x, m, d), NEW r, Decoder(r),
         r.ip = d.ip, r.token = d.token, r.length = d.length, r.offset = d.offset, r.rd = d.rd,
         r.before = 0, r.op \in x.dst .. oendOf(x), Spares(x, d.m, r.m)
  PROVE  Inside(x, m, r)
<1>1. Spares(x, m, r.m)
  BY SparesBoth DEF Inside
<1> QED BY <1>1 DEF Inside

\* A match that starts in the external dictionary.
LEMMA ExtMatchInside ==
  ASSUME NEW x, Checked(x), NEW m, NEW d, Inside(x, m, d),
         x.mode = "usingExtDict", d.op - d.offset < x.low, ~OutsideBuffers(x, d)
  PROVE  LET r == ExtMatch(x, d)
         IN  /\ Inside(x, m, r)
             /\ r.ip = d.ip /\ r.op <= d.op + d.length
             /\ r.pc = "error" \/ r.pc = d.pc
<1> DEFINE oend == oendOf(x)
           match == d.op - d.offset
           back == x.low - match
           length == IF d.op + d.length > oend - LASTLITERALS
                     THEN Min({d.length, oend - d.op}) ELSE d.length
           first == Min({length, back})
           m1 == Copy(d.m, d.op, dictEndOf(x) - back, first)
           rest == length - first
           m2 == WildCopy(m1, d.op + first, x.low, d.op + length, 1)
           g == [d EXCEPT !.m = IF rest > 0 THEN m2 ELSE m1, !.op = @ + length,
                          !.before = Max({@, back - x.dictSize})]
           r == ExtMatch(x, d)
<1>1. r = Fail(d) \/ r = g
  BY DEF ExtMatch
<1>2. /\ d.op \in Nat /\ d.op >= x.dst /\ d.op <= oend /\ d.length \in Nat
      /\ oend \in Nat /\ x.dst \in Nat /\ d.offset \in Nat /\ d.offset <= KB64 - 1 /\ d.before = 0
  BY InsideNumbers DEF Inside
<1>3. /\ KB64 \in Nat /\ x.low \in Int /\ x.low <= x.dst /\ x.dictSize \in Nat /\ x.safe = TRUE
  BY Window DEF Checked
<1>4. length \in Nat /\ length <= d.length /\ d.op + length <= oend
  BY <1>2, MinOfTwo DEF LASTLITERALS
<1> HIDE DEF length
<1>5. back \in Nat /\ back >= 1 /\ back - x.dictSize \in Int /\ back - x.dictSize <= 0
  <2>1. match \in Int /\ match < x.low
    BY <1>2
  <2>2. CASE x.dictSize < KB64
    <3>1. ~(match + x.dictSize < x.low)
      BY <1>3, <2>2 DEF OutsideBuffers, checkOffset
    <3> QED BY <1>3, <2>1, <3>1
  <2>3. CASE x.dictSize >= KB64
    BY <1>2, <1>3, <2>1, <2>3
  <2> QED BY <1>3, <2>2, <2>3
<1> HIDE DEF back
<1>6. first \in Nat /\ first <= length /\ rest \in Nat
  <2>1. first = IF length <= back THEN length ELSE back
    BY <1>4, <1>5, MinOfTwo
  <2> HIDE DEF first
  <2> QED BY <1>4, <1>5, <2>1
<1> HIDE DEF first
<1>7. Spares(x, d.m, m1)
  BY <1>2, <1>4, <1>6, CopySpares
<1>8. ASSUME rest > 0 PROVE Spares(x, m1, m2)
  <2>1. d.op + first \in Int /\ d.op + length \in Int /\ d.op + length > d.op + first
    BY <1>2, <1>4, <1>6, <1>8
  <2>2. WildEnd(d.op + first, d.op + length, 1) <= oend
    <3> DEFINE p == d.op + first
               q == d.op + length
    <3>1. p \in Int /\ q \in Int /\ q > p /\ q <= oend /\ oend \in Int
      BY <1>2, <1>4, <2>1
    <3> HIDE DEF p, q
    <3>2. WildEnd(p, q, 1) = q
      BY <3>1, OneByOne
    <3> QED BY <3>1, <3>2 DEF p, q
  <2>3. d.op + first >= x.dst
    BY <1>2, <1>6
  <2> HIDE DEF m1
  <2> QED BY <2>1, <2>2, <2>3, WildSpares
<1> DEFINE mm == IF rest > 0 THEN m2 ELSE m1
<1>9. Spares(x, d.m, mm)
  <2> HIDE DEF m1, m2, rest
  <2> QED BY <1>7, <1>8, SparesBoth
<1>10. Max({d.before, back - x.dictSize}) = 0
  BY <1>2, <1>5, MaxOfTwo
<1>11. /\ Decoder(g)
       /\ g.pc = d.pc /\ g.ip = d.ip /\ g.op = d.op + length /\ g.m = mm /\ g.token = d.token
       /\ g.length = d.length /\ g.offset = d.offset /\ g.rd = d.rd /\ g.before = 0
  <2> HIDE DEF mm
  <2>1. g = [d EXCEPT !.m = mm, !.op = @ + length, !.before = Max({@, back - x.dictSize})]
    BY DEF mm
  <2> HIDE DEF g
  <2> QED BY <1>10, <2>1 DEF Inside, Decoder
<1> HIDE DEF g, mm
<1>12. g.op \in x.dst .. oendOf(x) /\ g.op <= d.op + d.length
  BY <1>2, <1>4, <1>11
<1>13. Inside(x, m, g)
  BY <1>9, <1>11, <1>12, MatchCopied
<1>14. CASE r = Fail(d)
  <2> HIDE DEF r
  <2>1. Inside(x, m, r) /\ r.pc = "error" /\ r.ip = d.ip /\ r.op = d.op
    BY <1>14, FailInside
  <2> QED BY <1>2, <2>1 DEF r
<1> QED BY <1>1, <1>11, <1>12, <1>13, <1>14

\* A match where the output need not have room for more than it has.
LEMMA BlockMatchInside ==
  ASSUME NEW x, Checked(x), NEW m, NEW d, Inside(x, m, d), Reaches(x, d),
         d.op <= oendOf(x) - MFLIMIT, d.length >= MINMATCH
  PROVE  LET r == BlockMatch(x, d)
         IN  /\ Inside(x, m, r)
             /\ r.ip = d.ip
             /\ r.pc = "error" \/ r.pc = d.pc
<1> DEFINE match == d.op - d.offset
           cpy == d.op + d.length
           oend == oendOf(x)
           near == IF d.offset < 8 THEN CopyNear(d.m, d.op, match, d.offset)
                   ELSE [m |-> Copy(d.m, d.op, match, 8), s |-> match + 8]
           op == d.op + 8
           oCopyLimit == oend - (WILDCOPYLENGTH - 1)
           m1 == IF op < oCopyLimit THEN LZ4_wildCopy8(near.m, op, near.s, oCopyLimit) ELSE near.m
           here == Max({op, oCopyLimit})
           m2 == IF here < cpy THEN WildCopy(m1, here, near.s + (here - op), cpy, 1) ELSE m1
           m3 == Copy(near.m, op, near.s, 8)
           m4 == IF d.length > 16 THEN LZ4_wildCopy8(m3, op + 8, near.s + 8, cpy) ELSE m3
           done == [d EXCEPT !.op = cpy, !.before = Before(x, d, match)]
           r == BlockMatch(x, d)
<1>1. r = IF cpy > oend - MATCH_SAFEGUARD_DISTANCE
          THEN IF cpy > oend - LASTLITERALS THEN [Fail(d) EXCEPT !.m = near.m]
               ELSE [done EXCEPT !.m = m2]
          ELSE [done EXCEPT !.m = m4]
  BY DEF BlockMatch
<1>2. /\ d.op \in Nat /\ d.op >= x.dst /\ d.op <= oend - 12 /\ d.length \in Nat
      /\ oend \in Nat /\ x.dst \in Nat
      /\ d.length >= 4
  BY InsideNumbers DEF MFLIMIT, MINMATCH
<1>3. cpy \in Int /\ cpy >= d.op /\ op \in Int /\ op >= x.dst /\ op + 4 <= oend
      /\ oCopyLimit \in Int /\ oCopyLimit + 7 = oend
  BY <1>2 DEF WILDCOPYLENGTH
<1>4. Spares(x, d.m, near.m)
  <2>1. CASE d.offset < 8
    <3>1. Spares(x, d.m, CopyNear(d.m, d.op, match, d.offset).m)
      BY <1>2, NearSpares
    <3> QED BY <2>1, <3>1
  <2>2. CASE ~(d.offset < 8)
    <3>1. Spares(x, d.m, Copy(d.m, d.op, match, 8))
      BY <1>2, CopySpares
    <3> QED BY <2>2, <3>1
  <2> QED BY <2>1, <2>2
<1>5. Before(x, d, match) = 0
  BY ReachesHistory
<1>6. /\ Decoder(done)
      /\ done.pc = d.pc /\ done.ip = d.ip /\ done.op = cpy /\ done.m = d.m /\ done.token = d.token
      /\ done.length = d.length /\ done.offset = d.offset /\ done.rd = d.rd /\ done.before = 0
  <2> HIDE DEF match, cpy
  <2> QED BY <1>5 DEF Inside, Decoder
<1> HIDE DEF near, done
<1>7. CASE cpy <= oend - LASTLITERALS /\ cpy > oend - MATCH_SAFEGUARD_DISTANCE
  <2>1. cpy <= oend - 5
    BY <1>7 DEF LASTLITERALS
  <2>2. Spares(x, near.m, m1)
    <3>1. CASE op < oCopyLimit
      <4> HIDE DEF op, oCopyLimit, oend
      <4>1. oend \in Int /\ op + 8 <= oend /\ oCopyLimit + 7 <= oend
        BY <1>2, <1>3, <3>1
      <4>2. WildEnd(op, oCopyLimit, 8) <= oend
        BY <1>3, <4>1, WildBelow8
      <4>3. Spares(x, near.m, WildCopy(near.m, op, near.s, oCopyLimit, 8))
        BY <1>3, <4>2, WildSpares DEF oend
      <4> QED BY <3>1, <4>3 DEF LZ4_wildCopy8
    <3>2. CASE ~(op < oCopyLimit)
      BY <3>2 DEF Spares
    <3> QED BY <3>1, <3>2
  <2>3. here \in Int /\ here >= op
    <3> HIDE DEF op, oCopyLimit
    <3> QED BY <1>3, MaxOfTwo
  <2> HIDE DEF m1, here
  <2>4. Spares(x, m1, m2)
    <3>1. CASE here < cpy
      <4> HIDE DEF op, cpy, oend
      <4>1. WildEnd(here, cpy, 1) = cpy
        BY <1>3, <2>3, <3>1, OneByOne
      <4>2. WildEnd(here, cpy, 1) <= oend /\ here >= x.dst
        BY <1>2, <1>3, <2>1, <2>3, <4>1
      <4>3. Spares(x, m1, WildCopy(m1, here, near.s + (here - op), cpy, 1))
        BY <1>3, <2>3, <4>2, WildSpares DEF oend
      <4> QED BY <3>1, <4>3
    <3>2. CASE ~(here < cpy)
      BY <3>2 DEF Spares
    <3> QED BY <3>1, <3>2
  <2> HIDE DEF m2
  <2>5. Spares(x, d.m, m2)
    BY <1>4, <2>2, <2>4, SparesBoth
  <2>6. r = [done EXCEPT !.m = m2]
    BY <1>1, <1>2, <1>7 DEF LASTLITERALS
  <2> HIDE DEF r
  <2>7. /\ Decoder(r)
        /\ r.pc = d.pc /\ r.ip = d.ip /\ r.op = cpy /\ r.m = m2 /\ r.token = d.token
        /\ r.length = d.length /\ r.offset = d.offset /\ r.rd = d.rd /\ r.before = 0
    BY <1>6, <2>6 DEF Decoder
  <2>8. r.op \in x.dst .. oendOf(x)
    BY <1>2, <2>1, <2>7
  <2>9. Inside(x, m, r)
    BY <2>5, <2>7, <2>8, MatchCopied
  <2> QED BY <2>7, <2>9 DEF r
<1>8. CASE cpy > oend - LASTLITERALS
  <2>1. r = [Fail(d) EXCEPT !.m = near.m]
    BY <1>1, <1>2, <1>8 DEF LASTLITERALS, MATCH_SAFEGUARD_DISTANCE, WILDCOPYLENGTH, MINMATCH
  <2> HIDE DEF r
  <2> DEFINE f == Fail(d)
  <2>2. /\ Decoder(f) /\ f.pc = "error"
        /\ f.ip = d.ip /\ f.op = d.op /\ f.m = d.m /\ f.token = d.token /\ f.length = d.length
        /\ f.offset = d.offset /\ f.rd = d.rd /\ f.before = d.before
    BY FailFields DEF Inside
  <2>3. r = [f EXCEPT !.m = near.m]
    BY <2>1
  <2> HIDE DEF f
  <2>4. /\ Decoder(r) /\ r.pc = "error"
        /\ r.ip = d.ip /\ r.op = d.op /\ r.m = near.m /\ r.token = d.token /\ r.length = d.length
        /\ r.offset = d.offset /\ r.rd = d.rd /\ r.before = 0
    BY <2>2, <2>3 DEF Inside, Decoder
  <2>5. r.op \in x.dst .. oendOf(x)
    BY <2>4 DEF Inside
  <2>6. Inside(x, m, r)
    BY <1>4, <2>4, <2>5, MatchCopied
  <2> QED BY <2>4, <2>6 DEF r
<1>9. CASE cpy <= oend - MATCH_SAFEGUARD_DISTANCE
  <2>1. cpy <= oend - 12
    BY <1>9 DEF MATCH_SAFEGUARD_DISTANCE, WILDCOPYLENGTH, MINMATCH
  <2>2. r = [done EXCEPT !.m = m4]
    BY <1>1, <1>2, <1>3, <1>9 DEF MATCH_SAFEGUARD_DISTANCE, WILDCOPYLENGTH, MINMATCH
  <2>3. op + 8 <= oend
    BY <1>2, <2>1
  <2>4. Spares(x, near.m, m3)
    BY <1>2, <1>3, <2>3, CopySpares
  <2> HIDE DEF m3
  <2>5. Spares(x, m3, m4)
    <3>1. CASE d.length > 16
      <4> DEFINE p == op + 8
      <4>1. oend \in Int /\ p \in Int /\ cpy \in Int /\ p + 8 <= oend /\ cpy + 7 <= oend /\ p >= x.dst
        BY <1>2, <1>3, <2>1, <3>1
      <4> HIDE DEF p, cpy, oend
      <4>2. WildEnd(p, cpy, 8) <= oend
        BY <4>1, WildBelow8
      <4>3. Spares(x, m3, WildCopy(m3, p, near.s + 8, cpy, 8))
        BY <4>1, <4>2, WildSpares DEF oend
      <4> QED BY <3>1, <4>3 DEF LZ4_wildCopy8, p
    <3>2. CASE ~(d.length > 16)
      BY <3>2 DEF Spares
    <3> QED BY <3>1, <3>2
  <2> HIDE DEF m4
  <2>6. Spares(x, d.m, m4)
    BY <1>4, <2>4, <2>5, SparesBoth
  <2> HIDE DEF r
  <2>7. /\ Decoder(r)
        /\ r.pc = d.pc /\ r.ip = d.ip /\ r.op = cpy /\ r.m = m4 /\ r.token = d.token
        /\ r.length = d.length /\ r.offset = d.offset /\ r.rd = d.rd /\ r.before = 0
    BY <1>6, <2>2 DEF Decoder
  <2>8. r.op \in x.dst .. oendOf(x)
    BY <1>2, <2>1, <2>7
  <2>9. Inside(x, m, r)
    BY <2>6, <2>7, <2>8, MatchCopied
  <2> QED BY <2>7, <2>9 DEF r
<1> QED BY <1>2, <1>3, <1>7, <1>8, <1>9 DEF MATCH_SAFEGUARD_DISTANCE, WILDCOPYLENGTH, MINMATCH, LASTLITERALS

\* A match at the end of a partial output.
LEMMA PartialMatchInside ==
  ASSUME NEW x, Checked(x), NEW m, NEW d, Inside(x, m, d), Reaches(x, d)
  PROVE  LET r == PartialMatch(x, d)
         IN  Inside(x, m, r) /\ r.ip = d.ip /\ r.pc \in {"end", "safe"}
<1> DEFINE mlen == Min({d.length, oendOf(x) - d.op})
           n == IF mlen > 0 THEN WildCopy(d.m, d.op, d.op - d.offset, d.op + mlen, 1) ELSE d.m
           p == IF d.op + mlen = oendOf(x) THEN "end" ELSE "safe"
           r == PartialMatch(x, d)
<1>1. /\ d.op \in Nat /\ d.op >= x.dst /\ d.op <= oendOf(x) /\ d.length \in Nat
      /\ oendOf(x) \in Nat /\ x.dst \in Nat
  BY InsideNumbers
<1>2. mlen \in Nat /\ d.op + mlen <= oendOf(x)
  <2>1. mlen = IF d.length <= oendOf(x) - d.op THEN d.length ELSE oendOf(x) - d.op
    BY <1>1, MinOfTwo
  <2> HIDE DEF mlen
  <2> QED BY <1>1, <2>1
<1>3. r = [d EXCEPT !.m = n, !.op = @ + mlen, !.before = Before(x, d, d.op - d.offset), !.pc = p]
  BY DEF PartialMatch
<1> HIDE DEF mlen
<1>4. Spares(x, d.m, n)
  <2>1. CASE mlen > 0
    <3> DEFINE q == d.op + mlen
    <3>1. q \in Int /\ q > d.op /\ q <= oendOf(x)
      BY <1>1, <1>2, <2>1
    <3> HIDE DEF q
    <3>2. d.op \in Int
      BY <1>1
    <3>3. WildEnd(d.op, q, 1) <= oendOf(x)
      BY <3>1, <3>2, OneByOne
    <3>4. Spares(x, d.m, WildCopy(d.m, d.op, d.op - d.offset, q, 1))
      BY <1>1, <3>1, <3>3, WildSpares
    <3> QED BY <2>1, <3>4 DEF q
  <2>2. CASE ~(mlen > 0)
    BY <2>2 DEF Spares
  <2> QED BY <2>1, <2>2
<1>5. p \in {"end", "safe"}
  OBVIOUS
<1> HIDE DEF n, p, r
<1>6. /\ Decoder(r)
      /\ r.pc = p /\ r.ip = d.ip /\ r.op = d.op + mlen /\ r.m = n /\ r.token = d.token
      /\ r.length = d.length /\ r.offset = d.offset /\ r.rd = d.rd /\ r.before = 0
  BY <1>3, ReachesHistory DEF Inside, Decoder
<1>7. r.op \in x.dst .. oendOf(x)
  BY <1>1, <1>2, <1>6
<1>8. Inside(x, m, r)
  BY <1>4, <1>6, <1>7, MatchCopied
<1> QED BY <1>5, <1>6, <1>8 DEF r

\* A match, wherever it is.
LEMMA MatchCopyInside ==
  ASSUME NEW x, Checked(x), NEW m, NEW d, Inside(x, m, d), d.length >= MINMATCH,
         d.op <= oendOf(x) - MFLIMIT \/ x.partial
  PROVE  LET r == MatchCopy(x, d)
         IN  Inside(x, m, r) /\ r.ip = d.ip /\ r.pc \in {"error", "end", "safe"}
<1> DEFINE s == [d EXCEPT !.pc = "safe"]
           r == MatchCopy(x, d)
           ext == x.mode = "usingExtDict" /\ d.op - d.offset < x.low
           short == x.partial /\ d.op + d.length > oendOf(x) - MATCH_SAFEGUARD_DISTANCE
<1>1. r = IF OutsideBuffers(x, d) THEN Fail(d) ELSE IF ext THEN ExtMatch(x, s)
          ELSE IF short THEN PartialMatch(x, d) ELSE BlockMatch(x, s)
  BY DEF MatchCopy
<1>2. /\ Inside(x, m, s) /\ s.pc = "safe" /\ s.ip = d.ip /\ s.op = d.op /\ s.length = d.length
      /\ s.offset = d.offset
  BY PcInside
<1> HIDE DEF s, r
<1>3. CASE OutsideBuffers(x, d)
  <2>1. r = Fail(d)
    BY <1>1, <1>3
  <2> QED BY <2>1, FailInside DEF r
<1>4. CASE ~OutsideBuffers(x, d) /\ ext
  <2>1. r = ExtMatch(x, s)
    BY <1>1, <1>4
  <2>2. ~OutsideBuffers(x, s) /\ s.op - s.offset < x.low /\ x.mode = "usingExtDict"
    BY <1>2, <1>4 DEF OutsideBuffers
  <2>3. Inside(x, m, r) /\ r.ip = s.ip /\ (r.pc = "error" \/ r.pc = s.pc)
    BY <1>2, <2>1, <2>2, ExtMatchInside
  <2> QED BY <1>2, <2>3 DEF r
<1>5. CASE ~OutsideBuffers(x, d) /\ ~ext
  <2>1. Reaches(x, d)
    <3>1. d.op - d.offset \in Int /\ x.low \in Int
      <4>1. d.op \in Nat /\ d.offset \in Nat
        BY InsideNumbers
      <4> QED BY <4>1 DEF Checked
    <3>2. d.op - d.offset >= x.low \/ x.mode # "usingExtDict"
      BY <1>5, <3>1
    <3> QED BY <1>5, <3>2, CheckedReaches
  <2>2. CASE short
    <3>1. r = PartialMatch(x, d)
      BY <1>1, <1>5, <2>2
    <3> QED BY <2>1, <3>1, PartialMatchInside DEF r
  <2>3. CASE ~short
    <3>1. r = BlockMatch(x, s)
      BY <1>1, <1>5, <2>3
    <3>2. d.op <= oendOf(x) - MFLIMIT
      <4>1. d.op \in Nat /\ d.length \in Nat /\ oendOf(x) \in Nat
        BY InsideNumbers
      <4> QED BY <2>3, <4>1 DEF MFLIMIT, MATCH_SAFEGUARD_DISTANCE, WILDCOPYLENGTH, MINMATCH
    <3>3. Reaches(x, s)
      BY <1>2, <2>1 DEF Reaches
    <3>4. Inside(x, m, r) /\ r.ip = s.ip /\ (r.pc = "error" \/ r.pc = s.pc)
      BY <1>2, <3>1, <3>2, <3>3, BlockMatchInside
    <3> QED BY <1>2, <3>4 DEF r
  <2> QED BY <2>2, <2>3
<1> QED BY <1>3, <1>4, <1>5

\* A match of the fast loop leaves room for another one, or is left to the safe
\* loop.
LEMMA FastMatchInside ==
  ASSUME NEW x, Checked(x), NEW m, NEW d, Inside(x, m, d), d.pc = "fast", d.length >= MINMATCH
  PROVE  LET r == FastMatch(x, d)
         IN  /\ Inside(x, m, r)
             /\ r.ip = d.ip
             /\ \/ r.pc = "error"
                \/ r.pc = "match" /\ r.op = d.op /\ r.length = d.length
                \/ r.pc = "fast" /\ r.op <= oendOf(x) - FASTLOOP_SAFE_DISTANCE
<1> DEFINE match == d.op - d.offset
           cpy == d.op + d.length
           c1 == Copy(d.m, d.op, match, 8)
           c2 == Copy(c1, d.op + 8, match + 8, 8)
           stripe == Copy(c2, d.op + 16, match + 16, 2)
           whole == IF d.offset < 16 THEN LZ4_memcpy_using_offset(d.m, d.op, match, cpy, d.offset)
                    ELSE LZ4_wildCopy32(d.m, d.op, match, cpy)
           done == [d EXCEPT !.op = cpy, !.before = Before(x, d, match)]
           near == /\ d.token % (ML_MASK + 1) # ML_MASK /\ d.offset >= 8
                   /\ (x.mode = "withPrefix64k" \/ match >= x.low)
           ext == x.mode = "usingExtDict" /\ match < x.low
           r == FastMatch(x, d)
<1>1. r = IF cpy >= oendOf(x) - FASTLOOP_SAFE_DISTANCE THEN [d EXCEPT !.pc = "match"]
          ELSE IF near THEN [done EXCEPT !.m = stripe]
          ELSE IF OutsideBuffers(x, d) THEN Fail(d)
          ELSE IF ext THEN ExtMatch(x, d)
          ELSE [done EXCEPT !.m = whole]
  BY DEF FastMatch
<1>2. /\ d.op \in Nat /\ d.op >= x.dst /\ d.op <= oendOf(x) /\ d.length \in Nat
      /\ oendOf(x) \in Nat /\ x.dst \in Nat /\ match \in Int /\ x.low \in Int
      /\ cpy \in Int /\ cpy >= d.op + 4
  <2>1. /\ d.op \in Nat /\ d.op >= x.dst /\ d.op <= oendOf(x) /\ d.length \in Nat
        /\ oendOf(x) \in Nat /\ x.dst \in Nat /\ d.offset \in Nat
    BY InsideNumbers
  <2>2. x.low \in Int
    BY DEF Checked
  <2> QED BY <2>1, <2>2 DEF MINMATCH
<1> HIDE DEF r
<1>3. CASE cpy >= oendOf(x) - FASTLOOP_SAFE_DISTANCE
  <2>1. r = [d EXCEPT !.pc = "match"]
    BY <1>1, <1>3
  <2> QED BY <2>1, PcInside DEF r
<1>4. CASE ~(cpy >= oendOf(x) - FASTLOOP_SAFE_DISTANCE)
  <2>1. cpy <= oendOf(x) - 65 /\ cpy <= oendOf(x) - FASTLOOP_SAFE_DISTANCE
    BY <1>2, <1>4 DEF FASTLOOP_SAFE_DISTANCE
  <2>2. CASE ~near /\ OutsideBuffers(x, d)
    <3>1. r = Fail(d)
      BY <1>1, <1>4, <2>2
    <3> QED BY <3>1, FailInside DEF r
  <2>3. CASE ~near /\ ~OutsideBuffers(x, d) /\ ext
    <3>1. r = ExtMatch(x, d)
      BY <1>1, <1>4, <2>3
    <3>2. Inside(x, m, r) /\ r.ip = d.ip /\ r.op <= cpy /\ (r.pc = "error" \/ r.pc = "fast")
      BY <2>3, <3>1, ExtMatchInside
    <3>3. r.op \in Nat /\ r.op <= oendOf(x) - FASTLOOP_SAFE_DISTANCE
      <4>1. r.op \in Nat
        BY <3>2, InsideNumbers
      <4> QED BY <1>2, <2>1, <3>2, <4>1 DEF FASTLOOP_SAFE_DISTANCE
    <3> QED BY <3>2, <3>3 DEF r
  <2>4. CASE near \/ (~OutsideBuffers(x, d) /\ ~ext)
    <3>1. Reaches(x, d)
      <4>1. \/ x.mode = "withPrefix64k" \/ match >= x.low
            \/ x.mode # "usingExtDict" /\ ~OutsideBuffers(x, d)
        BY <1>2, <2>4
      <4> QED BY <4>1, CheckedReaches
    <3> DEFINE n == IF near THEN stripe ELSE whole
    <3>2. r = [done EXCEPT !.m = n]
      BY <1>1, <1>4, <2>4
    <3>3. Spares(x, d.m, stripe)
      <4>1. Spares(x, d.m, c1)
        BY <1>2, <2>1, CopySpares
      <4> HIDE DEF c1
      <4>2. Spares(x, c1, c2)
        BY <1>2, <2>1, CopySpares
      <4> HIDE DEF c2
      <4>3. Spares(x, c2, stripe)
        BY <1>2, <2>1, CopySpares
      <4> QED BY <4>1, <4>2, <4>3, SparesBoth
    <3>4. Spares(x, d.m, whole)
      <4>1. CASE d.offset < 16
        <5>1. Spares(x, d.m, LZ4_memcpy_using_offset(d.m, d.op, match, cpy, d.offset))
          BY <1>2, <2>1, UsingOffsetSpares
        <5> QED BY <4>1, <5>1
      <4>2. CASE ~(d.offset < 16)
        <5> HIDE DEF cpy
        <5>1. d.op \in Int /\ oendOf(x) \in Int /\ d.op + 32 <= oendOf(x) /\ cpy + 31 <= oendOf(x)
          BY <1>2, <2>1
        <5>2. WildEnd(d.op, cpy, 32) <= oendOf(x)
          BY <1>2, <5>1, WildBelow32
        <5>3. Spares(x, d.m, WildCopy(d.m, d.op, match, cpy, 32))
          BY <1>2, <5>1, <5>2, WildSpares
        <5> QED BY <4>2, <5>3 DEF LZ4_wildCopy32
      <4> QED BY <4>1, <4>2
    <3>5. Spares(x, d.m, n)
      BY <3>3, <3>4
    <3>6. /\ Decoder(done)
          /\ done.pc = d.pc /\ done.ip = d.ip /\ done.op = cpy /\ done.token = d.token
          /\ done.length = d.length /\ done.offset = d.offset /\ done.rd = d.rd /\ done.before = 0
      <4> HIDE DEF cpy
      <4> QED BY <3>1, ReachesHistory DEF Inside, Decoder
    <3> HIDE DEF n, done
    <3>7. /\ Decoder(r)
          /\ r.pc = "fast" /\ r.ip = d.ip /\ r.op = cpy /\ r.m = n /\ r.token = d.token
          /\ r.length = d.length /\ r.offset = d.offset /\ r.rd = d.rd /\ r.before = 0
      BY <3>2, <3>6 DEF Decoder
    <3>8. r.op \in x.dst .. oendOf(x)
      BY <1>2, <2>1, <3>7
    <3>9. Inside(x, m, r)
      BY <3>5, <3>7, <3>8, MatchCopied
    <3> QED BY <2>1, <3>7, <3>9 DEF r
  <2> QED BY <2>2, <2>3, <2>4
<1> QED BY <1>3, <1>4

-----------------------------------------------------------------------------
(* Steps.                                                                  *)

\* A match may be copied by groups, or the output is a partial one.
WildRoom(x, d) == d.op <= oendOf(x) - MFLIMIT \/ x.partial

\* How much of the block and of the output is left before each part of a sequence.
Placed(x, d) ==
  /\ d.pc \in {"fast", "safe", "literal", "offset", "length", "match", "end", "error"}
  /\ d.pc = "fast" => d.op <= oendOf(x) - FASTLOOP_SAFE_DISTANCE
  /\ d.pc \in {"fast", "safe", "length", "match"} => d.ip < iendOf(x)
  /\ d.pc = "offset" => d.ip + 2 < iendOf(x)
  /\ d.pc \in {"offset", "length", "match"} => WildRoom(x, d)
  /\ d.pc = "match" => d.length >= MINMATCH

\* Literals copied by groups are all of them, and at most seven bytes more.
LEMMA GroupsOfEight ==
  ASSUME NEW n \in Nat
  PROVE  LET k == WildEnd(0, n, 8) IN k \in Nat /\ k >= n /\ (k <= 8 \/ k <= n + 7)
<1> DEFINE k == WildEnd(0, n, 8)
<1>1. k \in Int /\ (n <= 0 => k = 0 + 8) /\ (n > 0 => k >= n /\ k <= n + 8 - 1)
  BY WildEnds
<1> HIDE DEF k
<1>2. k \in Nat /\ k >= n /\ (k <= 8 \/ k <= n + 7)
  BY <1>1
<1> QED BY <1>2 DEF k

\* And at most thirty-one more by larger groups.
LEMMA GroupsOfThirtyTwo ==
  ASSUME NEW n \in Nat
  PROVE  LET k == WildEnd(0, n, 32) IN k \in Nat /\ k >= n /\ (k <= 32 \/ k <= n + 31)
<1> DEFINE k == WildEnd(0, n, 32)
<1>1. k \in Int /\ (n <= 0 => k = 0 + 32) /\ (n > 0 => k >= n /\ k <= n + 32 - 1)
  BY WildEnds
<1> HIDE DEF k
<1>2. k \in Nat /\ k >= n /\ (k <= 32 \/ k <= n + 31)
  BY <1>1
<1> QED BY <1>2 DEF k

\* Literals of the fast loop leave room for an offset and for groups of 32 bytes.
LEMMA FastLiteralsInside ==
  ASSUME NEW x, Checked(x), NEW m, NEW d, Inside(x, m, d), d.pc = "fast",
         d.op <= oendOf(x) - FASTLOOP_SAFE_DISTANCE
  PROVE  LET r == FastLiterals(x, d)
         IN  /\ Inside(x, m, r)
             /\ r.ip >= d.ip
             /\ \/ r.pc = "literal"
                \/ r.pc = "fast" /\ r.ip + 2 < iendOf(x) /\ r.op <= oendOf(x) - MFLIMIT
<1> DEFINE far == d.op + d.length > oendOf(x) - 32 \/ d.ip + d.length > iendOf(x) - 32
           k == WildEnd(0, d.length, 32)
           left == [d EXCEPT !.pc = "literal"]
           long == IF far THEN left ELSE Advance(CopyIn(x, d, k), d.length)
           short == IF d.ip > iendOf(x) - (16 + 1) THEN left
                    ELSE Advance(CopyIn(x, d, 16), d.length)
           r == FastLiterals(x, d)
<1>1. r = IF d.length >= RUN_MASK THEN long ELSE short
  BY DEF FastLiterals, Checked
<1>2. /\ d.ip \in Nat /\ d.op \in Nat /\ d.length \in Nat /\ d.op <= oendOf(x) - 64
      /\ iendOf(x) \in Nat /\ oendOf(x) \in Nat
  BY InsideNumbers DEF FASTLOOP_SAFE_DISTANCE
<1>3. Inside(x, m, left) /\ left.pc = "literal" /\ left.ip = d.ip
  BY PcInside
<1> HIDE DEF left, r
<1>4. CASE r = left
  BY <1>2, <1>3, <1>4 DEF r
<1>5. CASE d.length >= RUN_MASK /\ ~far
  <2>1. r = Advance(CopyIn(x, d, k), d.length)
    BY <1>1, <1>5
  <2>2. k \in Nat /\ k >= d.length /\ (k <= 32 \/ k <= d.length + 31)
    BY <1>2, GroupsOfThirtyTwo
  <2> HIDE DEF k
  <2>3. d.op + k <= oendOf(x) /\ d.ip + k <= iendOf(x)
    BY <1>2, <1>5, <2>2
  <2>4. Inside(x, m, r) /\ r.ip = d.ip + d.length /\ r.op = d.op + d.length /\ r.pc = "fast"
    BY <1>2, <2>1, <2>2, <2>3, LiteralsInside
  <2>5. r.ip + 2 < iendOf(x) /\ r.op <= oendOf(x) - MFLIMIT /\ r.ip >= d.ip
    BY <1>2, <1>5, <2>4 DEF MFLIMIT
  <2> QED BY <2>4, <2>5 DEF r
<1>6. CASE ~(d.length >= RUN_MASK) /\ ~(d.ip > iendOf(x) - (16 + 1))
  <2>1. r = Advance(CopyIn(x, d, 16), d.length)
    BY <1>1, <1>6
  <2>2. d.length <= 14
    BY <1>2, <1>6, Sizes
  <2>3. d.op + 16 <= oendOf(x) /\ d.ip + 16 <= iendOf(x) /\ d.length <= 16 /\ 16 \in Nat
    BY <1>2, <1>6, <2>2
  <2>4. Inside(x, m, r) /\ r.ip = d.ip + d.length /\ r.op = d.op + d.length /\ r.pc = "fast"
    BY <1>2, <2>1, <2>3, LiteralsInside
  <2>5. r.ip + 2 < iendOf(x) /\ r.op <= oendOf(x) - MFLIMIT /\ r.ip >= d.ip
    BY <1>2, <1>6, <2>2, <2>4 DEF MFLIMIT
  <2> QED BY <2>4, <2>5 DEF r
<1> QED BY <1>1, <1>4, <1>5, <1>6

\* A sequence of the fast loop.
LEMMA FastSequenceInside ==
  ASSUME NEW x, Checked(x), NEW m, NEW d, Inside(x, m, d), Placed(x, d), d.pc = "fast"
  PROVE  LET r == FastSequence(x, d)
         IN  /\ Inside(x, m, r) /\ Placed(x, r)
             /\ r.ip >= d.ip + 1
<1> DEFINE t == Token(x, d)
           l == FastLiterals(x, t)
           o == Offset(x, l)
           n == MatchLength(x, o)
           r == FastSequence(x, d)
<1>1. r = IF t.pc = "error" THEN t
          ELSE IF l.pc = "literal" THEN l
          ELSE IF o.length = ML_MASK /\ OutsideBuffers(x, o) THEN Fail(o)
          ELSE IF n.pc = "error" THEN n
          ELSE FastMatch(x, n)
  BY DEF FastSequence
<1>2. d.ip < iendOf(x) /\ d.op <= oendOf(x) - FASTLOOP_SAFE_DISTANCE
  BY DEF Placed
<1>3. Inside(x, m, t) /\ t.op = d.op /\ t.ip >= d.ip + 1 /\ (t.pc = "error" \/ t.pc = d.pc)
  BY <1>2, TokenInside
<1> HIDE DEF t
<1>4. d.ip \in Nat /\ t.ip \in Nat
  BY <1>3, InsideNumbers
<1>5. CASE t.pc = "error"
  BY <1>1, <1>3, <1>5 DEF Placed
<1>6. CASE t.pc # "error"
  <2>1. t.pc = "fast"
    BY <1>3, <1>6
  <2>2. /\ Inside(x, m, l) /\ l.ip >= t.ip
        /\ \/ l.pc = "literal"
           \/ l.pc = "fast" /\ l.ip + 2 < iendOf(x) /\ l.op <= oendOf(x) - MFLIMIT
    BY <1>2, <1>3, <2>1, FastLiteralsInside
  <2> HIDE DEF l
  <2>3. l.ip \in Nat /\ l.ip >= d.ip + 1 /\ iendOf(x) \in Nat
    <3>1. l.ip \in Nat /\ iendOf(x) \in Nat
      BY <2>2, InsideNumbers
    <3> QED BY <1>3, <1>4, <2>2, <3>1
  <2>4. CASE l.pc = "literal"
    BY <1>1, <1>6, <2>2, <2>3, <2>4 DEF Placed
  <2>5. CASE l.pc # "literal"
    <3>1. l.pc = "fast" /\ l.ip + 2 < iendOf(x) /\ l.op <= oendOf(x) - MFLIMIT
      BY <2>2, <2>5
    <3>2. l.ip + 2 <= iendOf(x)
      BY <2>3, <3>1
    <3>3. Inside(x, m, o) /\ o.ip = l.ip + 2 /\ o.op = l.op /\ o.pc = l.pc
      BY <2>2, <3>2, OffsetInside
    <3> HIDE DEF o
    <3>4. o.ip < iendOf(x) /\ o.ip \in Nat /\ o.ip >= d.ip + 1
      BY <1>4, <2>3, <3>1, <3>3
    <3>5. /\ Inside(x, m, n) /\ n.op = o.op /\ n.ip >= o.ip
          /\ \/ n.pc = "error"
             \/ n.pc = o.pc /\ n.ip < iendOf(x) /\ n.length >= MINMATCH
      BY <3>3, <3>4, MatchLengthInside
    <3> HIDE DEF n
    <3>6. n.ip \in Nat /\ n.ip >= d.ip + 1
      <4>1. n.ip \in Nat
        BY <3>5, InsideNumbers
      <4> QED BY <1>4, <3>4, <3>5, <4>1
    <3>7. CASE o.length = ML_MASK /\ OutsideBuffers(x, o)
      <4>1. r = Fail(o)
        BY <1>1, <1>6, <2>5, <3>7
      <4>2. Inside(x, m, r) /\ r.pc = "error" /\ r.ip = o.ip
        BY <3>3, <4>1, FailInside
      <4> QED BY <3>4, <4>2 DEF Placed
    <3>8. CASE ~(o.length = ML_MASK /\ OutsideBuffers(x, o)) /\ n.pc = "error"
      <4>1. r = n
        BY <1>1, <1>6, <2>5, <3>8
      <4> QED BY <3>5, <3>6, <3>8, <4>1 DEF Placed
    <3>9. CASE ~(o.length = ML_MASK /\ OutsideBuffers(x, o)) /\ n.pc # "error"
      <4>1. r = FastMatch(x, n)
        BY <1>1, <1>6, <2>5, <3>9
      <4>2. n.pc = "fast" /\ n.ip < iendOf(x) /\ n.length >= MINMATCH
        BY <3>1, <3>3, <3>5, <3>9
      <4> HIDE DEF r
      <4>3. /\ Inside(x, m, r) /\ r.ip = n.ip
            /\ \/ r.pc = "error"
               \/ r.pc = "match" /\ r.op = n.op /\ r.length = n.length
               \/ r.pc = "fast" /\ r.op <= oendOf(x) - FASTLOOP_SAFE_DISTANCE
        BY <3>5, <4>1, <4>2, FastMatchInside
      <4>4. Placed(x, r)
        BY <3>1, <3>3, <3>5, <4>2, <4>3 DEF Placed, WildRoom
      <4> QED BY <3>6, <4>3, <4>4 DEF r
    <3> QED BY <3>7, <3>8, <3>9
  <2> QED BY <2>4, <2>5
<1> QED BY <1>5, <1>6

\* Literals of the safe loop.
LEMMA LiteralCopyInside ==
  ASSUME NEW x, Checked(x), NEW m, NEW d, Inside(x, m, d)
  PROVE  LET r == LiteralCopy(x, d)
         IN  /\ Inside(x, m, r) /\ Placed(x, r)
             /\ r.ip >= d.ip /\ r.pc \in {"offset", "end", "error"}
<1> DEFINE cpy == d.op + d.length
           last == cpy > oendOf(x) - MFLIMIT
                   \/ d.ip + d.length > iendOf(x) - (2 + 1 + LASTLITERALS)
           n == IF x.partial THEN Min({d.length, iendOf(x) - d.ip, oendOf(x) - d.op}) ELSE d.length
           l == Advance(CopyIn(x, d, n), n)
           wrong == d.ip + d.length # iendOf(x) \/ cpy > oendOf(x)
           k == WildEnd(0, d.length, 8)
           wild == Advance(CopyIn(x, d, k), d.length)
           p == IF ~x.partial \/ l.op = oendOf(x) \/ l.ip >= iendOf(x) - 2 THEN "end" ELSE "offset"
           r == LiteralCopy(x, d)
<1>1. r = IF ~last THEN [wild EXCEPT !.pc = "offset"]
          ELSE IF ~x.partial /\ wrong THEN Fail(d)
          ELSE [l EXCEPT !.pc = p]
  BY DEF LiteralCopy, Checked
<1>2. /\ d.ip \in Nat /\ d.ip <= iendOf(x) /\ d.op \in Nat /\ d.op <= oendOf(x) /\ d.length \in Nat
      /\ iendOf(x) \in Nat /\ oendOf(x) \in Nat
  BY InsideNumbers
<1>3. CASE ~last
  <2>1. cpy <= oendOf(x) - 12 /\ d.ip + d.length <= iendOf(x) - 8
    BY <1>2, <1>3 DEF MFLIMIT, LASTLITERALS
  <2>2. k \in Nat /\ k >= d.length /\ (k <= 8 \/ k <= d.length + 7)
    BY <1>2, GroupsOfEight
  <2>3. r = [wild EXCEPT !.pc = "offset"]
    BY <1>1, <1>3
  <2> HIDE DEF k
  <2>4. d.op + k <= oendOf(x) /\ d.ip + k <= iendOf(x)
    BY <1>2, <2>1, <2>2
  <2>5. Inside(x, m, wild) /\ wild.ip = d.ip + d.length /\ wild.op = d.op + d.length
    BY <1>2, <2>2, <2>4, LiteralsInside
  <2> HIDE DEF wild, r
  <2>6. Inside(x, m, r) /\ r.pc = "offset" /\ r.ip = d.ip + d.length /\ r.op = d.op + d.length
    BY <2>3, <2>5, PcInside
  <2>7. r.ip + 2 < iendOf(x) /\ r.ip >= d.ip /\ r.op <= oendOf(x) - MFLIMIT
    BY <1>2, <2>1, <2>6 DEF MFLIMIT
  <2> QED BY <2>6, <2>7 DEF Placed, WildRoom, r
<1>4. CASE last /\ ~x.partial /\ wrong
  <2>1. r = Fail(d)
    BY <1>1, <1>4
  <2> HIDE DEF r
  <2>2. Inside(x, m, r) /\ r.pc = "error" /\ r.ip = d.ip
    BY <2>1, FailInside
  <2> QED BY <1>2, <2>2 DEF Placed, r
<1>5. CASE last /\ (x.partial \/ ~wrong)
  <2>1. r = [l EXCEPT !.pc = p]
    BY <1>1, <1>5
  <2>2. n \in Nat /\ d.ip + n <= iendOf(x) /\ d.op + n <= oendOf(x)
    <3>1. CASE x.partial
      <4> DEFINE a == d.length
                 b == iendOf(x) - d.ip
                 c == oendOf(x) - d.op
      <4>1. a \in Nat /\ b \in Nat /\ c \in Nat
        BY <1>2
      <4>2. n = Min({a, b, c})
        BY <3>1
      <4> HIDE DEF n, a, b, c
      <4>3. n \in {a, b, c} /\ n <= b /\ n <= c
        BY <4>1, <4>2, MinOfThree
      <4>4. n \in Nat /\ n <= b /\ n <= c
        BY <4>1, <4>3
      <4> QED BY <1>2, <4>4 DEF b, c
    <3>2. CASE ~x.partial
      BY <1>2, <1>5, <3>2
    <3> QED BY <3>1, <3>2
  <2> HIDE DEF n
  <2>3. Inside(x, m, l) /\ l.ip = d.ip + n /\ l.op = d.op + n
    BY <2>2, LiteralsInside
  <2> HIDE DEF l, r
  <2>4. Inside(x, m, r) /\ r.pc = p /\ r.ip = l.ip /\ r.op = l.op
    BY <2>1, <2>3, PcInside
  <2>5. r.ip >= d.ip /\ r.ip \in Nat
    BY <1>2, <2>2, <2>3, <2>4
  <2>6. CASE p = "end"
    BY <2>4, <2>5, <2>6 DEF Placed, r
  <2>7. CASE p = "offset"
    <3>1. x.partial /\ ~(l.ip >= iendOf(x) - 2)
      BY <2>7
    <3>2. r.ip + 2 < iendOf(x)
      BY <1>2, <2>4, <2>5, <3>1
    <3> QED BY <2>4, <2>5, <2>7, <3>1, <3>2 DEF Placed, WildRoom, r
  <2>8. p = "end" \/ p = "offset"
    OBVIOUS
  <2> HIDE DEF p
  <2> QED BY <2>6, <2>7, <2>8
<1> QED BY <1>3, <1>4, <1>5

\* Literals and a match that are short.
LEMMA ShortcutInside ==
  ASSUME NEW x, Checked(x), NEW m, NEW d, Inside(x, m, d),
         d.length <= 14, d.ip + 16 < iendOf(x), d.op + 32 <= oendOf(x)
  PROVE  LET r == Shortcut(x, d)
         IN  /\ Inside(x, m, r) /\ Placed(x, r)
             /\ r.ip >= d.ip /\ r.pc \in {"safe", "length"}
<1> DEFINE c == Advance(CopyIn(x, d, 16), d.length)
           l == Offset(x, c)
           match == l.op - l.offset
           c1 == Copy(l.m, l.op, match, 8)
           c2 == Copy(c1, l.op + 8, match + 8, 8)
           copied == Copy(c2, l.op + 16, match + 16, 2)
           near == /\ l.length # ML_MASK /\ l.offset >= 8
                   /\ (x.mode = "withPrefix64k" \/ match >= x.low)
           g == [l EXCEPT !.m = copied, !.op = @ + l.length + MINMATCH, !.pc = "safe",
                          !.before = Before(x, l, match)]
           r == Shortcut(x, d)
<1>1. r = IF near THEN g ELSE [l EXCEPT !.pc = "length"]
  BY DEF Shortcut, Checked
<1>2. /\ d.ip \in Nat /\ d.op \in Nat /\ d.op >= x.dst /\ d.length \in Nat
      /\ iendOf(x) \in Nat /\ oendOf(x) \in Nat /\ x.dst \in Nat
  BY InsideNumbers
<1>3. d.op + 16 <= oendOf(x) /\ d.ip + 16 <= iendOf(x) /\ d.length <= 16 /\ 16 \in Nat
  BY <1>2
<1>4. Inside(x, m, c) /\ c.ip = d.ip + d.length /\ c.op = d.op + d.length
  BY <1>2, <1>3, LiteralsInside
<1> HIDE DEF c
<1>5. c.ip + 2 <= iendOf(x)
  BY <1>2, <1>4
<1>6. /\ Inside(x, m, l) /\ l.ip = c.ip + 2 /\ l.op = c.op /\ l.length <= ML_MASK
  BY <1>4, <1>5, OffsetInside
<1> HIDE DEF l
<1>7. /\ l.ip >= d.ip /\ l.ip < iendOf(x) /\ l.op \in Nat /\ l.op >= x.dst /\ l.op + 18 <= oendOf(x)
      /\ l.length \in Nat
  <2>1. l.length \in Nat
    BY <1>6, InsideNumbers
  <2> QED BY <1>2, <1>4, <1>6, <2>1
<1>8. CASE ~near
  <2>1. r = [l EXCEPT !.pc = "length"]
    BY <1>1, <1>8
  <2> HIDE DEF r
  <2>2. Inside(x, m, r) /\ r.pc = "length" /\ r.ip = l.ip /\ r.op = l.op
    BY <1>6, <2>1, PcInside
  <2>3. WildRoom(x, r)
    BY <1>2, <1>7, <2>2 DEF WildRoom, MFLIMIT
  <2> QED BY <1>7, <2>2, <2>3 DEF Placed, r
<1>9. CASE near
  <2>1. r = g
    BY <1>1, <1>9
  <2>2. l.op + l.length + MINMATCH \in Nat /\ l.op + l.length + MINMATCH <= oendOf(x)
    BY <1>2, <1>4, <1>6, <1>7, <1>9, Sizes DEF MINMATCH
  <2>3. Reaches(x, l)
    BY <1>6, <1>9, CheckedReaches
  <2>4. Spares(x, l.m, copied)
    <3>1. Spares(x, l.m, c1)
      BY <1>2, <1>7, CopySpares
    <3> HIDE DEF c1
    <3>2. Spares(x, c1, c2)
      BY <1>2, <1>7, CopySpares
    <3> HIDE DEF c2
    <3>3. Spares(x, c2, copied)
      BY <1>2, <1>7, CopySpares
    <3> QED BY <3>1, <3>2, <3>3, SparesBoth
  <2>5. Before(x, l, match) = 0
    BY <1>6, <2>3, ReachesHistory
  <2> DEFINE to == l.op + l.length + MINMATCH
  <2> HIDE DEF copied, match
  <2>6. g = [l EXCEPT !.m = copied, !.op = to, !.pc = "safe", !.before = Before(x, l, match)]
    OBVIOUS
  <2> HIDE DEF to, g
  <2>7. /\ Decoder(g)
        /\ g.pc = "safe" /\ g.ip = l.ip /\ g.op = to /\ g.m = copied /\ g.token = l.token
        /\ g.length = l.length /\ g.offset = l.offset /\ g.rd = l.rd /\ g.before = 0
    BY <1>6, <2>5, <2>6 DEF Inside, Decoder
  <2>8. g.op \in x.dst .. oendOf(x)
    BY <1>2, <1>7, <2>2, <2>7 DEF to, MINMATCH
  <2>9. Inside(x, m, g)
    BY <1>6, <2>4, <2>7, <2>8, MatchCopied
  <2> QED BY <1>7, <2>1, <2>7, <2>9 DEF Placed
<1> QED BY <1>8, <1>9

\* A sequence of the safe loop, or its token.
LEMMA SafeSequenceInside ==
  ASSUME NEW x, Checked(x), NEW m, NEW d, Inside(x, m, d), Placed(x, d), d.pc = "safe"
  PROVE  LET r == SafeSequence(x, d)
         IN  /\ Inside(x, m, r) /\ Placed(x, r)
             /\ r.ip >= d.ip + 1 /\ r.pc \in {"safe", "length", "literal", "error"}
<1> DEFINE t == Token(x, d)
           short == t.token \div (ML_MASK + 1)
           room == short # RUN_MASK /\ t.ip < iendOf(x) - 14 - 2 /\ t.op <= oendOf(x) - 14 - 18
           r == SafeSequence(x, d)
<1>1. r = IF room THEN Shortcut(x, t) ELSE IF t.pc = "error" THEN t ELSE [t EXCEPT !.pc = "literal"]
  BY DEF SafeSequence, Checked
<1>2. d.ip < iendOf(x)
  BY DEF Placed
<1>3. /\ Inside(x, m, t) /\ t.op = d.op /\ t.ip >= d.ip + 1 /\ (t.pc = "error" \/ t.pc = d.pc)
      /\ short # RUN_MASK => t.pc = d.pc /\ t.length < RUN_MASK
  BY <1>2, TokenInside
<1> HIDE DEF t, r
<1>4. /\ d.ip \in Nat /\ t.ip \in Nat /\ t.op \in Nat /\ t.length \in Nat
      /\ iendOf(x) \in Nat /\ oendOf(x) \in Nat
  BY <1>3, InsideNumbers
<1>5. CASE room
  <2>1. r = Shortcut(x, t)
    BY <1>1, <1>5
  <2>2. t.length <= 14 /\ t.ip + 16 < iendOf(x) /\ t.op + 32 <= oendOf(x)
    BY <1>3, <1>4, <1>5, Sizes
  <2>3. Inside(x, m, r) /\ Placed(x, r) /\ r.ip >= t.ip /\ r.pc \in {"safe", "length"}
    BY <1>3, <2>1, <2>2, ShortcutInside
  <2>4. r.ip \in Nat
    BY <2>3, InsideNumbers
  <2> QED BY <1>3, <1>4, <2>3, <2>4 DEF r
<1>6. CASE ~room /\ t.pc = "error"
  BY <1>1, <1>3, <1>6 DEF Placed, r
<1>7. CASE ~room /\ t.pc # "error"
  <2>1. r = [t EXCEPT !.pc = "literal"]
    BY <1>1, <1>7
  <2>2. Inside(x, m, r) /\ r.pc = "literal" /\ r.ip = t.ip
    BY <1>3, <2>1, PcInside
  <2> QED BY <1>3, <2>2 DEF Placed, r
<1> QED BY <1>5, <1>6, <1>7

\* Every step.
LEMMA StepInside ==
  ASSUME NEW x, Checked(x), NEW m, NEW d, Inside(x, m, d), Placed(x, d), ~Finished(d)
  PROVE  LET r == StepOn(x, d)
         IN  /\ Inside(x, m, r) /\ Placed(x, r)
             /\ Finished(r) \/ Progress(r) > Progress(d)
<1> DEFINE r == StepOn(x, d)
<1>1. d.ip \in Nat /\ iendOf(x) \in Nat
  BY InsideNumbers
<1>2. /\ d.pc \in {"fast", "safe", "literal", "offset", "length", "match"}
  BY DEF Placed, Finished
<1>3. ASSUME Inside(x, m, r) PROVE r.ip \in Nat
  <2> HIDE DEF r
  <2> QED BY <1>3, InsideNumbers
<1>4. CASE d.pc = "fast"
  <2>1. r = FastSequence(x, d)
    BY <1>4 DEF StepOn
  <2>2. Inside(x, m, r) /\ Placed(x, r) /\ r.ip >= d.ip + 1
    BY <1>4, <2>1, FastSequenceInside
  <2>3. r.pc \in {"fast", "safe", "literal", "offset", "length", "match"} \/ Finished(r)
    BY <2>2 DEF Placed, Finished
  <2>4. Finished(r) \/ Progress(r) > Progress(d)
    BY <1>1, <1>3, <1>4, <2>2, <2>3 DEF Progress
  <2> QED BY <2>2, <2>4
<1>5. CASE d.pc = "safe"
  <2>1. r = SafeSequence(x, d)
    BY <1>5 DEF StepOn
  <2>2. Inside(x, m, r) /\ Placed(x, r) /\ r.ip >= d.ip + 1
    BY <1>5, <2>1, SafeSequenceInside
  <2>3. r.pc \in {"fast", "safe", "literal", "offset", "length", "match"} \/ Finished(r)
    BY <2>2 DEF Placed, Finished
  <2>4. Finished(r) \/ Progress(r) > Progress(d)
    BY <1>1, <1>3, <1>5, <2>2, <2>3 DEF Progress
  <2> QED BY <2>2, <2>4
<1>6. CASE d.pc = "literal"
  <2>1. r = LiteralCopy(x, d)
    BY <1>6 DEF StepOn
  <2>2. Inside(x, m, r) /\ Placed(x, r) /\ r.ip >= d.ip /\ r.pc \in {"offset", "end", "error"}
    BY <2>1, LiteralCopyInside
  <2>3. Finished(r) \/ Progress(r) > Progress(d)
    BY <1>1, <1>3, <1>6, <2>2 DEF Progress, Finished
  <2> QED BY <2>2, <2>3
<1>7. CASE d.pc = "offset"
  <2> DEFINE o == Offset(x, d)
  <2>1. r = [o EXCEPT !.pc = "length"]
    BY <1>7 DEF StepOn
  <2>2. d.ip + 2 < iendOf(x) /\ WildRoom(x, d)
    BY <1>7 DEF Placed
  <2>3. Inside(x, m, o) /\ o.ip = d.ip + 2 /\ o.op = d.op
    BY <1>1, <2>2, OffsetInside
  <2> HIDE DEF o, r
  <2>4. Inside(x, m, r) /\ r.pc = "length" /\ r.ip = d.ip + 2 /\ r.op = d.op
    BY <2>1, <2>3, PcInside
  <2>5. Placed(x, r)
    BY <2>2, <2>4 DEF Placed, WildRoom
  <2>6. Progress(r) > Progress(d)
    BY <1>1, <1>7, <2>4 DEF Progress
  <2> QED BY <2>4, <2>5, <2>6 DEF r
<1>8. CASE d.pc = "length"
  <2> DEFINE n == MatchLength(x, d)
             g == [n EXCEPT !.pc = "match"]
  <2>1. r = IF n.pc = "error" THEN n ELSE MatchCopy(x, g)
    BY <1>8 DEF StepOn
  <2>2. d.ip < iendOf(x) /\ WildRoom(x, d)
    BY <1>8 DEF Placed
  <2>3. /\ Inside(x, m, n) /\ n.op = d.op /\ n.ip >= d.ip
        /\ \/ n.pc = "error"
           \/ n.pc = d.pc /\ n.ip < iendOf(x) /\ n.length >= MINMATCH
    BY <2>2, MatchLengthInside
  <2> HIDE DEF n
  <2>4. CASE n.pc = "error"
    BY <2>1, <2>3, <2>4 DEF Placed, Finished
  <2>5. CASE n.pc # "error"
    <3>1. r = MatchCopy(x, g)
      BY <2>1, <2>5
    <3>2. Inside(x, m, g) /\ g.ip = n.ip /\ g.op = n.op /\ g.length = n.length
      BY <2>3, PcInside
    <3> HIDE DEF g, r
    <3>3. g.length >= MINMATCH /\ (g.op <= oendOf(x) - MFLIMIT \/ x.partial)
      BY <2>2, <2>3, <2>5, <3>2 DEF WildRoom
    <3>4. Inside(x, m, r) /\ r.ip = g.ip /\ r.pc \in {"error", "end", "safe"}
      BY <3>1, <3>2, <3>3, MatchCopyInside
    <3>5. Placed(x, r)
      BY <2>3, <2>5, <3>2, <3>4 DEF Placed
    <3>6. r.ip >= d.ip /\ r.ip \in Nat
      <4>1. r.ip \in Nat
        BY <3>4, InsideNumbers
      <4> QED BY <2>3, <3>2, <3>4, <4>1
    <3>7. Finished(r) \/ Progress(r) > Progress(d)
      BY <1>1, <1>8, <3>4, <3>6 DEF Progress, Finished
    <3> QED BY <3>4, <3>5, <3>7 DEF r
  <2> QED BY <2>4, <2>5
<1>9. CASE d.pc = "match"
  <2>1. r = MatchCopy(x, d)
    BY <1>9 DEF StepOn
  <2>2. d.ip < iendOf(x) /\ d.length >= MINMATCH /\ (d.op <= oendOf(x) - MFLIMIT \/ x.partial)
    BY <1>9 DEF Placed, WildRoom
  <2> HIDE DEF r
  <2>3. Inside(x, m, r) /\ r.ip = d.ip /\ r.pc \in {"error", "end", "safe"}
    BY <2>1, <2>2, MatchCopyInside
  <2>4. Placed(x, r)
    BY <2>2, <2>3 DEF Placed
  <2>5. Finished(r) \/ Progress(r) > Progress(d)
    BY <1>1, <1>9, <2>3 DEF Progress, Finished
  <2> QED BY <2>3, <2>4, <2>5 DEF r
<1> QED BY <1>2, <1>4, <1>5, <1>6, <1>7, <1>8, <1>9

-----------------------------------------------------------------------------
(* Theorems.                                                               *)

\* The history the decoder is told of is one the caller has.
HistoryHeld ==
  /\ HistoryOf(call) >= call.dst - given.prefix
  /\ call.mode = "usingExtDict" => call.dict = given.ext /\ call.dictSize = given.extSize

\* The inductive invariant: beside what the theorems say, how much room each part of
\* a sequence finds, which is what makes the copies by groups stay inside.
Sound ==
  /\ Checked(call) /\ HistoryHeld
  /\ Inside(call, Held, at) /\ Placed(call, at)

\* What makes a call a checked one.
LEMMA BlockChecked ==
  ASSUME NEW x, x.b \in Seq(0 .. BYTE), x.b # <<>>, x.dst \in Nat, x.cap \in Nat, x.cap > 0,
         x.low \in Int, x.low <= x.dst, x.dictSize \in Nat,
         x.safe = TRUE, x.partial = TRUE \/ x.partial = FALSE,
         \/ (x.mode = "noDict" \/ x.mode = "withPrefix64k") /\ x.dictSize = 0
         \/ x.mode = "usingExtDict"
  PROVE  Checked(x)
<1>1. x.partial \in BOOLEAN
  BY Zenon
<1>2. x.mode # "usingExtDict" => x.dictSize = 0
  OBVIOUS
<1>3. x.mode \in {"noDict", "withPrefix64k", "usingExtDict"}
  OBVIOUS
<1> QED BY Zenon, <1>1, <1>2, <1>3 DEF Checked

\* What the next block of a stream is decoded with.
LEMMA ContinuesSound ==
  ASSUME NEW h \in Contexts, NEW b \in Received, NEW dst \in Nat, NEW cap \in Nat, b # <<>>, cap > 0,
         Continues(h, b, dst, cap)
  PROVE  Checked(call) /\ HistoryHeld
<1>1. /\ h.end \in Nat /\ h.size \in Nat /\ h.ext \in Nat /\ h.extSize \in Nat
      /\ b \in Seq(0 .. BYTE)
  BY DecodingAssumption
<1>2. KB64 \in Nat /\ KB64 >= 1
  BY Window
<1>3. CASE h.size = 0
  <2>1. /\ call = Block(b, dst, cap, TRUE, FALSE, "noDict", dst, NULL, 0)
        /\ given = History(0, NULL, 0)
    BY <1>3 DEF Continues, Rolls, LZ4_decompress_safe_continue, LZ4_decompress_safe
  <2>2. /\ call.b = b /\ call.dst = dst /\ call.cap = cap /\ call.safe = TRUE /\ call.partial = FALSE
        /\ call.mode = "noDict" /\ call.low = dst /\ call.dict = NULL /\ call.dictSize = 0
    BY <2>1 DEF Block
  <2>3. given.prefix = 0
    BY <2>1 DEF History
  <2>4. Checked(call)
    <3>1. /\ call.b \in Seq(0 .. BYTE) /\ call.b # <<>>
          /\ call.dst \in Nat /\ call.cap \in Nat /\ call.cap > 0
          /\ call.low \in Int /\ call.low <= call.dst /\ call.dictSize \in Nat
      BY <1>1, <2>2, <2>3
    <3>2. call.safe = TRUE /\ (call.partial = TRUE \/ call.partial = FALSE)
      BY <1>1, <2>2, <2>3
    <3> QED BY <1>1, <2>2, <2>3, <3>1, <3>2, BlockChecked
  <2>5. HistoryHeld
    BY <1>1, <2>2, <2>3 DEF HistoryHeld, HistoryOf
  <2> QED BY <2>4, <2>5
<1>4. CASE h.size # 0 /\ Rolls(h, dst)
  <2>1. /\ given = History(h.size, h.ext, h.extSize)
        /\ call = IF h.size >= KB64 - 1
                  THEN Block(b, dst, cap, TRUE, FALSE, "withPrefix64k", dst - KB64, NULL, 0)
                  ELSE IF h.extSize = 0
                  THEN Block(b, dst, cap, TRUE, FALSE, "noDict", dst - h.size, NULL, 0)
                  ELSE Block(b, dst, cap, TRUE, FALSE, "usingExtDict", dst - h.size, h.ext, h.extSize)
    BY <1>4 DEF Continues, LZ4_decompress_safe_continue, LZ4_decompress_safe_withPrefix64k,
                LZ4_decompress_safe_withSmallPrefix, LZ4_decompress_safe_doubleDict
  <2>2. given.prefix = h.size /\ given.ext = h.ext /\ given.extSize = h.extSize
    BY <2>1 DEF History
  <2>3. CASE h.size >= KB64 - 1
    <3>1. /\ call.b = b /\ call.dst = dst /\ call.cap = cap /\ call.safe = TRUE
          /\ call.partial = FALSE /\ call.mode = "withPrefix64k" /\ call.low = dst - KB64
          /\ call.dictSize = 0
      BY <2>1, <2>3 DEF Block
    <3>2. Checked(call)
      <4>1. /\ call.b \in Seq(0 .. BYTE) /\ call.b # <<>>
            /\ call.dst \in Nat /\ call.cap \in Nat /\ call.cap > 0
            /\ call.low \in Int /\ call.low <= call.dst /\ call.dictSize \in Nat
        BY <1>1, <1>2, <2>2, <2>3, <3>1
      <4>2. call.safe = TRUE /\ (call.partial = TRUE \/ call.partial = FALSE)
        BY <1>1, <1>2, <2>2, <2>3, <3>1
      <4> QED BY <1>1, <1>2, <2>2, <2>3, <3>1, <4>1, <4>2, BlockChecked
    <3>3. HistoryHeld
      BY <1>1, <1>2, <2>2, <2>3, <3>1 DEF HistoryHeld, HistoryOf, LZ4_DISTANCE_MAX
    <3> QED BY <3>2, <3>3
  <2>4. CASE ~(h.size >= KB64 - 1) /\ h.extSize = 0
    <3>1. /\ call.b = b /\ call.dst = dst /\ call.cap = cap /\ call.safe = TRUE
          /\ call.partial = FALSE /\ call.mode = "noDict" /\ call.low = dst - h.size
          /\ call.dictSize = 0
      BY <2>1, <2>4 DEF Block
    <3>2. Checked(call)
      <4>1. /\ call.b \in Seq(0 .. BYTE) /\ call.b # <<>>
            /\ call.dst \in Nat /\ call.cap \in Nat /\ call.cap > 0
            /\ call.low \in Int /\ call.low <= call.dst /\ call.dictSize \in Nat
        BY <1>1, <2>2, <3>1
      <4>2. call.safe = TRUE /\ (call.partial = TRUE \/ call.partial = FALSE)
        BY <1>1, <2>2, <3>1
      <4> QED BY <1>1, <2>2, <3>1, <4>1, <4>2, BlockChecked
    <3>3. HistoryHeld
      BY <1>1, <2>2, <3>1 DEF HistoryHeld, HistoryOf
    <3> QED BY <3>2, <3>3
  <2>5. CASE ~(h.size >= KB64 - 1) /\ h.extSize # 0
    <3>1. /\ call.b = b /\ call.dst = dst /\ call.cap = cap /\ call.safe = TRUE
          /\ call.partial = FALSE /\ call.mode = "usingExtDict" /\ call.low = dst - h.size
          /\ call.dict = h.ext /\ call.dictSize = h.extSize
      BY <2>1, <2>5 DEF Block
    <3>2. Checked(call)
      <4>1. /\ call.b \in Seq(0 .. BYTE) /\ call.b # <<>>
            /\ call.dst \in Nat /\ call.cap \in Nat /\ call.cap > 0
            /\ call.low \in Int /\ call.low <= call.dst /\ call.dictSize \in Nat
        BY <1>1, <2>2, <3>1
      <4>2. call.safe = TRUE /\ (call.partial = TRUE \/ call.partial = FALSE)
        BY <1>1, <2>2, <3>1
      <4> QED BY <1>1, <2>2, <3>1, <4>1, <4>2, BlockChecked
    <3>3. HistoryHeld
      BY <1>1, <2>2, <3>1 DEF HistoryHeld, HistoryOf
    <3> QED BY <3>2, <3>3
  <2> QED BY <2>3, <2>4, <2>5
<1>5. CASE h.size # 0 /\ ~Rolls(h, dst)
  <2>1. Moved(h).ext = h.end - h.size /\ Moved(h).extSize = h.size
    BY DecodingAssumption DEF Moved
  <2>2. /\ given = History(0, h.end - h.size, h.size)
        /\ call = Block(b, dst, cap, TRUE, FALSE, "usingExtDict", dst, h.end - h.size, h.size)
    BY <1>5, <2>1 DEF Continues, LZ4_decompress_safe_continue, LZ4_decompress_safe_forceExtDict
  <2>3. given.prefix = 0 /\ given.ext = h.end - h.size /\ given.extSize = h.size
    BY <2>2 DEF History
  <2>4. /\ call.b = b /\ call.dst = dst /\ call.cap = cap /\ call.safe = TRUE /\ call.partial = FALSE
        /\ call.mode = "usingExtDict" /\ call.low = dst /\ call.dict = h.end - h.size
        /\ call.dictSize = h.size
    BY <2>2 DEF Block
  <2>5. Checked(call)
    <3>1. /\ call.b \in Seq(0 .. BYTE) /\ call.b # <<>>
          /\ call.dst \in Nat /\ call.cap \in Nat /\ call.cap > 0
          /\ call.low \in Int /\ call.low <= call.dst /\ call.dictSize \in Nat
      BY <1>1, <2>3, <2>4
    <3>2. call.safe = TRUE /\ (call.partial = TRUE \/ call.partial = FALSE)
      BY <1>1, <2>3, <2>4
    <3> QED BY <1>1, <2>3, <2>4, <3>1, <3>2, BlockChecked
  <2>6. HistoryHeld
    BY <1>1, <2>3, <2>4 DEF HistoryHeld, HistoryOf
  <2> QED BY <2>5, <2>6
<1> QED BY <1>3, <1>4, <1>5

\* What a block after a dictionary is decoded with.
LEMMA HasDictSound ==
  ASSUME NEW h \in Contexts, NEW b \in Received, NEW dst \in Nat, NEW cap \in Nat, b # <<>>, cap > 0,
         HasDict(h, b, dst, cap)
  PROVE  Checked(call) /\ HistoryHeld
<1>1. h.ext \in Nat /\ h.extSize \in Nat /\ b \in Seq(0 .. BYTE)
  BY DecodingAssumption
<1>2. KB64 \in Nat /\ KB64 >= 1
  BY Window
<1> DEFINE ends == h.ext + h.extSize = dst
<1>3. /\ given = IF ends THEN History(h.extSize, NULL, 0) ELSE History(0, h.ext, h.extSize)
      /\ call = IF h.extSize = 0
                THEN Block(b, dst, cap, TRUE, FALSE, "noDict", dst, NULL, 0)
                ELSE IF ends
                THEN IF h.extSize >= KB64 - 1
                     THEN Block(b, dst, cap, TRUE, FALSE, "withPrefix64k", dst - KB64, NULL, 0)
                     ELSE Block(b, dst, cap, TRUE, FALSE, "noDict", dst - h.extSize, NULL, 0)
                ELSE Block(b, dst, cap, TRUE, FALSE, "usingExtDict", dst, h.ext, h.extSize)
  BY DEF HasDict, LZ4_decompress_safe_usingDict, LZ4_decompress_safe, LZ4_decompress_safe_withPrefix64k,
         LZ4_decompress_safe_withSmallPrefix, LZ4_decompress_safe_forceExtDict
<1>4. /\ ends => given.prefix = h.extSize
      /\ ~ends => given.prefix = 0 /\ given.ext = h.ext /\ given.extSize = h.extSize
  BY <1>3 DEF History
<1> HIDE DEF ends
<1>5. CASE h.extSize = 0
  <2>1. given.prefix = 0
    BY <1>4, <1>5
  <2>2. /\ call.b = b /\ call.dst = dst /\ call.cap = cap /\ call.safe = TRUE /\ call.partial = FALSE
        /\ call.mode = "noDict" /\ call.low = dst /\ call.dictSize = 0
    BY <1>3, <1>5 DEF Block
  <2>3. Checked(call)
    <3>1. /\ call.b \in Seq(0 .. BYTE) /\ call.b # <<>>
          /\ call.dst \in Nat /\ call.cap \in Nat /\ call.cap > 0
          /\ call.low \in Int /\ call.low <= call.dst /\ call.dictSize \in Nat
      BY <1>1, <2>1, <2>2
    <3>2. call.safe = TRUE /\ (call.partial = TRUE \/ call.partial = FALSE)
      BY <1>1, <2>1, <2>2
    <3> QED BY <1>1, <2>1, <2>2, <3>1, <3>2, BlockChecked
  <2>4. HistoryHeld
    BY <1>1, <2>1, <2>2 DEF HistoryHeld, HistoryOf
  <2> QED BY <2>3, <2>4
<1>6. CASE h.extSize # 0 /\ ends /\ h.extSize >= KB64 - 1
  <2>1. /\ call.b = b /\ call.dst = dst /\ call.cap = cap /\ call.safe = TRUE /\ call.partial = FALSE
        /\ call.mode = "withPrefix64k" /\ call.low = dst - KB64 /\ call.dictSize = 0
    BY <1>3, <1>6 DEF Block
  <2>2. Checked(call)
    <3>1. /\ call.b \in Seq(0 .. BYTE) /\ call.b # <<>>
          /\ call.dst \in Nat /\ call.cap \in Nat /\ call.cap > 0
          /\ call.low \in Int /\ call.low <= call.dst /\ call.dictSize \in Nat
      BY <1>1, <1>2, <1>4, <1>6, <2>1
    <3>2. call.safe = TRUE /\ (call.partial = TRUE \/ call.partial = FALSE)
      BY <1>1, <1>2, <1>4, <1>6, <2>1
    <3> QED BY <1>1, <1>2, <1>4, <1>6, <2>1, <3>1, <3>2, BlockChecked
  <2>3. HistoryHeld
    BY <1>1, <1>2, <1>4, <1>6, <2>1 DEF HistoryHeld, HistoryOf, LZ4_DISTANCE_MAX
  <2> QED BY <2>2, <2>3
<1>7. CASE h.extSize # 0 /\ ends /\ ~(h.extSize >= KB64 - 1)
  <2>1. /\ call.b = b /\ call.dst = dst /\ call.cap = cap /\ call.safe = TRUE /\ call.partial = FALSE
        /\ call.mode = "noDict" /\ call.low = dst - h.extSize /\ call.dictSize = 0
    BY <1>3, <1>7 DEF Block
  <2>2. Checked(call)
    <3>1. /\ call.b \in Seq(0 .. BYTE) /\ call.b # <<>>
          /\ call.dst \in Nat /\ call.cap \in Nat /\ call.cap > 0
          /\ call.low \in Int /\ call.low <= call.dst /\ call.dictSize \in Nat
      BY <1>1, <1>4, <1>7, <2>1
    <3>2. call.safe = TRUE /\ (call.partial = TRUE \/ call.partial = FALSE)
      BY <1>1, <1>4, <1>7, <2>1
    <3> QED BY <1>1, <1>4, <1>7, <2>1, <3>1, <3>2, BlockChecked
  <2>3. HistoryHeld
    BY <1>1, <1>4, <1>7, <2>1 DEF HistoryHeld, HistoryOf
  <2> QED BY <2>2, <2>3
<1>8. CASE h.extSize # 0 /\ ~ends
  <2>1. /\ call.b = b /\ call.dst = dst /\ call.cap = cap /\ call.safe = TRUE /\ call.partial = FALSE
        /\ call.mode = "usingExtDict" /\ call.low = dst /\ call.dict = h.ext
        /\ call.dictSize = h.extSize
    BY <1>3, <1>8 DEF Block
  <2>2. Checked(call)
    <3>1. /\ call.b \in Seq(0 .. BYTE) /\ call.b # <<>>
          /\ call.dst \in Nat /\ call.cap \in Nat /\ call.cap > 0
          /\ call.low \in Int /\ call.low <= call.dst /\ call.dictSize \in Nat
      BY <1>1, <1>4, <1>8, <2>1
    <3>2. call.safe = TRUE /\ (call.partial = TRUE \/ call.partial = FALSE)
      BY <1>1, <1>4, <1>8, <2>1
    <3> QED BY <1>1, <1>4, <1>8, <2>1, <3>1, <3>2, BlockChecked
  <2>3. HistoryHeld
    BY <1>1, <1>4, <1>8, <2>1 DEF HistoryHeld, HistoryOf
  <2> QED BY <2>2, <2>3
<1> QED BY <1>5, <1>6, <1>7, <1>8

\* What the first bytes of a block are decoded with.
LEMMA PartlySound ==
  ASSUME NEW target \in Targets, NEW b \in Received, NEW dst \in Nat, NEW cap \in Nat, b # <<>>,
         call.cap > 0, Partly(target, b, dst, cap)
  PROVE  Checked(call) /\ HistoryHeld
<1>1. b \in Seq(0 .. BYTE) /\ target \in Nat
  BY DecodingAssumption
<1> DEFINE n == Min({target, cap})
<1>2. n \in Nat
  BY <1>1, MinOfTwo
<1>3. call = Block(b, dst, n, TRUE, TRUE, "noDict", dst, NULL, 0) /\ given = History(0, NULL, 0)
  BY DEF Partly, LZ4_decompress_safe_partial
<1> HIDE DEF n
<1>4. /\ call.b = b /\ call.dst = dst /\ call.cap = n /\ call.safe = TRUE /\ call.partial = TRUE
      /\ call.mode = "noDict" /\ call.low = dst /\ call.dictSize = 0
  BY <1>3 DEF Block
<1>5. given.prefix = 0
  BY <1>3 DEF History
<1>6. Checked(call)
  <2>1. /\ call.b \in Seq(0 .. BYTE) /\ call.b # <<>>
        /\ call.dst \in Nat /\ call.cap \in Nat /\ call.cap > 0
        /\ call.low \in Int /\ call.low <= call.dst /\ call.dictSize \in Nat
    BY <1>1, <1>2, <1>4, <1>5
  <2>2. call.safe = TRUE /\ (call.partial = TRUE \/ call.partial = FALSE)
    BY <1>1, <1>2, <1>4, <1>5
  <2> QED BY <1>1, <1>2, <1>4, <1>5, <2>1, <2>2, BlockChecked
<1>7. HistoryHeld
  BY <1>1, <1>2, <1>4, <1>5 DEF HistoryHeld, HistoryOf
<1> QED BY <1>6, <1>7

\* A decoding begins where it may.
LEMMA StartInside ==
  ASSUME NEW x, Checked(x), NEW m
  PROVE  Inside(x, m, Start(m, x)) /\ Placed(x, Start(m, x))
<1> DEFINE d == Start(m, x)
<1>1. /\ Decoder(d)
      /\ d.pc = IF FastLoop /\ x.cap >= FASTLOOP_SAFE_DISTANCE THEN "fast" ELSE "safe"
      /\ d.ip = 0 /\ d.op = x.dst /\ d.m = m /\ d.token = 0 /\ d.length = 0 /\ d.offset = 0
      /\ d.rd = 0 /\ d.before = 0
  BY DEF Start, Decoder
<1> HIDE DEF d
<1>2. /\ iendOf(x) \in Nat /\ iendOf(x) >= 1 /\ x.dst \in Nat /\ oendOf(x) \in Nat
      /\ oendOf(x) >= x.dst + 1 /\ oendOf(x) = x.dst + x.cap /\ x.cap \in Nat
      /\ BYTE \in Nat /\ KB64 \in Nat /\ KB64 >= 1
  BY EndsOfBuffers, Sizes, Window DEF Checked
<1>3. Spares(x, m, d.m)
  BY <1>1 DEF Spares
<1>4. /\ d.ip \in 0 .. iendOf(x) /\ d.rd \in 0 .. iendOf(x) /\ d.op \in x.dst .. oendOf(x)
      /\ d.token \in 0 .. BYTE /\ d.length \in Nat /\ d.offset \in 0 .. KB64 - 1
  BY <1>1, <1>2
<1>5. Inside(x, m, d)
  BY <1>1, <1>3, <1>4 DEF Inside
<1>6. d.pc \in {"fast", "safe"} /\ (d.pc = "fast" => x.cap >= FASTLOOP_SAFE_DISTANCE)
  BY <1>1
<1>7. Placed(x, d)
  BY <1>1, <1>2, <1>6 DEF Placed, FASTLOOP_SAFE_DISTANCE
<1> QED BY <1>5, <1>7 DEF d

\* It holds when the loops begin.
LEMMA SoundInit == DecodingInit => Sound
<1> SUFFICES ASSUME DecodingInit PROVE Sound
  OBVIOUS
<1>1. call.cap > 0 /\ call.b # <<>> /\ at = Start(Held, call)
  BY DEF DecodingInit
<1>2. PICK b \in Received, r \in Rooms :
        \/ \E h \in Contexts : Continues(h, b, r[1], r[2]) \/ HasDict(h, b, r[1], r[2])
        \/ \E target \in Targets : Partly(target, b, r[1], r[2])
  BY DEF DecodingInit
<1>3. r[1] \in Nat /\ r[2] \in Nat
  BY DecodingAssumption
<1>4. Checked(call) /\ HistoryHeld
  <2>1. ASSUME NEW h \in Contexts, Continues(h, b, r[1], r[2])
        PROVE  Checked(call) /\ HistoryHeld
    <3>1. call.b = b /\ call.cap = r[2]
      BY <2>1 DEF Block, Continues, LZ4_decompress_safe_continue, LZ4_decompress_safe,
           LZ4_decompress_safe_withPrefix64k, LZ4_decompress_safe_withSmallPrefix,
           LZ4_decompress_safe_doubleDict, LZ4_decompress_safe_forceExtDict
    <3> QED BY <1>1, <1>3, <2>1, <3>1, ContinuesSound
  <2>2. ASSUME NEW h \in Contexts, HasDict(h, b, r[1], r[2])
        PROVE  Checked(call) /\ HistoryHeld
    <3>1. call.b = b /\ call.cap = r[2]
      BY <2>2 DEF Block, HasDict, LZ4_decompress_safe_usingDict, LZ4_decompress_safe,
           LZ4_decompress_safe_withPrefix64k, LZ4_decompress_safe_withSmallPrefix,
           LZ4_decompress_safe_forceExtDict
    <3> QED BY <1>1, <1>3, <2>2, <3>1, HasDictSound
  <2>3. ASSUME NEW target \in Targets, Partly(target, b, r[1], r[2])
        PROVE  Checked(call) /\ HistoryHeld
    <3>1. call.b = b
      BY <2>3 DEF Block, Partly, LZ4_decompress_safe_partial
    <3> QED BY <1>1, <1>3, <2>3, <3>1, PartlySound
  <2> QED BY <1>2, <2>1, <2>2, <2>3
<1>5. Inside(call, Held, at) /\ Placed(call, at)
  BY <1>1, <1>4, StartInside
<1> QED BY <1>4, <1>5 DEF Sound

\* A step keeps it: StepInside says so for any call and any place in the block.
LEMMA SoundNext == Sound /\ [DecodingNext]_decoding => Sound'
<1> SUFFICES ASSUME Sound, [DecodingNext]_decoding PROVE Sound'
  OBVIOUS
<1>1. CASE DecodingNext
  <2>1. ~Finished(at) /\ at' = StepOn(call, at) /\ call' = call /\ given' = given
    BY <1>1 DEF DecodingNext
  <2>2. Inside(call, Held, at') /\ Placed(call, at')
    BY <2>1, StepInside DEF Sound
  <2> QED BY <2>1, <2>2 DEF Sound, HistoryHeld
<1>2. CASE UNCHANGED decoding
  BY <1>2 DEF decoding, Sound, HistoryHeld
<1> QED BY <1>1, <1>2

\* And it says that nothing is touched outside.
LEMMA SoundIsInside == Sound => NothingOutside
<1> SUFFICES ASSUME Sound PROVE NothingOutside
  OBVIOUS
<1>1. Checked(call) /\ HistoryHeld /\ Inside(call, Held, at)
  BY DEF Sound
<1>2. /\ at.ip <= iendOf(call) /\ at.rd <= iendOf(call)
      /\ at.op \in call.dst .. oendOf(call) /\ at.before = 0 /\ Spares(call, Held, at.m)
  BY <1>1, InsideNumbers DEF Inside
<1> QED BY <1>1, <1>2 DEF NothingOutside, WritesInside, LooksInside, Spares, HistoryHeld

\* Whatever a block says, decoding it writes nothing outside the destination, reads
\* nothing behind the block and looks for no match before the history the caller
\* has: LZ4_decompress_generic with endOnInput, for every block, every destination
\* and every history of the functions that call it.
THEOREM DecodingStaysInside == DecodingSpec => []NothingOutside
<1>1. DecodingInit => Sound
  BY SoundInit
<1>2. Sound /\ [DecodingNext]_decoding => Sound'
  BY SoundNext
<1>3. Sound => NothingOutside
  BY SoundIsInside
<1> QED BY <1>1, <1>2, <1>3, PTL DEF DecodingSpec

\* Every step of a decoding gets on in its block or ends, so that the loops, which
\* have no condition, end after 4 * n + 4 steps at most.
THEOREM DecodingAdvances == DecodingSpec => Advances
<1>1. DecodingInit => Sound
  BY SoundInit
<1>2. Sound /\ [DecodingNext]_decoding => Sound'
  BY SoundNext
<1>3. Sound /\ [DecodingNext]_decoding => [Finished(at') \/ Progress(at') > Progress(at)]_decoding
  <2> SUFFICES ASSUME Sound, DecodingNext PROVE Finished(at') \/ Progress(at') > Progress(at)
    OBVIOUS
  <2>1. ~Finished(at) /\ at' = StepOn(call, at)
    BY DEF DecodingNext
  <2> QED BY <2>1, StepInside DEF Sound
<1> QED BY <1>1, <1>2, <1>3, PTL DEF DecodingSpec, Advances
=============================================================================
