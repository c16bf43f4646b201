---------------------------- MODULE XxHashProofs ----------------------------
(***************************************************************************)
(* Proofs about XXH32 and XXH64 for every content, every way to cut it     *)
(* into pieces and every width of the count from 32 up: a stream's digest  *)
(* is the hash of the whole, whatever the processor's byte order.          *)
(***************************************************************************)
EXTENDS XxHash, FiniteSetTheorems, SequenceTheorems, TLAPS

-----------------------------------------------------------------------------
(* Numbers: whole stripes and what is left.                                *)

\* A length is its whole stripes and a rest.
LEMMA Split16 ==
  ASSUME NEW a \in Nat
  PROVE  /\ a \div 16 \in Nat /\ a % 16 \in 0 .. 15
         /\ a = 16 * (a \div 16) + (a % 16)
         /\ \A q \in Int, r \in 0 .. 15 :
              a = 16 * q + r => a \div 16 = q /\ a % 16 = r
  OBVIOUS

\* The same for stripes of 32.
LEMMA Split32 ==
  ASSUME NEW a \in Nat
  PROVE  /\ a \div 32 \in Nat /\ a % 32 \in 0 .. 31
         /\ a = 32 * (a \div 32) + (a % 32)
         /\ \A q \in Int, r \in 0 .. 31 :
              a = 32 * q + r => a \div 32 = q /\ a % 32 = r
  OBVIOUS

\* The first n turns of a loop are n.
LEMMA Turns ==
  ASSUME NEW n \in Nat, NEW T, T = 0 .. n - 1
  PROVE  Cardinality(T) = n
  BY FS_Interval

\* The passes of the one-shot loops are the stripes of the input.
LEMMA Passes32 ==
  ASSUME NEW len \in Nat, len >= 16
  PROVE  XXH32_passes(len) = len \div 16
<1> DEFINE n == len \div 16
<1>1. n \in Nat /\ 16 * n <= len /\ len <= 16 * n + 15 /\ n >= 1 /\ n <= len
  BY Split16
<1> HIDE DEF n
<1>2. {j \in 0 .. len : j = 0 \/ 16 * j < len - 15} = 0 .. n - 1
  BY <1>1
<1>3. QED
  BY <1>1, <1>2, Turns DEF XXH32_passes, n

\* The same for XXH64.
LEMMA Passes64 ==
  ASSUME NEW len \in Nat, len >= 32
  PROVE  XXH64_passes(len) = len \div 32
<1> DEFINE n == len \div 32
<1>1. n \in Nat /\ 32 * n <= len /\ len <= 32 * n + 31 /\ n >= 1 /\ n <= len
  BY Split32
<1> HIDE DEF n
<1>2. {j \in 0 .. len : j = 0 \/ 32 * j <= len - 32} = 0 .. n - 1
  BY <1>1
<1>3. QED
  BY <1>1, <1>2, Turns DEF XXH64_passes, n

\* The whole stripes update takes from its input after the first used bytes.
LEMMA Stripes32 ==
  ASSUME NEW len \in Nat, NEW used \in 0 .. len
  PROVE  Cardinality({j \in 0 .. len : used + 16 * j <= len - 16}) = (len - used) \div 16
<1> DEFINE n == (len - used) \div 16
<1>1. n \in Nat /\ 16 * n <= len - used /\ len - used <= 16 * n + 15 /\ n <= len
  BY Split16
<1> HIDE DEF n
<1>2. {j \in 0 .. len : used + 16 * j <= len - 16} = 0 .. n - 1
  BY <1>1
<1>3. QED
  BY <1>1, <1>2, Turns DEF n

\* The same for XXH64_update.
LEMMA Stripes64 ==
  ASSUME NEW len \in Nat, NEW used \in 0 .. len
  PROVE  Cardinality({j \in 0 .. len : used + 32 * j + 32 <= len}) = (len - used) \div 32
<1> DEFINE n == (len - used) \div 32
<1>1. n \in Nat /\ 32 * n <= len - used /\ len - used <= 32 * n + 31 /\ n <= len
  BY Split32
<1> HIDE DEF n
<1>2. {j \in 0 .. len : used + 32 * j + 32 <= len} = 0 .. n - 1
  BY <1>1
<1>3. QED
  BY <1>1, <1>2, Turns DEF n

-----------------------------------------------------------------------------
(* Bytes and words.                                                        *)

\* Bytes cuts a piece out, and a piece of a piece is a piece.
LEMMA Pieces ==
  ASSUME NEW c \in Seq(Byte), NEW p \in Nat, NEW n \in Nat, p + n <= Len(c)
  PROVE  /\ Bytes(c, p, n) \in Seq(Byte)
         /\ Len(Bytes(c, p, n)) = n
         /\ \A k \in 1 .. n : Bytes(c, p, n)[k] = c[p + k]
         /\ \A q, m \in Nat : q + m <= n => Bytes(Bytes(c, p, n), q, m) = Bytes(c, p + q, m)
<1>1. /\ Bytes(c, p, n) \in Seq(Byte)
      /\ Len(Bytes(c, p, n)) = n
      /\ \A k \in 1 .. n : Bytes(c, p, n)[k] = c[p + k]
  BY SubSeqProperties DEF Bytes
<1>2. ASSUME NEW q \in Nat, NEW m \in Nat, q + m <= n
      PROVE  Bytes(Bytes(c, p, n), q, m) = Bytes(c, p + q, m)
  <2> DEFINE s == Bytes(c, p, n)
  <2>1. /\ Bytes(s, q, m) \in Seq(Byte) /\ Len(Bytes(s, q, m)) = m
        /\ \A k \in 1 .. m : Bytes(s, q, m)[k] = s[q + k]
    BY <1>1, <1>2, SubSeqProperties DEF Bytes
  <2>2. /\ Bytes(c, p + q, m) \in Seq(Byte) /\ Len(Bytes(c, p + q, m)) = m
        /\ \A k \in 1 .. m : Bytes(c, p + q, m)[k] = c[p + q + k]
    BY <1>2, SubSeqProperties DEF Bytes
  <2>3. \A k \in 1 .. m : s[q + k] = c[p + q + k]
    BY <1>1, <1>2
  <2> HIDE DEF s
  <2>4. \A k \in 1 .. m : Bytes(s, q, m)[k] = Bytes(c, p + q, m)[k]
    BY <2>1, <2>2, <2>3
  <2>5. QED
    BY <2>1, <2>2, <2>4, SeqEqual DEF s
<1>3. QED
  BY <1>1, <1>2

\* A word read and, on the other kind of processor, swapped, is the bytes as they
\* lie in memory.
LEMMA WordsRead ==
  ASSUME NEW b \in Seq(Byte), NEW p \in Nat
  PROVE  /\ p + 4 <= Len(b) => XXH_readLE32(b, p) = Bytes(b, p, 4)
         /\ p + 8 <= Len(b) => XXH_readLE64(b, p) = Bytes(b, p, 8)
<1>1. ASSUME NEW s \in Seq(Byte)
      PROVE  Reverse(Reverse(s)) = s
  <2>1. \A u \in Seq(Byte) : Reverse(u) \in Seq(Byte) /\ Len(Reverse(u)) = Len(u)
    BY DEF Reverse
  <2>2. Reverse(Reverse(s)) \in Seq(Byte) /\ Len(Reverse(Reverse(s))) = Len(s)
    BY <2>1
  <2>3. \A k \in 1 .. Len(s) : Reverse(Reverse(s))[k] = s[k]
    BY <2>1 DEF Reverse
  <2>4. QED
    BY <2>2, <2>3, SeqEqual
<1>2. /\ p + 4 <= Len(b) => Bytes(b, p, 4) \in Seq(Byte)
      /\ p + 8 <= Len(b) => Bytes(b, p, 8) \in Seq(Byte)
  BY Pieces
<1>3. QED
  BY <1>1, <1>2 DEF XXH_readLE32, XXH_readLE64, XXH_read32, XXH_read64, XXH_swap32, XXH_swap64

\* n bytes from p on end at e.  (With a name, a sum can be matched.)
Ends(p, n, e) == e = p + n

\* A piece and the next one are one piece.
LEMMA Joined ==
  ASSUME NEW c \in Seq(Byte), NEW p \in Nat, NEW n \in Nat, NEW m \in Nat,
         NEW e \in Nat, NEW s \in Nat,
         Ends(p, n, e), Ends(n, m, s), e + m <= Len(c)
  PROVE  Bytes(c, p, n) \o Bytes(c, e, m) = Bytes(c, p, s)
<1>0. p + n + m <= Len(c) /\ e = p + n /\ s = n + m
  BY DEF Ends
<1> DEFINE a == Bytes(c, p, n)
           b == Bytes(c, e, m)
           d == Bytes(c, p, s)
<1>1. a \in Seq(Byte) /\ Len(a) = n /\ \A k \in 1 .. n : a[k] = c[p + k]
  <2>1. p + n <= Len(c)
    BY <1>0, LenProperties
  <2>2. QED
    BY <2>1, Pieces, Zenon
<1>2. b \in Seq(Byte) /\ Len(b) = m /\ \A k \in 1 .. m : b[k] = c[e + k]
  BY Pieces, Zenon
<1>3. d \in Seq(Byte) /\ Len(d) = s /\ \A k \in 1 .. s : d[k] = c[p + k]
  <2>1. p + s <= Len(c)
    BY <1>0, LenProperties
  <2>2. QED
    BY <2>1, Pieces, Zenon
<1> HIDE DEF a, b, d
<1> DEFINE x == a \o b
<1>4. /\ x \in Seq(Byte) /\ Len(x) = s
      /\ \A k \in 1 .. s : x[k] = IF k <= n THEN a[k] ELSE b[k - n]
  BY <1>0, <1>1, <1>2, ConcatProperties
<1> HIDE DEF x
<1>5. \A k \in 1 .. s : x[k] = d[k]
  <2> TAKE k \in 1 .. s
  <2>1. CASE k <= n
    <3>1. k \in 1 .. n
      BY <2>1
    <3>2. x[k] = a[k]
      BY <1>4, <2>1, Zenon
    <3>3. QED
      BY <1>1, <1>3, <3>1, <3>2, Zenon
  <2>2. CASE ~ (k <= n)
    <3>1. k - n \in 1 .. m /\ e + (k - n) = p + k
      BY <1>0, <2>2
    <3>2. x[k] = b[k - n]
      BY <1>4, <2>2, Zenon
    <3>3. QED
      BY <1>2, <1>3, <3>1, <3>2, Zenon
  <2>3. QED
    BY <2>1, <2>2
<1>6. x = d
  BY <1>3, <1>4, <1>5, SeqEqual
<1>7. QED
  BY <1>0, <1>6 DEF a, b, d, x

-----------------------------------------------------------------------------
(* Rounds.  What a lane has mixed in is the sequence of its words; w is the *)
(* size of a word, 4 or 8, and 4 * w that of a stripe.                      *)

Mixed == Int \cup Seq(Byte)
Accumulators == [1 .. 4 -> Seq(Mixed)]

Words(b, p, n, w, k) == [j \in 1 .. n |-> Bytes(b, p + (4 * w) * (j - 1) + w * (k - 1), w)]
Taken(v, b, p, n, w) == [k \in 1 .. 4 |-> v[k] \o Words(b, p, n, w, k)]

\* On either kind of processor, the rounds of XXH32 and XXH64 take the words of n
\* stripes as they lie in memory.
LEMMA RoundsTake ==
  ASSUME NEW v, NEW b \in Seq(Byte), NEW p \in Nat, NEW n \in Nat
  PROVE  /\ p + 16 * n <= Len(b) => XXH32_round(v, b, p, n) = Taken(v, b, p, n, 4)
         /\ p + 32 * n <= Len(b) => XXH64_round(v, b, p, n) = Taken(v, b, p, n, 8)
<1>1. ASSUME p + 16 * n <= Len(b), NEW k \in 1 .. 4
      PROVE  [j \in 1 .. n |-> XXH_readLE32(b, p + 16 * (j - 1) + 4 * (k - 1))]
             = Words(b, p, n, 4, k)
  <2>1. \A j \in 1 .. n : /\ p + 16 * (j - 1) + 4 * (k - 1) \in Nat
                          /\ p + 16 * (j - 1) + 4 * (k - 1) + 4 <= Len(b)
    BY <1>1
  <2>2. \A j \in 1 .. n : XXH_readLE32(b, p + 16 * (j - 1) + 4 * (k - 1))
                         = Bytes(b, p + 16 * (j - 1) + 4 * (k - 1), 4)
    BY <2>1, WordsRead
  <2>3. QED
    BY <2>2 DEF Words
<1>2. ASSUME p + 32 * n <= Len(b), NEW k \in 1 .. 4
      PROVE  [j \in 1 .. n |-> XXH_readLE64(b, p + 32 * (j - 1) + 8 * (k - 1))]
             = Words(b, p, n, 8, k)
  <2>1. \A j \in 1 .. n : /\ p + 32 * (j - 1) + 8 * (k - 1) \in Nat
                          /\ p + 32 * (j - 1) + 8 * (k - 1) + 8 <= Len(b)
    BY <1>2
  <2>2. \A j \in 1 .. n : XXH_readLE64(b, p + 32 * (j - 1) + 8 * (k - 1))
                         = Bytes(b, p + 32 * (j - 1) + 8 * (k - 1), 8)
    BY <2>1, WordsRead
  <2>3. QED
    BY <2>2 DEF Words
<1>3. QED
  BY <1>1, <1>2, Zenon DEF XXH32_round, XXH64_round, Taken

\* The words of n stripes are n pieces of the input.
LEMMA WordsType ==
  ASSUME NEW b \in Seq(Byte), NEW p \in Nat, NEW n \in Nat, NEW w \in {4, 8},
         NEW k \in 1 .. 4, p + (4 * w) * n <= Len(b)
  PROVE  /\ Words(b, p, n, w, k) \in Seq(Mixed)
         /\ Len(Words(b, p, n, w, k)) = n
         /\ \A j \in 1 .. n : /\ p + (4 * w) * (j - 1) + w * (k - 1) \in Nat
                             /\ p + (4 * w) * (j - 1) + w * (k - 1) + w <= Len(b)
<1>1. \A j \in 1 .. n : /\ p + (4 * w) * (j - 1) + w * (k - 1) \in Nat
                        /\ p + (4 * w) * (j - 1) + w * (k - 1) + w <= Len(b)
  <2>1. CASE w = 4
    BY <2>1
  <2>2. CASE w = 8
    BY <2>2
  <2>3. QED
    BY <2>1, <2>2
<1>2. \A j \in 1 .. n : Bytes(b, p + (4 * w) * (j - 1) + w * (k - 1), w) \in Mixed
  BY <1>1, Pieces DEF Mixed
<1>3. QED
  BY <1>1, <1>2 DEF Words

\* The words of the same stripes are the same, in a piece and in the whole.
LEMMA TakenInPiece ==
  ASSUME NEW v, NEW c \in Seq(Byte), NEW q \in Nat, NEW len \in Nat, q + len <= Len(c),
         NEW p \in Nat, NEW n \in Nat, NEW w \in {4, 8}, p + (4 * w) * n <= len
  PROVE  Taken(v, Bytes(c, q, len), p, n, w) = Taken(v, c, q + p, n, w)
<1> DEFINE s == Bytes(c, q, len)
<1>1. /\ s \in Seq(Byte) /\ Len(s) = len
      /\ \A a, m \in Nat : a + m <= len => Bytes(s, a, m) = Bytes(c, q + a, m)
  BY Pieces
<1> HIDE DEF s
<1>2. ASSUME NEW k \in 1 .. 4
      PROVE  Words(s, p, n, w, k) = Words(c, q + p, n, w, k)
  <2>1. \A j \in 1 .. n : /\ p + (4 * w) * (j - 1) + w * (k - 1) \in Nat
                          /\ p + (4 * w) * (j - 1) + w * (k - 1) + w <= len
    BY <1>1, WordsType
  <2>2. \A j \in 1 .. n : Bytes(s, p + (4 * w) * (j - 1) + w * (k - 1), w)
                         = Bytes(c, q + p + (4 * w) * (j - 1) + w * (k - 1), w)
    <3> TAKE j \in 1 .. n
    <3> DEFINE a == p + (4 * w) * (j - 1) + w * (k - 1)
    <3>1. a \in Nat /\ w \in Nat /\ a + w <= len
      BY <2>1
    <3>2. q + a = q + p + (4 * w) * (j - 1) + w * (k - 1)
      <4>1. CASE w = 4
        BY <4>1
      <4>2. CASE w = 8
        BY <4>2
      <4>3. QED
        BY <4>1, <4>2
    <3>3. Bytes(s, a, w) = Bytes(c, q + a, w)
      BY <3>1, <1>1
    <3>4. QED
      BY <3>2, <3>3
  <2>3. QED
    BY <2>2 DEF Words
<1>3. QED
  BY <1>2, Zenon DEF Taken, s

\* Stripe q starts at a.
Starts(w, q, a) == a = (4 * w) * q

\* Concatenation is associative.
LEMMA Assoc == \A s, t, u \in Seq(Mixed) : (s \o t) \o u = s \o (t \o u)
  BY ConcatAssociative

\* Taking m stripes and then the next n is taking m + n.
LEMMA TakenMore ==
  \A v \in Accumulators, c \in Seq(Byte), m, n, p \in Nat, w \in {4, 8} :
    Starts(w, m, p) /\ p + (4 * w) * n <= Len(c)
    => Taken(Taken(v, c, 0, m, w), c, p, n, w) = Taken(v, c, 0, m + n, w)
<1> SUFFICES ASSUME NEW v \in Accumulators, NEW c \in Seq(Byte), NEW m \in Nat, NEW n \in Nat,
                    NEW p \in Nat, NEW w \in {4, 8},
                    Starts(w, m, p), p + (4 * w) * n <= Len(c)
             PROVE  Taken(Taken(v, c, 0, m, w), c, p, n, w) = Taken(v, c, 0, m + n, w)
  OBVIOUS
<1>0. p = (4 * w) * m
  BY DEF Starts
<1>1. ASSUME NEW k \in 1 .. 4
      PROVE  Words(c, 0, m, w, k) \o Words(c, p, n, w, k) = Words(c, 0, m + n, w, k)
  <2> DEFINE x == Words(c, 0, m, w, k)
             y == Words(c, p, n, w, k)
             z == Words(c, 0, m + n, w, k)
  <2>1. 0 + (4 * w) * m <= Len(c) /\ 0 + (4 * w) * (m + n) <= Len(c)
    <3>1. CASE w = 4
      BY <1>0, <3>1
    <3>2. CASE w = 8
      BY <1>0, <3>2
    <3>3. QED
      BY <3>1, <3>2
  <2>2. /\ x \in Seq(Mixed) /\ Len(x) = m
        /\ y \in Seq(Mixed) /\ Len(y) = n
        /\ z \in Seq(Mixed) /\ Len(z) = m + n
    <3>1. x \in Seq(Mixed) /\ Len(x) = m
      <4>1. ASSUME NEW a \in Nat, a + (4 * w) * m <= Len(c)
            PROVE  Words(c, a, m, w, k) \in Seq(Mixed) /\ Len(Words(c, a, m, w, k)) = m
        BY <4>1, WordsType
      <4>2. QED
        BY <2>1, <4>1
    <3>2. y \in Seq(Mixed) /\ Len(y) = n
      BY <2>1, WordsType
    <3>3. z \in Seq(Mixed) /\ Len(z) = m + n
      <4>1. ASSUME NEW a \in Nat, NEW b \in Nat, a + (4 * w) * b <= Len(c)
            PROVE  Words(c, a, b, w, k) \in Seq(Mixed) /\ Len(Words(c, a, b, w, k)) = b
        BY <4>1, WordsType
      <4>2. QED
        BY <2>1, <4>1
    <3>4. QED
      BY <3>1, <3>2, <3>3
  <2>3. \A j \in 1 .. m : x[j] = z[j]
    BY DEF Words
  <2>4. \A j \in m + 1 .. m + n : y[j - m] = z[j]
    <3> TAKE j \in m + 1 .. m + n
    <3>1. p + (4 * w) * (j - m - 1) + w * (k - 1) = 0 + (4 * w) * (j - 1) + w * (k - 1)
      <4>1. CASE w = 4
        BY <1>0, <4>1
      <4>2. CASE w = 8
        BY <1>0, <4>2
      <4>3. QED
        BY <4>1, <4>2
    <3>2. j - m \in 1 .. n /\ j \in 1 .. m + n
      OBVIOUS
    <3>3. QED
      BY <3>1, <3>2 DEF Words
  <2> HIDE DEF x, y, z
  <2>5. /\ x \o y \in Seq(Mixed) /\ Len(x \o y) = m + n
        /\ \A j \in 1 .. m + n : (x \o y)[j] = IF j <= m THEN x[j] ELSE y[j - m]
    BY ONLY <2>2, m \in Nat, n \in Nat, ConcatProperties
  <2>6. \A j \in 1 .. m + n : (x \o y)[j] = z[j]
    <3> TAKE j \in 1 .. m + n
    <3>1. CASE j <= m
      <4>1. j \in 1 .. m
        BY <3>1
      <4>2. QED
        BY <2>3, <2>5, <3>1, <4>1, Zenon
    <3>2. CASE ~ (j <= m)
      <4>1. j \in m + 1 .. m + n
        BY <3>2
      <4>2. QED
        BY <2>4, <2>5, <3>2, <4>1, Zenon
    <3>3. QED
      BY <3>1, <3>2
  <2>7. x \o y = z
    BY <2>2, <2>5, <2>6, SeqEqual
  <2>8. QED
    BY <2>7 DEF x, y, z
<1>2. ASSUME NEW k \in 1 .. 4
      PROVE  (v[k] \o Words(c, 0, m, w, k)) \o Words(c, p, n, w, k)
             = v[k] \o Words(c, 0, m + n, w, k)
  <2> DEFINE x == Words(c, 0, m, w, k)
             y == Words(c, p, n, w, k)
             u == v[k]
  <2>1. 0 + (4 * w) * m <= Len(c) /\ 0 + (4 * w) * (m + n) <= Len(c)
    <3>1. CASE w = 4
      BY <1>0, <3>1
    <3>2. CASE w = 8
      BY <1>0, <3>2
    <3>3. QED
      BY <3>1, <3>2
  <2>2. x \in Seq(Mixed)
    BY <2>1, WordsType
  <2>3. y \in Seq(Mixed)
    BY <2>1, WordsType
  <2>4. u \in Seq(Mixed)
    BY DEF Accumulators
  <2>5. x \o y = Words(c, 0, m + n, w, k)
    BY <1>1
  <2> HIDE DEF x, y, u
  <2>6. (u \o x) \o y = u \o (x \o y)
    BY <2>2, <2>3, <2>4, Assoc, Zenon
  <2>7. QED
    BY <2>5, <2>6 DEF x, y, u
<1>3. QED
  BY <1>2, Zenon DEF Taken

-----------------------------------------------------------------------------
(* The state after n bytes, however they came.                             *)

State32(n) == [total_len |-> n % Wrap, large_len |-> n >= 16,
               v |-> Taken(Lanes, Content, 0, n \div 16, 4),
               mem |-> Bytes(Content, 16 * (n \div 16), n % 16)]

State64(n) == [total_len |-> n,
               v |-> Taken(Lanes, Content, 0, n \div 32, 8),
               mem |-> Bytes(Content, 32 * (n \div 32), n % 32)]

\* Before the first stripe nothing is taken.
LEMMA NothingTaken ==
  ASSUME NEW w \in {4, 8}
  PROVE  /\ Lanes \in Accumulators
         /\ Taken(Lanes, Content, 0, 0, w) = Lanes
<1>1. Lanes \in Accumulators
  BY DEF Lanes, Accumulators, Mixed
<1>2. ASSUME NEW k \in 1 .. 4
      PROVE  Lanes[k] \o Words(Content, 0, 0, w, k) = Lanes[k]
  <2> DEFINE u == Lanes[k]
  <2>1. u \in Seq(Mixed)
    BY <1>1 DEF Accumulators
  <2>2. Words(Content, 0, 0, w, k) = << >>
    BY DEF Words
  <2> HIDE DEF u
  <2>3. u \o << >> = u
    BY <2>1, ConcatEmptySeq
  <2>4. QED
    BY <2>2, <2>3 DEF u
<1>3. Taken(Lanes, Content, 0, 0, w) = [k \in 1 .. 4 |-> Lanes[k]]
  BY <1>2, Zenon DEF Taken
<1>4. QED
  BY <1>1, <1>3 DEF Lanes

\* A stripe begun, of which r bytes from a on are buffered, is completed by the
\* first used bytes of the input, which starts at f.
LEMMA FirstStripe ==
  ASSUME NEW w \in {4, 8}, NEW f \in Nat, NEW n \in Nat, f + n <= Len(Content),
         NEW q \in Nat, NEW r \in Nat, NEW a \in Nat, NEW used \in 0 .. n,
         Starts(w, q, a), Ends(a, r, f), Ends(r, used, 4 * w)
  PROVE  Taken(Taken(Lanes, Content, 0, q, w),
               Bytes(Content, a, r) \o Bytes(Bytes(Content, f, n), 0, used), 0, 1, w)
         = Taken(Lanes, Content, 0, q + 1, w)
<1> DEFINE S == 4 * w
           V == Taken(Lanes, Content, 0, q, w)
<1>1. /\ S \in Nat /\ a + S <= Len(Content) /\ r + used = S /\ f = a + r
      /\ 0 + (4 * w) * 1 <= S /\ a + (4 * w) * 1 <= Len(Content) /\ a = (4 * w) * q
  <2>1. Content \in Seq(Byte) /\ Len(Content) \in Nat
    BY ContentAssumption
  <2>2. CASE w = 4
    BY <2>1, <2>2 DEF Starts, Ends
  <2>3. CASE w = 8
    BY <2>1, <2>3 DEF Starts, Ends
  <2>4. QED
    BY <2>2, <2>3
<1>2. Content \in Seq(Byte) /\ Lanes \in Accumulators
  BY ContentAssumption, NothingTaken
<1> HIDE DEF S
<1>3. Bytes(Content, a, r) \o Bytes(Bytes(Content, f, n), 0, used) = Bytes(Content, a, S)
  <2>1. 0 + used <= n /\ f + 0 = f
    OBVIOUS
  <2>2. Bytes(Bytes(Content, f, n), 0, used) = Bytes(Content, f, used)
    BY <1>2, <2>1, Pieces
  <2>3. Ends(r, used, S) /\ f + used <= Len(Content) /\ used \in Nat
    BY <1>1 DEF Ends
  <2>4. Bytes(Content, a, r) \o Bytes(Content, f, used) = Bytes(Content, a, S)
    BY ONLY <1>1, <1>2, <2>3, a \in Nat, r \in Nat, f \in Nat, Ends(a, r, f), Joined
  <2>5. QED
    BY <2>2, <2>4
<1>4. Taken(V, Bytes(Content, a, S), 0, 1, w) = Taken(V, Content, a, 1, w)
  <2>1. Taken(V, Bytes(Content, a, S), 0, 1, w) = Taken(V, Content, a + 0, 1, w)
    BY <1>1, <1>2, TakenInPiece
  <2>2. a + 0 = a
    OBVIOUS
  <2>3. QED
    BY <2>1, <2>2
<1>5. Taken(V, Content, a, 1, w) = Taken(Lanes, Content, 0, q + 1, w)
  BY ONLY <1>1, <1>2, q \in Nat, a \in Nat, 1 \in Nat, w \in {4, 8}, Starts(w, q, a), TakenMore
<1>6. QED
  BY <1>3, <1>4, <1>5, Zenon

\* The next t stripes, which start at e, used bytes into the input, are taken from
\* the input itself.
LEMMA NextStripes ==
  ASSUME NEW w \in {4, 8}, NEW f \in Nat, NEW n \in Nat, f + n <= Len(Content),
         NEW used \in Nat, NEW t \in Nat, used + (4 * w) * t <= n,
         NEW e \in Nat, NEW q \in Nat, Ends(f, used, e), Starts(w, q, e)
  PROVE  Taken(Taken(Lanes, Content, 0, q, w), Bytes(Content, f, n), used, t, w)
         = Taken(Lanes, Content, 0, q + t, w)
<1> DEFINE V == Taken(Lanes, Content, 0, q, w)
<1>1. Content \in Seq(Byte) /\ Len(Content) \in Nat /\ Lanes \in Accumulators
  BY ContentAssumption, NothingTaken
<1>2. e = f + used /\ e + (4 * w) * t <= Len(Content)
  <2>1. CASE w = 4
    BY <1>1, <2>1 DEF Ends
  <2>2. CASE w = 8
    BY <1>1, <2>2 DEF Ends
  <2>3. QED
    BY <2>1, <2>2
<1>3. Taken(V, Bytes(Content, f, n), used, t, w) = Taken(V, Content, e, t, w)
  BY <1>1, <1>2, TakenInPiece
<1>4. Taken(V, Content, e, t, w) = Taken(Lanes, Content, 0, q + t, w)
  BY ONLY <1>1, <1>2, q \in Nat, e \in Nat, t \in Nat, w \in {4, 8}, Starts(w, q, e), TakenMore
<1>5. QED
  BY <1>3, <1>4, Zenon

-----------------------------------------------------------------------------
(* The count of XXH32, modulo Wrap.                                        *)

\* Reducing the count at each call is reducing it once.
LEMMA Count ==
  ASSUME NEW a \in Nat, NEW b \in Nat
  PROVE  /\ a % Wrap \in Nat
         /\ a < Wrap => a % Wrap = a
         /\ ((a % Wrap) + b) % Wrap = (a + b) % Wrap
<1>1. Wrap \in Nat /\ Wrap > 0
  BY WrapAssumption
<1>2. ASSUME NEW c \in Nat
      PROVE  /\ c \div Wrap \in Int /\ c % Wrap \in Nat /\ c % Wrap < Wrap
             /\ c = Wrap * (c \div Wrap) + (c % Wrap)
  BY <1>1
<1>3. ASSUME NEW p \in Int, NEW q \in Int, NEW x \in Nat, NEW y \in Nat,
             x < Wrap, y < Wrap, Wrap * p + x = Wrap * q + y
      PROVE  x = y
  <2>1. Wrap * (p - q) = y - x
    BY <1>1, <1>3
  <2>2. ASSUME NEW d \in Int, d >= 1
        PROVE  Wrap * d >= Wrap
    BY <1>1, <2>2
  <2>3. ASSUME NEW d \in Int, d <= -1
        PROVE  Wrap * d <= -Wrap
    BY <1>1, <2>3
  <2>4. p - q = 0
    BY <1>1, <1>3, <2>1, <2>2, <2>3
  <2>5. QED
    BY <1>1, <1>3, <2>1, <2>4
<1>4. ASSUME a < Wrap
      PROVE  a % Wrap = a
  BY <1>1, <1>2, <1>3, <1>4
<1>5. ((a % Wrap) + b) % Wrap = (a + b) % Wrap
  <2> DEFINE r == a % Wrap
             x == (r + b) % Wrap
             y == (a + b) % Wrap
             i == a \div Wrap
             j == (r + b) \div Wrap
             k == (a + b) \div Wrap
  <2>1. i \in Int /\ r \in Nat /\ a = Wrap * i + r
    BY <1>2
  <2>2. r + b \in Nat /\ a + b \in Nat
    BY <2>1
  <2>3. j \in Int /\ x \in Nat /\ x < Wrap /\ r + b = Wrap * j + x
    BY <1>2, <2>2
  <2>4. k \in Int /\ y \in Nat /\ y < Wrap /\ a + b = Wrap * k + y
    BY <1>2, <2>2
  <2> HIDE DEF r, x, y, i, j, k
  <2>5. Wrap * (i + j) + x = Wrap * k + y
    <3>1. Wrap * (i + j) = Wrap * i + Wrap * j
      BY <1>1, <2>1, <2>3
    <3>2. QED
      BY <1>1, <2>1, <2>3, <2>4, <3>1
  <2>6. x = y
    BY <1>3, <2>1, <2>3, <2>4, <2>5
  <2>7. QED
    BY <2>6 DEF x, y, r
<1>6. QED
  BY <1>2, <1>4, <1>5
\* The lanes and the buffer after a call of update, on either way.
LEMMA Mixing32 ==
  ASSUME NEW f \in Nat, NEW n \in Nat, f + n <= Len(Content)
  PROVE  LET V == Taken(Lanes, Content, 0, f \div 16, 4)
             M == Bytes(Content, 16 * (f \div 16), f % 16)
             I == Bytes(Content, f, n)
             used == IF M = <<>> THEN 0 ELSE 16 - Len(M)
             v == IF M = <<>> THEN V ELSE XXH32_round(V, M \o Bytes(I, 0, used), 0, 1)
             N == Cardinality({j \in 0 .. n : used + 16 * j <= n - 16})
             V2 == Taken(Lanes, Content, 0, (f + n) \div 16, 4)
             M2 == Bytes(Content, 16 * ((f + n) \div 16), (f + n) % 16)
         IN  /\ Len(I) = n
             /\ Len(M) + n < 16 => V2 = V /\ M2 = M \o I
             /\ ~ (Len(M) + n < 16) =>
                  /\ V2 = XXH32_round(v, I, used, N)
                  /\ M2 = Bytes(I, used + 16 * N, n - (used + 16 * N))
<1> DEFINE q == f \div 16
           r == f % 16
           a == 16 * q
           Q == (f + n) \div 16
           R == (f + n) % 16
           V == Taken(Lanes, Content, 0, q, 4)
           M == Bytes(Content, a, r)
           I == Bytes(Content, f, n)
           used == IF M = <<>> THEN 0 ELSE 16 - Len(M)
           v == IF M = <<>> THEN V ELSE XXH32_round(V, M \o Bytes(I, 0, used), 0, 1)
           N == Cardinality({j \in 0 .. n : used + 16 * j <= n - 16})
           left == n - used
           t == left \div 16
           p == used + 16 * t
           rest == left % 16
           q1 == IF r = 0 THEN q ELSE q + 1
           e == f + used
<1>1. /\ q \in Nat /\ r \in Nat /\ r < 16 /\ a \in Nat /\ f = a + r /\ a = 16 * q
      /\ a + r <= Len(Content)
  BY Split16
<1>2. Content \in Seq(Byte) /\ Len(Content) \in Nat
  BY ContentAssumption
<1>3. \A x \in Nat, y \in 0 .. 15 : f + n = 16 * x + y => Q = x /\ R = y
  OBVIOUS
<1> HIDE DEF q, r, a, Q, R
<1>4. I \in Seq(Byte) /\ Len(I) = n
  BY <1>2, Pieces
<1>5. M \in Seq(Byte) /\ Len(M) = r
  BY <1>1, <1>2, Pieces
<1>6. \A x, y \in Nat : x + y <= n => Bytes(I, x, y) \in Seq(Byte)
  BY <1>4, Pieces
<1> HIDE DEF I, M, V
<1>7. M = <<>> <=> r = 0
  BY <1>1, <1>5, EmptySeq
<1>8. used \in Nat /\ used = (IF r = 0 THEN 0 ELSE 16 - r)
  BY <1>1, <1>5, <1>7
<1> HIDE DEF used
<1>9. CASE r + n < 16
  <2>1. Q = q /\ R = r + n
    BY <1>1, <1>3, <1>9
  <2>2. Ends(a, r, f) /\ Ends(r, n, R)
    BY <1>1, <2>1 DEF Ends
  <2>3. R \in Nat
    BY <1>1, <2>1
  <2>4. Bytes(Content, a, r) \o Bytes(Content, f, n) = Bytes(Content, a, R)
    BY ONLY <1>1, <1>2, <2>2, <2>3, Joined, f \in Nat, n \in Nat, f + n <= Len(Content)
  <2>5. Bytes(Content, 16 * Q, R) = M \o I
    BY <1>1, <2>1, <2>4 DEF M, I
  <2>6. QED
    BY <1>1, <1>4, <1>5, <1>9, <2>1, <2>5 DEF q, r, a, Q, R, V, M, I
<1>10. CASE r + n >= 16
  <2>1. /\ t \in Nat /\ p \in Nat /\ p = used + 16 * t /\ rest \in Nat /\ rest < 16
        /\ n = p + rest /\ used \in 0 .. n
    <3>1. left \in Nat
      BY <1>1, <1>8, <1>10
    <3> HIDE DEF left
    <3>2. t \in Nat /\ rest \in 0 .. 15 /\ left = 16 * t + rest
      BY ONLY <3>1, Split16
    <3> HIDE DEF t, rest
    <3>3. QED
      BY <1>8, <3>1, <3>2 DEF left
  <2>2. N = t
    BY <2>1, Stripes32
  <2>3. q1 \in Nat /\ e \in Nat /\ e + (p - used) \in Nat
    BY <1>1, <1>8, <2>1
  <2>4. Ends(f, used, e) /\ Starts(4, q1, e)
    BY <1>1, <1>8 DEF Ends, Starts
  <2>5. Q = q1 + t /\ R = rest /\ f + p = 16 * Q
    <3>1. f + p = 16 * (q1 + t)
      BY <1>1, <1>8, <2>1
    <3> HIDE DEF q1, t, rest, p, e
    <3>2. q1 + t \in Nat /\ rest \in 0 .. 15 /\ f + n = 16 * (q1 + t) + rest
      BY <2>1, <2>3, <3>1
    <3>3. Q = q1 + t /\ R = rest
      BY <1>3, <3>2
    <3>4. QED
      BY <3>1, <3>3
  <2> HIDE DEF t, p, rest, N, q1, e
  <2>6. v = Taken(Lanes, Content, 0, q1, 4)
    <3>1. CASE r = 0
      BY <1>7, <3>1 DEF V, q1
    <3>2. CASE r # 0
      <4> DEFINE b == M \o Bytes(I, 0, used)
      <4>1. Bytes(I, 0, used) \in Seq(Byte) /\ Len(Bytes(I, 0, used)) = used
        BY <1>4, <2>1, Pieces
      <4>2. b \in Seq(Byte) /\ Len(b) = 16
        BY <1>1, <1>5, <1>8, <3>2, <4>1, ConcatProperties
      <4>3. /\ Starts(4, q, a) /\ Ends(a, r, f) /\ Ends(r, used, 4 * 4)
        BY <1>1, <1>8, <3>2 DEF Starts, Ends
      <4>4. Taken(V, b, 0, 1, 4) = Taken(Lanes, Content, 0, q + 1, 4)
        <5>1. q \in Nat /\ r \in Nat /\ a \in Nat /\ used \in 0 .. n
          BY <1>1, <2>1
        <5>2. QED
          BY ONLY <4>3, <5>1, 4 \in {4, 8}, f \in Nat, n \in Nat, f + n <= Len(Content),
                  FirstStripe DEF V, M, I
      <4> HIDE DEF b
      <4>5. 0 + 16 * 1 <= Len(b)
        BY <4>2
      <4>6. XXH32_round(V, b, 0, 1) = Taken(V, b, 0, 1, 4)
        BY <4>2, <4>5, RoundsTake
      <4>7. q1 = q + 1 /\ v = XXH32_round(V, b, 0, 1)
        BY <1>7, <3>2 DEF b, q1
      <4>8. QED
        BY <4>4, <4>6, <4>7
    <3>3. QED
      BY <3>1, <3>2
  <2> HIDE DEF v
  <2>7. XXH32_round(v, I, used, N) = Taken(v, I, used, t, 4)
    BY <1>4, <2>1, <2>2, RoundsTake
  <2>8. Taken(Taken(Lanes, Content, 0, q1, 4), I, used, t, 4)
        = Taken(Lanes, Content, 0, q1 + t, 4)
    <3>1. used + (4 * 4) * t <= n
      BY <1>8, <2>1
    <3>2. t \in Nat /\ used \in Nat /\ e \in Nat /\ q1 \in Nat
      BY <1>8, <2>1, <2>3
    <3>3. QED
      BY ONLY <2>4, <3>1, <3>2, 4 \in {4, 8}, f \in Nat, n \in Nat,
              f + n <= Len(Content), NextStripes DEF I
  <2>9. Taken(Lanes, Content, 0, Q, 4) = XXH32_round(v, I, used, N)
    BY <2>5, <2>6, <2>7, <2>8
  <2>10. Bytes(Content, 16 * Q, R) = Bytes(I, p, rest)
    <3>1. p + rest <= n
      BY <2>1
    <3>2. Bytes(I, p, rest) = Bytes(Content, f + p, rest)
      BY <1>2, <2>1, <3>1, Pieces DEF I
    <3>3. QED
      BY <2>5, <3>2
  <2>11. p = used + 16 * N /\ rest = n - (used + 16 * N)
    BY <2>1, <2>2
  <2>12. QED
    BY <1>1, <1>4, <1>5, <1>10, <2>9, <2>10, <2>11 DEF q, r, a, Q, R, V, M, I, used, v, N
<1>11. QED
  BY <1>1, <1>9, <1>10

\* The lanes and the buffer after a call of update, on either way.
LEMMA Mixing64 ==
  ASSUME NEW f \in Nat, NEW n \in Nat, f + n <= Len(Content)
  PROVE  LET V == Taken(Lanes, Content, 0, f \div 32, 8)
             M == Bytes(Content, 32 * (f \div 32), f % 32)
             I == Bytes(Content, f, n)
             used == IF M = <<>> THEN 0 ELSE 32 - Len(M)
             v == IF M = <<>> THEN V ELSE XXH64_round(V, M \o Bytes(I, 0, used), 0, 1)
             N == Cardinality({j \in 0 .. n : used + 32 * j + 32 <= n})
             V2 == Taken(Lanes, Content, 0, (f + n) \div 32, 8)
             M2 == Bytes(Content, 32 * ((f + n) \div 32), (f + n) % 32)
         IN  /\ Len(I) = n
             /\ Len(M) + n < 32 => V2 = V /\ M2 = M \o I
             /\ ~ (Len(M) + n < 32) =>
                  /\ V2 = XXH64_round(v, I, used, N)
                  /\ M2 = Bytes(I, used + 32 * N, n - (used + 32 * N))
<1> DEFINE q == f \div 32
           r == f % 32
           a == 32 * q
           Q == (f + n) \div 32
           R == (f + n) % 32
           V == Taken(Lanes, Content, 0, q, 8)
           M == Bytes(Content, a, r)
           I == Bytes(Content, f, n)
           used == IF M = <<>> THEN 0 ELSE 32 - Len(M)
           v == IF M = <<>> THEN V ELSE XXH64_round(V, M \o Bytes(I, 0, used), 0, 1)
           N == Cardinality({j \in 0 .. n : used + 32 * j + 32 <= n})
           left == n - used
           t == left \div 32
           p == used + 32 * t
           rest == left % 32
           q1 == IF r = 0 THEN q ELSE q + 1
           e == f + used
<1>1. /\ q \in Nat /\ r \in Nat /\ r < 32 /\ a \in Nat /\ f = a + r /\ a = 32 * q
      /\ a + r <= Len(Content)
  BY Split32
<1>2. Content \in Seq(Byte) /\ Len(Content) \in Nat
  BY ContentAssumption
<1>3. \A x \in Nat, y \in 0 .. 31 : f + n = 32 * x + y => Q = x /\ R = y
  OBVIOUS
<1> HIDE DEF q, r, a, Q, R
<1>4. I \in Seq(Byte) /\ Len(I) = n
  BY <1>2, Pieces
<1>5. M \in Seq(Byte) /\ Len(M) = r
  BY <1>1, <1>2, Pieces
<1>6. \A x, y \in Nat : x + y <= n => Bytes(I, x, y) \in Seq(Byte)
  BY <1>4, Pieces
<1> HIDE DEF I, M, V
<1>7. M = <<>> <=> r = 0
  BY <1>1, <1>5, EmptySeq
<1>8. used \in Nat /\ used = (IF r = 0 THEN 0 ELSE 32 - r)
  BY <1>1, <1>5, <1>7
<1> HIDE DEF used
<1>9. CASE r + n < 32
  <2>1. Q = q /\ R = r + n
    BY <1>1, <1>3, <1>9
  <2>2. Ends(a, r, f) /\ Ends(r, n, R)
    BY <1>1, <2>1 DEF Ends
  <2>3. R \in Nat
    BY <1>1, <2>1
  <2>4. Bytes(Content, a, r) \o Bytes(Content, f, n) = Bytes(Content, a, R)
    BY ONLY <1>1, <1>2, <2>2, <2>3, Joined, f \in Nat, n \in Nat, f + n <= Len(Content)
  <2>5. Bytes(Content, 32 * Q, R) = M \o I
    BY <1>1, <2>1, <2>4 DEF M, I
  <2>6. QED
    BY <1>1, <1>4, <1>5, <1>9, <2>1, <2>5 DEF q, r, a, Q, R, V, M, I
<1>10. CASE r + n >= 32
  <2>1. /\ t \in Nat /\ p \in Nat /\ p = used + 32 * t /\ rest \in Nat /\ rest < 32
        /\ n = p + rest /\ used \in 0 .. n
    <3>1. left \in Nat
      BY <1>1, <1>8, <1>10
    <3> HIDE DEF left
    <3>2. t \in Nat /\ rest \in 0 .. 31 /\ left = 32 * t + rest
      BY ONLY <3>1, Split32
    <3> HIDE DEF t, rest
    <3>3. QED
      BY <1>8, <3>1, <3>2 DEF left
  <2>2. N = t
    BY <2>1, Stripes64
  <2>3. q1 \in Nat /\ e \in Nat /\ e + (p - used) \in Nat
    BY <1>1, <1>8, <2>1
  <2>4. Ends(f, used, e) /\ Starts(8, q1, e)
    BY <1>1, <1>8 DEF Ends, Starts
  <2>5. Q = q1 + t /\ R = rest /\ f + p = 32 * Q
    <3>1. f + p = 32 * (q1 + t)
      BY <1>1, <1>8, <2>1
    <3> HIDE DEF q1, t, rest, p, e
    <3>2. q1 + t \in Nat /\ rest \in 0 .. 31 /\ f + n = 32 * (q1 + t) + rest
      BY <2>1, <2>3, <3>1
    <3>3. Q = q1 + t /\ R = rest
      BY <1>3, <3>2
    <3>4. QED
      BY <3>1, <3>3
  <2> HIDE DEF t, p, rest, N, q1, e
  <2>6. v = Taken(Lanes, Content, 0, q1, 8)
    <3>1. CASE r = 0
      BY <1>7, <3>1 DEF V, q1
    <3>2. CASE r # 0
      <4> DEFINE b == M \o Bytes(I, 0, used)
      <4>1. Bytes(I, 0, used) \in Seq(Byte) /\ Len(Bytes(I, 0, used)) = used
        BY <1>4, <2>1, Pieces
      <4>2. b \in Seq(Byte) /\ Len(b) = 32
        BY <1>1, <1>5, <1>8, <3>2, <4>1, ConcatProperties
      <4>3. /\ Starts(8, q, a) /\ Ends(a, r, f) /\ Ends(r, used, 4 * 8)
        BY <1>1, <1>8, <3>2 DEF Starts, Ends
      <4>4. Taken(V, b, 0, 1, 8) = Taken(Lanes, Content, 0, q + 1, 8)
        <5>1. q \in Nat /\ r \in Nat /\ a \in Nat /\ used \in 0 .. n
          BY <1>1, <2>1
        <5>2. QED
          BY ONLY <4>3, <5>1, 8 \in {4, 8}, f \in Nat, n \in Nat, f + n <= Len(Content),
                  FirstStripe DEF V, M, I
      <4> HIDE DEF b
      <4>5. 0 + 32 * 1 <= Len(b)
        BY <4>2
      <4>6. XXH64_round(V, b, 0, 1) = Taken(V, b, 0, 1, 8)
        BY <4>2, <4>5, RoundsTake
      <4>7. q1 = q + 1 /\ v = XXH64_round(V, b, 0, 1)
        BY <1>7, <3>2 DEF b, q1
      <4>8. QED
        BY <4>4, <4>6, <4>7
    <3>3. QED
      BY <3>1, <3>2
  <2> HIDE DEF v
  <2>7. XXH64_round(v, I, used, N) = Taken(v, I, used, t, 8)
    BY <1>4, <2>1, <2>2, RoundsTake
  <2>8. Taken(Taken(Lanes, Content, 0, q1, 8), I, used, t, 8)
        = Taken(Lanes, Content, 0, q1 + t, 8)
    <3>1. used + (4 * 8) * t <= n
      BY <1>8, <2>1
    <3>2. t \in Nat /\ used \in Nat /\ e \in Nat /\ q1 \in Nat
      BY <1>8, <2>1, <2>3
    <3>3. QED
      BY ONLY <2>4, <3>1, <3>2, 8 \in {4, 8}, f \in Nat, n \in Nat,
              f + n <= Len(Content), NextStripes DEF I
  <2>9. Taken(Lanes, Content, 0, Q, 8) = XXH64_round(v, I, used, N)
    BY <2>5, <2>6, <2>7, <2>8
  <2>10. Bytes(Content, 32 * Q, R) = Bytes(I, p, rest)
    <3>1. p + rest <= n
      BY <2>1
    <3>2. Bytes(I, p, rest) = Bytes(Content, f + p, rest)
      BY <1>2, <2>1, <3>1, Pieces DEF I
    <3>3. QED
      BY <2>5, <3>2
  <2>11. p = used + 32 * N /\ rest = n - (used + 32 * N)
    BY <2>1, <2>2
  <2>12. QED
    BY <1>1, <1>4, <1>5, <1>10, <2>9, <2>10, <2>11 DEF q, r, a, Q, R, V, M, I, used, v, N
<1>11. QED
  BY <1>1, <1>9, <1>10

-----------------------------------------------------------------------------
(* A call of update leads from the state after f bytes to that after f + n. *)

\* Once a stripe's bytes were given, large_len says so, whether the count has
\* wrapped since or not.
LEMMA Large ==
  ASSUME NEW f \in Nat, NEW n \in Nat
  PROVE  (f >= 16 \/ n >= 16 \/ (((f % Wrap) + n) % Wrap) >= 16) <=> f + n >= 16
<1>1. f + n \in Nat /\ Wrap >= 32
  BY WrapAssumption
<1>2. ((f % Wrap) + n) % Wrap = (f + n) % Wrap
  BY Count
<1>3. CASE f >= 16 \/ n >= 16
  BY <1>3
<1>4. CASE f < 16 /\ n < 16
  <2>1. f + n < Wrap
    BY <1>1, <1>4, WrapAssumption
  <2>2. (f + n) % Wrap = f + n
    BY <1>1, <2>1, Count
  <2>3. QED
    BY <1>2, <1>4, <2>2
<1>5. QED
  BY <1>3, <1>4

\* XXH32_update leads from the state after f bytes to that after f + n.
LEMMA Update32 ==
  ASSUME NEW f \in Nat, NEW n \in Nat, f + n <= Len(Content)
  PROVE  XXH32_update(State32(f), Bytes(Content, f, n)) = State32(f + n)
<1> DEFINE T == f % Wrap
           L == f >= 16
           V == Taken(Lanes, Content, 0, f \div 16, 4)
           M == Bytes(Content, 16 * (f \div 16), f % 16)
           I == Bytes(Content, f, n)
           used == IF M = <<>> THEN 0 ELSE 16 - Len(M)
           v == IF M = <<>> THEN V ELSE XXH32_round(V, M \o Bytes(I, 0, used), 0, 1)
           N == Cardinality({j \in 0 .. n : used + 16 * j <= n - 16})
           V2 == Taken(Lanes, Content, 0, (f + n) \div 16, 4)
           M2 == Bytes(Content, 16 * ((f + n) \div 16), (f + n) % 16)
           T2 == (f + n) % Wrap
           L2 == f + n >= 16
           s == State32(f)
<1>1. s = [total_len |-> T, large_len |-> L, v |-> V, mem |-> M]
  BY DEF State32
<1>2. State32(f + n) = [total_len |-> T2, large_len |-> L2, v |-> V2, mem |-> M2]
  BY DEF State32
<1>3. /\ Len(I) = n
      /\ Len(M) + n < 16 => V2 = V /\ M2 = M \o I
      /\ ~ (Len(M) + n < 16) => /\ V2 = XXH32_round(v, I, used, N)
                                /\ M2 = Bytes(I, used + 16 * N, n - (used + 16 * N))
  BY Mixing32
<1>4. (T + n) % Wrap = T2
  BY Count
<1>5. (L \/ n >= 16 \/ ((T + n) % Wrap) >= 16) <=> L2
  BY Large
<1>6. /\ Len(M) + Len(I) < 16 =>
           XXH32_update(s, I) =
             [total_len |-> (T + Len(I)) % Wrap,
              large_len |-> L \/ Len(I) >= 16 \/ ((T + Len(I)) % Wrap) >= 16,
              v |-> V, mem |-> M \o I]
      /\ ~ (Len(M) + Len(I) < 16) =>
           XXH32_update(s, I) =
             LET m == Cardinality({j \in 0 .. Len(I) : used + 16 * j <= Len(I) - 16})
             IN  [total_len |-> (T + Len(I)) % Wrap,
                  large_len |-> L \/ Len(I) >= 16 \/ ((T + Len(I)) % Wrap) >= 16,
                  v |-> XXH32_round(v, I, used, m),
                  mem |-> Bytes(I, used + 16 * m, Len(I) - (used + 16 * m))]
  <2> HIDE DEF T, L, V, M, I, s
  <2>1. s.mem = M /\ s.total_len = T /\ s.large_len = L /\ s.v = V
    BY <1>1
  <2>2. QED
    BY <2>1, Zenon DEF XXH32_update, used, v
<1> HIDE DEF T, L, V, M, I, used, v, N, V2, M2, T2, L2, s
<1>7. XXH32_update(s, I) = [total_len |-> T2, large_len |-> L2, v |-> V2, mem |-> M2]
  <2>1. CASE Len(M) + n < 16
    BY <1>3, <1>4, <1>5, <1>6, <2>1
  <2>2. CASE ~ (Len(M) + n < 16)
    BY <1>3, <1>4, <1>5, <1>6, <2>2 DEF N
  <2>3. QED
    BY <2>1, <2>2
<1>8. QED
  BY <1>2, <1>7 DEF s, I
\* So does XXH64_update.
LEMMA Update64 ==
  ASSUME NEW f \in Nat, NEW n \in Nat, f + n <= Len(Content)
  PROVE  XXH64_update(State64(f), Bytes(Content, f, n)) = State64(f + n)
<1> DEFINE T == f
           V == Taken(Lanes, Content, 0, f \div 32, 8)
           M == Bytes(Content, 32 * (f \div 32), f % 32)
           I == Bytes(Content, f, n)
           used == IF M = <<>> THEN 0 ELSE 32 - Len(M)
           v == IF M = <<>> THEN V ELSE XXH64_round(V, M \o Bytes(I, 0, used), 0, 1)
           N == Cardinality({j \in 0 .. n : used + 32 * j + 32 <= n})
           V2 == Taken(Lanes, Content, 0, (f + n) \div 32, 8)
           M2 == Bytes(Content, 32 * ((f + n) \div 32), (f + n) % 32)
           T2 == f + n
           s == State64(f)
<1>1. s = [total_len |-> T, v |-> V, mem |-> M]
  BY DEF State64
<1>2. State64(f + n) = [total_len |-> T2, v |-> V2, mem |-> M2]
  BY DEF State64
<1>3. /\ Len(I) = n
      /\ Len(M) + n < 32 => V2 = V /\ M2 = M \o I
      /\ ~ (Len(M) + n < 32) => /\ V2 = XXH64_round(v, I, used, N)
                                /\ M2 = Bytes(I, used + 32 * N, n - (used + 32 * N))
  BY Mixing64
<1>4. /\ Len(M) + Len(I) < 32 =>
           XXH64_update(s, I) =
             [total_len |-> T + Len(I), v |-> V, mem |-> M \o I]
      /\ ~ (Len(M) + Len(I) < 32) =>
           XXH64_update(s, I) =
             LET m == Cardinality({j \in 0 .. Len(I) : used + 32 * j + 32 <= Len(I)})
             IN  [total_len |-> T + Len(I), v |-> XXH64_round(v, I, used, m),
                  mem |-> Bytes(I, used + 32 * m, Len(I) - (used + 32 * m))]
  <2> HIDE DEF T, V, M, I, s
  <2>1. s.mem = M /\ s.total_len = T /\ s.v = V
    BY <1>1
  <2>2. QED
    BY <2>1, Zenon DEF XXH64_update, used, v
<1>5. T + n = T2
  OBVIOUS
<1> HIDE DEF T, V, M, I, used, v, N, V2, M2, T2, s
<1>6. XXH64_update(s, I) = [total_len |-> T2, v |-> V2, mem |-> M2]
  <2>1. CASE Len(M) + n < 32
    BY <1>3, <1>4, <1>5, <2>1
  <2>2. CASE ~ (Len(M) + n < 32)
    BY <1>3, <1>4, <1>5, <2>2 DEF N
  <2>3. QED
    BY <2>1, <2>2
<1>7. QED
  BY <1>2, <1>6 DEF s, I

-----------------------------------------------------------------------------
(* What is left of a stripe is the same in the buffer as in the input.     *)

\* A word read from a piece is read from the whole.
LEMMA ReadInPiece ==
  ASSUME NEW c \in Seq(Byte), NEW q \in Nat, NEW len \in Nat, q + len <= Len(c), NEW p \in Nat
  PROVE  /\ p + 4 <= len => XXH_readLE32(Bytes(c, q, len), p) = XXH_readLE32(c, q + p)
         /\ p + 8 <= len => XXH_readLE64(Bytes(c, q, len), p) = XXH_readLE64(c, q + p)
<1> DEFINE s == Bytes(c, q, len)
<1>1. /\ s \in Seq(Byte) /\ Len(s) = len
      /\ \A a, m \in Nat : a + m <= len => Bytes(s, a, m) = Bytes(c, q + a, m)
  BY Pieces
<1> HIDE DEF s
<1>2. q + p \in Nat
  OBVIOUS
<1>3. p + 4 <= len => XXH_readLE32(s, p) = XXH_readLE32(c, q + p)
  <2> SUFFICES ASSUME p + 4 <= len
               PROVE  XXH_readLE32(s, p) = XXH_readLE32(c, q + p)
    OBVIOUS
  <2>1. XXH_readLE32(s, p) = Bytes(s, p, 4)
    BY <1>1, WordsRead
  <2>2. XXH_readLE32(c, q + p) = Bytes(c, q + p, 4)
    BY <1>2, WordsRead
  <2>3. QED
    BY <1>1, <2>1, <2>2
<1>4. p + 8 <= len => XXH_readLE64(s, p) = XXH_readLE64(c, q + p)
  <2> SUFFICES ASSUME p + 8 <= len
               PROVE  XXH_readLE64(s, p) = XXH_readLE64(c, q + p)
    OBVIOUS
  <2>1. XXH_readLE64(s, p) = Bytes(s, p, 8)
    BY <1>1, WordsRead
  <2>2. XXH_readLE64(c, q + p) = Bytes(c, q + p, 8)
    BY <1>2, WordsRead
  <2>3. QED
    BY <1>1, <2>1, <2>2
<1>5. QED
  BY <1>3, <1>4 DEF s

\* The rest of a stripe, in the buffer, gives what it gives in the input.
LEMMA Finalize32 ==
  ASSUME NEW h, NEW c \in Seq(Byte), NEW q \in Nat, NEW r \in 0 .. 15, q + r <= Len(c)
  PROVE  XXH32_finalize(h, Bytes(c, q, r), 0, r) = XXH32_finalize(h, c, q, r)
<1> DEFINE words == (r % 16) \div 4
           s == Bytes(c, q, r)
<1>1. words \in Nat /\ r % 4 \in Nat /\ r = 4 * words + (r % 4)
  OBVIOUS
<1>2. \A k \in 1 .. r : s[k] = c[q + k]
  BY Pieces
<1>3. ASSUME NEW p \in Nat, p + 4 <= r
      PROVE  XXH_readLE32(s, p) = XXH_readLE32(c, q + p)
  BY <1>3, ReadInPiece
<1> HIDE DEF words, s
<1>4. \A j \in 1 .. words : XXH_readLE32(s, 0 + 4 * (j - 1)) = XXH_readLE32(c, q + 4 * (j - 1))
  <2> TAKE j \in 1 .. words
  <2>1. 4 * (j - 1) \in Nat /\ 4 * (j - 1) + 4 <= r /\ 0 + 4 * (j - 1) = 4 * (j - 1)
    BY <1>1
  <2>2. QED
    BY <1>3, <2>1
<1>5. \A j \in 1 .. r % 4 : <<s[0 + 4 * words + j]>> = <<c[q + 4 * words + j]>>
  <2> TAKE j \in 1 .. r % 4
  <2>1. /\ 0 + 4 * words + j \in 1 .. r
        /\ q + (0 + 4 * words + j) = q + 4 * words + j
    BY <1>1
  <2>2. QED
    BY <1>2, <2>1
<1>6. [j \in 1 .. words |-> XXH_readLE32(s, 0 + 4 * (j - 1))]
      = [j \in 1 .. words |-> XXH_readLE32(c, q + 4 * (j - 1))]
  BY <1>4
<1>7. [j \in 1 .. r % 4 |-> <<s[0 + 4 * words + j]>>]
      = [j \in 1 .. r % 4 |-> <<c[q + 4 * words + j]>>]
  BY <1>5
<1>8. QED
  BY <1>6, <1>7, Zenon DEF XXH32_finalize, words, s

\* In XXH64 finalize is given the whole length and takes it modulo 32.
LEMMA Finalize64 ==
  ASSUME NEW h, NEW c \in Seq(Byte), NEW q \in Nat, NEW len \in Nat,
         q + (len % 32) <= Len(c)
  PROVE  XXH64_finalize(h, Bytes(c, q, len % 32), 0, len) = XXH64_finalize(h, c, q, len)
<1> DEFINE r == len % 32
           longs == (len % 32) \div 8
           words == (len % 8) \div 4
           rest == len % 4
           s == Bytes(c, q, r)
<1>1. /\ r \in Nat /\ longs \in Nat /\ words \in 0 .. 1 /\ rest \in Nat
      /\ r = 8 * longs + 4 * words + rest
  OBVIOUS
<1> HIDE DEF r
<1>2. \A k \in 1 .. r : s[k] = c[q + k]
  BY <1>1, Pieces DEF r
<1>3. ASSUME NEW p \in Nat
      PROVE  /\ p + 4 <= r => XXH_readLE32(s, p) = XXH_readLE32(c, q + p)
             /\ p + 8 <= r => XXH_readLE64(s, p) = XXH_readLE64(c, q + p)
  <2>1. q + r <= Len(c)
    BY DEF r
  <2>2. QED
    BY <1>1, <2>1, ReadInPiece
<1> HIDE DEF longs, words, rest, s
<1>4. \A j \in 1 .. longs : XXH_readLE64(s, 0 + 8 * (j - 1)) = XXH_readLE64(c, q + 8 * (j - 1))
  <2> TAKE j \in 1 .. longs
  <2>1. 8 * (j - 1) \in Nat /\ 8 * (j - 1) + 8 <= r /\ 0 + 8 * (j - 1) = 8 * (j - 1)
    BY <1>1
  <2>2. QED
    BY <1>3, <2>1
<1>5. \A j \in 1 .. words : XXH_readLE32(s, 0 + 8 * longs) = XXH_readLE32(c, q + 8 * longs)
  <2> TAKE j \in 1 .. words
  <2>1. 8 * longs \in Nat /\ 8 * longs + 4 <= r /\ 0 + 8 * longs = 8 * longs
    BY <1>1
  <2>2. QED
    BY <1>3, <2>1
<1>6. \A j \in 1 .. rest : <<s[0 + 8 * longs + 4 * words + j]>> = <<c[q + 8 * longs + 4 * words + j]>>
  <2> TAKE j \in 1 .. rest
  <2>1. /\ 0 + 8 * longs + 4 * words + j \in 1 .. r
        /\ q + (0 + 8 * longs + 4 * words + j) = q + 8 * longs + 4 * words + j
    BY <1>1
  <2>2. QED
    BY <1>2, <2>1
<1>7. [j \in 1 .. longs |-> XXH_readLE64(s, 0 + 8 * (j - 1))]
      = [j \in 1 .. longs |-> XXH_readLE64(c, q + 8 * (j - 1))]
  BY <1>4
<1>8. [j \in 1 .. words |-> XXH_readLE32(s, 0 + 8 * longs)]
      = [j \in 1 .. words |-> XXH_readLE32(c, q + 8 * longs)]
  BY <1>5
<1>9. [j \in 1 .. rest |-> <<s[0 + 8 * longs + 4 * words + j]>>]
      = [j \in 1 .. rest |-> <<c[q + 8 * longs + 4 * words + j]>>]
  BY <1>6
<1>10. QED
  BY <1>7, <1>8, <1>9, Zenon DEF XXH64_finalize, r, longs, words, rest, s

\* The digest of the state after f bytes is the hash of those f bytes.
LEMMA Digest32 ==
  ASSUME NEW f \in Nat, f <= Len(Content)
  PROVE  XXH32_digest(State32(f)) = XXH32(Bytes(Content, 0, f))
<1> DEFINE q == f \div 16
           r == f % 16
           a == 16 * q
           V == Taken(Lanes, Content, 0, q, 4)
           M == Bytes(Content, a, r)
           B == Bytes(Content, 0, f)
           h == Append(IF f >= 16 THEN V ELSE <<V[3]>>, <<<<f % Wrap>>>>)
           passes == IF f >= 16 THEN XXH32_passes(f) ELSE 0
           s == State32(f)
<1>1. /\ q \in Nat /\ r \in 0 .. 15 /\ a \in Nat /\ f = a + r /\ a = 16 * q
      /\ f < 16 => q = 0
  BY Split16
<1>2. Content \in Seq(Byte) /\ Len(Content) \in Nat
  BY ContentAssumption
<1>3. /\ B \in Seq(Byte) /\ Len(B) = f
      /\ Bytes(B, a, r) = Bytes(Content, a, r)
  <2>1. 0 + f <= Len(Content) /\ a + r <= f /\ 0 + a = a
    BY <1>1
  <2>2. Bytes(B, a, r) = Bytes(Content, 0 + a, r)
    BY <1>1, <1>2, <2>1, Pieces
  <2>3. QED
    BY <1>2, <2>1, <2>2, Pieces
<1>4. Len(M) = r
  <2>1. a + r <= Len(Content)
    BY <1>1
  <2>2. QED
    BY <1>1, <1>2, <2>1, Pieces
<1>5. passes = q
  BY <1>1, Passes32
<1>6. XXH32_round(Lanes, B, 0, q) = V
  <2> HIDE DEF q, B
  <2>1. 0 + f <= Len(Content) /\ 0 + (4 * 4) * q <= f /\ 0 + 0 = 0 /\ 0 + 16 * q <= Len(B)
    BY <1>1, <1>3
  <2>2. XXH32_round(Lanes, B, 0, q) = Taken(Lanes, B, 0, q, 4)
    BY <1>1, <1>3, <2>1, RoundsTake
  <2>3. Taken(Lanes, B, 0, q, 4) = Taken(Lanes, Content, 0 + 0, q, 4)
    BY <1>1, <1>2, <2>1, TakenInPiece DEF B
  <2>4. QED
    BY <2>1, <2>2, <2>3
<1>7. XXH32_digest(s) = XXH32_finalize(h, M, 0, r)
  <2>1. /\ s.total_len = (f % Wrap) /\ s.v = V /\ s.mem = M
        /\ s.large_len <=> f >= 16
    BY DEF State32
  <2> HIDE DEF s, V, M
  <2>2. CASE f >= 16
    <3>1. h = Append(V, <<<<f % Wrap>>>>)
      BY <2>2
    <3> HIDE DEF h
    <3>2. QED
      BY <1>4, <2>1, <2>2, <3>1, Zenon DEF XXH32_digest
  <2>3. CASE ~ (f >= 16)
    <3>1. h = Append(<<V[3]>>, <<<<f % Wrap>>>>)
      BY <2>3
    <3> HIDE DEF h
    <3>2. QED
      BY <1>4, <2>1, <2>3, <3>1, Zenon DEF XXH32_digest
  <2>4. QED
    BY <2>2, <2>3
<1>8. XXH32(B) = XXH32_finalize(h, B, a, f % 16)
  <2> HIDE DEF B, V, q
  <2>1. CASE f >= 16
    <3>1. h = Append(V, <<<<f % Wrap>>>>)
      BY <2>1
    <3> HIDE DEF h
    <3>2. XXH32_passes(f) = q
      BY <1>5, <2>1
    <3>3. QED
      BY <1>3, <1>6, <2>1, <3>1, <3>2, Zenon DEF XXH32
  <2>2. CASE ~ (f >= 16)
    <3>1. h = Append(<<V[3]>>, <<<<f % Wrap>>>>)
      BY <2>2
    <3> HIDE DEF h
    <3>2. q = 0
      BY <1>1, <2>2
    <3>3. QED
      BY <1>3, <1>6, <2>2, <3>1, <3>2, Zenon DEF XXH32
  <2>3. QED
    BY <2>1, <2>2
<1>9. XXH32_finalize(h, Bytes(B, a, r), 0, r) = XXH32_finalize(h, B, a, f % 16)
  <2>1. a + r <= Len(B)
    BY <1>1, <1>3
  <2> HIDE DEF B, h, a
  <2>2. QED
    BY <1>1, <1>3, <2>1, Finalize32
<1>10. QED
  BY <1>3, <1>7, <1>8, <1>9

\* The digest of the state after f bytes is the hash of those f bytes.
LEMMA Digest64 ==
  ASSUME NEW f \in Nat, f <= Len(Content)
  PROVE  XXH64_digest(State64(f)) = XXH64(Bytes(Content, 0, f))
<1> DEFINE q == f \div 32
           r == f % 32
           a == 32 * q
           V == Taken(Lanes, Content, 0, q, 8)
           M == Bytes(Content, a, r)
           B == Bytes(Content, 0, f)
           h == Append(IF f >= 32 THEN XXH64_mergeRound(V) ELSE <<V[3]>>, <<<<f>>>>)
           passes == IF f >= 32 THEN XXH64_passes(f) ELSE 0
           s == State64(f)
<1>1. /\ q \in Nat /\ r \in 0 .. 31 /\ a \in Nat /\ f = a + r /\ a = 32 * q
      /\ f < 32 => q = 0
  BY Split32
<1>2. Content \in Seq(Byte) /\ Len(Content) \in Nat
  BY ContentAssumption
<1>3. /\ B \in Seq(Byte) /\ Len(B) = f
      /\ Bytes(B, a, r) = Bytes(Content, a, r)
  <2>1. 0 + f <= Len(Content) /\ a + r <= f /\ 0 + a = a
    BY <1>1
  <2>2. Bytes(B, a, r) = Bytes(Content, 0 + a, r)
    BY <1>1, <1>2, <2>1, Pieces
  <2>3. QED
    BY <1>2, <2>1, <2>2, Pieces
<1>4. Len(M) = r
  <2>1. a + r <= Len(Content)
    BY <1>1
  <2>2. QED
    BY <1>1, <1>2, <2>1, Pieces
<1>5. passes = q
  BY <1>1, Passes64
<1>6. XXH64_round(Lanes, B, 0, q) = V
  <2> HIDE DEF q, B
  <2>1. 0 + f <= Len(Content) /\ 0 + (4 * 8) * q <= f /\ 0 + 0 = 0 /\ 0 + 32 * q <= Len(B)
    BY <1>1, <1>3
  <2>2. XXH64_round(Lanes, B, 0, q) = Taken(Lanes, B, 0, q, 8)
    BY <1>1, <1>3, <2>1, RoundsTake
  <2>3. Taken(Lanes, B, 0, q, 8) = Taken(Lanes, Content, 0 + 0, q, 8)
    BY <1>1, <1>2, <2>1, TakenInPiece DEF B
  <2>4. QED
    BY <2>1, <2>2, <2>3
<1>7. XXH64_digest(s) = XXH64_finalize(h, M, 0, f)
  <2>1. /\ s.total_len = (f) /\ s.v = V /\ s.mem = M
        /\ s.total_len >= 32 <=> f >= 32
    BY DEF State64
  <2> HIDE DEF s, V, M
  <2>2. CASE f >= 32
    <3>1. h = Append(XXH64_mergeRound(V), <<<<f>>>>)
      BY <2>2
    <3> HIDE DEF h
    <3>2. QED
      BY <1>4, <2>1, <2>2, <3>1, Zenon DEF XXH64_digest
  <2>3. CASE ~ (f >= 32)
    <3>1. h = Append(<<V[3]>>, <<<<f>>>>)
      BY <2>3
    <3> HIDE DEF h
    <3>2. QED
      BY <1>4, <2>1, <2>3, <3>1, Zenon DEF XXH64_digest
  <2>4. QED
    BY <2>2, <2>3
<1>8. XXH64(B) = XXH64_finalize(h, B, a, f)
  <2> HIDE DEF B, V, q
  <2>1. CASE f >= 32
    <3>1. h = Append(XXH64_mergeRound(V), <<<<f>>>>)
      BY <2>1
    <3> HIDE DEF h
    <3>2. XXH64_passes(f) = q
      BY <1>5, <2>1
    <3>3. QED
      BY <1>3, <1>6, <2>1, <3>1, <3>2, Zenon DEF XXH64
  <2>2. CASE ~ (f >= 32)
    <3>1. h = Append(<<V[3]>>, <<<<f>>>>)
      BY <2>2
    <3> HIDE DEF h
    <3>2. q = 0
      BY <1>1, <2>2
    <3>3. QED
      BY <1>3, <1>6, <2>2, <3>1, <3>2, Zenon DEF XXH64
  <2>3. QED
    BY <2>1, <2>2
<1>9. XXH64_finalize(h, Bytes(B, a, r), 0, f) = XXH64_finalize(h, B, a, f)
  <2>1. a + r <= Len(B)
    BY <1>1, <1>3
  <2> HIDE DEF B, h, a
  <2>2. QED
    BY <1>1, <1>3, <2>1, Finalize64
<1>10. QED
  BY <1>3, <1>7, <1>8, <1>9

-----------------------------------------------------------------------------
(* The invariant: the state is that of the bytes fed, whatever the pieces.  *)

State(n) == IF width = 32 THEN State32(n) ELSE State64(n)

Inv == /\ little \in BOOLEAN /\ width \in {32, 64}
       /\ fed \in 0 .. Len(Content)
       /\ state = State(fed)

\* A reset leaves the state of no bytes.
LEMMA FreshState ==
  State32(0) = XXH32_reset /\ State64(0) = XXH64_reset
<1>1. /\ 0 \div 16 = 0 /\ 0 % 16 = 0 /\ 0 \div 32 = 0 /\ 0 % 32 = 0
      /\ 16 * 0 = 0 /\ 32 * 0 = 0 /\ (0 >= 16) = FALSE
  OBVIOUS
<1>2. 0 % Wrap = 0
  <2>1. 0 < Wrap
    BY WrapAssumption
  <2>2. QED
    BY <2>1, Count
<1>3. Bytes(Content, 0, 0) = << >>
  BY ContentAssumption DEF Bytes
<1>4. Taken(Lanes, Content, 0, 0, 4) = Lanes /\ Taken(Lanes, Content, 0, 0, 8) = Lanes
  BY NothingTaken
<1>5. QED
  BY <1>1, <1>2, <1>3, <1>4, Zenon DEF State32, State64, XXH32_reset, XXH64_reset

\* The invariant holds at first.
LEMMA InitInv == XXH_Init => Inv
<1> SUFFICES ASSUME XXH_Init
             PROVE  Inv
  OBVIOUS
<1>1. Len(Content) \in Nat
  BY ContentAssumption
<1>2. QED
  BY <1>1, FreshState DEF XXH_Init, Inv, State

\* Every call keeps it.
LEMMA NextInv == Inv /\ [XXH_Next]_hash => Inv'
<1> SUFFICES ASSUME Inv, [XXH_Next]_hash
             PROVE  Inv'
  OBVIOUS
<1>0. Len(Content) \in Nat
  BY ContentAssumption
<1>1. CASE Again
  BY <1>0, <1>1, FreshState DEF Again, Inv, State
<1>2. ASSUME NEW n \in 0 .. Len(Content), Feed(n)
      PROVE  Inv'
  <2>1. fed \in Nat /\ n \in Nat /\ fed + n <= Len(Content)
    BY <1>0, <1>2 DEF Feed, Inv
  <2>2. /\ XXH32_update(State32(fed), Bytes(Content, fed, n)) = State32(fed + n)
        /\ XXH64_update(State64(fed), Bytes(Content, fed, n)) = State64(fed + n)
    BY <2>1, Update32, Update64
  <2>3. state' = State(fed + n)
    BY <1>2, <2>2, Zenon DEF Feed, Inv, State
  <2>4. /\ little' = little /\ width' = width /\ fed' = fed + n
    BY <1>2 DEF Feed
  <2>5. fed + n \in 0 .. Len(Content)
    BY <1>0, <2>1
  <2>6. QED
    BY <2>3, <2>4, <2>5, Zenon DEF Inv, State
<1>3. CASE UNCHANGED hash
  BY <1>3 DEF hash, Inv, State
<1>4. QED
  BY <1>1, <1>2, <1>3 DEF XXH_Next

\* The state depends on the bytes fed and not on how they were cut into pieces.
\* (XXH32_update, XXH64_update)
THEOREM StateOfWhatWasFed == XXH_Spec => []Inv
  BY InitInv, NextInv, PTL DEF XXH_Spec

\* Only an incomplete stripe is ever buffered, so no copy leaves mem32 or mem64.
\* (XXH32_update, XXH64_update)
THEOREM BuffersAlwaysFit == XXH_Spec => []BuffersFit
<1>1. Inv => BuffersFit
  <2> SUFFICES ASSUME Inv
               PROVE  BuffersFit
    OBVIOUS
  <2>1. Content \in Seq(Byte) /\ Len(Content) \in Nat /\ fed \in Nat /\ fed <= Len(Content)
    BY ContentAssumption DEF Inv
  <2>2. CASE width = 32
    <3>1. /\ 16 * (fed \div 16) \in Nat /\ fed % 16 \in Nat
          /\ 16 * (fed \div 16) + (fed % 16) <= Len(Content)
      BY <2>1, Split16
    <3>2. Len(Bytes(Content, 16 * (fed \div 16), fed % 16)) = fed % 16
      BY <2>1, <3>1, Pieces
    <3>3. state.mem = Bytes(Content, 16 * (fed \div 16), fed % 16)
      BY <2>2 DEF Inv, State, State32
    <3>4. QED
      BY <2>2, <3>2, <3>3 DEF BuffersFit, Inv, Stripe
  <2>3. CASE width = 64
    <3>1. /\ 32 * (fed \div 32) \in Nat /\ fed % 32 \in Nat
          /\ 32 * (fed \div 32) + (fed % 32) <= Len(Content)
      BY <2>1, Split32
    <3>2. Len(Bytes(Content, 32 * (fed \div 32), fed % 32)) = fed % 32
      BY <2>1, <3>1, Pieces
    <3>3. state.mem = Bytes(Content, 32 * (fed \div 32), fed % 32)
      BY <2>3 DEF Inv, State, State64
    <3>4. QED
      BY <2>3, <3>2, <3>3 DEF BuffersFit, Inv, Stripe
  <2>4. QED
    BY <2>2, <2>3 DEF Inv
<1>2. QED
  BY <1>1, StateOfWhatWasFed, PTL

\* However the input is cut into pieces and however often the count wraps, a
\* stream's digest is the hash of the whole input.  (XXH32_update and
\* XXH32_digest against XXH32, and their 64-bit forms)
THEOREM StreamsHashTheWhole == XXH_Spec => []StreamIsOneShot
<1>1. Inv => StreamIsOneShot
  <2> SUFFICES ASSUME Inv
               PROVE  StreamIsOneShot
    OBVIOUS
  <2>1. fed \in Nat /\ fed <= Len(Content)
    BY ContentAssumption DEF Inv
  <2>2. /\ XXH32_digest(State32(fed)) = XXH32(Bytes(Content, 0, fed))
        /\ XXH64_digest(State64(fed)) = XXH64(Bytes(Content, 0, fed))
    BY <2>1, Digest32, Digest64
  <2>3. QED
    BY <2>2, Zenon DEF Inv, State, StreamIsOneShot
<1>2. QED
  BY <1>1, StateOfWhatWasFed, PTL

\* What is mixed in does not depend on the processor's byte order: each lane has
\* taken the words of its place, their bytes in the order of the input.
\* (XXH_readLE32, XXH_readLE64)
THEOREM EveryProcessorAgrees == XXH_Spec => []Portable
<1>1. Inv => Portable
  <2> SUFFICES ASSUME Inv, NEW k \in 1 .. 4
               PROVE  state.v[k] = Lanes[k]
                        \o [j \in 1 .. fed \div Stripe |->
                             Bytes(Content, Stripe * (j - 1) + (Stripe \div 4) * (k - 1),
                                   Stripe \div 4)]
    BY DEF Portable
  <2>1. CASE width = 32
    <3>1. Stripe = 16 /\ Stripe \div 4 = 4
      BY <2>1 DEF Stripe
    <3>2. state.v = Taken(Lanes, Content, 0, fed \div 16, 4)
      BY <2>1 DEF Inv, State, State32
    <3>3. \A j \in 1 .. fed \div 16 : 0 + (4 * 4) * (j - 1) + 4 * (k - 1) = 16 * (j - 1) + 4 * (k - 1)
      OBVIOUS
    <3>4. Words(Content, 0, fed \div 16, 4, k)
          = [j \in 1 .. fed \div 16 |-> Bytes(Content, 16 * (j - 1) + 4 * (k - 1), 4)]
      BY <3>3 DEF Words
    <3>5. state.v[k] = Lanes[k] \o Words(Content, 0, fed \div 16, 4, k)
      BY <3>2, Zenon DEF Taken
    <3>6. QED
      BY <3>1, <3>4, <3>5
  <2>2. CASE width = 64
    <3>1. Stripe = 32 /\ Stripe \div 4 = 8
      BY <2>2 DEF Stripe
    <3>2. state.v = Taken(Lanes, Content, 0, fed \div 32, 8)
      BY <2>2 DEF Inv, State, State64
    <3>3. \A j \in 1 .. fed \div 32 : 0 + (4 * 8) * (j - 1) + 8 * (k - 1) = 32 * (j - 1) + 8 * (k - 1)
      OBVIOUS
    <3>4. Words(Content, 0, fed \div 32, 8, k)
          = [j \in 1 .. fed \div 32 |-> Bytes(Content, 32 * (j - 1) + 8 * (k - 1), 8)]
      BY <3>3 DEF Words
    <3>5. state.v[k] = Lanes[k] \o Words(Content, 0, fed \div 32, 8, k)
      BY <3>2, Zenon DEF Taken
    <3>6. QED
      BY <3>1, <3>4, <3>5
  <2>3. QED
    BY <2>1, <2>2 DEF Inv
<1>2. QED
  BY <1>1, StateOfWhatWasFed, PTL
=============================================================================
