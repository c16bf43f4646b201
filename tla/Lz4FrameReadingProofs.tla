------------------------ MODULE Lz4FrameReadingProofs ------------------------
(***************************************************************************)
(* LZ4F_decompress stays within its buffers and gives every block the      *)
(* history it was made after, for every stream, however it is cut up, and  *)
(* whatever the program does with its memory meanwhile.                    *)
(***************************************************************************)
EXTENDS Lz4FrameReading, SequenceTheorems, TLAPS

Least(a, b) == IF a <= b THEN a ELSE b
Most(a, b) == IF a <= b THEN b ELSE a

\* The j-th element from the end.
Back(s, j) == s[Len(s) + 1 - j]

IsSeq(s) == Len(s) \in Nat /\ s = [k \in 1 .. Len(s) |-> s[k]]

-----------------------------------------------------------------------------
(* Numbers and sequences.                                                  *)

LEMMA MinTwo ==
  ASSUME NEW a \in Int, NEW b \in Int
  PROVE  Min({a, b}) = Least(a, b)
<1>1. /\ Least(a, b) \in {a, b}
      /\ \A y \in {a, b} : Least(a, b) <= y
      /\ \A z \in {a, b} : (\A y \in {a, b} : z <= y) => z = Least(a, b)
  BY DEF Least
<1>2. QED
  BY <1>1 DEF Min

LEMMA MaxTwo ==
  ASSUME NEW a \in Int, NEW b \in Int
  PROVE  Max({a, b}) = Most(a, b)
<1>1. /\ Most(a, b) \in {a, b}
      /\ \A y \in {a, b} : Most(a, b) >= y
      /\ \A z \in {a, b} : (\A y \in {a, b} : z >= y) => z = Most(a, b)
  BY DEF Most
<1>2. QED
  BY <1>1 DEF Max

LEMMA MinThree ==
  ASSUME NEW a \in Nat, NEW b \in Nat, NEW c \in Nat
  PROVE  Min({a, b, c}) \in Nat /\ Min({a, b, c}) <= a /\ Min({a, b, c}) <= b /\ Min({a, b, c}) <= c
<1> DEFINE z == Least(a, Least(b, c))
<1>1. /\ z \in {a, b, c}
      /\ \A y \in {a, b, c} : z <= y
      /\ \A v \in {a, b, c} : (\A y \in {a, b, c} : v <= y) => v = z
  BY DEF Least
<1>2. Min({a, b, c}) = z
  BY <1>1 DEF Min
<1>3. QED
  BY <1>2 DEF Least

LEMMA AsSeq ==
  ASSUME NEW s, IsSeq(s), NEW S, \A k \in 1 .. Len(s) : s[k] \in S
  PROVE  s \in Seq(S)
<1>1. s \in [1 .. Len(s) -> S] /\ Len(s) \in Nat
  BY DEF IsSeq
<1>2. QED
  BY <1>1, SeqDef

LEMMA OfSeq ==
  ASSUME NEW S, NEW s \in Seq(S)
  PROVE  IsSeq(s) /\ \A k \in 1 .. Len(s) : s[k] \in S
BY LenProperties DEF IsSeq

\* A sequence written as a function.
LEMMA FunSeq ==
  ASSUME NEW n \in Nat, NEW S, NEW f \in [1 .. n -> S]
  PROVE  f \in Seq(S) /\ Len(f) = n /\ IsSeq(f)
<1>1. f \in Seq(S)
  BY SeqDef
<1>2. Len(f) \in Nat /\ DOMAIN f = 1 .. Len(f) /\ IsSeq(f)
  BY <1>1, LenProperties, OfSeq
<1>3. 1 .. Len(f) = 1 .. n
  BY <1>2
<1>4. Len(f) = n
  BY <1>2, <1>3
<1>5. QED
  BY <1>1, <1>2, <1>4

LEMMA SameSeq ==
  ASSUME NEW s, NEW t, IsSeq(s), IsSeq(t), Len(s) = Len(t),
         \A k \in 1 .. Len(s) : s[k] = t[k]
  PROVE  s = t
BY DEF IsSeq

\* Or read from the end.
LEMMA SameBack ==
  ASSUME NEW s, NEW t, IsSeq(s), IsSeq(t), Len(s) = Len(t),
         \A j \in 1 .. Len(s) : Back(s, j) = Back(t, j)
  PROVE  s = t
<1>1. ASSUME NEW k \in 1 .. Len(s)
      PROVE  s[k] = t[k]
  <2>1. Len(s) \in Nat
    BY DEF IsSeq
  <2>2. Len(s) + 1 - k \in 1 .. Len(s) /\ Len(s) + 1 - (Len(s) + 1 - k) = k
    BY <2>1
  <2>3. QED
    BY <2>2 DEF Back
<1>2. QED
  BY <1>1, SameSeq

LEMMA ReadIs ==
  ASSUME NEW mem, NEW p \in Int, NEW n \in Nat
  PROVE  /\ IsSeq(Read(mem, p, n)) /\ Len(Read(mem, p, n)) = n
         /\ \A k \in 1 .. n : Read(mem, p, n)[k] = mem[p + k - 1]
         /\ \A j \in 1 .. n : Back(Read(mem, p, n), j) = mem[p + n - j]
<1> DEFINE r == Read(mem, p, n)
<1>1. \A k \in 1 .. n : r[k] = mem[p + k - 1]
  BY DEF Read
<1>2. r \in [1 .. n -> {r[k] : k \in 1 .. n}]
  BY DEF Read
<1>3. IsSeq(r) /\ Len(r) = n
  <2> HIDE DEF r
  <2> QED BY <1>2, FunSeq
<1>4. ASSUME NEW j \in 1 .. n
      PROVE  Back(r, j) = mem[p + n - j]
  <2>1. n + 1 - j \in 1 .. n /\ p + (n + 1 - j) - 1 = p + n - j
    OBVIOUS
  <2>2. Back(r, j) = r[n + 1 - j]
    BY <1>3 DEF Back
  <2> HIDE DEF r
  <2>3. QED
    BY <1>1, <2>1, <2>2
<1>5. QED
  BY <1>1, <1>3, <1>4

LEMMA AddressesAre ==
  ASSUME NEW p \in Int, NEW n \in Nat
  PROVE  LET r == [k \in 1 .. n |-> p + k - 1]
         IN  /\ IsSeq(r) /\ Len(r) = n
             /\ \A k \in 1 .. n : r[k] = p + k - 1
             /\ \A j \in 1 .. n : Back(r, j) = p + n - j
<1> DEFINE r == [k \in 1 .. n |-> p + k - 1]
<1>1. \A k \in 1 .. n : r[k] = p + k - 1
  OBVIOUS
<1>2. r \in [1 .. n -> Int]
  OBVIOUS
<1>3. IsSeq(r) /\ Len(r) = n
  <2> HIDE DEF r
  <2> QED BY <1>2, FunSeq
<1>4. ASSUME NEW j \in 1 .. n
      PROVE  Back(r, j) = p + n - j
  <2>1. n + 1 - j \in 1 .. n /\ p + (n + 1 - j) - 1 = p + n - j
    OBVIOUS
  <2>2. Back(r, j) = r[n + 1 - j]
    BY <1>3 DEF Back
  <2> HIDE DEF r
  <2>3. QED
    BY <1>1, <2>1, <2>2
<1>5. QED
  BY <1>1, <1>3, <1>4

\* The last n of h after t has come behind it.
Joined(g, h, t, n) ==
  /\ IsSeq(g) /\ Len(g) = Least(Len(h) + Len(t), n)
  /\ \A j \in 1 .. Len(g) :
       Back(g, j) = IF j <= Len(t) THEN Back(t, j) ELSE Back(h, j - Len(t))

LEMMA LastOfConcat ==
  ASSUME NEW h, NEW t, IsSeq(h), IsSeq(t), NEW n \in Nat
  PROVE  Joined(LastOf(h \o t, n), h, t, n)
<1> DEFINE S == {h[i] : i \in 1 .. Len(h)} \cup {t[i] : i \in 1 .. Len(t)}
           c == h \o t
           l == Len(h) + Len(t)
           g == LastOf(c, n)
<1>1. Len(h) \in Nat /\ Len(t) \in Nat
  BY DEF IsSeq
<1>2. h \in Seq(S) /\ t \in Seq(S)
  BY AsSeq
<1>3. /\ c \in Seq(S) /\ Len(c) = l
      /\ \A k \in 1 .. l : c[k] = IF k <= Len(h) THEN h[k] ELSE t[k - Len(h)]
  <2> HIDE DEF S
  <2> QED BY <1>2, ConcatProperties
<1>4. /\ g \in Seq(S) /\ Len(g) = Least(l, n)
      /\ \A k \in 1 .. Len(g) : g[k] = c[l - Len(g) + k]
  <2> HIDE DEF S, c
  <2>1. CASE l <= n
    BY <1>1, <1>3, <2>1 DEF LastOf, Least
  <2>2. CASE l > n
    <3>1. g = SubSeq(c, l - n + 1, l)
      BY <1>1, <1>3, <2>2 DEF LastOf
    <3>2. \A k \in l - n + 1 .. l : c[k] \in S
      BY <1>1, <1>3, <2>2, ElementOfSeq
    <3>3. /\ g \in Seq(S) /\ Len(g) = IF l - n + 1 <= l THEN l - (l - n + 1) + 1 ELSE 0
          /\ \A k \in 1 .. l - (l - n + 1) + 1 : g[k] = c[(l - n + 1) + k - 1]
      <4>1. l \in Int /\ l - n + 1 \in Int
        BY <1>1
      <4> HIDE DEF l, g
      <4>2. QED
        BY <3>1, <3>2, <4>1, SubSeqProperties
    <3>4. Len(g) = n
      BY <1>1, <3>3
    <3>5. QED
      BY <1>1, <2>2, <3>3, <3>4 DEF Least
  <2>3. QED
    BY <1>1, <2>1, <2>2
<1>5. IsSeq(g)
  <2> HIDE DEF S, g
  <2> QED BY <1>4, OfSeq
<1>6. ASSUME NEW j \in 1 .. Len(g)
      PROVE  Back(g, j) = IF j <= Len(t) THEN Back(t, j) ELSE Back(h, j - Len(t))
  <2> HIDE DEF S, g, c
  <2>1. Len(g) \in Nat /\ Len(g) <= l
    BY <1>1, <1>4 DEF Least
  <2>2. Len(g) + 1 - j \in 1 .. Len(g) /\ l - Len(g) + (Len(g) + 1 - j) = l + 1 - j
    BY <1>1, <2>1
  <2>3. Back(g, j) = c[l + 1 - j]
    BY <1>4, <2>2 DEF Back
  <2>4. l + 1 - j \in 1 .. l
    BY <1>1, <2>1
  <2>5. CASE j <= Len(t)
    <3>1. ~(l + 1 - j <= Len(h)) /\ l + 1 - j - Len(h) = Len(t) + 1 - j
      BY <1>1, <2>5
    <3>2. QED
      BY <1>3, <2>3, <2>4, <2>5, <3>1 DEF Back
  <2>6. CASE ~(j <= Len(t))
    <3>1. l + 1 - j <= Len(h) /\ l + 1 - j = Len(h) + 1 - (j - Len(t))
      BY <1>1, <2>6
    <3>2. QED
      BY <1>3, <2>3, <2>4, <2>6, <3>1 DEF Back
  <2>7. QED
    BY <2>5, <2>6
<1>7. QED
  BY <1>4, <1>5, <1>6 DEF Joined

\* The window of a whole that is no larger, or larger.
LEMMA LastOfIs ==
  ASSUME NEW s, IsSeq(s), NEW n \in Nat
  PROVE  /\ IsSeq(LastOf(s, n)) /\ Len(LastOf(s, n)) = Least(Len(s), n)
         /\ \A j \in 1 .. Len(LastOf(s, n)) : Back(LastOf(s, n), j) = Back(s, j)
<1>1. IsSeq(<<>>) /\ Len(<<>>) = 0
  BY EmptySeq, OfSeq
<1>2. s \in Seq({s[k] : k \in 1 .. Len(s)}) /\ Len(s) \in Nat
  BY AsSeq DEF IsSeq
<1>3. <<>> \o s = s
  BY <1>2, ConcatEmptySeq
<1>4. Joined(LastOf(s, n), <<>>, s, n)
  BY <1>1, <1>3, LastOfConcat
<1>5. \A j \in 1 .. Len(LastOf(s, n)) : j <= Len(s)
  BY <1>1, <1>2, <1>4 DEF Least, Joined
<1>6. QED
  BY <1>1, <1>2, <1>4, <1>5 DEF Joined

-----------------------------------------------------------------------------
(* The inductive invariant.                                                *)

ContextFields ==
  {"info", "dStage", "remaining", "maxBlockSize", "maxBufferSize", "stored", "target", "room",
   "dict", "dictSize", "tmpOut", "tmpOutSize", "tmpOutStart", "xxh", "block"}
InfoFields ==
  {"skippable", "linked", "blockSum", "contentSum", "contentSize", "dictID", "sizeID"}
CallFields == {"d", "m", "i", "o", "hint", "go", "inside"}

IsContext(d) == d = [f \in ContextFields |-> d[f]]
IsInfo(info) == info = [f \in InfoFields |-> info[f]]
IsCall(x) == x = [f \in CallFields |-> x[f]]

AtSuffix == {"getSuffix", "storeSuffix"}
Skips == {"getSFrameSize", "storeSFrameSize", "skipSkippable"}
Data == InBlocks \cup {"flushOut"}

BlockSizes == {KB64, 4 * KB64, 16 * KB64, 64 * KB64}
Window(d) == IF d.info.linked THEN 2 * KB64 ELSE 0
Crc(d) == BFSize * Flag(d.info.blockSum)

\* tmpIn has room for a block and its checksum, of the frame the buffers were
\* last allocated for; there are two sizes of tmpOutBuffer for each.
Allocated(d) ==
  \/ d.maxBufferSize = 0 /\ d.room = 0
  \/ \E size \in BlockSizes : d.room = size + BFSize /\ d.maxBufferSize \in {size, size + 2 * KB64}

\* The context's shape, whatever happened.
WellFormed(d) ==
  /\ IsContext(d) /\ IsInfo(d.info) /\ d.stored \in Seq(Wire)
  /\ d.target \in Nat /\ d.dict \in Nat /\ d.dictSize \in Nat
  /\ Allocated(d)
  /\ d.dict = NULL => d.dictSize = 0

\* What each stage finds stored, and asks for.
Storing(d) ==
  /\ d.dStage \in Early \cup Data \cup AtSuffix \cup Skips
  /\ d.dStage = "init" => d.maxBlockSize \in BlockSizes
  /\ d.dStage \in Data \cup AtSuffix =>
       d.maxBlockSize \in BlockSizes /\ d.maxBlockSize + Window(d) <= d.maxBufferSize
  /\ d.dStage = "storeFrameHeader" =>
       /\ d.target \in minFHSize .. maxFHSize /\ Len(d.stored) <= d.target
       /\ d.target > minFHSize => Len(d.stored) >= minFHSize /\ ~IsSkippable(d.stored)
  /\ d.dStage = "storeSFrameSize" => d.target = 8 /\ Len(d.stored) <= 8
  /\ d.dStage \in {"storeBlockHeader", "getBlockChecksum", "storeSuffix"} => Len(d.stored) <= 4
  /\ d.dStage \in {"getCBlock", "storeCBlock"} =>
       Crc(d) <= d.target /\ d.target <= d.maxBlockSize + Crc(d)
  /\ d.dStage = "storeCBlock" => Len(d.stored) <= d.target

\* The call: its input, and its destination, which is nobody else's.
Within(x, a, keep) ==
  /\ a.src \in Seq(Wire) /\ x.i \in 0 .. Len(a.src)
  /\ a.dst \in Nat /\ a.end \in Nat /\ x.o \in a.dst .. a.end
  /\ a.dst = NULL => a.end = NULL
  /\ a.dst .. a.end - 1 \subseteq Addresses /\ (a.dst .. a.end) \cap TmpOut = {}
  /\ keep \subseteq Addresses /\ keep \cap TmpOut = {} /\ keep \cap (a.dst .. a.end - 1) = {}

\* The n bytes before address e are the last n of h.
Ends(mem, e, h, n) == \A j \in 1 .. n : mem[e - j] = Back(h, j)

\* The history lies before dict + dictSize, the window of it at least.
Found(mem, d, h) ==
  /\ Len(h) = Least(d.dictSize, KB64)
  /\ Ends(mem, d.dict + d.dictSize, h, Len(h))

\* It lies where the program was given it, and must leave it.
Given(d, o, a, w, keep) ==
  /\ \A j \in 1 .. Len(w) : Back(w, j) = d.dict + d.dictSize - j
  /\ \A j \in 1 .. Len(w) : Back(w, j) \in keep \cup (a.dst .. o - 1)

\* Outside tmpOutBuffer.
Outside(mem, d, o, a, h, w, keep) ==
  d.dict # TMPOUT => Found(mem, d, h) /\ Given(d, o, a, w, keep)

\* Between the blocks of a frame whose blocks are linked.
LinkedHistory(mem, d, o, a, h, w, keep) ==
  /\ Found(mem, d, h)
  /\ IF d.dict = TMPOUT THEN d.dictSize <= d.maxBufferSize ELSE Given(d, o, a, w, keep)

\* How much of the history is put in front of a block that is in tmpOut.
InFront(d) == Least(d.tmpOut - TMPOUT, Most(KB64 - d.tmpOutSize, 0))

\* While a block goes out that was decoded into tmpOut.
FlushHistory(mem, d, o, a, h, w, keep) ==
  LET before == d.tmpOut - TMPOUT
  IN  /\ Len(h) = Least(before + d.tmpOutStart, KB64)
      /\ Ends(mem, d.tmpOut + d.tmpOutStart, h, Least(d.tmpOutStart, Len(h)))
      /\ d.dict = TMPOUT =>
           /\ d.dictSize = before + d.tmpOutStart
           /\ Ends(mem, TMPOUT + d.dictSize, h, Least(Len(h), d.tmpOutStart + InFront(d)))
      /\ Outside(mem, d, o, a, h, w, keep)

\* What came out in this call is the end of the history.
Recent(mem, o, a, h, w) ==
  /\ Len(h) >= Least(o - a.dst, KB64)
  /\ \A j \in 1 .. Least(o - a.dst, Len(h)) : Back(w, j) = o - j /\ mem[o - j] = Back(h, j)

Placed(d) ==
  /\ d.tmpOut \in TMPOUT .. TMPOUT + Window(d) /\ d.tmpOutSize \in 0 .. d.maxBlockSize
  /\ d.tmpOutStart \in 0 .. d.tmpOutSize

Remembered(h, w) ==
  /\ IsSeq(h) /\ IsSeq(w) /\ Len(w) = Len(h) /\ Len(h) <= KB64
  /\ \A k \in 1 .. Len(w) : w[k] \in Addresses /\ w[k] \notin TmpOut /\ w[k] \in Int

History(x, a, h, w, keep) ==
  LET d == x.d
  IN  /\ Remembered(h, w)
      /\ d.dStage \in Early /\ x.go = "go" => x.o = a.dst
      /\ d.dStage \in Early \/ (d.dStage \in Data /\ ~d.info.linked) =>
           d.dict # TMPOUT /\ Outside(x.m, d, x.o, a, h, w, keep)
      /\ d.dStage \in Data /\ ~d.info.linked => d.tmpOut = TMPOUT
      /\ d.dStage \in InBlocks /\ d.info.linked =>
           LinkedHistory(x.m, d, x.o, a, h, w, keep) /\ Recent(x.m, x.o, a, h, w)
      /\ d.dStage = "flushOut" => Placed(d)
      /\ d.dStage = "flushOut" /\ d.info.linked =>
           FlushHistory(x.m, d, x.o, a, h, w, keep) /\ Recent(x.m, x.o, a, h, w)

Always(x, a, keep) ==
  /\ IsCall(x) /\ WellFormed(x.d) /\ DOMAIN x.m = Addresses
  /\ x.inside = TRUE
  /\ Within(x, a, keep)

Going(x, a, h, w, keep) == Storing(x.d) /\ History(x, a, h, w, keep)

IInv ==
  /\ calling \in BOOLEAN /\ taken \in Nat
  /\ Always(dctx, args, kept)
  /\ dctx.go \in {"go", "stop"} => Going(dctx, args, hist, where, kept)
  /\ ~calling => dctx.go = "stop" /\ args = NoCall /\ dctx.i = 0
  /\ calling /\ dctx.go = "stop" => dctx.d.dStage # "init"

-----------------------------------------------------------------------------
(* What the parts of a stage change.                                       *)

\* But for the history, tmpOutBuffer and the memory.
SameFrame(d, e) ==
  /\ IsContext(e) /\ e.info = d.info /\ e.dStage = d.dStage
  /\ e.maxBlockSize = d.maxBlockSize /\ e.maxBufferSize = d.maxBufferSize
  /\ e.stored = d.stored /\ e.target = d.target /\ e.room = d.room
  /\ e.tmpOutSize = d.tmpOutSize /\ e.tmpOutStart = d.tmpOutStart

SameCall(x, y) == IsCall(y) /\ y.i = x.i /\ y.o = x.o /\ y.go = x.go

LEMMA DictIs ==
  ASSUME NEW x, IsCall(x), IsContext(x.d), NEW p, NEW n
  PROVE  LET y == Dict(x, p, n)
         IN  /\ SameCall(x, y) /\ SameFrame(x.d, y.d)
             /\ y.m = x.m /\ y.inside = x.inside /\ y.d.tmpOut = x.d.tmpOut
             /\ y.d.dict = p /\ y.d.dictSize = n
<1> DEFINE y == Dict(x, p, n)
<1>1. /\ SameCall(x, y) /\ y.m = x.m /\ y.inside = x.inside
      /\ y.d = [x.d EXCEPT !.dict = p, !.dictSize = n]
  BY DEF Dict, SameCall, IsCall, CallFields
<1>2. LET e == [x.d EXCEPT !.dict = p, !.dictSize = n]
      IN  SameFrame(x.d, e) /\ e.tmpOut = x.d.tmpOut /\ e.dict = p /\ e.dictSize = n
  BY DEF SameFrame, IsContext, ContextFields
<1>3. QED
  BY <1>1, <1>2

LEMMA ToTmpIs ==
  ASSUME NEW x, IsCall(x), NEW p, NEW s,
         x.inside = TRUE, p >= TMPOUT, p + Len(s) <= TMPOUT + x.d.maxBufferSize
  PROVE  LET y == ToTmp(x, p, s)
         IN  /\ SameCall(x, y) /\ y.d = x.d
             /\ y.m = Write(x.m, p, s) /\ y.inside = TRUE
<1> DEFINE b == p >= TMPOUT /\ p + Len(s) <= TMPOUT + x.d.maxBufferSize
<1>1. b = TRUE
  OBVIOUS
<1>2. ToTmp(x, p, s) = [x EXCEPT !.m = Write(@, p, s), !.inside = @ /\ b]
  BY DEF ToTmp
<1> HIDE DEF b
<1>3. QED
  BY <1>1, <1>2 DEF SameCall, IsCall, CallFields

LEMMA SummedIs ==
  ASSUME NEW x, IsCall(x), IsContext(x.d), NEW s
  PROVE  LET y == Summed(x, s)
         IN  /\ SameCall(x, y) /\ SameFrame(x.d, y.d)
             /\ y.m = x.m /\ y.inside = x.inside /\ y.d.tmpOut = x.d.tmpOut
             /\ y.d.dict = x.d.dict /\ y.d.dictSize = x.d.dictSize
<1> DEFINE y == Summed(x, s)
           v == IF x.d.info.contentSum THEN x.d.xxh \o s ELSE x.d.xxh
           r == IF x.d.info.contentSize > 0 THEN x.d.remaining - Len(s) ELSE x.d.remaining
           e == [x.d EXCEPT !.xxh = v, !.remaining = r]
<1>0. y = [x EXCEPT !.d.xxh = v, !.d.remaining = r]
  BY DEF Summed
<1> HIDE DEF y, v, r
<1>1. SameCall(x, y) /\ y.m = x.m /\ y.inside = x.inside /\ y.d = e
  BY <1>0 DEF SameCall, IsCall, CallFields
<1>2. /\ SameFrame(x.d, e) /\ e.tmpOut = x.d.tmpOut
      /\ e.dict = x.d.dict /\ e.dictSize = x.d.dictSize
  BY DEF SameFrame, IsContext, ContextFields
<1>3. QED
  BY <1>1, <1>2 DEF y

-----------------------------------------------------------------------------
(* Buffers and memory.                                                     *)

LEMMA Bounds ==
  ASSUME NEW d, Allocated(d)
  PROVE  /\ d.maxBufferSize \in Nat /\ d.room \in Nat
         /\ TMPOUT .. TMPOUT + d.maxBufferSize \subseteq TmpOut
         /\ TmpOut \subseteq Addresses /\ TmpOut \subseteq Int
         /\ TMPOUT \in Nat /\ TMPOUT # NULL /\ KB64 \in Nat /\ KB64 > 0
<1>1. KB64 \in Nat /\ KB64 > 0 /\ TMPOUT \in Nat /\ TMPOUT > 0 /\ TmpOut \subseteq Addresses
  BY ReadingAssumption
<1>2. /\ d.maxBufferSize \in Nat /\ d.room \in Nat /\ d.maxBufferSize <= 66 * KB64
  BY <1>1 DEF Allocated, BlockSizes, BFSize
<1>3. QED
  BY <1>1, <1>2 DEF TmpOut, MaxBuffer, NULL

\* tmpIn takes a block and its checksum.
LEMMA RoomForBlock ==
  ASSUME NEW d, Allocated(d), d.maxBlockSize \in BlockSizes,
         d.maxBlockSize + Window(d) <= d.maxBufferSize
  PROVE  d.maxBlockSize + BFSize <= d.room
<1>1. KB64 \in Nat /\ KB64 > 0
  BY ReadingAssumption
<1>2. Window(d) \in {0, 2 * KB64}
  BY DEF Window
<1>3. QED
  BY <1>1, <1>2 DEF Allocated, BlockSizes, BFSize

LEMMA WriteIs ==
  ASSUME NEW mem, NEW p \in Int, NEW s
  PROVE  /\ DOMAIN Write(mem, p, s) = DOMAIN mem
         /\ \A q \in DOMAIN mem :
              Write(mem, p, s)[q] = IF q \in p .. p + Len(s) - 1 THEN s[q - p + 1] ELSE mem[q]
BY DEF Write

\* h, and what was added to it since.
Later(g, h, mem, o, n) ==
  /\ IsSeq(g) /\ Len(g) = Least(Len(h) + n, KB64)
  /\ \A j \in 1 .. Len(g) : Back(g, j) = IF j <= n THEN mem[o + n - j] ELSE Back(h, j - n)
LaterAt(v, w, o, n) ==
  /\ IsSeq(v) /\ Len(v) = Least(Len(w) + n, KB64)
  /\ \A j \in 1 .. Len(v) : Back(v, j) = IF j <= n THEN o + n - j ELSE Back(w, j - n)

LEMMA HistoryGrows ==
  ASSUME NEW h, IsSeq(h), NEW mem, NEW o \in Int, NEW n \in Nat
  PROVE  Later(LastOf(h \o Read(mem, o, n), KB64), h, mem, o, n)
<1>1. KB64 \in Nat /\ Len(h) \in Nat
  BY ReadingAssumption DEF IsSeq
<1> DEFINE t == Read(mem, o, n)
<1>2. IsSeq(t) /\ Len(t) = n /\ \A j \in 1 .. n : Back(t, j) = mem[o + n - j]
  BY ReadIs
<1> HIDE DEF t
<1> DEFINE g == LastOf(h \o t, KB64)
<1>3. Joined(g, h, t, KB64)
  BY <1>1, <1>2, LastOfConcat
<1> HIDE DEF g
<1>4. Len(g) \in Nat
  BY <1>3 DEF Joined, IsSeq
<1>5. Later(g, h, mem, o, n)
  BY <1>1, <1>2, <1>3, <1>4 DEF Joined, Later
<1>6. QED
  BY <1>5 DEF g, t

LEMMA WhereGrows ==
  ASSUME NEW w, IsSeq(w), NEW o \in Int, NEW n \in Nat
  PROVE  LaterAt(LastOf(w \o [k \in 1 .. n |-> o + k - 1], KB64), w, o, n)
<1>1. KB64 \in Nat /\ Len(w) \in Nat
  BY ReadingAssumption DEF IsSeq
<1> DEFINE t == [k \in 1 .. n |-> o + k - 1]
<1>2. IsSeq(t) /\ Len(t) = n /\ \A j \in 1 .. n : Back(t, j) = o + n - j
  BY AddressesAre
<1> HIDE DEF t
<1> DEFINE g == LastOf(w \o t, KB64)
<1>3. Joined(g, w, t, KB64)
  BY <1>1, <1>2, LastOfConcat
<1> HIDE DEF g
<1>4. Len(g) \in Nat
  BY <1>3 DEF Joined, IsSeq
<1>5. LaterAt(g, w, o, n)
  BY <1>1, <1>2, <1>3, <1>4 DEF Joined, LaterAt
<1>6. QED
  BY <1>5 DEF g, t

\* Nothing is added.
LEMMA NotGrown ==
  ASSUME NEW h, NEW w, Remembered(h, w), NEW mem, NEW o, NEW g, NEW v,
         Later(g, h, mem, o, 0), LaterAt(v, w, o, 0)
  PROVE  g = h /\ v = w
<1>1. IsSeq(h) /\ IsSeq(w) /\ Len(h) \in Nat /\ Len(w) = Len(h) /\ Len(h) <= KB64 /\ KB64 \in Nat
  BY ReadingAssumption DEF Remembered, IsSeq
<1>2. IsSeq(g) /\ IsSeq(v) /\ Len(g) = Len(h) /\ Len(v) = Len(w)
  BY <1>1 DEF Later, LaterAt, Least
<1>3. \A j \in 1 .. Len(g) : Back(g, j) = Back(h, j)
  BY <1>1, <1>2 DEF Later
<1>4. \A j \in 1 .. Len(v) : Back(v, j) = Back(w, j)
  BY <1>1, <1>2 DEF LaterAt
<1>5. QED
  BY <1>1, <1>2, <1>3, <1>4, SameBack

LEMMA FromEnd ==
  ASSUME NEW s, IsSeq(s), NEW k \in 1 .. Len(s)
  PROVE  Len(s) + 1 - k \in 1 .. Len(s) /\ s[k] = Back(s, Len(s) + 1 - k)
<1>1. Len(s) \in Nat
  BY DEF IsSeq
<1>2. Len(s) + 1 - k \in 1 .. Len(s) /\ Len(s) + 1 - (Len(s) + 1 - k) = k
  BY <1>1
<1>3. QED
  BY <1>2 DEF Back

LEMMA RememberedLater ==
  ASSUME NEW h, NEW w, Remembered(h, w), NEW mem, NEW o \in Int, NEW n \in Nat, NEW g, NEW v,
         Later(g, h, mem, o, n), LaterAt(v, w, o, n),
         \A q \in o .. o + n - 1 : q \in Addresses /\ q \notin TmpOut
  PROVE  Remembered(g, v)
<1>1. IsSeq(h) /\ IsSeq(w) /\ Len(h) \in Nat /\ Len(w) = Len(h) /\ Len(h) <= KB64 /\ KB64 \in Nat
  BY ReadingAssumption DEF Remembered, IsSeq
<1>2. /\ IsSeq(g) /\ IsSeq(v) /\ Len(v) = Len(g) /\ Len(g) \in Nat
      /\ Len(g) <= KB64 /\ Len(g) <= Len(h) + n
  BY <1>1 DEF Later, LaterAt, Least
<1>3. ASSUME NEW k \in 1 .. Len(v)
      PROVE  v[k] \in Addresses /\ v[k] \notin TmpOut /\ v[k] \in Int
  <2> DEFINE j == Len(v) + 1 - k
  <2>1. j \in 1 .. Len(v) /\ v[k] = Back(v, j)
    BY <1>2, FromEnd
  <2> HIDE DEF j
  <2>2. CASE j <= n
    <3>1. v[k] = o + n - j /\ o + n - j \in o .. o + n - 1
      BY <1>2, <2>1, <2>2 DEF LaterAt
    <3>2. QED
      BY <3>1
  <2>3. CASE ~(j <= n)
    <3>1. v[k] = Back(w, j - n) /\ Len(w) + 1 - (j - n) \in 1 .. Len(w)
      BY <1>1, <1>2, <2>1, <2>3 DEF LaterAt
    <3>2. QED
      BY <3>1 DEF Remembered, Back
  <2>4. QED
    BY <2>2, <2>3
<1>4. QED
  BY <1>2, <1>3 DEF Remembered

LEMMA EndsAgree ==
  ASSUME NEW m1, NEW m2, NEW e \in Int, NEW h, NEW k \in Nat, Ends(m1, e, h, k),
         \A q \in e - k .. e - 1 : m2[q] = m1[q]
  PROVE  Ends(m2, e, h, k)
<1>1. \A j \in 1 .. k : e - j \in e - k .. e - 1
  OBVIOUS
<1>2. QED
  BY <1>1 DEF Ends

LEMMA EndsLess ==
  ASSUME NEW mem, NEW e, NEW h, NEW k \in Nat, Ends(mem, e, h, k), NEW l \in Nat, l <= k
  PROVE  Ends(mem, e, h, l)
BY DEF Ends

\* Where what is added comes behind the end of h.
LEMMA EndsGrow ==
  ASSUME NEW mem, NEW e \in Int, NEW h, NEW k \in Nat, Ends(mem, e, h, k),
         NEW src, NEW o \in Int, NEW n \in Nat, \A j \in 1 .. n : mem[e + n - j] = src[o + n - j],
         NEW g, Later(g, h, src, o, n),
         NEW l \in Nat, l <= k + n, l <= Len(g), NEW f, f = e + n
  PROVE  Ends(mem, f, g, l)
<1>0. Len(g) \in Nat
  BY DEF Later, IsSeq
<1>1. ASSUME NEW j \in 1 .. l
      PROVE  mem[(e + n) - j] = Back(g, j)
  <2>1. j \in 1 .. Len(g)
    BY <1>0
  <2>2. CASE j <= n
    <3>1. j \in 1 .. n
      BY <2>2
    <3>2. mem[(e + n) - j] = src[o + n - j]
      BY <3>1
    <3>3. Back(g, j) = src[o + n - j]
      BY <2>1, <2>2 DEF Later
    <3>4. QED
      BY <3>2, <3>3
  <2>3. CASE ~(j <= n)
    <3>1. j - n \in 1 .. k /\ e - (j - n) = (e + n) - j
      BY <2>3
    <3>2. mem[e - (j - n)] = Back(h, j - n)
      BY <3>1 DEF Ends
    <3>3. QED
      BY <2>1, <2>3, <3>1, <3>2 DEF Later
  <2>4. QED
    BY <2>2, <2>3
<1>2. QED
  BY <1>1 DEF Ends

\* The end of h is copied.
LEMMA EndsMoved ==
  ASSUME NEW mem, NEW e \in Int, NEW h, NEW k \in Nat, Ends(mem, e, h, k), NEW p \in Int,
         p .. p + k - 1 \subseteq DOMAIN mem
  PROVE  Ends(Write(mem, p, Read(mem, e - k, k)), p + k, h, k)
<1> DEFINE r == Read(mem, e - k, k)
           m2 == Write(mem, p, r)
<1>1. Len(r) = k /\ \A i \in 1 .. k : r[i] = mem[(e - k) + i - 1]
  BY ReadIs
<1>2. \A q \in DOMAIN mem : m2[q] = IF q \in p .. p + Len(r) - 1 THEN r[q - p + 1] ELSE mem[q]
  <2> HIDE DEF r
  <2> QED BY WriteIs
<1> HIDE DEF r, m2
<1>3. ASSUME NEW j \in 1 .. k
      PROVE  m2[(p + k) - j] = Back(h, j)
  <2>1. (p + k) - j \in p .. p + k - 1 /\ ((p + k) - j) - p + 1 = k + 1 - j /\ k + 1 - j \in 1 .. k
    OBVIOUS
  <2>2. m2[(p + k) - j] = r[k + 1 - j]
    BY <1>1, <1>2, <2>1
  <2>3. (e - k) + (k + 1 - j) - 1 = e - j
    OBVIOUS
  <2>4. QED
    BY <1>1, <2>1, <2>2, <2>3 DEF Ends
<1>4. QED
  BY <1>3 DEF Ends, m2, r

-----------------------------------------------------------------------------
(* The history while something is put out.                                 *)

\* It is continued where it is.
LEMMA Continued ==
  ASSUME NEW mem, NEW d, NEW a, NEW h, NEW w, NEW keep, NEW o \in Int, NEW n \in Nat,
         a.dst \in Int, a.dst <= o, Remembered(h, w),
         d.dict \in Nat, d.dictSize \in Nat, d.dict + d.dictSize = o,
         Found(mem, d, h), Given(d, o, a, w, keep),
         NEW g, NEW v, Later(g, h, mem, o, n), LaterAt(v, w, o, n),
         NEW e, e.dict = d.dict, e.dictSize = d.dictSize + n
  PROVE  Found(mem, e, g) /\ Given(e, o + n, a, v, keep)
<1>1. /\ KB64 \in Nat /\ Len(h) \in Nat /\ Len(w) = Len(h) /\ Len(g) \in Nat /\ Len(v) \in Nat
  BY ReadingAssumption DEF Remembered, IsSeq, Later, LaterAt
<1>2. /\ Len(h) = Least(d.dictSize, KB64) /\ Len(g) = Least(Len(h) + n, KB64)
      /\ Len(v) = Len(g)
  BY <1>1 DEF Found, Later, LaterAt
<1>3. Len(g) = Least(e.dictSize, KB64) /\ Len(g) <= Len(h) + n
  BY <1>1, <1>2 DEF Least
<1>4. Ends(mem, o + n, g, Len(g))
  <2>1. Ends(mem, o, h, Len(h))
    BY DEF Found
  <2>2. \A j \in 1 .. n : mem[o + n - j] = mem[o + n - j]
    OBVIOUS
  <2>3. Len(g) \in Nat /\ Len(h) \in Nat /\ Len(g) <= Len(h) + n /\ Len(g) <= Len(g) /\ o + n = o + n
    BY <1>1, <1>3
  <2>4. QED
    BY ONLY o \in Int, n \in Nat, Later(g, h, mem, o, n), <2>1, <2>2, <2>3, EndsGrow
<1>5. e.dict + e.dictSize = o + n
  OBVIOUS
<1>6. ASSUME NEW j \in 1 .. Len(v)
      PROVE  Back(v, j) = e.dict + e.dictSize - j /\ Back(v, j) \in keep \cup (a.dst .. (o + n) - 1)
  <2>1. CASE j <= n
    <3>1. Back(v, j) = o + n - j
      BY <2>1 DEF LaterAt
    <3>2. o + n - j \in a.dst .. (o + n) - 1
      BY <1>1, <2>1
    <3>3. QED
      BY <1>5, <3>1, <3>2, SMTT(30)
  <2>2. CASE ~(j <= n)
    <3>1. Back(v, j) = Back(w, j - n) /\ j - n \in 1 .. Len(w)
      BY <1>1, <1>2, <1>3, <2>2 DEF LaterAt
    <3>2. /\ Back(w, j - n) = d.dict + d.dictSize - (j - n)
          /\ Back(w, j - n) \in keep \cup (a.dst .. o - 1)
      BY <3>1 DEF Given
    <3>3. Back(v, j) = e.dict + e.dictSize - j
      BY <1>1, <1>5, <3>1, <3>2
    <3>4. \A q \in a.dst .. o - 1 : q \in a.dst .. (o + n) - 1
      OBVIOUS
    <3>5. QED
      BY <3>1, <3>2, <3>3, <3>4
  <2>3. QED
    BY <2>1, <2>2
<1>7. QED
  BY <1>3, <1>4, <1>5, <1>6 DEF Found, Given

\* The destination has all of it.
LEMMA InDestination ==
  ASSUME NEW mem, NEW a, NEW h, NEW w, NEW keep, NEW o \in Int, NEW n \in Nat,
         a.dst \in Int, a.dst <= o, Remembered(h, w),
         Recent(mem, o, a, h, w), o - a.dst + n >= KB64,
         NEW g, NEW v, Later(g, h, mem, o, n), LaterAt(v, w, o, n),
         NEW e, e.dict = a.dst, e.dictSize = o - a.dst + n
  PROVE  Found(mem, e, g) /\ Given(e, o + n, a, v, keep)
<1>1. /\ KB64 \in Nat /\ Len(h) \in Nat /\ Len(w) = Len(h) /\ Len(g) \in Nat /\ Len(v) \in Nat
  BY ReadingAssumption DEF Remembered, IsSeq, Later, LaterAt
<1> DEFINE k == Least(o - a.dst, Len(h))
<1>2. /\ Len(h) >= Least(o - a.dst, KB64) /\ Len(g) = Least(Len(h) + n, KB64)
      /\ Len(v) = Len(g)
  BY <1>1 DEF Recent, Later, LaterAt
<1>3. /\ Len(g) = KB64 /\ Len(g) = Least(e.dictSize, KB64) /\ Len(g) <= k + n
      /\ k \in Nat /\ k <= o - a.dst /\ k <= Len(w)
  BY <1>1, <1>2, SMTT(30) DEF Least
<1>4. \A j \in 1 .. k : Back(w, j) = o - j /\ mem[o - j] = Back(h, j)
  BY DEF Recent
<1> HIDE DEF k
<1>5. Ends(mem, o + n, g, Len(g))
  <2>1. Ends(mem, o, h, k)
    BY <1>4 DEF Ends
  <2>2. \A j \in 1 .. n : mem[o + n - j] = mem[o + n - j]
    OBVIOUS
  <2>3. Len(g) \in Nat /\ k \in Nat /\ Len(g) <= k + n /\ Len(g) <= Len(g) /\ o + n = o + n
    BY <1>1, <1>3
  <2>4. QED
    BY ONLY o \in Int, n \in Nat, Later(g, h, mem, o, n), <2>1, <2>2, <2>3, EndsGrow
<1>6. e.dict + e.dictSize = o + n
  OBVIOUS
<1>7. ASSUME NEW j \in 1 .. Len(v)
      PROVE  Back(v, j) = e.dict + e.dictSize - j /\ Back(v, j) \in keep \cup (a.dst .. (o + n) - 1)
  <2>0. j <= (o - a.dst) + n
    BY <1>1, <1>2, <1>3
  <2>1. CASE j <= n
    <3>1. Back(v, j) = o + n - j
      BY <2>1 DEF LaterAt
    <3>2. o + n - j \in a.dst .. (o + n) - 1
      BY <1>1, <2>0, <2>1
    <3>3. QED
      BY <1>6, <3>1, <3>2
  <2>2. CASE ~(j <= n)
    <3>1. Back(v, j) = Back(w, j - n) /\ j - n \in 1 .. k
      BY <1>1, <1>2, <1>3, <2>2 DEF LaterAt
    <3>2. Back(w, j - n) = o - (j - n)
      BY <1>4, <3>1
    <3>3. QED
      BY <1>6, <2>0, <3>1, <3>2
  <2>3. QED
    BY <2>1, <2>2
<1>8. QED
  BY <1>3, <1>5, <1>6, <1>7 DEF Found, Given

LEMMA RecentLater ==
  ASSUME NEW mem, NEW a, NEW h, NEW w, NEW o \in Int, NEW n \in Nat,
         a.dst \in Int, a.dst <= o, Remembered(h, w), Recent(mem, o, a, h, w),
         NEW g, NEW v, Later(g, h, mem, o, n), LaterAt(v, w, o, n)
  PROVE  Recent(mem, o + n, a, g, v)
<1>1. /\ KB64 \in Nat /\ Len(h) \in Nat /\ Len(w) = Len(h) /\ Len(g) \in Nat /\ Len(v) \in Nat
  BY ReadingAssumption DEF Remembered, IsSeq, Later, LaterAt
<1>2. /\ Len(h) >= Least(o - a.dst, KB64) /\ Len(g) = Least(Len(h) + n, KB64)
      /\ Len(v) = Len(g)
  BY <1>1 DEF Recent, Later, LaterAt
<1>3. Len(g) >= Least((o + n) - a.dst, KB64)
  BY <1>1, <1>2 DEF Least
<1>4. ASSUME NEW j \in 1 .. Least((o + n) - a.dst, Len(g))
      PROVE  Back(v, j) = (o + n) - j /\ mem[(o + n) - j] = Back(g, j)
  <2>1. j \in 1 .. Len(g) /\ j \in 1 .. Len(v) /\ j <= (o + n) - a.dst
    BY <1>1, <1>2 DEF Least
  <2>2. CASE j <= n
    BY <2>1, <2>2 DEF Later, LaterAt
  <2>3. CASE ~(j <= n)
    <3>1. Back(v, j) = Back(w, j - n) /\ Back(g, j) = Back(h, j - n)
      BY <2>1, <2>3 DEF Later, LaterAt
    <3>2. j - n \in 1 .. Least(o - a.dst, Len(h))
      BY <1>1, <1>2, <2>1, <2>3 DEF Least
    <3>3. Back(w, j - n) = o - (j - n) /\ mem[o - (j - n)] = Back(h, j - n)
      BY <3>2 DEF Recent
    <3>4. o - (j - n) = (o + n) - j
      BY <2>1
    <3>5. QED
      BY <3>1, <3>3, <3>4
  <2>4. QED
    BY <2>2, <2>3
<1>5. QED
  BY <1>3, <1>4 DEF Recent

\* It is put together in tmpOutBuffer.
LEMMA AppendedInTmp ==
  ASSUME NEW mem, DOMAIN mem = Addresses, NEW c \in Nat, NEW n \in Nat, NEW src, NEW o \in Int,
         TMPOUT .. TMPOUT + c + n \subseteq Addresses,
         NEW h, NEW g, Later(g, h, src, o, n),
         NEW k \in Nat, k <= c, Ends(mem, TMPOUT + c, h, k), Len(g) <= k + n,
         NEW e, e.dict = TMPOUT, e.dictSize = c + n, Len(g) = Least(c + n, KB64)
  PROVE  Found(Write(mem, TMPOUT + c, Read(src, o, n)), e, g)
<1>1. TMPOUT \in Nat /\ Len(g) \in Nat
  BY ReadingAssumption DEF Later, IsSeq
<1> DEFINE r == Read(src, o, n)
           m2 == Write(mem, TMPOUT + c, r)
<1>2. Len(r) = n /\ \A j \in 1 .. n : r[j] = src[o + j - 1]
  BY ReadIs
<1>3. \A q \in Addresses :
        m2[q] = IF q \in TMPOUT + c .. (TMPOUT + c) + Len(r) - 1 THEN r[q - (TMPOUT + c) + 1] ELSE mem[q]
  <2> HIDE DEF r
  <2> QED BY <1>1, WriteIs
<1> HIDE DEF r, m2
<1>4. Ends(m2, TMPOUT + c, h, k)
  <2>1. ASSUME NEW q \in (TMPOUT + c) - k .. (TMPOUT + c) - 1
        PROVE  m2[q] = mem[q]
    <3>1. q \in TMPOUT .. TMPOUT + c + n /\ ~(q \in TMPOUT + c .. (TMPOUT + c) + Len(r) - 1)
      BY <1>1, <1>2
    <3>2. QED
      BY <1>3, <3>1
  <2>2. QED
    BY <1>1, <2>1, EndsAgree
<1>5. ASSUME NEW j \in 1 .. n
      PROVE  m2[(TMPOUT + c) + n - j] = src[o + n - j]
  <2> DEFINE q == (TMPOUT + c) + n - j
  <2>1. /\ q \in TMPOUT .. TMPOUT + c + n /\ q \in TMPOUT + c .. (TMPOUT + c) + n - 1
        /\ q - (TMPOUT + c) + 1 = n - j + 1 /\ n - j + 1 \in 1 .. n /\ o + (n - j + 1) - 1 = o + n - j
    BY <1>1
  <2> HIDE DEF q
  <2>2. m2[q] = r[n - j + 1]
    BY <1>2, <1>3, <2>1
  <2>3. QED
    BY <1>2, <2>1, <2>2 DEF q
<1>6. Ends(m2, (TMPOUT + c) + n, g, Len(g))
  <2>1. TMPOUT + c \in Int /\ Len(g) \in Nat /\ Len(g) <= Len(g)
    BY <1>1
  <2>2. QED
    BY ONLY o \in Int, n \in Nat, k \in Nat, Later(g, h, src, o, n), Len(g) <= k + n,
            <1>4, <1>5, <2>1, EndsGrow
<1>7. e.dict + e.dictSize = (TMPOUT + c) + n
  BY <1>1
<1>8. QED
  BY <1>6, <1>7 DEF Found, m2, r

\* It does not matter what happens elsewhere in memory.
LEMMA FoundAgrees ==
  ASSUME NEW m1, NEW m2, NEW d, d.dict \in Nat, d.dictSize \in Nat, NEW o, NEW a, NEW h, NEW w,
         NEW keep, Len(h) \in Nat, Len(w) = Len(h),
         \A j \in 1 .. Len(w) : m2[Back(w, j)] = m1[Back(w, j)],
         Found(m1, d, h), Given(d, o, a, w, keep)
  PROVE  Found(m2, d, h)
<1>1. ASSUME NEW j \in 1 .. Len(h)
      PROVE  m2[(d.dict + d.dictSize) - j] = Back(h, j)
  <2>1. Back(w, j) = (d.dict + d.dictSize) - j
    BY DEF Given
  <2>2. m1[(d.dict + d.dictSize) - j] = Back(h, j)
    BY DEF Found, Ends
  <2>3. QED
    BY <2>1, <2>2
<1>2. QED
  BY <1>1 DEF Found, Ends

LEMMA RecentAgrees ==
  ASSUME NEW m1, NEW m2, NEW o \in Int, NEW a, a.dst \in Int, a.dst <= o, NEW h, NEW w,
         Len(h) \in Nat,
         \A q \in a.dst .. o - 1 : m2[q] = m1[q], Recent(m1, o, a, h, w)
  PROVE  Recent(m2, o, a, h, w)
<1>1. \A j \in 1 .. Least(o - a.dst, Len(h)) : o - j \in a.dst .. o - 1
  BY DEF Least
<1>2. QED
  BY <1>1 DEF Recent

-----------------------------------------------------------------------------
(* LZ4F_updateDict.                                                        *)

LEMMA Facts ==
  ASSUME NEW x, NEW a, NEW keep, Always(x, a, keep)
  PROVE  /\ IsCall(x) /\ IsContext(x.d) /\ Allocated(x.d) /\ x.inside = TRUE /\ DOMAIN x.m = Addresses
         /\ x.d.dict \in Nat /\ x.d.dictSize \in Nat /\ (x.d.dict = NULL => x.d.dictSize = 0)
         /\ a.dst \in Nat /\ a.end \in Nat /\ x.o \in Nat /\ a.dst <= x.o /\ x.o <= a.end
         /\ \A q \in a.dst .. a.end - 1 : q \in Addresses /\ q \notin keep
         /\ \A q \in a.dst .. a.end : q \notin TmpOut
         /\ \A q \in keep : q \in Addresses /\ q \notin TmpOut
<1>1. IsCall(x) /\ WellFormed(x.d) /\ DOMAIN x.m = Addresses /\ x.inside = TRUE /\ Within(x, a, keep)
  BY DEF Always
<1>2. /\ IsContext(x.d) /\ Allocated(x.d) /\ x.d.dict \in Nat /\ x.d.dictSize \in Nat
      /\ (x.d.dict = NULL => x.d.dictSize = 0)
  BY <1>1 DEF WellFormed
<1>3. /\ a.dst \in Nat /\ a.end \in Nat /\ x.o \in a.dst .. a.end
      /\ a.dst .. a.end - 1 \subseteq Addresses /\ (a.dst .. a.end) \cap TmpOut = {}
      /\ keep \subseteq Addresses /\ keep \cap TmpOut = {} /\ keep \cap (a.dst .. a.end - 1) = {}
  BY <1>1 DEF Within
<1>4. x.o \in Nat /\ a.dst <= x.o /\ x.o <= a.end
  BY <1>3
<1>5. /\ \A q \in a.dst .. a.end - 1 : q \in Addresses /\ q \notin keep
      /\ \A q \in a.dst .. a.end : q \notin TmpOut
      /\ \A q \in keep : q \in Addresses /\ q \notin TmpOut
  BY <1>3, Zenon
<1>6. QED
  BY <1>1, <1>2, <1>3, <1>4, <1>5

\* What becomes of the history changes nothing else.
Rearranged(x, y) ==
  /\ SameCall(x, y) /\ SameFrame(x.d, y.d) /\ y.inside = TRUE /\ DOMAIN y.m = Addresses
  /\ y.d.dict \in Nat /\ y.d.dictSize \in Nat /\ (y.d.dict = NULL => y.d.dictSize = 0)
  /\ \A q \in Addresses : q \notin TmpOut => y.m[q] = x.m[q]

LEMMA RearrangedAlways ==
  ASSUME NEW x, NEW a, NEW keep, Always(x, a, keep), NEW y, Rearranged(x, y)
  PROVE  Always(y, a, keep)
<1>1. WellFormed(y.d)
  BY DEF Always, WellFormed, Rearranged, SameFrame, Allocated
<1>2. Within(y, a, keep)
  BY DEF Always, Within, Rearranged, SameCall
<1>3. QED
  BY <1>1, <1>2 DEF Always, Rearranged, SameCall

\* Writing in tmpOutBuffer.
LEMMA TmpWritten ==
  ASSUME NEW x, NEW a, NEW keep, Always(x, a, keep), NEW p \in Nat, NEW s, Len(s) \in Nat,
         p >= TMPOUT, p + Len(s) <= TMPOUT + x.d.maxBufferSize
  PROVE  LET y == ToTmp(x, p, s)
         IN  Rearranged(x, y) /\ y.d = x.d /\ y.m = Write(x.m, p, s)
<1>1. /\ IsCall(x) /\ IsContext(x.d) /\ Allocated(x.d) /\ x.inside = TRUE /\ DOMAIN x.m = Addresses
      /\ x.d.dict \in Nat /\ x.d.dictSize \in Nat /\ (x.d.dict = NULL => x.d.dictSize = 0)
  BY Facts
<1>2. /\ TMPOUT \in Nat /\ x.d.maxBufferSize \in Nat
      /\ \A q \in TMPOUT .. TMPOUT + x.d.maxBufferSize : q \in TmpOut
  BY <1>1, Bounds
<1> DEFINE y == ToTmp(x, p, s)
<1>3. SameCall(x, y) /\ y.d = x.d /\ y.m = Write(x.m, p, s) /\ y.inside = TRUE
  BY <1>1, ToTmpIs
<1> HIDE DEF y
<1>4. /\ DOMAIN y.m = Addresses
      /\ \A q \in Addresses : y.m[q] = IF q \in p .. p + Len(s) - 1 THEN s[q - p + 1] ELSE x.m[q]
  BY <1>1, <1>3, WriteIs
<1>5. ASSUME NEW q \in Addresses, q \notin TmpOut
      PROVE  y.m[q] = x.m[q]
  <2>1. \A i \in p .. p + Len(s) - 1 : i \in TMPOUT .. TMPOUT + x.d.maxBufferSize
    BY <1>2
  <2>2. q \notin p .. p + Len(s) - 1
    BY <1>2, <1>5, <2>1
  <2>3. QED
    BY <1>4, <2>2
<1>6. SameFrame(x.d, y.d)
  BY <1>1, <1>3 DEF SameFrame
<1>7. QED
  BY <1>1, <1>3, <1>4, <1>5, <1>6 DEF Rearranged, y

LEMMA DictSet ==
  ASSUME NEW x, NEW a, NEW keep, Always(x, a, keep), NEW p \in Nat, NEW n \in Nat, p = NULL => n = 0
  PROVE  LET y == Dict(x, p, n)
         IN  /\ Rearranged(x, y) /\ y.m = x.m /\ y.d.tmpOut = x.d.tmpOut
             /\ y.d.dict = p /\ y.d.dictSize = n
<1>1. IsCall(x) /\ IsContext(x.d) /\ x.inside = TRUE /\ DOMAIN x.m = Addresses
  BY Facts
<1> DEFINE y == Dict(x, p, n)
<1>2. /\ SameCall(x, y) /\ SameFrame(x.d, y.d)
      /\ y.m = x.m /\ y.inside = x.inside /\ y.d.tmpOut = x.d.tmpOut
      /\ y.d.dict = p /\ y.d.dictSize = n
  BY <1>1, DictIs
<1> HIDE DEF y
<1>3. QED
  BY <1>1, <1>2 DEF Rearranged, y

LEMMA RearrangedTwice ==
  ASSUME NEW x, NEW y, NEW z, Rearranged(x, y), Rearranged(y, z)
  PROVE  Rearranged(x, z)
BY DEF Rearranged, SameCall, SameFrame

\* The last n bytes of the history, at the start of tmpOutBuffer.
LEMMA Moves ==
  ASSUME NEW x, NEW a, NEW keep, Always(x, a, keep), NEW h, Found(x.m, x.d, h),
         NEW n \in Nat, n <= x.d.dictSize, n <= KB64, n <= x.d.maxBufferSize
  PROVE  LET y == KeepLast(x, n)
         IN  /\ Rearranged(x, y) /\ y.d.tmpOut = x.d.tmpOut /\ y.d.dict = TMPOUT /\ y.d.dictSize = n
             /\ Ends(y.m, TMPOUT + n, h, n)
<1>1. /\ Allocated(x.d) /\ DOMAIN x.m = Addresses /\ x.d.dict \in Nat /\ x.d.dictSize \in Nat
  BY Facts
<1>2. /\ TMPOUT \in Nat /\ TMPOUT # NULL /\ x.d.maxBufferSize \in Nat /\ KB64 \in Nat
      /\ TMPOUT .. TMPOUT + x.d.maxBufferSize \subseteq Addresses
  BY <1>1, Bounds
<1> DEFINE e == x.d.dict + x.d.dictSize
           r == Read(x.m, e - n, n)
           y1 == ToTmp(x, TMPOUT, r)
           y == Dict(y1, TMPOUT, n)
<1>3. Len(r) = n
  <2>1. e - n \in Int
    BY <1>1
  <2>2. QED
    BY <2>1, ReadIs
<1>4. Rearranged(x, y1) /\ y1.d = x.d /\ y1.m = Write(x.m, TMPOUT, r)
  <2>1. TMPOUT >= TMPOUT /\ TMPOUT + Len(r) <= TMPOUT + x.d.maxBufferSize
    BY <1>2, <1>3
  <2> HIDE DEF r
  <2>2. QED
    BY <1>2, <1>3, <2>1, TmpWritten
<1>5. Always(y1, a, keep)
  <2> HIDE DEF y1
  <2> QED BY <1>4, RearrangedAlways
<1>6. /\ Rearranged(y1, y) /\ y.m = y1.m /\ y.d.tmpOut = y1.d.tmpOut
      /\ y.d.dict = TMPOUT /\ y.d.dictSize = n
  <2> HIDE DEF y1
  <2> QED BY <1>2, <1>5, DictSet
<1>7. Ends(x.m, e, h, n)
  <2>1. Len(h) = Least(x.d.dictSize, KB64) /\ Ends(x.m, e, h, Len(h))
    BY DEF Found
  <2>2. Len(h) \in Nat /\ n <= Len(h)
    BY <1>1, <1>2, <2>1 DEF Least
  <2>3. QED
    BY <2>1, <2>2, EndsLess
<1>8. Ends(Write(x.m, TMPOUT, r), TMPOUT + n, h, n)
  <2>1. TMPOUT .. TMPOUT + n - 1 \subseteq DOMAIN x.m
    <3>1. \A q \in TMPOUT .. TMPOUT + n - 1 : q \in TMPOUT .. TMPOUT + x.d.maxBufferSize
      BY <1>2
    <3>2. QED
      BY <1>1, <1>2, <3>1
  <2>2. e \in Int /\ TMPOUT \in Int
    BY <1>1, <1>2
  <2> HIDE DEF e
  <2>3. QED
    BY <1>7, <2>1, <2>2, EndsMoved
<1>9. y = KeepLast(x, n)
  <2>1. e - n = x.d.dict + x.d.dictSize - n
    BY <1>1
  <2>2. QED
    BY <2>1, Zenon DEF KeepLast
<1>10. Rearranged(x, y)
  <2> HIDE DEF y, y1
  <2> QED BY <1>4, <1>6, RearrangedTwice
<1> HIDE DEF y, y1, r
<1>11. QED
  BY <1>4, <1>6, <1>8, <1>9, <1>10

LEMMA RearrangedNot ==
  ASSUME NEW x, NEW a, NEW keep, Always(x, a, keep)
  PROVE  Rearranged(x, x)
<1>1. /\ IsCall(x) /\ IsContext(x.d) /\ x.inside = TRUE /\ DOMAIN x.m = Addresses
      /\ x.d.dict \in Nat /\ x.d.dictSize \in Nat /\ (x.d.dict = NULL => x.d.dictSize = 0)
  BY Facts
<1>2. QED
  BY <1>1 DEF Rearranged, SameCall, SameFrame

\* Without a history yet, it begins with what is put out.
LEMMA Begins ==
  ASSUME NEW x, NEW a, NEW keep, Always(x, a, keep), NEW h, NEW w, Remembered(h, w),
         Found(x.m, x.d, h), a.dst # NULL, x.d.dictSize = 0
  PROVE  LET y == Dict(x, x.o, 0)
         IN  /\ Rearranged(x, y) /\ y.m = x.m /\ y.d.tmpOut = x.d.tmpOut
             /\ y.d.dict = x.o /\ y.d.dictSize = 0 /\ y.d.dict # TMPOUT
             /\ Len(h) = 0 /\ Found(y.m, y.d, h) /\ Given(y.d, x.o, a, w, keep)
<1>1. /\ x.o \in Nat /\ a.dst \in Nat /\ a.dst <= x.o /\ x.o <= a.end /\ a.end \in Nat
      /\ \A q \in a.dst .. a.end : q \notin TmpOut
      /\ Allocated(x.d)
  BY Facts
<1>2. TMPOUT \in TmpOut /\ KB64 \in Nat
  <2>1. x.d.maxBufferSize \in Nat /\ TMPOUT \in Nat /\ KB64 \in Nat /\ TMPOUT .. TMPOUT + x.d.maxBufferSize \subseteq TmpOut
    BY <1>1, Bounds
  <2>2. TMPOUT \in TMPOUT .. TMPOUT + x.d.maxBufferSize
    BY <2>1
  <2>3. QED
    BY <2>1, <2>2
<1>3. x.o # TMPOUT /\ x.o # NULL
  BY <1>1, <1>2 DEF NULL
<1> DEFINE y == Dict(x, x.o, 0)
<1>4. /\ Rearranged(x, y) /\ y.m = x.m /\ y.d.tmpOut = x.d.tmpOut
      /\ y.d.dict = x.o /\ y.d.dictSize = 0
  BY <1>1, <1>3, DictSet
<1> HIDE DEF y
<1>5. Len(h) = 0 /\ Len(w) = 0 /\ Least(0, KB64) = 0
  BY <1>2 DEF Found, Least, Remembered
<1>6. Found(y.m, y.d, h) /\ Given(y.d, x.o, a, w, keep)
  BY <1>4, <1>5 DEF Found, Ends, Given
<1>7. QED
  BY <1>3, <1>4, <1>5, <1>6 DEF y

\* Outside tmpOutBuffer, the destination is not in it.
LEMMA NotInTmp ==
  ASSUME NEW x, NEW a, NEW keep, Always(x, a, keep), x.d.dictSize <= x.d.maxBufferSize,
         x.d.dict + x.d.dictSize = x.o
  PROVE  x.d.dict # TMPOUT
<1>1. /\ x.o \in Nat /\ a.dst \in Nat /\ a.dst <= x.o /\ x.o <= a.end /\ a.end \in Nat
      /\ \A q \in a.dst .. a.end : q \notin TmpOut
      /\ Allocated(x.d) /\ x.d.dictSize \in Nat
  BY Facts
<1>2. x.d.maxBufferSize \in Nat /\ TMPOUT \in Nat /\ TMPOUT .. TMPOUT + x.d.maxBufferSize \subseteq TmpOut
  BY <1>1, Bounds
<1>3. ASSUME x.d.dict = TMPOUT PROVE FALSE
  <2>1. x.o \in TMPOUT .. TMPOUT + x.d.maxBufferSize
    BY <1>1, <1>2, <1>3
  <2>2. x.o \in a.dst .. a.end
    BY <1>1
  <2>3. QED
    BY <1>1, <1>2, <2>1, <2>2
<1>4. QED
  BY <1>3

\* What has come out since is at hand wherever the history is put.
LEMMA StillRecent ==
  ASSUME NEW x, NEW a, NEW keep, Always(x, a, keep), NEW n \in Nat, x.o + n <= a.end,
         NEW h, NEW w, Remembered(h, w), Recent(x.m, x.o, a, h, w),
         NEW g, NEW v, Later(g, h, x.m, x.o, n), LaterAt(v, w, x.o, n),
         NEW y, Rearranged(x, y)
  PROVE  Recent(y.m, x.o + n, a, g, v)
<1>1. /\ x.o \in Nat /\ a.dst \in Nat /\ a.dst <= x.o /\ a.end \in Nat
      /\ \A q \in a.dst .. a.end - 1 : q \in Addresses
      /\ \A q \in a.dst .. a.end : q \notin TmpOut
  BY Facts
<1>2. Recent(x.m, x.o + n, a, g, v)
  BY <1>1, RecentLater
<1>3. ASSUME NEW q \in a.dst .. (x.o + n) - 1
      PROVE  y.m[q] = x.m[q]
  <2>1. q \in a.dst .. a.end - 1 /\ q \in a.dst .. a.end
    BY <1>1
  <2>2. QED
    BY <1>1, <2>1 DEF Rearranged
<1>4. Len(g) \in Nat /\ x.o + n \in Int /\ a.dst \in Int /\ a.dst <= x.o + n
  BY <1>1 DEF Later, IsSeq
<1>5. QED
  BY <1>2, <1>3, <1>4, RecentAgrees


LEMMA Extends ==
  ASSUME NEW x, NEW a, NEW keep, Always(x, a, keep), NEW n \in Nat, x.d.dict # NULL
  PROVE  LET y == [x EXCEPT !.d.dictSize = @ + n]
         IN  /\ Rearranged(x, y) /\ y.m = x.m /\ y.d.tmpOut = x.d.tmpOut
             /\ y.d.dict = x.d.dict /\ y.d.dictSize = x.d.dictSize + n
<1>1. /\ IsCall(x) /\ IsContext(x.d) /\ x.inside = TRUE /\ DOMAIN x.m = Addresses
      /\ x.d.dict \in Nat /\ x.d.dictSize \in Nat
  BY Facts
<1> DEFINE y == [x EXCEPT !.d.dictSize = @ + n]
           e == [x.d EXCEPT !.dictSize = @ + n]
<1>2. /\ SameCall(x, y) /\ y.m = x.m /\ y.inside = x.inside /\ y.d = e
  BY <1>1 DEF SameCall, IsCall, CallFields
<1>3. /\ SameFrame(x.d, e) /\ e.tmpOut = x.d.tmpOut
      /\ e.dict = x.d.dict /\ e.dictSize = x.d.dictSize + n
  BY <1>1 DEF SameFrame, IsContext, ContextFields
<1> HIDE DEF y, e
<1>4. Rearranged(x, y)
  BY <1>1, <1>2, <1>3 DEF Rearranged
<1>5. QED
  BY <1>2, <1>3, <1>4 DEF y

\* The history is continued where it is, or found in the destination.
LEMMA UpdatesOutside ==
  ASSUME NEW x, NEW a, NEW keep, Always(x, a, keep), a.dst # NULL,
         NEW n \in Nat, x.o + n <= a.end,
         NEW h, NEW w, Remembered(h, w), Recent(x.m, x.o, a, h, w),
         Outside(x.m, x.d, x.o, a, h, w, keep),
         x.d.dict = TMPOUT => x.d.dictSize <= x.d.maxBufferSize,
         x.d.dictSize = 0 => Found(x.m, x.d, h),
         NEW g, NEW v, Later(g, h, x.m, x.o, n), LaterAt(v, w, x.o, n),
         \/ x.d.dictSize = 0 \/ x.d.dict + x.d.dictSize = x.o \/ x.o - a.dst + n >= KB64,
         NEW within \in BOOLEAN
  PROVE  LET y == LZ4F_updateDict(a, x, x.o, n, within)
         IN  /\ Rearranged(x, y) /\ y.d.tmpOut = x.d.tmpOut /\ y.m = x.m /\ y.d.dict # TMPOUT
             /\ Found(y.m, y.d, g) /\ Given(y.d, x.o + n, a, v, keep)
<1>1. /\ x.o \in Nat /\ a.dst \in Nat /\ a.dst <= x.o /\ x.o <= a.end /\ a.end \in Nat
      /\ \A q \in a.dst .. a.end : q \notin TmpOut
      /\ Allocated(x.d) /\ x.d.dict \in Nat /\ x.d.dictSize \in Nat
  BY Facts
<1>2. TMPOUT \in TmpOut /\ KB64 \in Nat
  <2>1. x.d.maxBufferSize \in Nat /\ TMPOUT \in Nat /\ KB64 \in Nat /\ TMPOUT .. TMPOUT + x.d.maxBufferSize \subseteq TmpOut
    BY <1>1, Bounds
  <2>2. TMPOUT \in TMPOUT .. TMPOUT + x.d.maxBufferSize
    BY <2>1
  <2>3. QED
    BY <2>1, <2>2
<1> DEFINE y == LZ4F_updateDict(a, x, x.o, n, within)
<1>3. CASE x.d.dictSize = 0
  <2> DEFINE x1 == Dict(x, x.o, 0)
             z == [x1 EXCEPT !.d.dictSize = @ + n]
  <2>1. /\ Rearranged(x, x1) /\ x1.m = x.m /\ x1.d.tmpOut = x.d.tmpOut
        /\ x1.d.dict = x.o /\ x1.d.dictSize = 0 /\ x1.d.dict # TMPOUT
        /\ Found(x1.m, x1.d, h) /\ Given(x1.d, x.o, a, w, keep)
    BY <1>3, Begins
  <2>2. Always(x1, a, keep) /\ x1.d.dict # NULL
    <3> HIDE DEF x1
    <3> QED BY <1>1, <2>1, RearrangedAlways DEF NULL
  <2>3. /\ Rearranged(x1, z) /\ z.m = x1.m /\ z.d.tmpOut = x1.d.tmpOut
        /\ z.d.dict = x1.d.dict /\ z.d.dictSize = x1.d.dictSize + n
    <3> HIDE DEF x1
    <3> QED BY <2>2, Extends
  <2>4. y = z
    <3>1. x1.d.dict + x1.d.dictSize = x.o
      <4> HIDE DEF x1
      <4> QED BY <1>1, <2>1
    <3>2. QED
      BY <1>3, <3>1 DEF LZ4F_updateDict
  <2> HIDE DEF x1, z, y
  <2>5. Found(z.m, z.d, g) /\ Given(z.d, x.o + n, a, v, keep)
    <3>1. x1.d.dict \in Nat /\ x1.d.dictSize \in Nat /\ x1.d.dict + x1.d.dictSize = x.o
      BY <1>1, <2>1
    <3>2. Found(x.m, x1.d, h) /\ x.o \in Int /\ a.dst \in Int
      BY <1>1, <2>1
    <3>3. Found(x.m, z.d, g) /\ Given(z.d, x.o + n, a, v, keep)
      BY <1>1, <2>1, <2>3, <3>1, <3>2, Continued
    <3>4. QED
      BY <2>1, <2>3, <3>3
  <2>6. Rearranged(x, z)
    BY <2>1, <2>3, RearrangedTwice
  <2>7. QED
    BY <2>1, <2>3, <2>4, <2>5, <2>6 DEF y
<1>4. CASE x.d.dictSize # 0 /\ x.d.dict + x.d.dictSize = x.o
  <2> DEFINE z == [x EXCEPT !.d.dictSize = @ + n]
  <2>1. x.d.dict # TMPOUT /\ x.d.dict # NULL
    <3>1. x.d.dict # TMPOUT
      BY <1>4, NotInTmp
    <3>2. x.d.dict # NULL
      BY <1>4, Facts
    <3>3. QED
      BY <3>1, <3>2
  <2>2. Found(x.m, x.d, h) /\ Given(x.d, x.o, a, w, keep)
    BY <2>1 DEF Outside
  <2>3. /\ Rearranged(x, z) /\ z.m = x.m /\ z.d.tmpOut = x.d.tmpOut
        /\ z.d.dict = x.d.dict /\ z.d.dictSize = x.d.dictSize + n
    BY <2>1, Extends
  <2>4. y = z
    BY <1>4 DEF LZ4F_updateDict
  <2> HIDE DEF z, y
  <2>5. Found(z.m, z.d, g) /\ Given(z.d, x.o + n, a, v, keep)
    <3>1. x.o \in Int /\ a.dst \in Int
      BY <1>1
    <3>2. Found(x.m, z.d, g) /\ Given(z.d, x.o + n, a, v, keep)
      BY <1>1, <1>4, <2>2, <2>3, <3>1, Continued
    <3>3. QED
      BY <2>3, <3>2
  <2>6. QED
    BY <2>1, <2>3, <2>4, <2>5 DEF y
<1>5. CASE /\ x.d.dictSize # 0 /\ x.d.dict + x.d.dictSize # x.o
           /\ x.o - a.dst + n >= KB64
  <2> DEFINE sofar == x.o - a.dst + n
             z == Dict(x, a.dst, sofar)
  <2>1. sofar \in Nat /\ a.dst # TMPOUT
    BY <1>1, <1>2
  <2>2. /\ Rearranged(x, z) /\ z.m = x.m /\ z.d.tmpOut = x.d.tmpOut
        /\ z.d.dict = a.dst /\ z.d.dictSize = sofar
    <3> HIDE DEF sofar
    <3> QED BY <1>1, <2>1, DictSet
  <2>3. y = z
    BY <1>5 DEF LZ4F_updateDict
  <2> HIDE DEF z, y
  <2>4. Found(z.m, z.d, g) /\ Given(z.d, x.o + n, a, v, keep)
    <3>1. x.o \in Int /\ a.dst \in Int
      BY <1>1
    <3>2. Found(x.m, z.d, g) /\ Given(z.d, x.o + n, a, v, keep)
      BY <1>1, <1>5, <2>2, <3>1, InDestination
    <3>3. QED
      BY <2>2, <3>2
  <2>5. QED
    BY <2>1, <2>2, <2>3, <2>4 DEF y
<1>6. QED
  BY <1>3, <1>4, <1>5

LEMMA Appends ==
  ASSUME NEW x, NEW a, NEW keep, Always(x, a, keep), x.d.dict = TMPOUT,
         NEW n \in Nat, x.d.dictSize + n <= x.d.maxBufferSize, NEW src, NEW o \in Int,
         NEW h, NEW g, Later(g, h, src, o, n),
         NEW k \in Nat, k <= x.d.dictSize, Ends(x.m, TMPOUT + x.d.dictSize, h, k),
         Len(g) <= k + n, Len(g) = Least(x.d.dictSize + n, KB64)
  PROVE  LET y == Dict(ToTmp(x, TMPOUT + x.d.dictSize, Read(src, o, n)), TMPOUT, x.d.dictSize + n)
         IN  /\ Rearranged(x, y) /\ y.d.tmpOut = x.d.tmpOut /\ y.d.dict = TMPOUT
             /\ y.d.dictSize <= y.d.maxBufferSize /\ Found(y.m, y.d, g)
<1>1. /\ Allocated(x.d) /\ DOMAIN x.m = Addresses /\ x.d.dict \in Nat /\ x.d.dictSize \in Nat
  BY Facts
<1>2. /\ TMPOUT \in Nat /\ TMPOUT # NULL /\ x.d.maxBufferSize \in Nat
      /\ TMPOUT .. TMPOUT + x.d.maxBufferSize \subseteq Addresses
  BY <1>1, Bounds
<1> DEFINE c == x.d.dictSize
           r == Read(src, o, n)
           z == ToTmp(x, TMPOUT + c, r)
           y == Dict(z, TMPOUT, c + n)
<1>3. Len(r) = n
  BY ReadIs
<1>4. Rearranged(x, z) /\ z.d = x.d /\ z.m = Write(x.m, TMPOUT + c, r)
  <2> HIDE DEF r
  <2>0. c \in Nat /\ c + n <= x.d.maxBufferSize /\ TMPOUT \in Nat /\ x.d.maxBufferSize \in Nat
    BY <1>1, <1>2
  <2>1. /\ TMPOUT + c >= TMPOUT /\ (TMPOUT + c) + Len(r) <= TMPOUT + x.d.maxBufferSize
        /\ TMPOUT + c \in Nat /\ Len(r) \in Nat
    BY ONLY <1>3, <2>0, n \in Nat, SMTT(30)
  <2>2. QED
    BY <2>1, TmpWritten
<1>5. Always(z, a, keep)
  <2> HIDE DEF z
  <2> QED BY <1>4, RearrangedAlways
<1>6. /\ Rearranged(z, y) /\ y.m = z.m /\ y.d.tmpOut = z.d.tmpOut
      /\ y.d.dict = TMPOUT /\ y.d.dictSize = c + n
  <2>1. c + n \in Nat
    BY <1>1
  <2> HIDE DEF z
  <2> QED BY <1>2, <1>5, <2>1, DictSet
<1>7. Rearranged(x, y)
  <2> HIDE DEF y, z
  <2> QED BY <1>4, <1>6, RearrangedTwice
<1> HIDE DEF y, z
<1>8. Found(Write(x.m, TMPOUT + c, Read(src, o, n)), y.d, g)
  <2>1. TMPOUT .. TMPOUT + c + n \subseteq Addresses
    <3> DEFINE most == x.d.maxBufferSize
    <3>1. c \in Nat /\ most \in Nat /\ TMPOUT \in Nat /\ c + n <= most
      BY <1>1, <1>2
    <3> HIDE DEF c, most
    <3>2. TMPOUT .. TMPOUT + c + n \subseteq TMPOUT .. TMPOUT + most
      BY ONLY <3>1, n \in Nat
    <3>3. QED
      BY <1>2, <3>2 DEF most
  <2>2. c \in Nat
    BY <1>1
  <2> HIDE DEF c
  <2>3. QED
    BY ONLY <1>1, <1>6, <2>1, <2>2, n \in Nat, o \in Int, Later(g, h, src, o, n), k \in Nat,
            k <= c, Ends(x.m, TMPOUT + c, h, k), Len(g) <= k + n, Len(g) = Least(c + n, KB64),
            AppendedInTmp DEF c
<1>9. y.d.dictSize <= y.d.maxBufferSize
  BY <1>6, <1>7 DEF Rearranged, SameFrame
<1>10. QED
  BY <1>4, <1>6, <1>7, <1>8, <1>9 DEF y, z, r

\* Between blocks.
LEMMA UpdatesDict ==
  ASSUME NEW x, NEW a, NEW keep, Always(x, a, keep), a.dst # NULL,
         NEW n \in Nat, x.o + n <= a.end, 2 * KB64 <= x.d.maxBufferSize,
         NEW h, NEW w, Remembered(h, w),
         LinkedHistory(x.m, x.d, x.o, a, h, w, keep), Recent(x.m, x.o, a, h, w),
         NEW g, NEW v, Later(g, h, x.m, x.o, n), LaterAt(v, w, x.o, n)
  PROVE  LET y == LZ4F_updateDict(a, x, x.o, n, FALSE)
         IN  /\ Rearranged(x, y) /\ y.d.tmpOut = x.d.tmpOut
             /\ LinkedHistory(y.m, y.d, x.o + n, a, g, v, keep)
             /\ Recent(y.m, x.o + n, a, g, v)
<1>1. /\ x.o \in Nat /\ a.dst \in Nat /\ a.dst <= x.o /\ x.d.dict \in Nat /\ x.d.dictSize \in Nat
      /\ Allocated(x.d)
  BY Facts
<1>2. KB64 \in Nat /\ x.d.maxBufferSize \in Nat /\ TMPOUT \in Nat
  BY <1>1, Bounds
<1>3. /\ Found(x.m, x.d, h)
      /\ x.d.dict = TMPOUT => x.d.dictSize <= x.d.maxBufferSize
      /\ Outside(x.m, x.d, x.o, a, h, w, keep)
  BY DEF LinkedHistory, Outside
<1>4. /\ Len(h) \in Nat /\ Len(h) = Least(x.d.dictSize, KB64) /\ Len(g) = Least(Len(h) + n, KB64)
      /\ Len(g) \in Nat
  BY <1>3 DEF Found, Later, Remembered, IsSeq
<1> DEFINE y == LZ4F_updateDict(a, x, x.o, n, FALSE)
           Same == x.d.dictSize = 0 \/ x.d.dict + x.d.dictSize = x.o \/ x.o - a.dst + n >= KB64
<1>5. ASSUME /\ Rearranged(x, y) /\ y.d.tmpOut = x.d.tmpOut
             /\ LinkedHistory(y.m, y.d, x.o + n, a, g, v, keep)
      PROVE  /\ Rearranged(x, y) /\ y.d.tmpOut = x.d.tmpOut
             /\ LinkedHistory(y.m, y.d, x.o + n, a, g, v, keep)
             /\ Recent(y.m, x.o + n, a, g, v)
  <2> HIDE DEF y
  <2> QED BY <1>5, StillRecent
<1>6. CASE Same
  <2>1. /\ Rearranged(x, y) /\ y.d.tmpOut = x.d.tmpOut /\ y.d.dict # TMPOUT
        /\ Found(y.m, y.d, g) /\ Given(y.d, x.o + n, a, v, keep)
    BY <1>3, <1>6, UpdatesOutside
  <2> HIDE DEF y
  <2>2. QED
    BY <1>5, <2>1 DEF LinkedHistory, y
<1>7. CASE ~Same /\ x.d.dict = TMPOUT /\ x.d.dictSize + n <= x.d.maxBufferSize
  <2> DEFINE z == Dict(ToTmp(x, TMPOUT + x.d.dictSize, Read(x.m, x.o, n)), TMPOUT, x.d.dictSize + n)
  <2>1. y = z
    BY <1>7 DEF LZ4F_updateDict
  <2>2. /\ Len(h) <= x.d.dictSize /\ Len(g) <= Len(h) + n /\ Len(g) = Least(x.d.dictSize + n, KB64)
    BY <1>1, <1>2, <1>4 DEF Least
  <2>3. Ends(x.m, TMPOUT + x.d.dictSize, h, Len(h))
    BY <1>3, <1>7 DEF Found
  <2>4. /\ Rearranged(x, z) /\ z.d.tmpOut = x.d.tmpOut /\ z.d.dict = TMPOUT
        /\ z.d.dictSize <= z.d.maxBufferSize /\ Found(z.m, z.d, g)
    BY <1>1, <1>4, <1>7, <2>2, <2>3, Appends
  <2> HIDE DEF y, z
  <2>5. QED
    BY <1>5, <2>1, <2>4 DEF LinkedHistory, y
<1>8. CASE ~Same /\ ~(x.d.dict = TMPOUT /\ x.d.dictSize + n <= x.d.maxBufferSize)
  <2> DEFINE c == Min({KB64 - n, x.d.dictSize})
             x1 == KeepLast(x, c)
             z == Dict(ToTmp(x1, TMPOUT + x1.d.dictSize, Read(x.m, x.o, n)), TMPOUT, x1.d.dictSize + n)
  <2>1. y = z
    BY <1>8, ZenonT(30) DEF LZ4F_updateDict
  <2>2. c = Least(KB64 - n, x.d.dictSize)
    BY <1>1, <1>2, MinTwo
  <2>3. /\ c \in Nat /\ c <= x.d.dictSize /\ c <= KB64 /\ c + n <= x.d.maxBufferSize
        /\ c <= x.d.maxBufferSize
        /\ Len(g) <= c + n /\ Len(g) = Least(c + n, KB64)
    <3> HIDE DEF c
    <3>1. n < KB64
      BY <1>1, <1>2, <1>8
    <3>2. /\ c \in Nat /\ c <= x.d.dictSize /\ c <= KB64 /\ c + n <= KB64
          /\ c + n = Least(x.d.dictSize + n, KB64)
      BY <1>1, <1>2, <2>2, <3>1 DEF Least
    <3>3. Len(g) = Least(x.d.dictSize + n, KB64)
      BY <1>1, <1>2, <1>4 DEF Least
    <3>4. Least(c + n, KB64) = c + n
      BY <1>2, <3>2 DEF Least
    <3>5. QED
      BY <1>2, <3>1, <3>2, <3>3, <3>4
  <2>4. /\ Rearranged(x, x1) /\ x1.d.tmpOut = x.d.tmpOut /\ x1.d.dict = TMPOUT /\ x1.d.dictSize = c
        /\ Ends(x1.m, TMPOUT + c, h, c)
    <3> HIDE DEF c
    <3> QED BY <1>3, <2>3, Moves
  <2>5. Always(x1, a, keep) /\ x1.d.maxBufferSize = x.d.maxBufferSize
    <3> HIDE DEF x1
    <3> QED BY <2>4, RearrangedAlways DEF Rearranged, SameFrame
  <2>6. /\ Rearranged(x1, z) /\ z.d.tmpOut = x1.d.tmpOut /\ z.d.dict = TMPOUT
        /\ z.d.dictSize <= z.d.maxBufferSize /\ Found(z.m, z.d, g)
    <3>1. c <= c /\ x.o \in Int
      BY <1>1, <2>3
    <3> HIDE DEF c, x1
    <3>2. QED
      BY <2>3, <2>4, <2>5, <3>1, Appends
  <2> HIDE DEF x1, z, y
  <2>7. Rearranged(x, z)
    BY <2>4, <2>6, RearrangedTwice
  <2>8. QED
    BY <1>5, <2>1, <2>4, <2>6, <2>7 DEF LinkedHistory, y
<1>9. QED
  BY <1>6, <1>7, <1>8

-----------------------------------------------------------------------------
(* A block that went to tmpOutBuffer goes out.                             *)

LEMMA StillInside ==
  ASSUME NEW x, IsCall(x), x.inside = TRUE, NEW b, b = TRUE
  PROVE  [x EXCEPT !.inside = @ /\ b] = x
<1> DEFINE y == [x EXCEPT !.inside = @ /\ b]
<1>1. y = [f \in CallFields |-> y[f]]
  BY DEF IsCall, CallFields
<1>2. \A f \in CallFields : y[f] = x[f]
  BY DEF IsCall, CallFields
<1>3. QED
  BY <1>1, <1>2 DEF IsCall

\* What a flush of a frame with linked blocks starts from.
Flushing(x) ==
  /\ x.d.info.linked /\ Placed(x.d)
  /\ x.d.maxBlockSize \in Nat /\ x.d.maxBlockSize + 2 * KB64 <= x.d.maxBufferSize

LEMMA FlushFacts ==
  ASSUME NEW x, NEW a, NEW keep, Always(x, a, keep), Flushing(x)
  PROVE  /\ x.d.tmpOut \in Nat /\ x.d.tmpOutSize \in Nat /\ x.d.tmpOutStart \in Nat /\ KB64 \in Nat
         /\ x.d.tmpOut - TMPOUT \in Nat /\ x.d.tmpOut - TMPOUT <= 2 * KB64 /\ TMPOUT \in Nat
         /\ x.d.tmpOutStart <= x.d.tmpOutSize /\ x.d.maxBufferSize \in Nat
         /\ x.d.tmpOut + x.d.tmpOutSize <= TMPOUT + x.d.maxBufferSize
         /\ InFront(x.d) \in Nat /\ InFront(x.d) <= x.d.tmpOut - TMPOUT
         /\ InFront(x.d) > 0 => InFront(x.d) + x.d.tmpOutSize <= KB64
         /\ InFront(x.d) + x.d.tmpOutSize >= Least(x.d.tmpOut - TMPOUT + x.d.tmpOutSize, KB64)
<1>1. Allocated(x.d)
  BY Facts
<1>2. x.d.maxBufferSize \in Nat /\ TMPOUT \in Nat /\ KB64 \in Nat
  BY <1>1, Bounds
<1>3. /\ x.d.tmpOut \in TMPOUT .. TMPOUT + 2 * KB64 /\ x.d.tmpOutSize \in 0 .. x.d.maxBlockSize
      /\ x.d.tmpOutStart \in 0 .. x.d.tmpOutSize
  BY DEF Flushing, Placed, Window
<1>4. x.d.maxBlockSize \in Nat /\ x.d.maxBlockSize + 2 * KB64 <= x.d.maxBufferSize
  BY DEF Flushing
<1>5. /\ x.d.tmpOut \in Nat /\ x.d.tmpOutSize \in Nat /\ x.d.tmpOutStart \in Nat
      /\ x.d.tmpOut - TMPOUT \in Nat /\ x.d.tmpOut - TMPOUT <= 2 * KB64
      /\ x.d.tmpOutStart <= x.d.tmpOutSize
      /\ x.d.tmpOut + x.d.tmpOutSize <= TMPOUT + x.d.maxBufferSize
  BY <1>2, <1>3, <1>4
<1>6. /\ InFront(x.d) \in Nat /\ InFront(x.d) <= x.d.tmpOut - TMPOUT
      /\ InFront(x.d) > 0 => InFront(x.d) + x.d.tmpOutSize <= KB64
      /\ InFront(x.d) + x.d.tmpOutSize >= Least(x.d.tmpOut - TMPOUT + x.d.tmpOutSize, KB64)
  BY <1>2, <1>5 DEF InFront, Least, Most
<1>7. QED
  BY <1>2, <1>5, <1>6

\* The history before e is that of a block's first s bytes at tmp, and may go in front.
MayMove(mem, tmp, size, s, copy, e, h) ==
  /\ tmp \in Nat /\ size \in Nat /\ s \in Nat /\ s <= size
  /\ copy \in Nat /\ copy <= tmp /\ e \in Nat /\ Len(h) \in Nat
  /\ Ends(mem, e, h, Len(h)) /\ Ends(mem, tmp + s, h, Least(s, Len(h)))
  /\ copy > 0 => copy + s <= Len(h)
  /\ \A q \in tmp - copy .. tmp + size - 1 : q \in DOMAIN mem

\* The history before the block is put in front of it.
LEMMA EndsInFront ==
  ASSUME NEW mem, NEW tmp, NEW size, NEW s, NEW copy, NEW e, NEW h,
         MayMove(mem, tmp, size, s, copy, e, h),
         NEW m2, m2 = Write(mem, tmp - copy, Read(mem, (e - s) - copy, copy))
  PROVE  /\ Ends(m2, tmp + s, h, Least(Len(h), s + copy))
         /\ \A q \in tmp .. tmp + size - 1 : m2[q] = mem[q]
<1>0. /\ tmp \in Nat /\ size \in Nat /\ s \in Nat /\ s <= size
      /\ copy \in Nat /\ copy <= tmp /\ e \in Nat /\ Len(h) \in Nat
      /\ Ends(mem, e, h, Len(h)) /\ Ends(mem, tmp + s, h, Least(s, Len(h)))
      /\ copy > 0 => copy + s <= Len(h)
      /\ \A q \in tmp - copy .. tmp + size - 1 : q \in DOMAIN mem
  BY DEF MayMove
<1> USE <1>0
<1> DEFINE at == tmp - copy
           from == (e - s) - copy
           r == Read(mem, from, copy)
<1>1. /\ Len(r) = copy
      /\ \A k \in 1 .. copy : r[k] = mem[from + k - 1]
  <2>1. from \in Int
    OBVIOUS
  <2> HIDE DEF from
  <2>2. QED
    BY <2>1, ReadIs
<1>2. \A q \in DOMAIN mem : m2[q] = IF q \in at .. at + copy - 1 THEN r[q - at + 1] ELSE mem[q]
  <2>1. at \in Int /\ m2 = Write(mem, at, r)
    OBVIOUS
  <2> HIDE DEF at, r
  <2>2. \A q \in DOMAIN mem :
          Write(mem, at, r)[q] = IF q \in at .. at + Len(r) - 1 THEN r[q - at + 1] ELSE mem[q]
    BY <2>1, WriteIs
  <2>3. QED
    BY ONLY <1>1, <2>1, <2>2
<1> HIDE DEF r
<1>3. ASSUME NEW q \in tmp .. tmp + size - 1
      PROVE  m2[q] = mem[q]
  <2>1. q \in at .. tmp + size - 1 /\ ~(q \in at .. at + copy - 1)
    OBVIOUS
  <2>2. QED
    BY <1>2, <2>1
<1>4. ASSUME NEW j \in 1 .. copy
      PROVE  m2[tmp - j] = Back(h, s + j)
  <2>1. /\ tmp - j \in at .. tmp + size - 1 /\ tmp - j \in at .. at + copy - 1
        /\ (tmp - j) - at + 1 = copy + 1 - j /\ copy + 1 - j \in 1 .. copy
        /\ from + (copy + 1 - j) - 1 = e - (s + j) /\ s + j \in 1 .. Len(h)
    OBVIOUS
  <2>2. m2[tmp - j] = r[copy + 1 - j]
    BY <1>2, <2>1
  <2>3. mem[e - (s + j)] = Back(h, s + j)
    BY <2>1 DEF Ends
  <2>4. QED
    BY <1>1, <2>1, <2>2, <2>3
<1>5. ASSUME NEW j \in 1 .. Least(Len(h), s + copy)
      PROVE  m2[(tmp + s) - j] = Back(h, j)
  <2>0. j <= Len(h) /\ j <= s + copy /\ j \in Nat /\ j >= 1
    BY DEF Least
  <2>1. CASE j <= s
    <3>1. j \in 1 .. Least(s, Len(h)) /\ (tmp + s) - j \in tmp .. tmp + size - 1
      BY <2>0, <2>1 DEF Least
    <3>2. mem[(tmp + s) - j] = Back(h, j)
      BY <3>1 DEF Ends
    <3>3. QED
      BY <1>3, <3>1, <3>2
  <2>2. CASE ~(j <= s)
    <3>1. j - s \in 1 .. copy /\ tmp - (j - s) = (tmp + s) - j /\ s + (j - s) = j
      BY <2>0, <2>2
    <3>2. QED
      BY <1>4, <3>1
  <2>3. QED
    BY <2>1, <2>2
<1>6. QED
  BY <1>3, <1>5 DEF Ends

LEMMA MovesInFront ==
  ASSUME NEW x, NEW a, NEW keep, Always(x, a, keep), Flushing(x),
         NEW h, Found(x.m, x.d, h),
         Len(h) = Least(x.d.tmpOut - TMPOUT + x.d.tmpOutStart, KB64),
         Ends(x.m, x.d.tmpOut + x.d.tmpOutStart, h, Least(x.d.tmpOutStart, Len(h))),
         NEW more \in Nat
  PROVE  LET y == InFrontOfTmp(x, more)
         IN  /\ Rearranged(x, y) /\ y.d.tmpOut = x.d.tmpOut /\ y.d.dict = TMPOUT
             /\ y.d.dictSize = x.d.tmpOut - TMPOUT + x.d.tmpOutStart + more
             /\ Ends(y.m, x.d.tmpOut + x.d.tmpOutStart, h, Least(Len(h), x.d.tmpOutStart + InFront(x.d)))
             /\ \A q \in x.d.tmpOut .. x.d.tmpOut + x.d.tmpOutSize - 1 : y.m[q] = x.m[q]
<1> DEFINE tmp == x.d.tmpOut
           size == x.d.tmpOutSize
           s == x.d.tmpOutStart
           p == x.d.dict
           n == x.d.dictSize
           top == TMPOUT + x.d.maxBufferSize
           front == InFront(x.d)
           preserve == tmp - TMPOUT
           copy == Min({preserve, Max({KB64 - size, 0})})
           old == p + n - s
           r == Read(x.m, old - copy, copy)
           at == TMPOUT + preserve - copy
           b == copy = 0 \/ copy <= n - s
           z == ToTmp(x, at, r)
           z2 == [z EXCEPT !.inside = @ /\ b]
           y == Dict(z2, TMPOUT, preserve + s + more)
<1>0. InFrontOfTmp(x, more) = y
  BY Zenon DEF InFrontOfTmp
<1>1. /\ Allocated(x.d) /\ DOMAIN x.m = Addresses /\ p \in Nat /\ n \in Nat
  BY Facts
<1>2. /\ TMPOUT \in Nat /\ TMPOUT # NULL /\ top \in Nat
      /\ \A q \in TMPOUT .. top : q \in Addresses
  BY <1>1, Bounds
<1>3. /\ tmp \in Nat /\ size \in Nat /\ s \in Nat /\ KB64 \in Nat
      /\ preserve \in Nat /\ preserve <= 2 * KB64 /\ s <= size
      /\ tmp + size <= top /\ tmp = TMPOUT + preserve
      /\ front \in Nat /\ front <= preserve
      /\ (front > 0 => front + size <= KB64)
  BY FlushFacts
<1>4. copy = front
  <2>1. Max({KB64 - size, 0}) = Most(KB64 - size, 0)
    BY <1>3, MaxTwo, SMTT(30)
  <2>2. preserve \in Int /\ Most(KB64 - size, 0) \in Int
    BY <1>3 DEF Most
  <2>3. QED
    BY <2>1, <2>2, MinTwo DEF InFront
<1>5. /\ Len(h) = Least(n, KB64) /\ Ends(x.m, p + n, h, Len(h)) /\ Len(h) = Least(preserve + s, KB64)
      /\ Ends(x.m, tmp + s, h, Least(s, Len(h)))
  BY DEF Found
<1>6. top = TMPOUT + x.d.maxBufferSize
  OBVIOUS
<1>7. /\ r = Read(x.m, old - copy, copy) /\ old = p + n - s /\ at = TMPOUT + preserve - copy
      /\ b = (copy = 0 \/ copy <= n - s)
  OBVIOUS
<1>8. z = ToTmp(x, at, r) /\ z2 = [z EXCEPT !.inside = @ /\ b] /\ y = Dict(z2, TMPOUT, preserve + s + more)
  OBVIOUS
<1> HIDE DEF y, z2, z, b, at, r, old, copy, preserve, front, top, n, p, s, size, tmp
<1>9. Len(h) \in Nat /\ (copy > 0 => copy + s <= Len(h)) /\ Len(h) <= n
  BY ONLY <1>1, <1>3, <1>4, <1>5 DEF Least
<1>10. b = TRUE /\ copy \in Nat /\ copy <= preserve /\ old = (p + n) - s /\ old - copy \in Int
  <2>1. copy \in Nat /\ copy <= preserve
    BY ONLY <1>3, <1>4
  <2>2. copy = 0 \/ copy <= n - s
    BY ONLY <1>1, <1>3, <1>9, <2>1
  <2>3. b = TRUE
    BY ONLY <1>7, <2>2
  <2>4. old = (p + n) - s /\ old - copy \in Int
    BY ONLY <1>1, <1>3, <1>7, <2>1
  <2>5. QED
    BY <2>1, <2>3, <2>4
<1>11. Len(r) = copy
  BY ONLY <1>7, <1>10, ReadIs
<1>12. /\ at \in Nat /\ at >= TMPOUT /\ at + Len(r) <= top /\ Len(r) \in Nat /\ at = tmp - copy
       /\ copy <= tmp /\ preserve + s + more \in Nat
  BY ONLY <1>2, <1>3, <1>7, <1>10, <1>11, more \in Nat
<1>13. Rearranged(x, z) /\ z.d = x.d /\ z.m = Write(x.m, at, r)
  BY <1>6, <1>8, <1>12, TmpWritten
<1>14. Always(z, a, keep) /\ IsCall(z) /\ z.inside = TRUE
  BY <1>13, RearrangedAlways DEF Rearranged, SameCall
<1>15. z2 = z
  BY <1>8, <1>10, <1>14, StillInside
<1>16. /\ Rearranged(z, y) /\ y.m = z.m /\ y.d.tmpOut = z.d.tmpOut
       /\ y.d.dict = TMPOUT /\ y.d.dictSize = preserve + s + more
  BY <1>2, <1>8, <1>12, <1>14, <1>15, DictSet
<1>17. Rearranged(x, y)
  BY <1>13, <1>16, RearrangedTwice
<1>18. /\ Ends(y.m, tmp + s, h, Least(Len(h), s + copy))
       /\ \A q \in tmp .. tmp + size - 1 : y.m[q] = x.m[q]
  <2>1. \A q \in tmp - copy .. tmp + size - 1 : q \in TMPOUT .. top
    BY ONLY <1>2, <1>3, <1>10
  <2>2. \A q \in tmp - copy .. tmp + size - 1 : q \in DOMAIN x.m
    BY <1>1, <1>2, <2>1
  <2>3. y.m = Write(x.m, tmp - copy, Read(x.m, ((p + n) - s) - copy, copy)) /\ p + n \in Nat
    BY <1>1, <1>7, <1>10, <1>12, <1>13, <1>16
  <2> DEFINE e == p + n
             m2 == y.m
             mem == x.m
  <2>4. MayMove(mem, tmp, size, s, copy, e, h)
    BY <1>3, <1>5, <1>9, <1>10, <1>12, <2>2, <2>3 DEF MayMove
  <2>5. /\ Ends(m2, tmp + s, h, Least(Len(h), s + copy))
        /\ \A q \in tmp .. tmp + size - 1 : m2[q] = mem[q]
    <3>1. m2 = Write(mem, tmp - copy, Read(mem, (e - s) - copy, copy))
      BY <2>3
    <3> HIDE DEF e, m2, mem
    <3>2. QED
      BY ONLY <2>4, <3>1, EndsInFront
  <2>6. QED
    BY <2>5 DEF m2, mem
<1>19. /\ y.d.tmpOut = tmp /\ y.d.dictSize = tmp - TMPOUT + s + more
  BY <1>13, <1>16 DEF tmp, preserve
<1>20. QED
  BY <1>0, <1>4, <1>16, <1>17, <1>18, <1>19 DEF tmp, s, size, front

\* A block that is in tmpOut goes on where it is.
LEMMA ExtendsInside ==
  ASSUME NEW x, NEW a, NEW keep, Always(x, a, keep), NEW n \in Nat, x.d.dict # NULL,
         x.d.dict + x.d.dictSize = x.d.tmpOut + x.d.tmpOutStart
  PROVE  LET y == [x EXCEPT !.d.dictSize = @ + n,
                            !.inside = @ /\ x.d.dict + x.d.dictSize = x.d.tmpOut + x.d.tmpOutStart]
         IN  /\ Rearranged(x, y) /\ y.m = x.m /\ y.d.tmpOut = x.d.tmpOut
             /\ y.d.dict = x.d.dict /\ y.d.dictSize = x.d.dictSize + n
<1> DEFINE z == [x EXCEPT !.d.dictSize = @ + n]
           b == x.d.dict + x.d.dictSize = x.d.tmpOut + x.d.tmpOutStart
<1>0. b = TRUE
  OBVIOUS
<1> HIDE DEF b
<1>1. /\ Rearranged(x, z) /\ z.m = x.m /\ z.d.tmpOut = x.d.tmpOut
      /\ z.d.dict = x.d.dict /\ z.d.dictSize = x.d.dictSize + n
  BY Extends
<1>2. [x EXCEPT !.d.dictSize = @ + n, !.inside = @ /\ b] = [z EXCEPT !.inside = @ /\ b]
  BY DEF Always, IsCall, CallFields
<1> HIDE DEF z
<1>3. [z EXCEPT !.inside = @ /\ b] = z
  BY <1>0, <1>1, StillInside DEF Rearranged, SameCall
<1>4. QED
  BY <1>1, <1>2, <1>3 DEF b

\* The block's own bytes are at hand in tmpOut, its history in front of it.
MayFlush(mem, before, s, n, tmp, front, src, o, h) ==
  /\ before \in Nat /\ s \in Nat /\ n \in Nat /\ front \in Nat /\ front <= before /\ tmp \in Nat
  /\ o \in Int /\ Len(h) \in Nat /\ Len(h) = Least(before + s, KB64)
  /\ Ends(mem, tmp + s, h, Least(s, Len(h)))
  /\ \A j \in 1 .. n : mem[(tmp + s) + n - j] = src[o + n - j]

LEMMA FlushedOn ==
  ASSUME NEW mem, NEW before, NEW s, NEW n, NEW tmp, NEW front, NEW src, NEW o, NEW h,
         MayFlush(mem, before, s, n, tmp, front, src, o, h),
         NEW g, Later(g, h, src, o, n)
  PROVE  /\ Len(g) = Least(before + (s + n), KB64)
         /\ Ends(mem, tmp + (s + n), g, Least(s + n, Len(g)))
         /\ Ends(mem, tmp + s, h, Least(Len(h), s + front)) =>
              Ends(mem, tmp + (s + n), g, Least(Len(g), (s + n) + front))
<1>0. /\ before \in Nat /\ s \in Nat /\ n \in Nat /\ front \in Nat /\ front <= before /\ tmp \in Nat
      /\ o \in Int /\ Len(h) \in Nat /\ Len(h) = Least(before + s, KB64)
      /\ Ends(mem, tmp + s, h, Least(s, Len(h)))
      /\ \A j \in 1 .. n : mem[(tmp + s) + n - j] = src[o + n - j]
  BY DEF MayFlush
<1> USE <1>0
<1>1. KB64 \in Nat /\ Len(g) \in Nat /\ Len(g) = Least(Len(h) + n, KB64)
  BY ReadingAssumption DEF Later, IsSeq
<1>2. /\ Len(g) = Least(before + (s + n), KB64) /\ Len(g) <= Len(h) + n
      /\ Least(s, Len(h)) \in Nat /\ Least(Len(h), s + front) \in Nat
      /\ Least(s + n, Len(g)) \in Nat /\ Least(Len(g), (s + n) + front) \in Nat
      /\ Least(s + n, Len(g)) <= Least(s, Len(h)) + n
      /\ Least(s + n, Len(g)) <= Len(g) /\ Least(Len(g), (s + n) + front) <= Len(g)
      /\ Least(Len(g), (s + n) + front) <= Least(Len(h), s + front) + n
  BY <1>1 DEF Least
<1> DEFINE e == tmp + s
           f == tmp + (s + n)
<1>3. e \in Int /\ f = e + n
  OBVIOUS
<1>4. \A j \in 1 .. n : mem[e + n - j] = src[o + n - j]
  OBVIOUS
<1>5. Ends(mem, e, h, Least(s, Len(h)))
  OBVIOUS
<1> HIDE DEF e, f
<1>6. Ends(mem, f, g, Least(s + n, Len(g)))
  BY ONLY <1>0, Later(g, h, src, o, n), <1>2, <1>3, <1>4, <1>5, EndsGrow
<1>7. ASSUME Ends(mem, e, h, Least(Len(h), s + front))
      PROVE  Ends(mem, f, g, Least(Len(g), (s + n) + front))
  BY ONLY <1>0, Later(g, h, src, o, n), <1>2, <1>3, <1>4, <1>7, EndsGrow
<1>8. QED
  BY <1>2, <1>6, <1>7 DEF e, f

\* While a block goes out.
LEMMA UpdatesTmp ==
  ASSUME NEW x, NEW a, NEW keep, Always(x, a, keep), Flushing(x), a.dst # NULL,
         NEW n \in Nat, x.o + n <= a.end, x.d.tmpOutStart + n <= x.d.tmpOutSize,
         NEW h, NEW w, Remembered(h, w),
         FlushHistory(x.m, x.d, x.o, a, h, w, keep), Recent(x.m, x.o, a, h, w),
         \A j \in 1 .. n : x.m[(x.d.tmpOut + x.d.tmpOutStart) + n - j] = x.m[x.o + n - j],
         NEW g, NEW v, Later(g, h, x.m, x.o, n), LaterAt(v, w, x.o, n),
         NEW y, y = LZ4F_updateDict(a, x, x.o, n, TRUE),
         NEW e, e.dict = y.d.dict, e.dictSize = y.d.dictSize, e.tmpOut = x.d.tmpOut,
         e.tmpOutSize = x.d.tmpOutSize, e.tmpOutStart = x.d.tmpOutStart + n
  PROVE  /\ Rearranged(x, y) /\ y.d.tmpOut = x.d.tmpOut
         /\ FlushHistory(y.m, e, x.o + n, a, g, v, keep)
         /\ Recent(y.m, x.o + n, a, g, v)
<1> DEFINE tmp == x.d.tmpOut
           size == x.d.tmpOutSize
           s == x.d.tmpOutStart
           before == tmp - TMPOUT
           front == InFront(x.d)
           top == TMPOUT + x.d.maxBufferSize
           o == x.o
           p == x.d.dict
           k == x.d.dictSize
           dst == a.dst
<1>1. /\ o \in Nat /\ dst \in Nat /\ dst <= o /\ p \in Nat /\ k \in Nat /\ Allocated(x.d)
  BY Facts
<1>2. /\ tmp \in Nat /\ size \in Nat /\ s \in Nat /\ KB64 \in Nat /\ TMPOUT \in Nat
      /\ before \in Nat /\ s <= size /\ x.d.maxBufferSize \in Nat
      /\ tmp + size <= top /\ tmp = TMPOUT + before /\ before = tmp - TMPOUT
      /\ front \in Nat /\ front <= before /\ s + n <= size /\ top = TMPOUT + x.d.maxBufferSize
  BY FlushFacts
<1>3. TMPOUT # NULL
  BY <1>1, Bounds
<1>4. /\ Len(h) = Least(before + s, KB64) /\ Len(h) \in Nat
      /\ Ends(x.m, tmp + s, h, Least(s, Len(h)))
      /\ p = TMPOUT => k = before + s /\ Ends(x.m, tmp + s, h, Least(Len(h), s + front))
      /\ Outside(x.m, x.d, o, a, h, w, keep)
  <2>1. before + s \in Nat /\ TMPOUT + (before + s) = tmp + s
    BY <1>2
  <2>2. Len(h) \in Nat
    BY DEF Remembered, IsSeq
  <2>3. QED
    BY <2>1, <2>2 DEF FlushHistory
<1>5. InFront(e) = front /\ e.tmpOut - TMPOUT = before
  BY DEF InFront
<1>6. /\ x.d.tmpOut = tmp /\ x.d.tmpOutSize = size /\ x.d.tmpOutStart = s /\ x.o = o
      /\ InFront(x.d) = front /\ x.d.dict = p /\ x.d.dictSize = k /\ a.dst = dst
      /\ e.tmpOut = tmp /\ e.tmpOutStart = s + n
      /\ \A j \in 1 .. n : x.m[(tmp + s) + n - j] = x.m[o + n - j]
  OBVIOUS
<1> HIDE DEF tmp, size, s, before, front, top, o, p, k, dst
<1>7. ASSUME Rearranged(x, y), y.d.tmpOut = x.d.tmpOut,
             \A q \in tmp .. tmp + size - 1 : y.m[q] = x.m[q],
             y.d.dict = TMPOUT => /\ y.d.dictSize = before + (s + n)
                                  /\ Ends(y.m, tmp + s, h, Least(Len(h), s + front)),
             Outside(y.m, y.d, o + n, a, g, v, keep)
      PROVE  /\ Rearranged(x, y) /\ y.d.tmpOut = x.d.tmpOut
             /\ FlushHistory(y.m, e, x.o + n, a, g, v, keep)
             /\ Recent(y.m, x.o + n, a, g, v)
  <2> DEFINE l == Least(s, Len(h))
  <2>1. Recent(y.m, x.o + n, a, g, v)
    BY <1>7, StillRecent
  <2>2. l \in Nat /\ l <= s
    BY <1>2, <1>4 DEF Least
  <2>3. Ends(x.m, tmp + s, h, l)
    BY <1>4
  <2> HIDE DEF l
  <2>4. /\ \A q \in (tmp + s) - l .. (tmp + s) - 1 : q \in tmp .. tmp + size - 1
        /\ \A j \in 1 .. n : (tmp + s) + n - j \in tmp .. tmp + size - 1
    BY ONLY <1>2, <2>2, n \in Nat
  <2>5. Ends(y.m, tmp + s, h, l)
    <3>1. tmp + s \in Int
      BY ONLY <1>2
    <3>2. \A q \in (tmp + s) - l .. (tmp + s) - 1 : y.m[q] = x.m[q]
      BY <1>7, <2>4
    <3>3. QED
      BY ONLY <2>2, <2>3, <3>1, <3>2, EndsAgree
  <2>6. \A j \in 1 .. n : y.m[(tmp + s) + n - j] = x.m[o + n - j]
    BY <1>6, <1>7, <2>4
  <2>7. Outside(y.m, e, o + n, a, g, v, keep)
    BY <1>7 DEF Outside, Found, Given
  <2>8. MayFlush(y.m, before, s, n, tmp, front, x.m, o, h)
    <3>1. o \in Int
      BY <1>1
    <3>2. QED
      BY <1>2, <1>4, <2>5, <2>6, <3>1 DEF MayFlush, l
  <2> DEFINE mem == x.m
             m2 == y.m
  <2>9. MayFlush(m2, before, s, n, tmp, front, mem, o, h) /\ Later(g, h, mem, o, n)
    BY <1>6, <2>8
  <2> HIDE DEF mem, m2
  <2>10. /\ Len(g) = Least(before + (s + n), KB64)
         /\ Ends(m2, tmp + (s + n), g, Least(s + n, Len(g)))
         /\ Ends(m2, tmp + s, h, Least(Len(h), s + front)) =>
              Ends(m2, tmp + (s + n), g, Least(Len(g), (s + n) + front))
    BY ONLY <2>9, FlushedOn
  <2>11. tmp + (s + n) = TMPOUT + (before + (s + n))
    BY ONLY <1>2, n \in Nat
  <2>12. e.dict = TMPOUT =>
           /\ e.dictSize = before + (s + n)
           /\ Ends(m2, TMPOUT + e.dictSize, g, Least(Len(g), (s + n) + front))
    BY <1>7, <2>10, <2>11 DEF m2
  <2>13. FlushHistory(m2, e, o + n, a, g, v, keep)
    BY <1>5, <1>6, <2>7, <2>10, <2>12 DEF FlushHistory, m2
  <2>14. QED
    BY <1>6, <1>7, <2>1, <2>13 DEF m2
<1> DEFINE Same == k = 0 \/ p + k = o \/ o - dst + n >= KB64
<1>8. CASE Same
  <2>1. p = TMPOUT => k <= x.d.maxBufferSize
    BY <1>2, <1>4, SMTT(30)
  <2>2. k = 0 => Found(x.m, x.d, h)
    <3>1. CASE p = TMPOUT /\ k = 0
      <4>1. Len(h) = 0 /\ Least(0, KB64) = 0
        BY <1>2, <1>4, <3>1 DEF Least
      <4>2. QED
        BY <1>6, <3>1, <4>1 DEF Found, Ends
    <3>2. CASE p # TMPOUT
      BY <1>4, <1>6, <3>2 DEF Outside
    <3>3. QED
      BY <3>1, <3>2
  <2>3. /\ Rearranged(x, y) /\ y.d.tmpOut = x.d.tmpOut /\ y.m = x.m /\ y.d.dict # TMPOUT
        /\ Found(y.m, y.d, g) /\ Given(y.d, o + n, a, v, keep)
    <3>1. /\ Outside(x.m, x.d, x.o, a, h, w, keep) /\ TRUE \in BOOLEAN
          /\ x.d.dict = TMPOUT => x.d.dictSize <= x.d.maxBufferSize
          /\ x.d.dictSize = 0 => Found(x.m, x.d, h)
          /\ x.d.dictSize = 0 \/ x.d.dict + x.d.dictSize = x.o \/ x.o - a.dst + n >= KB64
      BY <1>4, <1>6, <1>8, <2>1, <2>2
    <3> DEFINE z == LZ4F_updateDict(a, x, x.o, n, TRUE)
    <3>2. /\ Rearranged(x, z) /\ z.d.tmpOut = x.d.tmpOut /\ z.m = x.m /\ z.d.dict # TMPOUT
          /\ Found(z.m, z.d, g) /\ Given(z.d, x.o + n, a, v, keep)
      BY <3>1, UpdatesOutside
    <3>3. y = z
      OBVIOUS
    <3> HIDE DEF z
    <3>4. QED
      BY <1>6, <3>2, <3>3
  <2>4. Outside(y.m, y.d, o + n, a, g, v, keep)
    BY <2>3 DEF Outside
  <2>5. QED
    BY <1>7, <2>3, <2>4
<1>9. CASE ~Same /\ p = TMPOUT
  <2> DEFINE z == [x EXCEPT !.d.dictSize = @ + n,
                            !.inside = @ /\ x.d.dict + x.d.dictSize = x.d.tmpOut + x.d.tmpOutStart]
  <2>1. y = z
    BY <1>6, <1>9, ZenonT(30) DEF LZ4F_updateDict
  <2>2. x.d.dict + x.d.dictSize = x.d.tmpOut + x.d.tmpOutStart
    <3>1. p + k = tmp + s
      BY <1>2, <1>4, <1>9
    <3>2. QED
      BY <1>6, <3>1
  <2>3. x.d.dict # NULL
    BY <1>3, <1>6, <1>9
  <2>4. /\ Rearranged(x, z) /\ z.m = x.m /\ z.d.tmpOut = x.d.tmpOut
        /\ z.d.dict = x.d.dict /\ z.d.dictSize = x.d.dictSize + n
    BY <2>2, <2>3, ExtendsInside
  <2> HIDE DEF z
  <2>5. y.d.dictSize = before + (s + n)
    <3>1. z.d.dictSize = k + n /\ k = before + s
      BY <1>4, <1>6, <1>9, <2>4
    <3>2. z.d.dictSize = before + (s + n)
      BY ONLY <1>2, <3>1, n \in Nat
    <3>3. QED
      BY <2>1, <3>2
  <2>6. Outside(y.m, y.d, o + n, a, g, v, keep)
    BY <1>6, <1>9, <2>1, <2>4 DEF Outside
  <2>7. QED
    BY <1>4, <1>7, <1>9, <2>1, <2>4, <2>5, <2>6
<1>10. CASE ~Same /\ p # TMPOUT
  <2> DEFINE z == InFrontOfTmp(x, n)
  <2>1. y = z
    BY <1>6, <1>10 DEF LZ4F_updateDict
  <2>2. Found(x.m, x.d, h)
    BY <1>4, <1>6, <1>10 DEF Outside
  <2>3. /\ Rearranged(x, z) /\ z.d.tmpOut = x.d.tmpOut /\ z.d.dict = TMPOUT
        /\ z.d.dictSize = x.d.tmpOut - TMPOUT + x.d.tmpOutStart + n
        /\ Ends(z.m, x.d.tmpOut + x.d.tmpOutStart, h, Least(Len(h), x.d.tmpOutStart + InFront(x.d)))
        /\ \A q \in x.d.tmpOut .. x.d.tmpOut + x.d.tmpOutSize - 1 : z.m[q] = x.m[q]
    <3> HIDE DEF z
    <3>1. /\ Len(h) = Least(x.d.tmpOut - TMPOUT + x.d.tmpOutStart, KB64)
          /\ Ends(x.m, x.d.tmpOut + x.d.tmpOutStart, h, Least(x.d.tmpOutStart, Len(h)))
      BY <1>2, <1>4, <1>6
    <3>2. QED
      BY <2>2, <3>1, MovesInFront DEF z
  <2> HIDE DEF z
  <2>4. y.d.dictSize = before + (s + n)
    <3>1. z.d.dictSize = tmp - TMPOUT + s + n
      BY <1>6, <2>3
    <3>2. z.d.dictSize = before + (s + n)
      BY ONLY <1>2, <3>1, n \in Nat
    <3>3. QED
      BY <2>1, <3>2
  <2>5. Outside(y.m, y.d, o + n, a, g, v, keep)
    BY <2>1, <2>3, Zenon DEF Outside
  <2>6. QED
    BY <1>6, <1>7, <2>1, <2>3, <2>4, <2>5
<1>11. QED
  BY <1>8, <1>9, <1>10

\* The block is out.
LEMMA FlushedAll ==
  ASSUME NEW x, NEW a, NEW keep, Always(x, a, keep), Flushing(x),
         x.d.tmpOutStart = x.d.tmpOutSize, NEW o, NEW h, NEW w, Remembered(h, w),
         FlushHistory(x.m, x.d, o, a, h, w, keep)
  PROVE  LinkedHistory(x.m, x.d, o, a, h, w, keep)
<1> DEFINE before == x.d.tmpOut - TMPOUT
           front == InFront(x.d)
<1>1. /\ x.d.tmpOut \in Nat /\ x.d.tmpOutSize \in Nat /\ KB64 \in Nat /\ TMPOUT \in Nat
      /\ before \in Nat /\ x.d.maxBufferSize \in Nat
      /\ x.d.tmpOut + x.d.tmpOutSize <= TMPOUT + x.d.maxBufferSize
      /\ front + x.d.tmpOutSize >= Least(before + x.d.tmpOutSize, KB64) /\ front \in Nat
      /\ x.d.tmpOut = TMPOUT + before
  BY FlushFacts
<1>2. CASE x.d.dict = TMPOUT
  <2>1. /\ Len(h) = Least(before + x.d.tmpOutSize, KB64) /\ Len(h) \in Nat
        /\ x.d.dictSize = before + x.d.tmpOutSize
        /\ Ends(x.m, TMPOUT + x.d.dictSize, h, Least(Len(h), x.d.tmpOutSize + front))
    BY <1>2 DEF FlushHistory, Remembered, IsSeq
  <2> HIDE DEF before, front
  <2>2. Least(Len(h), x.d.tmpOutSize + front) = Len(h)
    BY <1>1, <2>1 DEF Least
  <2>3. x.d.dictSize <= x.d.maxBufferSize
    BY <1>1, <2>1
  <2>4. QED
    BY <1>2, <2>1, <2>2, <2>3 DEF LinkedHistory, Found
<1>3. CASE x.d.dict # TMPOUT
  BY <1>3 DEF FlushHistory, Outside, LinkedHistory
<1>4. QED
  BY <1>2, <1>3

-----------------------------------------------------------------------------
(* Writing to the destination leaves the history alone.                    *)

Spared(m1, m2, o, a, keep) == \A q \in TmpOut \cup keep \cup (a.dst .. o - 1) : m2[q] = m1[q]

LEMMA SparedOutside ==
  ASSUME NEW m1, NEW m2, NEW d, d.dict \in Nat, d.dictSize \in Nat, NEW o, NEW a, NEW keep,
         NEW h, NEW w, Remembered(h, w), Spared(m1, m2, o, a, keep),
         Outside(m1, d, o, a, h, w, keep)
  PROVE  Outside(m2, d, o, a, h, w, keep)
<1>1. Len(h) \in Nat /\ Len(w) = Len(h)
  BY DEF Remembered, IsSeq
<1>2. ASSUME d.dict # TMPOUT
      PROVE  Found(m2, d, h) /\ Given(d, o, a, w, keep)
  <2>1. Found(m1, d, h) /\ Given(d, o, a, w, keep)
    BY <1>2 DEF Outside
  <2>2. \A j \in 1 .. Len(w) : m2[Back(w, j)] = m1[Back(w, j)]
    BY <2>1 DEF Given, Spared
  <2>3. QED
    BY <1>1, <2>1, <2>2, FoundAgrees
<1>3. QED
  BY <1>2 DEF Outside

\* In tmpOutBuffer, from end - n on.
LEMMA SparedTmp ==
  ASSUME NEW m1, NEW m2, NEW o, NEW a, NEW keep, Spared(m1, m2, o, a, keep),
         NEW size \in Nat, TMPOUT .. TMPOUT + size \subseteq TmpOut, TMPOUT \in Nat,
         NEW e \in Nat, NEW n \in Nat, e - n >= TMPOUT, e <= TMPOUT + size,
         NEW h, Ends(m1, e, h, n)
  PROVE  Ends(m2, e, h, n)
<1>1. \A q \in e - n .. e - 1 : q \in TMPOUT .. TMPOUT + size
  OBVIOUS
<1>2. \A q \in e - n .. e - 1 : m2[q] = m1[q]
  BY <1>1 DEF Spared
<1>3. QED
  BY <1>2, EndsAgree

LEMMA SparedLinked ==
  ASSUME NEW m1, NEW m2, NEW d, d.dict \in Nat, d.dictSize \in Nat, Allocated(d),
         NEW o, NEW a, NEW keep, NEW h, NEW w, Remembered(h, w), Spared(m1, m2, o, a, keep),
         LinkedHistory(m1, d, o, a, h, w, keep)
  PROVE  LinkedHistory(m2, d, o, a, h, w, keep)
<1>1. /\ d.maxBufferSize \in Nat /\ TMPOUT \in Nat /\ KB64 \in Nat
      /\ TMPOUT .. TMPOUT + d.maxBufferSize \subseteq TmpOut
  BY Bounds
<1>2. CASE d.dict = TMPOUT
  <2>1. /\ Len(h) = Least(d.dictSize, KB64) /\ Ends(m1, TMPOUT + d.dictSize, h, Len(h))
        /\ d.dictSize <= d.maxBufferSize
    BY <1>2 DEF LinkedHistory, Found
  <2>2. /\ Len(h) \in Nat /\ TMPOUT + d.dictSize \in Nat /\ TMPOUT + d.dictSize - Len(h) >= TMPOUT
        /\ TMPOUT + d.dictSize <= TMPOUT + d.maxBufferSize
    BY <1>1, <2>1 DEF Least
  <2> DEFINE e == TMPOUT + d.dictSize
             n == Len(h)
  <2>3. Ends(m1, e, h, n) /\ e \in Nat /\ n \in Nat /\ e - n >= TMPOUT /\ e <= TMPOUT + d.maxBufferSize
    BY <1>1, <2>1, <2>2 DEF Least
  <2> HIDE DEF e, n
  <2>4. Ends(m2, e, h, n)
    BY <1>1, <2>3, SparedTmp
  <2>5. QED
    BY <1>2, <2>1, <2>4 DEF LinkedHistory, Found, e, n
<1>3. CASE d.dict # TMPOUT
  <2>1. Outside(m1, d, o, a, h, w, keep)
    BY <1>3 DEF LinkedHistory, Outside
  <2>2. Outside(m2, d, o, a, h, w, keep)
    BY <2>1, SparedOutside
  <2>3. QED
    BY <1>3, <2>2 DEF LinkedHistory, Outside
<1>4. QED
  BY <1>2, <1>3

LEMMA SparedFlush ==
  ASSUME NEW x, NEW a, NEW keep, Always(x, a, keep), Flushing(x), NEW m2, NEW o,
         NEW h, NEW w, Remembered(h, w), Spared(x.m, m2, o, a, keep),
         FlushHistory(x.m, x.d, o, a, h, w, keep)
  PROVE  FlushHistory(m2, x.d, o, a, h, w, keep)
<1> DEFINE d == x.d
           s == d.tmpOutStart
           before == d.tmpOut - TMPOUT
           front == InFront(d)
           m1 == x.m
<1>1. d.dict \in Nat /\ d.dictSize \in Nat /\ Allocated(d)
  BY Facts
<1>2. /\ d.maxBufferSize \in Nat /\ TMPOUT \in Nat
      /\ TMPOUT .. TMPOUT + d.maxBufferSize \subseteq TmpOut
  BY <1>1, Bounds
<1>3. /\ d.tmpOut \in Nat /\ d.tmpOutSize \in Nat /\ s \in Nat /\ KB64 \in Nat
      /\ before \in Nat /\ s <= d.tmpOutSize /\ d.tmpOut = TMPOUT + before
      /\ d.tmpOut + d.tmpOutSize <= TMPOUT + d.maxBufferSize
      /\ front \in Nat /\ front <= before
  BY FlushFacts
<1>4. /\ Len(h) = Least(before + s, KB64) /\ Len(h) \in Nat
      /\ Ends(m1, d.tmpOut + s, h, Least(s, Len(h)))
      /\ d.dict = TMPOUT => /\ d.dictSize = before + s
                            /\ Ends(m1, TMPOUT + d.dictSize, h, Least(Len(h), s + front))
      /\ Outside(m1, d, o, a, h, w, keep)
  BY DEF FlushHistory, Remembered, IsSeq
<1>5. Outside(m2, d, o, a, h, w, keep)
  BY <1>1, <1>4, SparedOutside
<1>6. Spared(m1, m2, o, a, keep)
  OBVIOUS
<1> HIDE DEF d, s, before, front, m1
<1>7. Ends(m2, d.tmpOut + s, h, Least(s, Len(h)))
  <2> DEFINE e == d.tmpOut + s
             n == Least(s, Len(h))
  <2>1. e \in Nat /\ n \in Nat /\ e - n >= TMPOUT /\ e <= TMPOUT + d.maxBufferSize /\ Ends(m1, e, h, n)
    BY <1>2, <1>3, <1>4 DEF Least
  <2> HIDE DEF e, n
  <2>2. Ends(m2, e, h, n)
    BY <1>2, <1>6, <2>1, SparedTmp
  <2>3. QED
    BY <2>2 DEF e, n
<1>8. ASSUME d.dict = TMPOUT
      PROVE  Ends(m2, TMPOUT + d.dictSize, h, Least(Len(h), s + front))
  <2> DEFINE e == TMPOUT + d.dictSize
             n == Least(Len(h), s + front)
  <2>1. e \in Nat /\ n \in Nat /\ e - n >= TMPOUT /\ e <= TMPOUT + d.maxBufferSize /\ Ends(m1, e, h, n)
    <3>1. d.dictSize = before + s /\ Ends(m1, e, h, n)
      BY <1>4, <1>8
    <3>2. e \in Nat /\ n \in Nat /\ e - n >= TMPOUT /\ e <= TMPOUT + d.maxBufferSize
      BY ONLY <1>2, <1>3, <1>4, <3>1 DEF Least, e, n
    <3>3. QED
      BY <3>1, <3>2
  <2> HIDE DEF e, n
  <2>2. Ends(m2, e, h, n)
    BY <1>2, <1>6, <2>1, SparedTmp
  <2>3. QED
    BY <2>2 DEF e, n
<1>9. QED
  BY <1>4, <1>5, <1>7, <1>8 DEF FlushHistory, d, s, before, front

LEMMA SparedRecent ==
  ASSUME NEW m1, NEW m2, NEW o \in Int, NEW a, a.dst \in Int, a.dst <= o, NEW keep,
         NEW h, NEW w, Remembered(h, w), Spared(m1, m2, o, a, keep), Recent(m1, o, a, h, w)
  PROVE  Recent(m2, o, a, h, w)
<1>1. Len(h) \in Nat
  BY DEF Remembered, IsSeq
<1>2. \A q \in a.dst .. o - 1 : m2[q] = m1[q]
  BY DEF Spared
<1>3. QED
  BY <1>1, <1>2, RecentAgrees

\* Only the memory changes, and only ahead of what has come out.
Wrote(x, y, s) ==
  /\ SameCall(x, y) /\ WellFormed(y.d) /\ y.inside = TRUE /\ y.m = Write(x.m, x.o, s)

LEMMA PutsOut ==
  ASSUME NEW x, NEW a, NEW keep, Always(x, a, keep), NEW s, Len(s) \in Nat, x.o + Len(s) <= a.end,
         NEW y, Wrote(x, y, s)
  PROVE  /\ Always(y, a, keep) /\ Spared(x.m, y.m, x.o, a, keep)
         /\ \A j \in 1 .. Len(s) : y.m[x.o + Len(s) - j] = s[Len(s) + 1 - j]
<1>0. IsCall(y) /\ SameCall(x, y) /\ WellFormed(y.d) /\ y.inside = TRUE /\ y.m = Write(x.m, x.o, s)
  BY DEF Wrote, SameCall
<1>1. /\ DOMAIN x.m = Addresses /\ x.o \in Nat /\ a.dst \in Nat /\ a.dst <= x.o
      /\ a.end \in Nat /\ x.o <= a.end
      /\ \A q \in a.dst .. a.end - 1 : q \in Addresses /\ q \notin keep
      /\ \A q \in a.dst .. a.end : q \notin TmpOut
      /\ \A q \in keep : q \in Addresses /\ q \notin TmpOut
      /\ Allocated(x.d)
  BY Facts
<1>2. TmpOut \subseteq Addresses
  BY <1>1, Bounds
<1>3. /\ DOMAIN y.m = Addresses
      /\ \A q \in Addresses : y.m[q] = IF q \in x.o .. x.o + Len(s) - 1 THEN s[q - x.o + 1] ELSE x.m[q]
  BY <1>0, <1>1, WriteIs
<1>4. Within(y, a, keep)
  BY <1>0 DEF Always, Within, SameCall
<1>5. Always(y, a, keep)
  BY <1>0, <1>3, <1>4 DEF Always
<1>6. ASSUME NEW q \in TmpOut \cup keep \cup (a.dst .. x.o - 1)
      PROVE  y.m[q] = x.m[q]
  <2>1. q \in Addresses
    <3>1. CASE q \in TmpOut
      BY <1>2, <3>1
    <3>2. CASE q \in keep
      BY <1>1, <3>2
    <3>3. CASE q \in a.dst .. x.o - 1
      <4>1. q \in a.dst .. a.end - 1
        BY <1>1, <3>3
      <4>2. QED
        BY <1>1, <4>1
    <3>4. QED
      BY <3>1, <3>2, <3>3
  <2>2. ASSUME q \in x.o .. x.o + Len(s) - 1
        PROVE  FALSE
    <3>1. q \in a.dst .. a.end /\ q \in a.dst .. a.end - 1 /\ ~(q \in a.dst .. x.o - 1)
      BY <1>1, <2>2
    <3>2. QED
      BY <1>1, <3>1
  <2>3. QED
    BY <1>3, <2>1, <2>2
<1>7. ASSUME NEW j \in 1 .. Len(s)
      PROVE  y.m[x.o + Len(s) - j] = s[Len(s) + 1 - j]
  <2> DEFINE q == x.o + Len(s) - j
  <2>1. q \in x.o .. x.o + Len(s) - 1 /\ q - x.o + 1 = Len(s) + 1 - j /\ q \in a.dst .. a.end - 1
    BY <1>1
  <2> HIDE DEF q
  <2>2. y.m[q] = s[Len(s) + 1 - j]
    BY <1>1, <1>3, <2>1
  <2>3. QED
    BY <2>2 DEF q
<1>8. QED
  BY <1>5, <1>6, <1>7 DEF Spared

-----------------------------------------------------------------------------
(* A block goes to tmpOutBuffer.                                           *)

LEMMA RecentStays ==
  ASSUME NEW x, NEW a, NEW keep, Always(x, a, keep), NEW h, NEW w, Remembered(h, w),
         Recent(x.m, x.o, a, h, w), NEW y, Rearranged(x, y)
  PROVE  Recent(y.m, x.o, a, h, w)
<1>1. /\ x.o \in Nat /\ a.dst \in Nat /\ a.dst <= x.o /\ a.end \in Nat /\ x.o <= a.end
      /\ \A q \in a.dst .. a.end - 1 : q \in Addresses
      /\ \A q \in a.dst .. a.end : q \notin TmpOut
  BY Facts
<1>2. ASSUME NEW q \in a.dst .. x.o - 1
      PROVE  y.m[q] = x.m[q]
  <2>1. q \in a.dst .. a.end - 1 /\ q \in a.dst .. a.end
    BY <1>1
  <2>2. QED
    BY <1>1, <2>1 DEF Rearranged
<1>3. Len(h) \in Nat /\ x.o \in Int /\ a.dst \in Int
  BY <1>1 DEF Remembered, IsSeq
<1>4. QED
  BY <1>1, <1>2, <1>3, RecentAgrees

LEMMA OutsideStays ==
  ASSUME NEW x, NEW y, Rearranged(x, y), y.d.dict = x.d.dict, y.d.dictSize = x.d.dictSize,
         NEW o, NEW a, NEW keep, NEW h, NEW w, Remembered(h, w), Outside(x.m, x.d, o, a, h, w, keep)
  PROVE  Outside(y.m, y.d, o, a, h, w, keep)
<1>1. Len(h) \in Nat /\ Len(w) = Len(h) /\ IsSeq(w)
  BY DEF Remembered, IsSeq
<1>2. ASSUME NEW j \in 1 .. Len(w)
      PROVE  y.m[Back(w, j)] = x.m[Back(w, j)]
  <2>1. Len(w) + 1 - j \in 1 .. Len(w)
    BY <1>1
  <2>2. Back(w, j) \in Addresses /\ Back(w, j) \notin TmpOut
    BY <2>1 DEF Remembered, Back
  <2>3. QED
    BY <2>2 DEF Rearranged
<1>3. ASSUME x.d.dict # TMPOUT
      PROVE  Found(y.m, y.d, h) /\ Given(y.d, o, a, w, keep)
  <2>1. Found(x.m, x.d, h) /\ Given(x.d, o, a, w, keep)
    BY <1>3 DEF Outside
  <2>2. Found(x.m, y.d, h) /\ Given(y.d, o, a, w, keep) /\ y.d.dict \in Nat /\ y.d.dictSize \in Nat
    BY <2>1 DEF Found, Given, Rearranged
  <2>3. QED
    BY <1>1, <1>2, <2>2, FoundAgrees
<1>4. QED
  BY <1>3 DEF Outside

LEMMA TmpOutSet ==
  ASSUME NEW x, NEW a, NEW keep, Always(x, a, keep), NEW p
  PROVE  LET y == [x EXCEPT !.d.tmpOut = p]
         IN  /\ Rearranged(x, y) /\ y.m = x.m /\ y.d.tmpOut = p
             /\ y.d.dict = x.d.dict /\ y.d.dictSize = x.d.dictSize
<1>1. /\ IsCall(x) /\ IsContext(x.d) /\ x.inside = TRUE /\ DOMAIN x.m = Addresses
      /\ x.d.dict \in Nat /\ x.d.dictSize \in Nat /\ (x.d.dict = NULL => x.d.dictSize = 0)
  BY Facts
<1> DEFINE y == [x EXCEPT !.d.tmpOut = p]
           e == [x.d EXCEPT !.tmpOut = p]
<1>2. SameCall(x, y) /\ y.m = x.m /\ y.inside = x.inside /\ y.d = e
  BY <1>1 DEF SameCall, IsCall, CallFields
<1>3. SameFrame(x.d, e) /\ e.tmpOut = p /\ e.dict = x.d.dict /\ e.dictSize = x.d.dictSize
  BY <1>1 DEF SameFrame, IsContext, ContextFields
<1> HIDE DEF y, e
<1>4. Rearranged(x, y)
  BY <1>1, <1>2, <1>3 DEF Rearranged
<1>5. QED
  BY <1>2, <1>3, <1>4 DEF y

\* Where the block goes, and what is before it.
Beside(d, h) ==
  /\ d.tmpOut \in TMPOUT .. TMPOUT + 2 * KB64
  /\ Len(h) = Least(d.tmpOut - TMPOUT, KB64)
  /\ d.dict = TMPOUT => d.dictSize = d.tmpOut - TMPOUT

LEMMA Places ==
  ASSUME NEW x, NEW a, NEW keep, Always(x, a, keep), x.d.info.linked,
         2 * KB64 <= x.d.maxBufferSize, NEW o, NEW h, NEW w, Remembered(h, w),
         LinkedHistory(x.m, x.d, o, a, h, w, keep)
  PROVE  LET y == PlaceTmp(x)
         IN  Rearranged(x, y) /\ LinkedHistory(y.m, y.d, o, a, h, w, keep) /\ Beside(y.d, h)
<1>1. /\ Allocated(x.d) /\ x.d.dict \in Nat /\ x.d.dictSize \in Nat
  BY Facts
<1>2. TMPOUT \in Nat /\ KB64 \in Nat /\ KB64 > 0 /\ x.d.maxBufferSize \in Nat
  BY <1>1, Bounds
<1>3. Found(x.m, x.d, h) /\ Len(h) = Least(x.d.dictSize, KB64)
  BY DEF LinkedHistory, Found
<1> DEFINE y == PlaceTmp(x)
<1>4. CASE x.d.dict # TMPOUT
  <2> DEFINE n == Min({x.d.dictSize, KB64})
             z == [x EXCEPT !.d.tmpOut = TMPOUT + n]
  <2>1. y = z
    BY <1>4 DEF PlaceTmp
  <2>2. n = Least(x.d.dictSize, KB64) /\ n \in Nat /\ n <= KB64
    BY <1>1, <1>2, MinTwo DEF Least
  <2>3. /\ Rearranged(x, z) /\ z.m = x.m /\ z.d.tmpOut = TMPOUT + n
        /\ z.d.dict = x.d.dict /\ z.d.dictSize = x.d.dictSize
    BY TmpOutSet
  <2> HIDE DEF y, z, n
  <2>4. LinkedHistory(z.m, z.d, o, a, h, w, keep)
    BY <1>4, <2>3 DEF LinkedHistory, Found, Given
  <2>5. TMPOUT + n \in TMPOUT .. TMPOUT + 2 * KB64 /\ (TMPOUT + n) - TMPOUT = n /\ Least(n, KB64) = n
    BY <1>2, <2>2 DEF Least
  <2>6. Beside(z.d, h)
    BY <1>3, <1>4, <2>2, <2>3, <2>5 DEF Beside
  <2>7. QED
    BY <2>1, <2>3, <2>4, <2>6 DEF y
<1>5. CASE x.d.dict = TMPOUT /\ ~(x.d.dictSize > 2 * KB64)
  <2> DEFINE z == [x EXCEPT !.d.tmpOut = TMPOUT + x.d.dictSize]
  <2>1. y = z
    BY <1>5 DEF PlaceTmp
  <2>2. /\ Rearranged(x, z) /\ z.m = x.m /\ z.d.tmpOut = TMPOUT + x.d.dictSize
        /\ z.d.dict = x.d.dict /\ z.d.dictSize = x.d.dictSize
    BY TmpOutSet
  <2> HIDE DEF y, z
  <2>3. LinkedHistory(z.m, z.d, o, a, h, w, keep)
    BY <1>5, <2>2 DEF LinkedHistory, Found, Rearranged, SameFrame
  <2>4. /\ TMPOUT + x.d.dictSize \in TMPOUT .. TMPOUT + 2 * KB64
        /\ (TMPOUT + x.d.dictSize) - TMPOUT = x.d.dictSize
    BY <1>1, <1>2, <1>5
  <2>5. Beside(z.d, h)
    BY <1>3, <2>2, <2>4 DEF Beside
  <2>6. QED
    BY <2>1, <2>2, <2>3, <2>5 DEF y
<1>6. CASE x.d.dict = TMPOUT /\ x.d.dictSize > 2 * KB64
  <2> DEFINE k == KeepLast(x, KB64)
             z == [k EXCEPT !.d.tmpOut = TMPOUT + k.d.dictSize]
  <2>1. y = z
    BY <1>6 DEF PlaceTmp
  <2>2. KB64 <= x.d.dictSize /\ KB64 <= x.d.maxBufferSize /\ KB64 <= KB64
    BY <1>1, <1>2, <1>6
  <2>3. /\ Rearranged(x, k) /\ k.d.dict = TMPOUT /\ k.d.dictSize = KB64
        /\ Ends(k.m, TMPOUT + KB64, h, KB64)
    BY <1>2, <1>3, <2>2, Moves
  <2> HIDE DEF k
  <2>4. Always(k, a, keep)
    BY <2>3, RearrangedAlways
  <2>5. /\ Rearranged(k, z) /\ z.m = k.m /\ z.d.tmpOut = TMPOUT + k.d.dictSize
        /\ z.d.dict = k.d.dict /\ z.d.dictSize = k.d.dictSize
    BY <2>4, TmpOutSet
  <2> HIDE DEF y, z
  <2>6. Rearranged(x, z)
    BY <2>3, <2>5, RearrangedTwice
  <2>7. Len(h) = KB64 /\ Least(KB64, KB64) = KB64
    BY <1>1, <1>2, <1>3, <2>2 DEF Least
  <2>8. z.d.maxBufferSize = x.d.maxBufferSize
    BY <2>6 DEF Rearranged, SameFrame
  <2>9. LinkedHistory(z.m, z.d, o, a, h, w, keep)
    BY <2>2, <2>3, <2>5, <2>7, <2>8 DEF LinkedHistory, Found
  <2>10. TMPOUT + KB64 \in TMPOUT .. TMPOUT + 2 * KB64 /\ (TMPOUT + KB64) - TMPOUT = KB64
    BY <1>2
  <2>11. Beside(z.d, h)
    BY <2>3, <2>5, <2>7, <2>10 DEF Beside
  <2>12. QED
    BY <2>1, <2>6, <2>9, <2>11 DEF y
<1>7. QED
  BY <1>4, <1>5, <1>6

\* The block is there, and its history where it was.
\* The n bytes of a block that are to go out are at the start of s, in tmpOutBuffer.
Buffered(x, y, s, n, e) ==
  /\ Len(s) \in Nat /\ Len(s) + 2 * KB64 <= x.d.maxBufferSize /\ n \in 0 .. Len(s)
  /\ y = ToTmp(x, x.d.tmpOut, s)
  /\ e.dict = y.d.dict /\ e.dictSize = y.d.dictSize /\ e.tmpOut = y.d.tmpOut
  /\ e.tmpOutSize = n /\ e.tmpOutStart = 0

LEMMA InTmp ==
  ASSUME NEW x, NEW a, NEW keep, Always(x, a, keep), NEW o, NEW h, NEW w, Remembered(h, w),
         LinkedHistory(x.m, x.d, o, a, h, w, keep), Beside(x.d, h),
         NEW y, NEW s, NEW n, NEW e, Buffered(x, y, s, n, e)
  PROVE  /\ Rearranged(x, y) /\ y.d = x.d
         /\ FlushHistory(y.m, e, o, a, h, w, keep)
<1> DEFINE tmp == x.d.tmpOut
           before == tmp - TMPOUT
           front == InFront(e)
           m1 == x.m
           m2 == y.m
           max == x.d.maxBufferSize
           size == Len(s)
<1>0. /\ size \in Nat /\ size + 2 * KB64 <= max /\ n \in 0 .. size
      /\ y = ToTmp(x, x.d.tmpOut, s)
      /\ e.dict = y.d.dict /\ e.dictSize = y.d.dictSize /\ e.tmpOut = y.d.tmpOut
      /\ e.tmpOutSize = n /\ e.tmpOutStart = 0
  BY DEF Buffered
<1>1. /\ Allocated(x.d) /\ x.d.dict \in Nat /\ x.d.dictSize \in Nat /\ DOMAIN m1 = Addresses
  BY Facts
<1>2. /\ TMPOUT \in Nat /\ KB64 \in Nat /\ max \in Nat
      /\ \A q \in TMPOUT .. TMPOUT + max : q \in Addresses
  BY <1>1, Bounds
<1>3. /\ tmp \in Nat /\ before \in Nat /\ before <= 2 * KB64 /\ tmp = TMPOUT + before
      /\ Len(h) = Least(before, KB64)
      /\ x.d.dict = TMPOUT => x.d.dictSize = before
  BY <1>2 DEF Beside
<1>4. tmp >= TMPOUT /\ tmp + Len(s) <= TMPOUT + x.d.maxBufferSize /\ Len(s) \in Nat
  <2>1. max = x.d.maxBufferSize /\ Len(s) = size
    OBVIOUS
  <2> HIDE DEF tmp, before, max, size
  <2>2. QED
    BY ONLY <1>0, <1>2, <1>3, <2>1
<1>5. Rearranged(x, y) /\ y.d = x.d /\ y.m = Write(x.m, tmp, s)
  <2> DEFINE z == ToTmp(x, tmp, s)
  <2>1. Rearranged(x, z) /\ z.d = x.d /\ z.m = Write(x.m, tmp, s)
    <3> HIDE DEF tmp
    <3> QED BY <1>3, <1>4, TmpWritten
  <2>2. y = z
    BY <1>0
  <2> HIDE DEF z, tmp
  <2>3. QED
    BY <2>1, <2>2
<1>6. e.tmpOut = tmp /\ front = Least(before, Most(KB64 - n, 0)) /\ e.tmpOut - TMPOUT = before
  BY <1>0, <1>5 DEF InFront
<1>7. front \in Nat /\ front <= before
  BY <1>0, <1>2, <1>3, <1>6 DEF Least, Most
<1> HIDE DEF before, front, tmp, m1, m2
<1>8. ASSUME NEW q \in TMPOUT .. tmp - 1
      PROVE  m2[q] = m1[q]
  <2>1. q \in TMPOUT .. TMPOUT + max /\ ~(q \in tmp .. tmp + Len(s) - 1) /\ tmp \in Int
    BY <1>2, <1>3, <1>4
  <2>2. q \in DOMAIN m1
    BY <1>1, <1>2, <2>1
  <2>3. QED
    BY <1>5, <2>1, <2>2, WriteIs DEF m1, m2
<1>9. ASSUME e.dict = TMPOUT
      PROVE  /\ e.dictSize = before + 0
             /\ Ends(m2, TMPOUT + e.dictSize, h, Least(Len(h), 0 + front))
  <2> DEFINE l == Least(Len(h), 0 + front)
  <2>1. x.d.dict = TMPOUT /\ e.dictSize = before /\ x.d.dictSize = before
    BY <1>0, <1>3, <1>5, <1>9
  <2>2. Ends(m1, tmp, h, Len(h))
    BY <1>3, <2>1 DEF LinkedHistory, Found, m1
  <2>3. l \in Nat /\ l <= Len(h) /\ l <= before /\ Len(h) \in Nat
    BY <1>2, <1>3, <1>7 DEF Least
  <2> HIDE DEF l
  <2>4. Ends(m1, tmp, h, l)
    BY <2>2, <2>3, EndsLess
  <2>5. \A q \in tmp - l .. tmp - 1 : q \in TMPOUT .. tmp - 1
    BY <1>2, <1>3, <2>3
  <2>6. \A q \in tmp - l .. tmp - 1 : m2[q] = m1[q]
    BY <1>8, <2>5
  <2>7. tmp \in Int
    BY <1>3
  <2>8. Ends(m2, tmp, h, l)
    BY <2>3, <2>4, <2>6, <2>7, EndsAgree
  <2>9. QED
    BY <1>3, <2>1, <2>8 DEF l
<1>10. Outside(m2, e, o, a, h, w, keep)
  <2>1. Outside(x.m, x.d, o, a, h, w, keep)
    BY DEF LinkedHistory, Outside
  <2>2. Outside(y.m, y.d, o, a, h, w, keep)
    BY <1>5, <2>1, OutsideStays
  <2>3. QED
    BY <1>0, <2>2 DEF Outside, Found, Given, m2
<1>11. Len(h) = Least(before + 0, KB64)
  BY <1>3
<1>12. Ends(m2, e.tmpOut + 0, h, Least(0, Len(h)))
  <2>1. Least(0, Len(h)) = 0
    BY <1>2, <1>3 DEF Least
  <2>2. QED
    BY <2>1 DEF Ends
<1>13. FlushHistory(m2, e, o, a, h, w, keep)
  BY <1>0, <1>6, <1>9, <1>10, <1>11, <1>12 DEF FlushHistory, front
<1>14. QED
  BY <1>5, <1>13 DEF m2

-----------------------------------------------------------------------------
(* Stages that put nothing out.                                            *)

\* The history stays, and what it lies in.
Kept(x, y) ==
  /\ IsCall(y) /\ y.m = x.m /\ y.o = x.o /\ y.inside = TRUE
  /\ IsContext(y.d) /\ y.d.info = x.d.info
  /\ y.d.maxBlockSize = x.d.maxBlockSize /\ y.d.maxBufferSize = x.d.maxBufferSize
  /\ y.d.room = x.d.room
  /\ y.d.dict = x.d.dict /\ y.d.dictSize = x.d.dictSize /\ y.d.tmpOut = x.d.tmpOut

LEMMA KeptTwice ==
  ASSUME NEW x, NEW y, NEW z, Kept(x, y), Kept(y, z)
  PROVE  Kept(x, z)
BY DEF Kept

\* What is stored of the input, and how far it is read.
Holds(y, a) ==
  /\ y.d.stored \in Seq(Wire) /\ y.d.target \in Nat /\ y.i \in 0 .. Len(a.src)

LEMMA KeptAlways ==
  ASSUME NEW x, NEW a, NEW keep, Always(x, a, keep), NEW y, Kept(x, y), Holds(y, a)
  PROVE  Always(y, a, keep)
<1>1. WellFormed(y.d)
  BY DEF Always, WellFormed, Kept, Holds, Allocated
<1>2. Within(y, a, keep)
  BY DEF Always, Within, Kept, Holds
<1>3. QED
  BY <1>1, <1>2 DEF Always, Kept

\* Nothing was written where it may not be.
Sound(x) == IsCall(x) /\ IsContext(x.d) /\ x.inside = TRUE

LEMMA SoundKept ==
  ASSUME NEW x, NEW y, Kept(x, y)
  PROVE  Sound(y)
BY DEF Kept, Sound

\* A stage is entered.
LEMMA Enters ==
  ASSUME NEW x, Sound(x), NEW s, NEW y, y = To(x, s)
  PROVE  /\ Kept(x, y) /\ y.d.dStage = s /\ y.go = x.go /\ y.i = x.i
         /\ y.d.stored = x.d.stored /\ y.d.target = x.d.target
<1> DEFINE e == [x.d EXCEPT !.dStage = s]
<1>1. /\ IsCall(y) /\ y.m = x.m /\ y.o = x.o /\ y.inside = TRUE /\ y.d = e /\ y.go = x.go /\ y.i = x.i
  BY DEF To, Sound, IsCall, CallFields
<1>2. /\ IsContext(e) /\ e.info = x.d.info /\ e.dStage = s
      /\ e.maxBlockSize = x.d.maxBlockSize /\ e.maxBufferSize = x.d.maxBufferSize
      /\ e.room = x.d.room /\ e.stored = x.d.stored /\ e.target = x.d.target
      /\ e.dict = x.d.dict /\ e.dictSize = x.d.dictSize /\ e.tmpOut = x.d.tmpOut
  BY DEF Sound, IsContext, ContextFields
<1> HIDE DEF e
<1>3. QED
  BY <1>1, <1>2 DEF Kept

\* It is left for the next call.
LEMMA Stops ==
  ASSUME NEW x, Sound(x), NEW hint, NEW y, y = Stop(x, hint)
  PROVE  Kept(x, y) /\ y.d = x.d /\ y.go = "stop" /\ y.i = x.i
BY DEF Stop, Kept, Sound, IsCall, CallFields

LEMMA Errs ==
  ASSUME NEW x, Sound(x), NEW code, NEW y, y = Err(x, code)
  PROVE  Kept(x, y) /\ y.d = x.d /\ y.go = code /\ y.i = x.i
BY DEF Err, Kept, Sound, IsCall, CallFields

\* What is ahead in the input.
LEMMA AheadIs ==
  ASSUME NEW a, a.src \in Seq(Wire), NEW x, x.i \in 0 .. Len(a.src), NEW n \in 0 .. Len(a.src) - x.i
  PROVE  Ahead(a, x, n) \in Seq(Wire) /\ Len(Ahead(a, x, n)) = n
<1> DEFINE l == Len(a.src)
<1>1. l \in Nat
  BY LenProperties
<1>2. x.i + 1 \in Int /\ x.i + n \in Int /\ \A k \in x.i + 1 .. x.i + n : k \in 1 .. l
  BY <1>1
<1>3. \A k \in x.i + 1 .. x.i + n : a.src[k] \in Wire
  BY <1>2, ElementOfSeq
<1>4. /\ SubSeq(a.src, x.i + 1, x.i + n) \in Seq(Wire)
      /\ Len(SubSeq(a.src, x.i + 1, x.i + n)) =
           IF x.i + 1 <= x.i + n THEN x.i + n - (x.i + 1) + 1 ELSE 0
  BY <1>2, <1>3, SubSeqProperties
<1>5. n \in Nat /\ x.i \in Nat
  BY <1>1
<1>6. (IF x.i + 1 <= x.i + n THEN x.i + n - (x.i + 1) + 1 ELSE 0) = n
  BY ONLY <1>5
<1>7. QED
  BY <1>4, <1>6 DEF Ahead

LEMMA StoreIs ==
  ASSUME NEW x, NEW a, NEW keep, Always(x, a, keep), NEW n \in Nat, Len(x.d.stored) <= n
  PROVE  LET y == Store(a, x, n)
         IN  /\ Kept(x, y) /\ Holds(y, a) /\ y.go = x.go
             /\ y.d.dStage = x.d.dStage /\ y.d.target = x.d.target
             /\ Len(y.d.stored) <= n /\ Len(x.d.stored) <= Len(y.d.stored)
             /\ \A k \in 1 .. Len(x.d.stored) : y.d.stored[k] = x.d.stored[k]
<1>1. /\ IsCall(x) /\ IsContext(x.d) /\ x.inside = TRUE /\ x.d.stored \in Seq(Wire)
      /\ x.d.target \in Nat /\ a.src \in Seq(Wire) /\ x.i \in 0 .. Len(a.src)
  BY DEF Always, WellFormed, Within
<1>2. Len(x.d.stored) \in Nat /\ Len(a.src) \in Nat
  BY <1>1, LenProperties
<1> DEFINE k == Min({n - Len(x.d.stored), Avail(a, x)})
           s == x.d.stored \o Ahead(a, x, k)
           y == Store(a, x, n)
           e == [x.d EXCEPT !.stored = s]
<1>3. k = Least(n - Len(x.d.stored), Len(a.src) - x.i)
  BY <1>1, <1>2, MinTwo, SMTT(30) DEF Avail
<1>4. k \in 0 .. Len(a.src) - x.i /\ k <= n - Len(x.d.stored)
  <2> HIDE DEF k
  <2> QED BY <1>1, <1>2, <1>3 DEF Least
<1>5. y = [x EXCEPT !.d.stored = s, !.i = @ + k]
  BY DEF Store
<1> HIDE DEF k
<1>6. Ahead(a, x, k) \in Seq(Wire) /\ Len(Ahead(a, x, k)) = k
  BY <1>1, <1>4, AheadIs
<1>7. /\ s \in Seq(Wire) /\ Len(s) = Len(x.d.stored) + k
      /\ \A j \in 1 .. Len(x.d.stored) : s[j] = x.d.stored[j]
  <2>1. /\ s \in Seq(Wire) /\ Len(s) = Len(x.d.stored) + Len(Ahead(a, x, k))
        /\ \A j \in 1 .. Len(x.d.stored) + Len(Ahead(a, x, k)) :
             s[j] = IF j <= Len(x.d.stored) THEN x.d.stored[j] ELSE Ahead(a, x, k)[j - Len(x.d.stored)]
    BY <1>1, <1>6, ConcatProperties
  <2> HIDE DEF s
  <2>2. QED
    BY <1>2, <1>4, <1>6, <2>1
<1> HIDE DEF s, y
<1>8. /\ IsCall(y) /\ y.m = x.m /\ y.o = x.o /\ y.inside = TRUE /\ y.d = e /\ y.go = x.go
      /\ y.i = x.i + k
  BY <1>1, <1>5 DEF IsCall, CallFields
<1>9. /\ IsContext(e) /\ e.info = x.d.info /\ e.dStage = x.d.dStage
      /\ e.maxBlockSize = x.d.maxBlockSize /\ e.maxBufferSize = x.d.maxBufferSize
      /\ e.room = x.d.room /\ e.stored = s /\ e.target = x.d.target
      /\ e.dict = x.d.dict /\ e.dictSize = x.d.dictSize /\ e.tmpOut = x.d.tmpOut
  BY <1>1 DEF IsContext, ContextFields
<1> HIDE DEF e
<1>10. y.i \in 0 .. Len(a.src) /\ Len(s) <= n /\ Len(x.d.stored) <= Len(s)
  <2>1. y.i = x.i + k /\ Len(s) = Len(x.d.stored) + k /\ x.i \in Nat
    BY <1>1, <1>7, <1>8
  <2>2. QED
    BY ONLY <1>2, <1>4, <2>1, n \in Nat
<1>11. QED
  BY <1>1, <1>7, <1>8, <1>9, <1>10 DEF Kept, Holds, y

\* What a turn must leave.
Over(x, y) == x.d.dStage \notin Early /\ y.d.dStage = "getFrameHeader"
HistAfter(x, y, h) ==
  IF Over(x, y) THEN <<>>
  ELSE IF x.d.info.linked THEN LastOf(h \o Read(y.m, x.o, y.o - x.o), KB64) ELSE h
WhereAfter(x, y, w) ==
  IF Over(x, y) THEN <<>>
  ELSE IF x.d.info.linked
  THEN LastOf(w \o [k \in 1 .. y.o - x.o |-> x.o + k - 1], KB64) ELSE w
Fine(y, a, h, w, keep) ==
  /\ Always(y, a, keep)
  /\ y.go \in {"go", "stop"} => Going(y, a, h, w, keep)
  /\ y.go = "stop" => y.d.dStage # "init"
Turned(x, y, a, h, w, keep) == Fine(y, a, HistAfter(x, y, h), WhereAfter(x, y, w), keep)

LEMMA NothingOut ==
  ASSUME NEW x, x.o \in Int, NEW y, y.o = x.o, ~Over(x, y), NEW h, NEW w, Remembered(h, w)
  PROVE  HistAfter(x, y, h) = h /\ WhereAfter(x, y, w) = w
<1> DEFINE g == LastOf(h \o Read(y.m, x.o, 0), KB64)
           v == LastOf(w \o [k \in 1 .. 0 |-> x.o + k - 1], KB64)
<1>1. y.o - x.o = 0
  OBVIOUS
<1>2. IsSeq(h) /\ IsSeq(w)
  BY DEF Remembered
<1>3. Later(g, h, y.m, x.o, 0)
  BY <1>2, HistoryGrows
<1>4. LaterAt(v, w, x.o, 0)
  BY <1>2, WhereGrows
<1> HIDE DEF g, v
<1>5. g = h /\ v = w
  BY <1>3, <1>4, NotGrown
<1>6. QED
  BY <1>1, <1>5 DEF HistAfter, WhereAfter, g, v

\* The input is wrong.
LEMMA Fails ==
  ASSUME NEW x, NEW a, NEW keep, Always(x, a, keep), NEW y, Kept(x, y), Holds(y, a),
         y.go \notin {"go", "stop"}, NEW h, NEW w
  PROVE  Turned(x, y, a, h, w, keep)
BY KeptAlways DEF Turned, Fine

LEMMA Continues ==
  ASSUME NEW x, NEW a, NEW h, NEW w, NEW keep, Always(x, a, keep), Going(x, a, h, w, keep),
         NEW y, Kept(x, y), Holds(y, a), Storing(y.d), x.go = "go",
         \/ x.d.dStage \in Early /\ y.d.dStage \in Early
         \/ x.d.dStage \in InBlocks /\ y.d.dStage \in InBlocks
         \/ y.d.dStage \in AtSuffix \cup Skips,
         y.go = "stop" => y.d.dStage # "init"
  PROVE  Turned(x, y, a, h, w, keep)
<1>1. Always(y, a, keep)
  BY KeptAlways
<1>2. Remembered(h, w)
  BY DEF Going, History
<1>3. x.o \in Int
  <2>1. x.o \in Nat
    BY ONLY Always(x, a, keep), Facts
  <2>2. QED
    BY ONLY <2>1
<1>4. ~Over(x, y)
  BY DEF Over, Early, InBlocks, AtSuffix, Skips
<1>5. HistAfter(x, y, h) = h /\ WhereAfter(x, y, w) = w
  BY <1>2, <1>3, <1>4, NothingOut DEF Kept
<1>6. y.m = x.m /\ y.o = x.o /\ y.d.info = x.d.info /\ y.d.dict = x.d.dict /\ y.d.dictSize = x.d.dictSize
      /\ y.d.tmpOut = x.d.tmpOut /\ y.d.maxBufferSize = x.d.maxBufferSize
  BY DEF Kept
<1>7. History(y, a, h, w, keep)
  <2>1. CASE x.d.dStage \in Early /\ y.d.dStage \in Early
    <3>1. x.o = a.dst /\ x.d.dict # TMPOUT /\ Outside(x.m, x.d, x.o, a, h, w, keep)
      BY <2>1 DEF Going, History
    <3>2. Outside(y.m, y.d, y.o, a, h, w, keep)
      BY <1>6, <3>1 DEF Outside, Found, Given
    <3>3. y.d.dStage \notin Data
      BY <2>1 DEF Early, Data, InBlocks
    <3>4. y.d.dStage \notin InBlocks /\ y.d.dStage # "flushOut"
      BY <3>3 DEF Data
    <3>5. QED
      BY <1>2, <1>6, <3>1, <3>2, <3>3, <3>4 DEF History
  <2>2. CASE x.d.dStage \in InBlocks /\ y.d.dStage \in InBlocks
    <3>1. /\ ~x.d.info.linked => x.d.dict # TMPOUT /\ Outside(x.m, x.d, x.o, a, h, w, keep)
                                 /\ x.d.tmpOut = TMPOUT
          /\ x.d.info.linked => LinkedHistory(x.m, x.d, x.o, a, h, w, keep) /\ Recent(x.m, x.o, a, h, w)
      BY <2>2 DEF Going, History, Data
    <3>2. /\ ~y.d.info.linked => y.d.dict # TMPOUT /\ Outside(y.m, y.d, y.o, a, h, w, keep)
                                 /\ y.d.tmpOut = TMPOUT
          /\ y.d.info.linked => LinkedHistory(y.m, y.d, y.o, a, h, w, keep) /\ Recent(y.m, y.o, a, h, w)
      BY <1>6, <3>1 DEF Outside, Found, Given, LinkedHistory
    <3>3. y.d.dStage \notin Early /\ y.d.dStage # "flushOut"
      BY <2>2 DEF Early, InBlocks
    <3>4. QED
      BY <1>2, <3>2, <3>3 DEF History
  <2>3. CASE y.d.dStage \in AtSuffix \cup Skips
    <3>1. y.d.dStage \notin Early /\ y.d.dStage \notin Data /\ y.d.dStage \notin InBlocks
          /\ y.d.dStage # "flushOut"
      BY <2>3 DEF Early, Data, InBlocks, AtSuffix, Skips
    <3>2. QED
      BY <1>2, <3>1 DEF History
  <2>4. QED
    BY <2>1, <2>2, <2>3
<1>8. QED
  BY <1>1, <1>5, <1>7 DEF Turned, Fine, Going

LEMMA LE32 ==
  ASSUME NEW b \in Seq(Wire), Len(b) >= 4
  PROVE  LZ4F_readLE32(b) \in Nat
<1>1. Len(b) \in Nat
  BY LenProperties
<1>2. b[1] \in Wire /\ b[2] \in Wire /\ b[3] \in Wire /\ b[4] \in Wire
  BY <1>1, ElementOfSeq
<1>3. b[1].v \in 0 .. 255 /\ b[2].v \in 0 .. 255 /\ b[3].v \in 0 .. 255 /\ b[4].v \in 0 .. 255
  BY <1>2, ReadingAssumption
<1> DEFINE p == b[1].v
           q == b[2].v
           r == b[3].v
           s == b[4].v
<1>4. LZ4F_readLE32(b) = p + 256 * q + 65536 * r + 16777216 * (s % 128)
  BY DEF LZ4F_readLE32
<1>5. p \in 0 .. 255 /\ q \in 0 .. 255 /\ r \in 0 .. 255 /\ s \in 0 .. 255
  BY <1>3
<1> HIDE DEF p, q, r, s
<1>6. s % 128 \in Nat
  BY ONLY <1>5
<1>7. p + 256 * q + 65536 * r + 16777216 * (s % 128) \in Nat
  BY ONLY <1>5, <1>6
<1>8. QED
  BY <1>4, <1>7

\* A frame is over.
LEMMA EndsFrame ==
  ASSUME NEW x0, x0.d.dStage \notin Early, NEW x, NEW a, NEW keep, Always(x, a, keep), NEW h, NEW w
  PROVE  Turned(x0, EndOfFrame(x), a, h, w, keep)
<1> DEFINE y == EndOfFrame(x)
           e == LZ4F_resetDecompressionContext(x.d)
<1>1. /\ IsCall(x) /\ WellFormed(x.d) /\ x.inside = TRUE /\ IsContext(x.d)
  BY DEF Always, WellFormed
<1>2. SameCall(x, [y EXCEPT !.go = x.go]) /\ IsCall(y) /\ y.m = x.m /\ y.inside = x.inside /\ y.d = e /\ y.go = "stop" /\ y.i = x.i /\ y.o = x.o
  BY <1>1 DEF EndOfFrame, Stop, SameCall, IsCall, CallFields
<1>3. /\ IsContext(e) /\ e.info = x.d.info /\ e.dStage = "getFrameHeader"
      /\ e.maxBufferSize = x.d.maxBufferSize
      /\ e.room = x.d.room /\ e.stored = x.d.stored /\ e.target = x.d.target
      /\ e.dict = NULL /\ e.dictSize = 0
  BY <1>1 DEF LZ4F_resetDecompressionContext, IsContext, ContextFields
<1> HIDE DEF y, e
<1>4. WellFormed(e)
  BY <1>1, <1>3 DEF WellFormed, Allocated, NULL
<1>5. Always(y, a, keep)
  BY <1>1, <1>2, <1>4 DEF Always, Within
<1>6. HistAfter(x0, y, h) = <<>> /\ WhereAfter(x0, y, w) = <<>>
  BY <1>2, <1>3 DEF HistAfter, WhereAfter, Over
<1>7. Storing(e)
  BY <1>3 DEF Storing, Early, Data, InBlocks, AtSuffix, Skips
<1>8. Len(<<>>) = 0 /\ IsSeq(<<>>) /\ KB64 \in Nat /\ TMPOUT # NULL
  BY <1>1, EmptySeq, OfSeq, ReadingAssumption, Bounds, ZenonT(30) DEF WellFormed
<1>9. Remembered(<<>>, <<>>)
  BY <1>8 DEF Remembered
<1>10. Outside(y.m, e, y.o, a, <<>>, <<>>, keep) /\ e.dict # TMPOUT
  BY <1>3, <1>8 DEF Outside, Found, Ends, Given, Least
<1>11. History(y, a, <<>>, <<>>, keep)
  BY <1>2, <1>3, <1>9, <1>10 DEF History, Early, Data, InBlocks
<1>12. QED
  BY <1>2, <1>3, <1>5, <1>6, <1>7, <1>11 DEF Turned, Fine, Going, y

\* The input is read.
LEMMA Reads ==
  ASSUME NEW x, NEW a, NEW keep, Always(x, a, keep), NEW n \in 0 .. Len(a.src) - x.i
  PROVE  LET y == [x EXCEPT !.i = @ + n]
         IN  Kept(x, y) /\ Holds(y, a) /\ y.d = x.d /\ y.go = x.go /\ y.i = x.i + n
<1>1. /\ IsCall(x) /\ IsContext(x.d) /\ x.inside = TRUE /\ x.d.stored \in Seq(Wire)
      /\ x.d.target \in Nat /\ a.src \in Seq(Wire) /\ x.i \in 0 .. Len(a.src)
  BY DEF Always, WellFormed, Within
<1>2. Len(a.src) \in Nat
  BY <1>1, LenProperties
<1> DEFINE y == [x EXCEPT !.i = @ + n]
<1>3. Kept(x, y) /\ y.d = x.d /\ y.go = x.go /\ y.i = x.i + n
  BY <1>1 DEF Kept, IsCall, CallFields
<1> HIDE DEF y
<1>4. x.i + n \in 0 .. Len(a.src)
  BY <1>1, <1>2
<1>5. QED
  BY <1>1, <1>3, <1>4 DEF Holds, y

LEMMA EmptyWire == <<>> \in Seq(Wire) /\ Len(<<>>) = 0
BY EmptySeq

LEMMA NotEmpty ==
  ASSUME NEW b, Len(b) = 4
  PROVE  b # <<>>
<1>1. ASSUME b = <<>> PROVE FALSE
  <2>1. Len(b) = 0
    BY <1>1, EmptyWire, Zenon
  <2>2. QED
    BY <2>1
<1>2. QED
  BY <1>1

\* What is stored begins anew.
Anew(x, s) == [x EXCEPT !.d.stored = <<>>, !.d.dStage = s]

LEMMA StartsStoring ==
  ASSUME NEW x, NEW a, NEW keep, Always(x, a, keep), NEW s
  PROVE  LET y == Anew(x, s)
         IN  /\ Kept(x, y) /\ Holds(y, a) /\ y.go = x.go /\ y.i = x.i
             /\ y.d.dStage = s /\ y.d.stored = <<>> /\ y.d.target = x.d.target
<1>1. /\ IsCall(x) /\ IsContext(x.d) /\ x.inside = TRUE
      /\ x.d.target \in Nat /\ x.i \in 0 .. Len(a.src)
  BY DEF Always, WellFormed, Within
<1> DEFINE y == Anew(x, s)
           e == [x.d EXCEPT !.stored = <<>>, !.dStage = s]
<1>2. /\ IsCall(y) /\ y.m = x.m /\ y.o = x.o /\ y.inside = TRUE /\ y.d = e /\ y.go = x.go /\ y.i = x.i
  BY <1>1 DEF Anew, IsCall, CallFields
<1>3. /\ IsContext(e) /\ e.info = x.d.info /\ e.dStage = s
      /\ e.maxBlockSize = x.d.maxBlockSize /\ e.maxBufferSize = x.d.maxBufferSize
      /\ e.room = x.d.room /\ e.stored = <<>> /\ e.target = x.d.target
      /\ e.dict = x.d.dict /\ e.dictSize = x.d.dictSize /\ e.tmpOut = x.d.tmpOut
  BY <1>1 DEF IsContext, ContextFields
<1> HIDE DEF y, e
<1>4. QED
  BY <1>1, <1>2, <1>3, EmptyWire DEF Kept, Holds, y

LEMMA FourIs ==
  ASSUME NEW x, NEW a, NEW keep, Always(x, a, keep), x.go = "go",
         NEW store, x.d.dStage = store => Len(x.d.stored) <= 4
  PROVE  LET f == Four(a, x, store)
         IN  /\ Kept(x, f.x) /\ Holds(f.x, a) /\ f.x.d.target = x.d.target
             /\ f.b = <<>> => /\ f.x.d.dStage = store /\ Len(f.x.d.stored) <= 4
                              /\ f.x.go \in {"go", "stop"}
             /\ f.b # <<>> => /\ f.b \in Seq(Wire) /\ Len(f.b) = 4
                              /\ f.x.d.dStage = x.d.dStage /\ f.x.go = "go"
<1> DEFINE f == Four(a, x, store)
           y == Store(a, x, 4)
<1>1. /\ IsCall(x) /\ IsContext(x.d) /\ x.inside = TRUE /\ a.src \in Seq(Wire) /\ x.i \in 0 .. Len(a.src)
  BY DEF Always, WellFormed, Within
<1>2. Len(a.src) \in Nat
  BY <1>1, LenProperties
<1>3. CASE x.d.dStage = store
  <2>1. /\ Kept(x, y) /\ Holds(y, a) /\ y.go = x.go
        /\ y.d.dStage = x.d.dStage /\ y.d.target = x.d.target /\ Len(y.d.stored) <= 4
    <3>1. 4 \in Nat
      OBVIOUS
    <3> HIDE DEF y
    <3>2. QED
      BY <1>3, <3>1, StoreIs DEF y
  <2>2. f = IF Missing(y, 4) > 0 THEN NotReady(Stop(y, Missing(y, 4))) ELSE Ready(y, y.d.stored)
    BY <1>3 DEF Four
  <2> HIDE DEF f, y
  <2>3. y.d.stored \in Seq(Wire) /\ Len(y.d.stored) \in Nat
    BY <2>1, LenProperties DEF Holds
  <2>4. CASE Missing(y, 4) > 0
    <3> DEFINE z == Stop(y, Missing(y, 4))
    <3>1. f.x = z /\ f.b = <<>>
      BY <2>2, <2>4 DEF Ready, NotReady
    <3>2. Kept(y, z) /\ z.d = y.d /\ z.go = "stop" /\ z.i = y.i
      <4>1. Sound(y)
        BY <2>1, SoundKept
      <4>2. QED
        BY <4>1, Stops
    <3> HIDE DEF z
    <3>3. Kept(x, z) /\ Holds(z, a)
      BY <2>1, <3>2, KeptTwice DEF Holds
    <3>4. QED
      BY <1>3, <2>1, <3>1, <3>2, <3>3 DEF f
  <2>5. CASE ~(Missing(y, 4) > 0)
    <3>1. f.x = y /\ f.b = y.d.stored
      BY <2>2, <2>5 DEF Ready
    <3>2. Len(f.b) = 4 /\ f.b # <<>>
      <4> DEFINE l == Len(y.d.stored)
      <4>1. l \in Nat /\ l <= 4 /\ ~(4 - l > 0)
        BY <2>1, <2>3, <2>5 DEF Missing
      <4> HIDE DEF l
      <4>2. l = 4
        BY ONLY <4>1
      <4>3. Len(f.b) = 4
        BY <3>1, <4>2 DEF l
      <4>4. QED
        BY <4>3, NotEmpty
    <3>3. QED
      BY <2>1, <2>3, <3>1, <3>2 DEF f
  <2>6. QED
    BY <2>4, <2>5
<1>4. CASE x.d.dStage # store /\ Avail(a, x) >= 4
  <2> DEFINE z == [x EXCEPT !.i = @ + 4]
  <2>1. f.x = z /\ f.b = Ahead(a, x, 4)
    BY <1>4 DEF Four, Ready
  <2>2. 4 \in 0 .. Len(a.src) - x.i
    BY <1>1, <1>2, <1>4 DEF Avail
  <2>3. Kept(x, z) /\ Holds(z, a) /\ z.d = x.d /\ z.go = x.go
    BY <2>2, Reads
  <2>4. Ahead(a, x, 4) \in Seq(Wire) /\ Len(Ahead(a, x, 4)) = 4
    BY <1>1, <2>2, AheadIs
  <2> HIDE DEF f, z
  <2>5. f.b # <<>>
    BY <2>1, <2>4, NotEmpty
  <2>6. QED
    BY <2>1, <2>3, <2>4, <2>5 DEF f
<1>5. CASE x.d.dStage # store /\ ~(Avail(a, x) >= 4)
  <2> DEFINE z == Anew(x, store)
  <2>1. f.x = z /\ f.b = <<>>
    BY <1>5 DEF Four, Ready, NotReady, Anew
  <2>2. /\ Kept(x, z) /\ Holds(z, a) /\ z.go = x.go
        /\ z.d.dStage = store /\ z.d.stored = <<>> /\ z.d.target = x.d.target
    BY StartsStoring
  <2> HIDE DEF f, z
  <2>3. QED
    BY <2>1, <2>2, EmptyWire DEF f
<1>6. QED
  BY <1>3, <1>4, <1>5

LEMMA FlagIs == \A b : Flag(b) \in {0, 1}
BY DEF Flag

\* The header of a block, or the end of the blocks.
LEMMA TurnsBlockHeader ==
  ASSUME NEW x, NEW a, NEW h, NEW w, NEW keep, Always(x, a, keep), Going(x, a, h, w, keep),
         x.go = "go", x.d.dStage \in {"getBlockHeader", "storeBlockHeader"}
  PROVE  LET f == Four(a, x, "storeBlockHeader")
             y == IF f.b = <<>> THEN f.x ELSE BlockHeader(a, f.x, f.b)
         IN  Turned(x, y, a, h, w, keep)
<1> DEFINE f == Four(a, x, "storeBlockHeader")
           y == IF f.b = <<>> THEN f.x ELSE BlockHeader(a, f.x, f.b)
<1> SUFFICES Turned(x, y, a, h, w, keep)
  OBVIOUS
<1>1. Storing(x.d)
  BY DEF Going
<1>2. x.d.maxBlockSize \in BlockSizes /\ x.d.maxBlockSize + Window(x.d) <= x.d.maxBufferSize
  BY <1>1 DEF Storing, Data, InBlocks
<1>3. /\ Kept(x, f.x) /\ Holds(f.x, a) /\ f.x.d.target = x.d.target
      /\ f.b = <<>> => /\ f.x.d.dStage = "storeBlockHeader" /\ Len(f.x.d.stored) <= 4
                       /\ f.x.go \in {"go", "stop"}
      /\ f.b # <<>> => /\ f.b \in Seq(Wire) /\ Len(f.b) = 4
                       /\ f.x.d.dStage = x.d.dStage /\ f.x.go = "go"
  <2>1. x.d.dStage = "storeBlockHeader" => Len(x.d.stored) <= 4
    BY <1>1 DEF Storing
  <2>2. QED
    BY <2>1, FourIs
<1>4. x.d.dStage \in InBlocks
  BY DEF InBlocks
<1> HIDE DEF f
\* To every stage this leads to, the sizes of the frame are known.
<1>5. ASSUME NEW z, Kept(x, z), Holds(z, a),
             z.d.dStage \in {"storeBlockHeader", "getSuffix", "copyDirect", "getCBlock"},
             z.d.dStage = "storeBlockHeader" => Len(z.d.stored) <= 4,
             z.d.dStage = "getCBlock" => Crc(z.d) <= z.d.target /\ z.d.target <= z.d.maxBlockSize + Crc(z.d)
      PROVE  Turned(x, z, a, h, w, keep)
  <2>1. z.d.maxBlockSize \in BlockSizes /\ z.d.maxBlockSize + Window(z.d) <= z.d.maxBufferSize
    BY <1>2, <1>5 DEF Kept, Window
  <2>2. Storing(z.d)
    BY <1>5, <2>1 DEF Storing, Early, Data, InBlocks, AtSuffix, Skips
  <2>3. z.d.dStage \in InBlocks \cup AtSuffix /\ z.d.dStage # "init"
    BY <1>5 DEF InBlocks, AtSuffix
  <2>4. QED
    BY <1>4, <1>5, <2>2, <2>3, Continues
<1>6. CASE f.b = <<>>
  BY <1>3, <1>5, <1>6
<1>7. CASE f.b # <<>>
  <2>0. f.b \in Seq(Wire) /\ Len(f.b) = 4
    BY <1>3, <1>7
  <2> DEFINE g == f.x
             size == LZ4F_readLE32(f.b)
             crc == BFSize * Flag(g.d.info.blockSum)
             u == [g EXCEPT !.d.target = size + crc, !.d.dStage = "getCBlock"]
             v == [g EXCEPT !.d.target = size, !.d.block = <<>>, !.d.dStage = "copyDirect"]
  <2>1. /\ IsCall(g) /\ IsContext(g.d) /\ g.inside = TRUE /\ Kept(x, g) /\ Holds(g, a)
        /\ g.d.maxBlockSize = x.d.maxBlockSize
    BY <1>3 DEF Kept
  <2>2. size \in Nat
    <3>1. Len(f.b) >= 4 /\ f.b \in Seq(Wire)
      BY ONLY <2>0
    <3>2. QED
      BY ONLY <3>1, LE32
  <2>3. crc \in Nat /\ crc = Crc(g.d)
    BY FlagIs DEF Crc, BFSize
  <2> HIDE DEF size, crc
  <2>4. /\ Kept(g, u) /\ Holds(u, a) /\ u.d.dStage = "getCBlock" /\ u.d.target = size + crc
        /\ u.d.maxBlockSize = g.d.maxBlockSize /\ u.d.info = g.d.info
    <3> DEFINE e == [g.d EXCEPT !.target = size + crc, !.dStage = "getCBlock"]
    <3>1. /\ IsCall(u) /\ u.m = g.m /\ u.o = g.o /\ u.inside = TRUE /\ u.d = e /\ u.i = g.i
      BY <2>1 DEF IsCall, CallFields
    <3>2. /\ IsContext(e) /\ e.info = g.d.info /\ e.dStage = "getCBlock"
          /\ e.maxBlockSize = g.d.maxBlockSize /\ e.maxBufferSize = g.d.maxBufferSize
          /\ e.room = g.d.room /\ e.stored = g.d.stored /\ e.target = size + crc
          /\ e.dict = g.d.dict /\ e.dictSize = g.d.dictSize /\ e.tmpOut = g.d.tmpOut
      BY <2>1 DEF IsContext, ContextFields
    <3> HIDE DEF u, e
    <3>3. size + crc \in Nat
      BY <2>2, <2>3
    <3>4. QED
      BY <2>1, <3>1, <3>2, <3>3 DEF Kept, Holds
  <2>5. Kept(g, v) /\ Holds(v, a) /\ v.d.dStage = "copyDirect"
    <3> DEFINE e == [g.d EXCEPT !.target = size, !.block = <<>>, !.dStage = "copyDirect"]
    <3>1. /\ IsCall(v) /\ v.m = g.m /\ v.o = g.o /\ v.inside = TRUE /\ v.d = e /\ v.i = g.i
      BY <2>1 DEF IsCall, CallFields
    <3>2. /\ IsContext(e) /\ e.info = g.d.info /\ e.dStage = "copyDirect"
          /\ e.maxBlockSize = g.d.maxBlockSize /\ e.maxBufferSize = g.d.maxBufferSize
          /\ e.room = g.d.room /\ e.stored = g.d.stored /\ e.target = size
          /\ e.dict = g.d.dict /\ e.dictSize = g.d.dictSize /\ e.tmpOut = g.d.tmpOut
      BY <2>1 DEF IsContext, ContextFields
    <3> HIDE DEF v, e
    <3>3. QED
      BY <2>1, <2>2, <3>1, <3>2 DEF Kept, Holds
  <2>6. y = BlockHeader(a, g, f.b)
    BY <1>7
  <2>7. y = IF size = 0 /\ ~IsFlagged(f.b) THEN To(g, "getSuffix")
            ELSE IF size > g.d.maxBlockSize THEN Err(g, "maxBlockSize_invalid")
            ELSE IF IsFlagged(f.b) THEN v
            ELSE IF g.o = a.end \/ Avail(a, g) = 0 THEN Stop(u, BHSize + size + crc) ELSE u
    BY <2>6 DEF BlockHeader, size, crc
  <2> HIDE DEF g, u, v, y
  <2>8. CASE y = To(g, "getSuffix")
    <3> DEFINE s == "getSuffix"
    <3>0. y = To(g, s)
      BY <2>8
    <3> HIDE DEF s
    <3>1. Kept(g, y) /\ y.d.dStage = s /\ y.i = g.i /\ y.d.stored = g.d.stored /\ y.d.target = g.d.target
      <4>1. Sound(g)
        BY <2>1, SoundKept
      <4>2. QED
        BY <4>1, <3>0, Enters
    <3>2. Kept(x, y) /\ Holds(y, a)
      BY <2>1, <3>1, KeptTwice DEF Holds
    <3>3. QED
      BY <1>5, <3>1, <3>2 DEF s
  <2>9. CASE y = Err(g, "maxBlockSize_invalid")
    <3> DEFINE s == "maxBlockSize_invalid"
    <3>0. y = Err(g, s)
      BY <2>9
    <3> HIDE DEF s
    <3>1. Kept(g, y) /\ y.d = g.d /\ y.go = s /\ y.i = g.i
      <4>1. Sound(g)
        BY <2>1, SoundKept
      <4>2. QED
        BY <4>1, <3>0, Errs
    <3>2. Kept(x, y) /\ Holds(y, a)
      BY <2>1, <3>1, KeptTwice DEF Holds
    <3>3. y.go \notin {"go", "stop"}
      BY <3>1 DEF s
    <3>4. QED
      BY <3>2, <3>3, Fails
  <2>10. CASE y = v
    <3>1. Kept(x, y)
      BY <2>1, <2>5, <2>10, KeptTwice
    <3>2. QED
      BY <1>5, <2>5, <2>10, <3>1
  <2>11. CASE ~(size > g.d.maxBlockSize) /\ y \in {u, Stop(u, BHSize + size + crc)}
    <3>1. Sound(u)
      BY <2>4, SoundKept
    <3>2. Kept(u, Stop(u, BHSize + size + crc)) /\ Stop(u, BHSize + size + crc).d = u.d /\ Stop(u, BHSize + size + crc).i = u.i
      BY <3>1, Stops
    <3>3. Kept(g, y) /\ Holds(y, a) /\ y.d = u.d
      BY <2>4, <2>11, <3>2, KeptTwice DEF Holds
    <3>4. Kept(x, y)
      BY <2>1, <3>3, KeptTwice
    <3>5. Crc(y.d) <= y.d.target /\ y.d.target <= y.d.maxBlockSize + Crc(y.d)
      <4>1. y.d.target = size + crc /\ Crc(y.d) = crc /\ y.d.maxBlockSize = g.d.maxBlockSize
        BY <2>3, <2>4, <3>3 DEF Crc
      <4>2. g.d.maxBlockSize \in Nat
        BY <1>2, <2>1, ReadingAssumption DEF BlockSizes
      <4>3. size <= g.d.maxBlockSize
        BY <2>2, <2>11, <4>2
      <4>4. QED
        BY <2>2, <2>3, <4>1, <4>2, <4>3
    <3>6. QED
      BY <1>5, <2>4, <3>3, <3>4, <3>5
  <2>12. QED
    BY <2>7, <2>8, <2>9, <2>10, <2>11 DEF y
<1>8. QED
  BY <1>6, <1>7

LEMMA SoundAlways ==
  ASSUME NEW x, NEW a, NEW keep, Always(x, a, keep)
  PROVE  Sound(x)
BY DEF Always, WellFormed, Sound

LEMMA KeptNot ==
  ASSUME NEW x, Sound(x)
  PROVE  Kept(x, x)
BY DEF Sound, Kept

\* What the other stages of a frame's blocks lead to without putting anything out.
Filled(d) ==
  /\ d.dStage \in {"storeBlockHeader", "getBlockChecksum", "storeSuffix"} => Len(d.stored) <= 4
  /\ d.dStage \in {"getCBlock", "storeCBlock"} =>
       Crc(d) <= d.target /\ d.target <= d.maxBlockSize + Crc(d)
  /\ d.dStage = "storeCBlock" => Len(d.stored) <= d.target

Forward(x, z) ==
  /\ x.go = "go" /\ x.d.dStage \in InBlocks \cup AtSuffix
  /\ z.d.dStage \in InBlocks \cup AtSuffix
  /\ x.d.dStage \in AtSuffix => z.d.dStage \in AtSuffix

LEMMA Leads ==
  ASSUME NEW x, NEW a, NEW h, NEW w, NEW keep, Always(x, a, keep), Going(x, a, h, w, keep),
         NEW z, Kept(x, z), Holds(z, a), Forward(x, z), Filled(z.d)
  PROVE  Turned(x, z, a, h, w, keep)
<1>0. /\ x.go = "go" /\ x.d.dStage \in InBlocks \cup AtSuffix
      /\ z.d.dStage \in InBlocks \cup AtSuffix
      /\ x.d.dStage \in AtSuffix => z.d.dStage \in AtSuffix
  BY DEF Forward
<1>1. x.d.maxBlockSize \in BlockSizes /\ x.d.maxBlockSize + Window(x.d) <= x.d.maxBufferSize
  BY <1>0 DEF Going, Storing, Data
<1>2. z.d.maxBlockSize \in BlockSizes /\ z.d.maxBlockSize + Window(z.d) <= z.d.maxBufferSize
  BY <1>1 DEF Kept, Window
<1>3. Storing(z.d)
  BY <1>0, <1>2 DEF Storing, Filled, Early, Data, InBlocks, AtSuffix, Skips
<1>4. z.d.dStage # "init"
  BY <1>0 DEF InBlocks, AtSuffix
<1>5. \/ x.d.dStage \in InBlocks /\ z.d.dStage \in InBlocks
      \/ z.d.dStage \in AtSuffix \cup Skips
  BY <1>0
<1>6. QED
  BY <1>0, <1>3, <1>4, <1>5, Continues

LEMMA FailsWith ==
  ASSUME NEW x, NEW a, NEW keep, Always(x, a, keep), NEW z, Kept(x, z), Holds(z, a),
         NEW code, code \notin {"go", "stop"}, NEW h, NEW w
  PROVE  Turned(x, Err(z, code), a, h, w, keep)
<1> DEFINE y == Err(z, code)
<1>1. Sound(z)
  BY SoundKept
<1>2. Kept(z, y) /\ y.d = z.d /\ y.go = code /\ y.i = z.i
  BY <1>1, Errs
<1> HIDE DEF y
<1>3. Kept(x, y) /\ Holds(y, a) /\ y.go \notin {"go", "stop"}
  BY <1>2, KeptTwice DEF Holds
<1>4. Turned(x, y, a, h, w, keep)
  BY <1>3, Fails
<1>5. QED
  BY <1>4 DEF y

\* The end of the blocks, and the checksum of what came out.
LEMMA TurnsSuffix ==
  ASSUME NEW x, NEW a, NEW h, NEW w, NEW keep, Always(x, a, keep), Going(x, a, h, w, keep),
         x.go = "go", x.d.dStage \in AtSuffix
  PROVE  Turned(x, Suffix(a, x), a, h, w, keep)
<1> DEFINE f == Four(a, x, "storeSuffix")
<1>1. /\ Kept(x, f.x) /\ Holds(f.x, a)
      /\ f.b = <<>> => f.x.d.dStage = "storeSuffix" /\ Len(f.x.d.stored) <= 4
  <2>1. x.d.dStage = "storeSuffix" => Len(x.d.stored) <= 4
    BY DEF Going, Storing
  <2>2. QED
    BY <2>1, FourIs
<1>2. x.d.dStage \notin Early
  BY DEF AtSuffix, Early
<1>3. Kept(x, x) /\ Holds(x, a)
  BY SoundAlways, KeptNot DEF Always, WellFormed, Within, Holds
<1> HIDE DEF f
<1>4. CASE Suffix(a, x) = Err(x, "frameSize_wrong")
  <2>1. "frameSize_wrong" \notin {"go", "stop"}
    OBVIOUS
  <2>2. Turned(x, Err(x, "frameSize_wrong"), a, h, w, keep)
    BY <1>3, <2>1, FailsWith
  <2>3. QED
    BY <1>4, <2>2
<1>5. CASE Suffix(a, x) = EndOfFrame(x)
  <2>1. Turned(x, EndOfFrame(x), a, h, w, keep)
    BY <1>2, EndsFrame
  <2>2. QED
    BY <1>5, <2>1
<1>6. CASE f.b = <<>> /\ Suffix(a, x) = f.x
  <2> DEFINE z == f.x
  <2>1. Kept(x, z) /\ Holds(z, a) /\ z.d.dStage = "storeSuffix" /\ Len(z.d.stored) <= 4
    BY <1>1, <1>6
  <2> HIDE DEF z
  <2>2. Filled(z.d) /\ Forward(x, z)
    BY <2>1 DEF Filled, Forward, AtSuffix
  <2>3. Turned(x, z, a, h, w, keep)
    BY <2>1, <2>2, Leads
  <2>4. QED
    BY <1>6, <2>3 DEF z
<1>7. CASE Suffix(a, x) = EndOfFrame(f.x)
  <2>1. Always(f.x, a, keep)
    BY <1>1, KeptAlways
  <2>2. Turned(x, EndOfFrame(f.x), a, h, w, keep)
    BY <1>2, <2>1, EndsFrame
  <2>3. QED
    BY <1>7, <2>2
<1>8. CASE Suffix(a, x) = Err(f.x, "contentChecksum_invalid")
  <2>1. "contentChecksum_invalid" \notin {"go", "stop"}
    OBVIOUS
  <2>2. Turned(x, Err(f.x, "contentChecksum_invalid"), a, h, w, keep)
    BY <1>1, <2>1, FailsWith
  <2>3. QED
    BY <1>8, <2>2
<1>9. QED
  BY <1>4, <1>5, <1>6, <1>7, <1>8 DEF Suffix, f

\* The checksum of a block.
LEMMA TurnsBlockChecksum ==
  ASSUME NEW x, NEW a, NEW h, NEW w, NEW keep, Always(x, a, keep), Going(x, a, h, w, keep),
         x.go = "go", x.d.dStage = "getBlockChecksum"
  PROVE  Turned(x, GetBlockChecksum(a, x), a, h, w, keep)
<1> DEFINE y == GetBlockChecksum(a, x)
           g == [x EXCEPT !.i = @ + 4]
           s == Store(a, x, 4)
<1> SUFFICES Turned(x, y, a, h, w, keep)
  OBVIOUS
<1>1. Len(x.d.stored) <= 4
  BY DEF Going, Storing
<1> DEFINE Checked(z) == y = To(z, "getBlockHeader") \/ y = Err(z, "blockChecksum_invalid")
\* Once it is there, however it came.
<1>3. ASSUME NEW z, Kept(x, z), Holds(z, a), Checked(z)
      PROVE  Turned(x, y, a, h, w, keep)
  <2>1. CASE y = To(z, "getBlockHeader")
    <3> DEFINE v == To(z, "getBlockHeader")
    <3>1. Kept(z, v) /\ v.d.dStage = "getBlockHeader" /\ v.i = z.i
          /\ v.d.stored = z.d.stored /\ v.d.target = z.d.target
      BY <1>3, SoundKept, Enters
    <3> HIDE DEF v
    <3>2. Kept(x, v) /\ Holds(v, a)
      BY <1>3, <3>1, KeptTwice DEF Holds
    <3>3. Filled(v.d) /\ Forward(x, v)
      BY <3>1 DEF Filled, Forward, InBlocks, AtSuffix
    <3>4. Turned(x, v, a, h, w, keep)
      BY <3>2, <3>3, Leads
    <3>5. QED
      BY <2>1, <3>4 DEF v
  <2>2. CASE y = Err(z, "blockChecksum_invalid")
    <3>1. "blockChecksum_invalid" \notin {"go", "stop"}
      OBVIOUS
    <3>2. Turned(x, Err(z, "blockChecksum_invalid"), a, h, w, keep)
      BY <1>3, <3>1, FailsWith
    <3>3. QED
      BY <2>2, <3>2
  <2>3. QED
    BY <1>3, <2>1, <2>2
<1>4. CASE Avail(a, x) >= 4 /\ x.d.stored = <<>>
  <2>1. Checked(g)
    BY <1>4 DEF GetBlockChecksum
  <2>2. Kept(x, g) /\ Holds(g, a)
    <3>1. a.src \in Seq(Wire) /\ x.i \in 0 .. Len(a.src)
      BY DEF Always, Within
    <3>2. Len(a.src) \in Nat
      BY <3>1, LenProperties
    <3>3. 4 \in 0 .. Len(a.src) - x.i
      BY <1>4, <3>1, <3>2 DEF Avail
    <3>4. QED
      BY <3>3, Reads
  <2> HIDE DEF y, g, Checked
  <2>3. QED
    BY <1>3, <2>1, <2>2
<1>5. CASE ~(Avail(a, x) >= 4 /\ x.d.stored = <<>>)
  <2>1. Checked(s) \/ y = Stop(s, s.hint)
    BY <1>5 DEF GetBlockChecksum
  <2>2. Kept(x, s) /\ Holds(s, a) /\ s.d.dStage = x.d.dStage /\ Len(s.d.stored) <= 4
    <3>1. 4 \in Nat
      OBVIOUS
    <3> HIDE DEF s
    <3>2. QED
      BY <1>1, <3>1, StoreIs DEF s
  <2> HIDE DEF y, s, Checked
  <2>3. CASE y = Stop(s, s.hint)
    <3>1. Sound(s)
      BY <2>2, SoundKept
    <3>2. Kept(s, y) /\ y.d = s.d /\ y.i = s.i
      BY <2>3, <3>1, Stops
    <3>3. Kept(x, y) /\ Holds(y, a) /\ y.d.dStage = "getBlockChecksum" /\ Len(y.d.stored) <= 4
      BY <2>2, <3>2, KeptTwice DEF Holds
    <3>4. Filled(y.d) /\ Forward(x, y)
      BY <3>3 DEF Filled, Forward, InBlocks, AtSuffix
    <3>5. QED
      BY <3>3, <3>4, Leads
  <2>4. QED
    BY <1>3, <2>1, <2>2, <2>3
<1>6. QED
  BY <1>4, <1>5

-----------------------------------------------------------------------------
(* Frames of another kind are passed over.                                 *)

LEMMA Skipping ==
  ASSUME NEW x, NEW a, NEW h, NEW w, NEW keep, Always(x, a, keep), Going(x, a, h, w, keep),
         NEW y, Always(y, a, keep), y.o = x.o, y.d.dStage \in Skips, Storing(y.d)
  PROVE  Turned(x, y, a, h, w, keep)
<1>1. Remembered(h, w)
  BY DEF Going, History
<1>2. x.o \in Int
  <2>1. x.o \in Nat
    BY ONLY Always(x, a, keep), Facts
  <2>2. QED
    BY ONLY <2>1
<1>3. ~Over(x, y)
  BY DEF Over, Skips
<1>4. HistAfter(x, y, h) = h /\ WhereAfter(x, y, w) = w
  BY <1>1, <1>2, <1>3, NothingOut
<1>5. /\ y.d.dStage \notin Early /\ y.d.dStage \notin Data /\ y.d.dStage \notin InBlocks
      /\ y.d.dStage # "flushOut" /\ y.d.dStage # "init"
  BY DEF Early, Data, InBlocks, Skips
<1>6. History(y, a, h, w, keep)
  BY <1>1, <1>5 DEF History
<1>7. QED
  BY <1>4, <1>5, <1>6 DEF Turned, Fine, Going

\* The size of what is passed over.
Sized(x, v) ==
  [x EXCEPT !.d.info.contentSize = v, !.d.target = v, !.d.dStage = "skipSkippable"]

LEMMA SizedIs ==
  ASSUME NEW x, NEW a, NEW keep, Always(x, a, keep), NEW v \in Nat
  PROVE  LET y == Sized(x, v)
         IN  Always(y, a, keep) /\ y.o = x.o /\ y.d.dStage = "skipSkippable"
<1> DEFINE y == Sized(x, v)
           i == [x.d.info EXCEPT !.contentSize = v]
           e == [x.d EXCEPT !.info = i, !.target = v, !.dStage = "skipSkippable"]
<1>1. IsCall(x) /\ IsContext(x.d) /\ IsInfo(x.d.info) /\ WellFormed(x.d) /\ x.inside = TRUE
  BY DEF Always, WellFormed
<1>2. /\ IsCall(y) /\ y.m = x.m /\ y.o = x.o /\ y.inside = TRUE /\ y.i = x.i
      /\ y.d = [x.d EXCEPT !.info.contentSize = v, !.target = v, !.dStage = "skipSkippable"]
  BY <1>1 DEF Sized, IsCall, CallFields
<1>3. y.d = e
  BY <1>1, <1>2 DEF IsContext, ContextFields
<1>4. IsInfo(i)
  BY <1>1 DEF IsInfo, InfoFields
<1> HIDE DEF i, y
<1>5. /\ IsContext(e) /\ e.info = i /\ e.dStage = "skipSkippable"
      /\ e.maxBufferSize = x.d.maxBufferSize
      /\ e.room = x.d.room /\ e.stored = x.d.stored /\ e.target = v
      /\ e.dict = x.d.dict /\ e.dictSize = x.d.dictSize
  BY <1>1 DEF IsContext, ContextFields
<1> HIDE DEF e
<1>6. WellFormed(e)
  BY <1>1, <1>4, <1>5 DEF WellFormed, Allocated
<1>7. Always(y, a, keep)
  BY <1>2, <1>3, <1>6 DEF Always, Within
<1>8. QED
  BY <1>2, <1>3, <1>5, <1>7 DEF y

LEMMA TurnsSized ==
  ASSUME NEW x, NEW a, NEW h, NEW w, NEW keep, Always(x, a, keep), Going(x, a, h, w, keep),
         NEW z, Kept(x, z), Holds(z, a), NEW v \in Nat
  PROVE  Turned(x, Sized(z, v), a, h, w, keep)
<1> DEFINE y == Sized(z, v)
<1>1. Always(z, a, keep) /\ z.o = x.o
  BY KeptAlways DEF Kept
<1>2. Always(y, a, keep) /\ y.o = z.o /\ y.d.dStage = "skipSkippable"
  BY <1>1, SizedIs
<1> HIDE DEF y
<1>3. Storing(y.d) /\ y.d.dStage \in Skips
  BY <1>2 DEF Storing, Early, Data, InBlocks, AtSuffix, Skips
<1>4. Turned(x, y, a, h, w, keep)
  BY <1>1, <1>2, <1>3, Skipping
<1>5. QED
  BY <1>4 DEF y

\* A context that keeps what it has of a frame's size.
LEMMA StoresSize ==
  ASSUME NEW x, NEW a, NEW h, NEW w, NEW keep, Always(x, a, keep), Going(x, a, h, w, keep),
         NEW z, Kept(x, z), Holds(z, a), z.d.dStage = "storeSFrameSize", z.d.target = 8,
         Len(z.d.stored) <= 8
  PROVE  Turned(x, z, a, h, w, keep)
<1>1. Always(z, a, keep) /\ z.o = x.o
  BY KeptAlways DEF Kept
<1>2. Storing(z.d) /\ z.d.dStage \in Skips
  BY DEF Storing, Early, Data, InBlocks, AtSuffix, Skips
<1>3. QED
  BY <1>1, <1>2, Skipping

LEMMA TurnsSFrameSize ==
  ASSUME NEW x, NEW a, NEW h, NEW w, NEW keep, Always(x, a, keep), Going(x, a, h, w, keep),
         x.d.dStage \in {"getSFrameSize", "storeSFrameSize"}
  PROVE  Turned(x, SFrameSize(a, x), a, h, w, keep)
<1> DEFINE y == SFrameSize(a, x)
           g == [x EXCEPT !.i = @ + 4]
           s == Store(a, x, x.d.target)
           e == [x EXCEPT !.d.stored = [k \in 1 .. 4 |-> Byte(0)], !.d.target = 8,
                          !.d.dStage = "storeSFrameSize"]
<1> SUFFICES Turned(x, y, a, h, w, keep)
  OBVIOUS
<1>1. /\ IsCall(x) /\ IsContext(x.d) /\ x.inside = TRUE /\ a.src \in Seq(Wire)
      /\ x.i \in 0 .. Len(a.src)
  BY DEF Always, WellFormed, Within
<1>2. Len(a.src) \in Nat
  BY <1>1, LenProperties
<1>3. CASE x.d.dStage = "storeSFrameSize"
  <2>1. x.d.target = 8 /\ Len(x.d.stored) <= 8
    BY <1>3 DEF Going, Storing
  <2>2. /\ Kept(x, s) /\ Holds(s, a) /\ s.d.dStage = "storeSFrameSize" /\ s.d.target = 8
        /\ Len(s.d.stored) <= 8
    <3>1. x.d.target \in Nat /\ Len(x.d.stored) <= x.d.target
      BY <2>1
    <3> HIDE DEF s
    <3>2. QED
      BY <1>3, <2>1, <3>1, StoreIs DEF s
  <2>3. y = IF Missing(s, s.d.target) > 0 THEN Stop(s, Missing(s, s.d.target))
            ELSE Sized(s, LZ4F_readLE32(SubSeq(s.d.stored, 5, 8)))
    BY <1>3 DEF SFrameSize, Sized
  <2> HIDE DEF y, s
  <2>4. s.d.stored \in Seq(Wire) /\ Len(s.d.stored) \in Nat
    BY <2>2, LenProperties DEF Holds
  <2>5. CASE Missing(s, s.d.target) > 0
    <3>1. Sound(s)
      BY <2>2, SoundKept
    <3>2. Kept(s, y) /\ y.d = s.d /\ y.i = s.i
      BY <2>3, <2>5, <3>1, Stops
    <3>3. Kept(x, y) /\ Holds(y, a)
      BY <2>2, <3>2, KeptTwice DEF Holds
    <3>4. QED
      BY <2>2, <3>2, <3>3, StoresSize
  <2>6. CASE ~(Missing(s, s.d.target) > 0)
    <3> DEFINE b == SubSeq(s.d.stored, 5, 8)
               l == Len(s.d.stored)
    <3>1. l \in Nat /\ l <= 8 /\ ~(8 - l > 0)
      BY <2>2, <2>4, <2>6 DEF Missing
    <3>2. \A k \in 5 .. 8 : s.d.stored[k] \in Wire
      <4> HIDE DEF l
      <4>1. l = 8
        BY ONLY <3>1
      <4>2. Len(s.d.stored) = 8
        BY <4>1 DEF l
      <4>3. QED
        BY <2>4, <4>2, ElementOfSeq
    <3>3. b \in Seq(Wire) /\ Len(b) = 4
      <4>1. b \in Seq(Wire) /\ Len(b) = IF 5 <= 8 THEN 8 - 5 + 1 ELSE 0
        BY <3>2, SubSeqProperties
      <4>2. (IF 5 <= 8 THEN 8 - 5 + 1 ELSE 0) = 4
        BY ONLY TRUE
      <4>3. QED
        BY ONLY <4>1, <4>2
    <3> HIDE DEF b
    <3>4. LZ4F_readLE32(b) \in Nat
      <4>1. Len(b) >= 4 /\ b \in Seq(Wire)
        BY ONLY <3>3
      <4>2. QED
        BY ONLY <4>1, LE32
    <3>5. Turned(x, Sized(s, LZ4F_readLE32(b)), a, h, w, keep)
      BY <2>2, <3>4, TurnsSized
    <3>6. QED
      BY <2>3, <2>6, <3>5 DEF b
  <2>7. QED
    BY <2>5, <2>6
<1>4. CASE x.d.dStage # "storeSFrameSize" /\ Avail(a, x) >= 4
  <2>1. y = Sized(g, LZ4F_readLE32(Ahead(a, x, 4)))
    BY <1>4 DEF SFrameSize, Sized
  <2>2. 4 \in 0 .. Len(a.src) - x.i
    BY <1>1, <1>2, <1>4 DEF Avail
  <2>3. Kept(x, g) /\ Holds(g, a)
    BY <2>2, Reads
  <2> DEFINE b == Ahead(a, x, 4)
  <2>4. b \in Seq(Wire) /\ Len(b) = 4
    BY <1>1, <2>2, AheadIs
  <2> HIDE DEF y, g, b
  <2>5. LZ4F_readLE32(b) \in Nat
    <3>1. Len(b) >= 4 /\ b \in Seq(Wire)
      BY ONLY <2>4
    <3>2. QED
      BY ONLY <3>1, LE32
  <2>6. Turned(x, Sized(g, LZ4F_readLE32(b)), a, h, w, keep)
    BY <2>3, <2>5, TurnsSized
  <2>7. QED
    BY <2>1, <2>6 DEF b
<1>5. CASE x.d.dStage # "storeSFrameSize" /\ ~(Avail(a, x) >= 4)
  <2>1. y = e
    BY <1>5 DEF SFrameSize
  <2> DEFINE t == [k \in 1 .. 4 |-> Byte(0)]
             c == [x.d EXCEPT !.stored = t, !.target = 8, !.dStage = "storeSFrameSize"]
  <2>2. t \in Seq(Wire) /\ Len(t) = 4
    <3>1. t \in [1 .. 4 -> Wire]
      BY DEF Wire
    <3>2. 4 \in Nat
      OBVIOUS
    <3> HIDE DEF t
    <3>3. QED
      BY <3>1, <3>2, FunSeq
  <2> HIDE DEF t
  <2>3. IsCall(e) /\ e.m = x.m /\ e.o = x.o /\ e.inside = TRUE /\ e.d = c /\ e.i = x.i
    BY <1>1 DEF IsCall, CallFields, t
  <2>4. /\ IsContext(c) /\ c.info = x.d.info /\ c.dStage = "storeSFrameSize"
        /\ c.maxBlockSize = x.d.maxBlockSize /\ c.maxBufferSize = x.d.maxBufferSize
        /\ c.room = x.d.room /\ c.stored = t /\ c.target = 8
        /\ c.dict = x.d.dict /\ c.dictSize = x.d.dictSize /\ c.tmpOut = x.d.tmpOut
    BY <1>1 DEF IsContext, ContextFields
  <2> HIDE DEF y, e, c
  <2>5. Kept(x, e) /\ Holds(e, a) /\ e.d.dStage = "storeSFrameSize" /\ e.d.target = 8
        /\ Len(e.d.stored) <= 8
    <3>1. e.d.stored = t /\ e.d.target = 8 /\ e.d.dStage = "storeSFrameSize"
      BY <2>3, <2>4
    <3>2. Kept(x, e)
      BY <2>3, <2>4 DEF Kept
    <3>3. Len(e.d.stored) <= 8 /\ e.d.stored \in Seq(Wire) /\ e.d.target \in Nat
      <4>1. Len(e.d.stored) = 4 /\ e.d.stored \in Seq(Wire)
        BY <2>2, <3>1, Zenon
      <4> DEFINE l == Len(e.d.stored)
                 asked == e.d.target
      <4>2. l = 4 /\ asked = 8
        BY <3>1, <4>1
      <4> HIDE DEF l, asked
      <4>3. l <= 8 /\ asked \in Nat
        BY ONLY <4>2
      <4>4. QED
        BY <4>1, <4>3 DEF l, asked
    <3>4. Holds(e, a)
      <4>1. e.i \in 0 .. Len(a.src)
        BY <1>1, <2>3
      <4>2. QED
        BY <3>3, <4>1, Zenon DEF Holds
    <3>5. QED
      BY <3>1, <3>2, <3>3, <3>4
  <2>6. Turned(x, e, a, h, w, keep)
    BY <2>5, StoresSize
  <2>7. QED
    BY <2>1, <2>6
<1>6. QED
  BY <1>3, <1>4, <1>5

LEMMA TurnsSkip ==
  ASSUME NEW x, NEW a, NEW h, NEW w, NEW keep, Always(x, a, keep), Going(x, a, h, w, keep),
         x.d.dStage = "skipSkippable"
  PROVE  Turned(x, SkipSkippable(a, x), a, h, w, keep)
<1>1. /\ IsCall(x) /\ IsContext(x.d) /\ x.inside = TRUE /\ a.src \in Seq(Wire)
      /\ x.i \in 0 .. Len(a.src) /\ x.d.target \in Nat /\ x.d.stored \in Seq(Wire)
  BY DEF Always, WellFormed, Within
<1>2. Len(a.src) \in Nat
  BY <1>1, LenProperties
<1> DEFINE n == Min({x.d.target, Avail(a, x)})
           u == [x EXCEPT !.i = @ + n, !.d.target = @ - n]
           y == Stop(u, x.d.target - n)
           c == [x.d EXCEPT !.target = @ - n]
<1>3. n = Least(x.d.target, Len(a.src) - x.i)
  BY <1>1, <1>2, MinTwo DEF Avail
<1>4. n \in 0 .. Len(a.src) - x.i /\ x.d.target - n \in Nat
  <2> HIDE DEF n
  <2> QED BY <1>1, <1>2, <1>3 DEF Least
<1>5. SkipSkippable(a, x) = IF n = x.d.target THEN EndOfFrame(y) ELSE y
  BY DEF SkipSkippable
<1> HIDE DEF n
<1>6. /\ IsCall(y) /\ y.m = x.m /\ y.o = x.o /\ y.inside = TRUE /\ y.d = c /\ y.i = x.i + n
  <2>1. /\ IsCall(u) /\ u.m = x.m /\ u.o = x.o /\ u.inside = TRUE /\ u.d = c /\ u.i = x.i + n
    BY <1>1 DEF IsCall, CallFields
  <2> HIDE DEF u
  <2>2. QED
    BY <2>1 DEF Stop, IsCall, CallFields
<1>7. /\ IsContext(c) /\ c.info = x.d.info /\ c.dStage = x.d.dStage
      /\ c.maxBlockSize = x.d.maxBlockSize /\ c.maxBufferSize = x.d.maxBufferSize
      /\ c.room = x.d.room /\ c.stored = x.d.stored /\ c.target = x.d.target - n
      /\ c.dict = x.d.dict /\ c.dictSize = x.d.dictSize /\ c.tmpOut = x.d.tmpOut
  BY <1>1 DEF IsContext, ContextFields
<1> HIDE DEF u, y, c
<1>8. x.i + n \in 0 .. Len(a.src)
  BY <1>1, <1>2, <1>4
<1>9. Kept(x, y) /\ Holds(y, a) /\ y.d.dStage = "skipSkippable"
  BY <1>1, <1>4, <1>6, <1>7, <1>8 DEF Kept, Holds
<1>10. Always(y, a, keep) /\ y.o = x.o
  BY <1>9, KeptAlways DEF Kept
<1>11. x.d.dStage \notin Early
  BY DEF Early
<1>12. Turned(x, EndOfFrame(y), a, h, w, keep)
  BY <1>10, <1>11, EndsFrame
<1>13. Storing(y.d) /\ y.d.dStage \in Skips
  BY <1>9 DEF Storing, Early, Data, InBlocks, AtSuffix, Skips
<1>14. Turned(x, y, a, h, w, keep)
  BY <1>10, <1>13, Skipping
<1>15. QED
  BY <1>5, <1>12, <1>14

-----------------------------------------------------------------------------
(* The header of a frame.                                                  *)

\* The buffers are large enough for this frame, and still of a size they were
\* allocated with.
Grown(d, size, window, max, room) ==
  /\ max = IF size + window > d.maxBufferSize THEN size + window ELSE d.maxBufferSize
  /\ room = IF size + window > d.maxBufferSize THEN size + BFSize ELSE d.room
AsAllocated(max, room) ==
  \/ max = 0 /\ room = 0
  \/ \E b \in BlockSizes : room = b + BFSize /\ max \in {b, b + 2 * KB64}

LEMMA Grows ==
  ASSUME NEW d, Allocated(d), NEW size \in BlockSizes, NEW window \in {0, 2 * KB64},
         NEW max, NEW room, Grown(d, size, window, max, room)
  PROVE  size + window <= max /\ AsAllocated(max, room)
<1>0. /\ max = IF size + window > d.maxBufferSize THEN size + window ELSE d.maxBufferSize
      /\ room = IF size + window > d.maxBufferSize THEN size + BFSize ELSE d.room
  BY DEF Grown
<1>1. KB64 \in Nat /\ KB64 > 0
  BY ReadingAssumption
<1>2. d.maxBufferSize \in Nat
  BY Bounds
<1>3. size \in Nat
  BY <1>1 DEF BlockSizes
<1>4. CASE size + window > d.maxBufferSize
  <2>1. max = size + window /\ room = size + BFSize
    BY <1>0, <1>4
  <2>2. max \in {size, size + 2 * KB64}
    BY <1>1, <1>3, <2>1
  <2>3. size + window <= max
    BY <1>1, <1>3, <2>1
  <2>4. QED
    BY <1>2, <1>3, <2>1, <2>2, <2>3 DEF AsAllocated
<1>5. CASE ~(size + window > d.maxBufferSize)
  <2>1. max = d.maxBufferSize /\ room = d.room
    BY <1>0, <1>5
  <2>2. size + window <= max
    BY <1>1, <1>2, <1>3, <1>5, <2>1
  <2>3. QED
    BY <2>1, <2>2 DEF Allocated, AsAllocated
<1>6. QED
  BY <1>4, <1>5

LEMMA TurnsInit ==
  ASSUME NEW x, NEW a, NEW h, NEW w, NEW keep, Always(x, a, keep), Going(x, a, h, w, keep),
         x.go = "go", x.d.dStage = "init"
  PROVE  Turned(x, InitFrame(x), a, h, w, keep)
<1> DEFINE y == InitFrame(x)
           window == IF x.d.info.linked THEN 2 * KB64 ELSE 0
           needed == x.d.maxBlockSize + window
           grow == needed > x.d.maxBufferSize
           max == IF grow THEN needed ELSE x.d.maxBufferSize
           room == IF grow THEN x.d.maxBlockSize + BFSize ELSE x.d.room
           sum == IF x.d.info.contentSum THEN <<>> ELSE x.d.xxh
           e == [x.d EXCEPT !.maxBufferSize = max, !.room = room, !.xxh = sum,
                            !.stored = <<>>, !.target = 0,
                            !.tmpOut = TMPOUT, !.tmpOutSize = 0, !.tmpOutStart = 0,
                            !.dStage = "getBlockHeader"]
<1> SUFFICES Turned(x, y, a, h, w, keep)
  OBVIOUS
<1>1. IsCall(x) /\ IsContext(x.d) /\ WellFormed(x.d) /\ Allocated(x.d) /\ x.inside = TRUE
  BY DEF Always, WellFormed
<1>2. x.d.maxBlockSize \in BlockSizes
  BY DEF Going, Storing
<1>3. needed <= max /\ AsAllocated(max, room)
  <2>1. window \in {0, 2 * KB64}
    OBVIOUS
  <2> DEFINE size == x.d.maxBlockSize
  <2>2. Grown(x.d, size, window, max, room)
    BY DEF Grown
  <2>3. needed = size + window /\ size \in BlockSizes
    BY <1>2
  <2> HIDE DEF window, needed, grow, max, room, size
  <2>4. size + window <= max /\ AsAllocated(max, room)
    BY <1>1, <2>1, <2>2, <2>3, Grows
  <2>5. QED
    BY <2>3, <2>4
<1>4. y = [x EXCEPT !.d.maxBufferSize = max, !.d.room = room, !.d.xxh = sum,
                    !.d.stored = <<>>, !.d.target = 0,
                    !.d.tmpOut = TMPOUT, !.d.tmpOutSize = 0, !.d.tmpOutStart = 0,
                    !.d.dStage = "getBlockHeader"]
  BY DEF InitFrame
<1>5. window = Window(x.d)
  BY DEF Window
<1> HIDE DEF y, needed, grow, max, room, sum
<1>6. /\ IsCall(y) /\ y.m = x.m /\ y.o = x.o /\ y.inside = TRUE /\ y.i = x.i /\ y.go = "go"
      /\ y.d = e
  BY <1>1, <1>4, ZenonT(30) DEF IsCall, CallFields
<1>7. /\ IsContext(e) /\ e.info = x.d.info /\ e.dStage = "getBlockHeader"
      /\ e.maxBlockSize = x.d.maxBlockSize /\ e.maxBufferSize = max
      /\ e.room = room /\ e.stored = <<>> /\ e.target = 0
      /\ e.dict = x.d.dict /\ e.dictSize = x.d.dictSize /\ e.tmpOut = TMPOUT
  BY <1>1 DEF IsContext, ContextFields
<1> HIDE DEF e
<1>8. Allocated(e)
  BY <1>3, <1>7 DEF Allocated, AsAllocated
<1>9. WellFormed(e)
  BY <1>1, <1>7, <1>8, EmptyWire DEF WellFormed
<1>10. Always(y, a, keep)
  BY <1>6, <1>9 DEF Always, Within
<1>11. Storing(e)
  <2>1. e.maxBlockSize + Window(e) <= e.maxBufferSize
    BY <1>3, <1>5, <1>7 DEF needed, Window
  <2>2. QED
    BY <1>2, <1>7, <2>1 DEF Storing, Early, Data, InBlocks, AtSuffix, Skips
<1>12. Remembered(h, w) /\ x.o = a.dst /\ x.d.dict # TMPOUT /\ Outside(x.m, x.d, x.o, a, h, w, keep)
  BY DEF Going, History, Early
<1>13. Outside(y.m, e, y.o, a, h, w, keep) /\ e.dict # TMPOUT
  BY <1>6, <1>7, <1>12 DEF Outside, Found, Given
<1>14. LinkedHistory(y.m, e, y.o, a, h, w, keep)
  BY <1>13 DEF LinkedHistory, Outside
<1>15. Recent(y.m, y.o, a, h, w)
  <2>1. a.dst \in Nat /\ y.o = a.dst /\ KB64 \in Nat
    BY <1>6, <1>12, ReadingAssumption DEF Always, Within
  <2>2. y.o - a.dst = 0
    BY ONLY <2>1
  <2>3. Len(h) \in Nat
    BY <1>12 DEF Remembered, IsSeq
  <2>4. Least(y.o - a.dst, KB64) = 0 /\ Least(y.o - a.dst, Len(h)) = 0
    BY <2>1, <2>2, <2>3 DEF Least
  <2>5. QED
    BY <2>3, <2>4 DEF Recent
<1>16. History(y, a, h, w, keep)
  BY <1>6, <1>7, <1>12, <1>13, <1>14, <1>15 DEF History, Early, Data, InBlocks
<1>17. HistAfter(x, y, h) = h /\ WhereAfter(x, y, w) = w
  <2>1. ~Over(x, y)
    BY <1>6, <1>7 DEF Over
  <2>2. x.o \in Int
    BY <1>12 DEF Always, Within
  <2>3. QED
    BY <1>6, <1>12, <2>1, <2>2, NothingOut
<1>18. QED
  BY <1>6, <1>7, <1>10, <1>11, <1>16, <1>17 DEF Turned, Fine, Going

\* A header was read as far as it is there, and the history is left alone.
HeaderRead(d, h, b) ==
  /\ IsContext(h.d) /\ IsInfo(h.d.info) /\ h.d.stored \in Seq(Wire) /\ h.d.target \in Nat
  /\ h.d.maxBufferSize = d.maxBufferSize /\ h.d.room = d.room
  /\ h.d.dict = d.dict /\ h.d.dictSize = d.dictSize
  /\ h.n \in 0 .. Len(b) /\ h.err \notin {"go", "stop"}
  /\ h.err = "none" => Storing(h.d) /\ h.d.dStage \in Early \cup Skips
  /\ h.err # "none" => h.d.dStage = d.dStage

LEMMA HeaderSizes ==
  \A flg : HeaderSize(flg) \in {7, 11, 15, 19}
BY DEF HeaderSize, Flag, minFHSize

LEMMA HeaderErrors ==
  ASSUME NEW b
  PROVE  /\ HeaderError(b) \notin {"go", "stop"}
         /\ HeaderError(b) = "none" /\ ~(Len(b) < HeaderSize(b[5].v)) => ~((b[6].v \div 16) % 8 < 4)
BY DEF HeaderError

LEMMA SizeOfBlock ==
  ASSUME NEW v \in 0 .. 255, ~((v \div 16) % 8 < 4)
  PROVE  LZ4F_getBlockSize((v \div 16) % 8) \in BlockSizes
<1> DEFINE id == (v \div 16) % 8
<1>1. id \in 0 .. 7 /\ ~(id < 4)
  OBVIOUS
<1> HIDE DEF id
<1>2. id \in {4, 5, 6, 7}
  BY ONLY <1>1
<1>3. LZ4F_getBlockSize(id) \in BlockSizes
  BY <1>2 DEF LZ4F_getBlockSize, BlockSizes
<1>4. QED
  BY <1>3 DEF id

LEMMA NoInfoIs == IsInfo(NoInfo)
BY DEF IsInfo, InfoFields, NoInfo

LEMMA FieldsAre ==
  ASSUME NEW d, IsContext(d), NEW b
  PROVE  LET e == Fields(d, b)
         IN  /\ IsContext(e) /\ IsInfo(e.info) /\ e.stored = d.stored /\ e.target = d.target
             /\ e.maxBufferSize = d.maxBufferSize /\ e.room = d.room
             /\ e.dict = d.dict /\ e.dictSize = d.dictSize /\ e.dStage = "init"
             /\ e.maxBlockSize = LZ4F_getBlockSize((b[6].v \div 16) % 8)
<1> DEFINE e == Fields(d, b)
           flg == b[5].v
           size == HeaderSize(flg)
           id == (b[6].v \div 16) % 8
           content == IF Bit(flg, 3) THEN LZ4F_readLE64(SubSeq(b, 7, 14)) ELSE 0
           dictID == IF Bit(flg, 0) THEN LZ4F_readLE32(SubSeq(b, size - 4, size - 1)) ELSE 0
           p == ~Bit(flg, 5)
           q == Bit(flg, 4)
           r == Bit(flg, 2)
           info == [skippable |-> FALSE, linked |-> p, blockSum |-> q, contentSum |-> r,
                    contentSize |-> content, sizeID |-> id, dictID |-> dictID]
           max == LZ4F_getBlockSize(id)
           left == IF Bit(flg, 3) THEN content ELSE d.remaining
<1>1. e = [d EXCEPT !.info = info, !.maxBlockSize = max, !.remaining = left, !.dStage = "init"]
  BY DEF Fields
<1>2. IsInfo(info)
  <2> HIDE DEF p, q, r, content, dictID, id
  <2> QED BY DEF IsInfo, InfoFields
<1> HIDE DEF e, info, max, left
<1>3. /\ IsContext(e) /\ e.info = info /\ e.stored = d.stored /\ e.target = d.target
      /\ e.maxBufferSize = d.maxBufferSize /\ e.room = d.room
      /\ e.dict = d.dict /\ e.dictSize = d.dictSize /\ e.dStage = "init"
      /\ e.maxBlockSize = max
  BY <1>1 DEF IsContext, ContextFields
<1>4. QED
  BY <1>2, <1>3 DEF e, max

LEMMA DecodesHeader ==
  ASSUME NEW d, WellFormed(d), NEW b \in Seq(Wire), NEW in \in BOOLEAN,
         in /\ IsSkippable(b) => Len(b) <= 8
  PROVE  HeaderRead(d, LZ4F_decodeHeader(d, b, in), b)
<1> DEFINE h == LZ4F_decodeHeader(d, b, in)
           q == [d EXCEPT !.info = NoInfo]
           size == HeaderSize(b[5].v)
<1> SUFFICES HeaderRead(d, h, b)
  OBVIOUS
<1>1. Len(b) \in Nat
  BY LenProperties
<1>2. IsContext(d) /\ IsInfo(d.info) /\ d.stored \in Seq(Wire) /\ d.target \in Nat
  BY DEF WellFormed
<1>3. /\ IsContext(q) /\ q.info = NoInfo /\ q.stored = d.stored /\ q.target = d.target
      /\ q.dStage = d.dStage
      /\ q.maxBufferSize = d.maxBufferSize /\ q.room = d.room
      /\ q.dict = d.dict /\ q.dictSize = d.dictSize
  BY <1>2 DEF IsContext, ContextFields
<1>4. size \in {7, 11, 15, 19}
  BY HeaderSizes
<1>5. CASE Len(b) < minFHSize
  <2>1. h.d = d /\ h.n = 0 /\ h.err = "frameHeader_incomplete"
    BY <1>5 DEF LZ4F_decodeHeader
  <2> HIDE DEF h
  <2>2. h.n \in 0 .. Len(b)
    BY <1>1, <2>1
  <2>3. QED
    BY <1>2, <2>1, <2>2 DEF HeaderRead
<1>6. ASSUME ~(Len(b) < minFHSize), NEW err, h = [d |-> q, n |-> 0, err |-> err],
             err \notin {"go", "stop", "none"}
      PROVE  HeaderRead(d, h, b)
  <2>1. h.d = q /\ h.n = 0 /\ h.err = err
    BY <1>6
  <2> HIDE DEF h, q
  <2>2. h.n \in 0 .. Len(b)
    BY <1>1, <2>1
  <2>3. QED
    BY <1>2, <1>3, <1>6, <2>1, <2>2, NoInfoIs DEF HeaderRead
<1>7. CASE ~(Len(b) < minFHSize) /\ IsSkippable(b)
  <2> DEFINE i == [NoInfo EXCEPT !.skippable = TRUE]
             e == [q EXCEPT !.info = i, !.stored = b, !.target = 8, !.dStage = "storeSFrameSize"]
             f == [q EXCEPT !.info = i, !.dStage = "getSFrameSize"]
  <2>1. IsInfo(i)
    BY DEF IsInfo, InfoFields, NoInfo
  <2>2. CASE in
    <3>1. h = [d |-> [q EXCEPT !.info.skippable = TRUE, !.stored = b, !.target = 8,
                               !.dStage = "storeSFrameSize"], n |-> Len(b), err |-> "none"]
      BY <1>7, <2>2 DEF LZ4F_decodeHeader
    <3>2. [q EXCEPT !.info.skippable = TRUE, !.stored = b, !.target = 8, !.dStage = "storeSFrameSize"] = e
      <4> HIDE DEF q
      <4>1. QED
        BY <1>3 DEF IsContext, ContextFields
    <3>3. h.d = e /\ h.n = Len(b) /\ h.err = "none"
      BY ONLY <3>1, <3>2
    <3> HIDE DEF h, q, i
    <3>4. /\ IsContext(e) /\ e.info = i /\ e.stored = b /\ e.target = 8
          /\ e.maxBufferSize = d.maxBufferSize /\ e.room = d.room
          /\ e.dict = d.dict /\ e.dictSize = d.dictSize /\ e.dStage = "storeSFrameSize"
      BY <1>3 DEF IsContext, ContextFields
    <3> HIDE DEF e
    <3>5. Storing(e) /\ e.dStage \in Skips
      BY <1>7, <2>2, <3>4 DEF Storing, Early, Data, InBlocks, AtSuffix, Skips
    <3>6. h.n \in 0 .. Len(b)
      BY <1>1, <3>3
    <3>7. QED
      BY <2>1, <3>3, <3>4, <3>5, <3>6 DEF HeaderRead
  <2>3. CASE ~in
    <3>1. h = [d |-> [q EXCEPT !.info.skippable = TRUE, !.dStage = "getSFrameSize"],
               n |-> 4, err |-> "none"]
      BY <1>7, <2>3 DEF LZ4F_decodeHeader
    <3>2. [q EXCEPT !.info.skippable = TRUE, !.dStage = "getSFrameSize"] = f
      <4> HIDE DEF q
      <4>1. QED
        BY <1>3 DEF IsContext, ContextFields
    <3>3. h.d = f /\ h.n = 4 /\ h.err = "none"
      BY ONLY <3>1, <3>2
    <3> HIDE DEF h, q, i
    <3>4. /\ IsContext(f) /\ f.info = i /\ f.stored = d.stored /\ f.target = d.target
          /\ f.maxBufferSize = d.maxBufferSize /\ f.room = d.room
          /\ f.dict = d.dict /\ f.dictSize = d.dictSize /\ f.dStage = "getSFrameSize"
      BY <1>3 DEF IsContext, ContextFields
    <3> HIDE DEF f
    <3>5. Storing(f) /\ f.dStage \in Skips
      BY <3>4 DEF Storing, Early, Data, InBlocks, AtSuffix, Skips
    <3>6. h.n \in 0 .. Len(b)
      BY <1>1, <1>7, <3>3 DEF minFHSize
    <3>7. QED
      BY <1>2, <2>1, <3>3, <3>4, <3>5, <3>6 DEF HeaderRead
  <2>4. QED
    BY <2>2, <2>3
<1>8. CASE ~(Len(b) < minFHSize) /\ ~IsSkippable(b) /\ LZ4F_readLE32(b) # LZ4F_MAGICNUMBER
  <2>1. h = [d |-> q, n |-> 0, err |-> "frameType_unknown"]
    BY <1>8 DEF LZ4F_decodeHeader
  <2> HIDE DEF h, q
  <2>2. QED
    BY <1>6, <1>8, <2>1
<1>9. CASE /\ ~(Len(b) < minFHSize) /\ ~IsSkippable(b) /\ LZ4F_readLE32(b) = LZ4F_MAGICNUMBER
           /\ HeaderError(b) # "none"
  <2>1. h = [d |-> q, n |-> 0, err |-> HeaderError(b)]
    BY <1>9 DEF LZ4F_decodeHeader
  <2>2. HeaderError(b) \notin {"go", "stop", "none"}
    BY <1>9, HeaderErrors
  <2> HIDE DEF h, q
  <2>3. QED
    BY <1>6, <1>9, <2>1, <2>2
<1>10. CASE /\ ~(Len(b) < minFHSize) /\ ~IsSkippable(b) /\ LZ4F_readLE32(b) = LZ4F_MAGICNUMBER
            /\ HeaderError(b) = "none" /\ Len(b) < size
  <2> DEFINE e == [q EXCEPT !.stored = b, !.target = size, !.dStage = "storeFrameHeader"]
  <2>1. h = [d |-> e, n |-> Len(b), err |-> "none"]
    BY <1>10 DEF LZ4F_decodeHeader
  <2>2. h.d = e /\ h.n = Len(b) /\ h.err = "none"
    BY ONLY <2>1
  <2> HIDE DEF h, q, size
  <2>3. /\ IsContext(e) /\ e.info = NoInfo /\ e.stored = b /\ e.target = size
        /\ e.maxBufferSize = d.maxBufferSize /\ e.room = d.room
        /\ e.dict = d.dict /\ e.dictSize = d.dictSize /\ e.dStage = "storeFrameHeader"
    BY <1>3 DEF IsContext, ContextFields
  <2> HIDE DEF e
  <2>4. size \in Nat /\ size \in minFHSize .. maxFHSize
    BY <1>4 DEF minFHSize, maxFHSize
  <2>5. Len(b) >= minFHSize /\ Len(b) <= size
    BY <1>1, <1>10, <2>4 DEF minFHSize
  <2>6. Storing(e) /\ e.dStage \in Early
    BY <1>10, <2>3, <2>4, <2>5 DEF Storing, Early, Data, InBlocks, AtSuffix, Skips
  <2>7. h.n \in 0 .. Len(b)
    BY <1>1, <2>2
  <2>8. QED
    BY <2>2, <2>3, <2>4, <2>6, <2>7, NoInfoIs DEF HeaderRead
<1>11. CASE /\ ~(Len(b) < minFHSize) /\ ~IsSkippable(b) /\ LZ4F_readLE32(b) = LZ4F_MAGICNUMBER
            /\ HeaderError(b) = "none" /\ ~(Len(b) < size)
  <2> DEFINE e == Fields(q, b)
  <2>1. h = [d |-> e, n |-> size, err |-> "none"]
    BY <1>11 DEF LZ4F_decodeHeader
  <2>2. h.d = e /\ h.n = size /\ h.err = "none"
    BY ONLY <2>1
  <2>3. ~((b[6].v \div 16) % 8 < 4)
    BY <1>11, HeaderErrors
  <2> HIDE DEF h, q
  <2>4. /\ IsContext(e) /\ IsInfo(e.info) /\ e.stored = q.stored /\ e.target = q.target
        /\ e.maxBufferSize = q.maxBufferSize /\ e.room = q.room
        /\ e.dict = q.dict /\ e.dictSize = q.dictSize /\ e.dStage = "init"
        /\ e.maxBlockSize = LZ4F_getBlockSize((b[6].v \div 16) % 8)
    BY <1>3, FieldsAre
  <2> HIDE DEF e
  <2>5. b[6].v \in 0 .. 255
    <3>1. 6 \in 1 .. Len(b)
      BY <1>1, <1>11 DEF minFHSize
    <3>2. b[6] \in Wire
      BY <3>1, ElementOfSeq
    <3>3. QED
      BY <3>2, ReadingAssumption
  <2>6. e.maxBlockSize \in BlockSizes
    BY <2>3, <2>4, <2>5, SizeOfBlock
  <2>7. Storing(e) /\ e.dStage \in Early
    BY <2>4, <2>6 DEF Storing, Early, Data, InBlocks, AtSuffix, Skips
  <2>8. h.n \in 0 .. Len(b)
    <3> HIDE DEF size
    <3>1. size \in 0 .. Len(b)
      BY <1>1, <1>4, <1>11
    <3>2. QED
      BY <2>2, <3>1
  <2>9. QED
    BY <1>2, <1>3, <2>2, <2>4, <2>7, <2>8 DEF HeaderRead
<1>12. QED
  BY <1>5, <1>7, <1>8, <1>9, <1>10, <1>11

\* The history is as before the frame, whatever its header says.
Begun(x, y) ==
  /\ y.m = x.m /\ y.o = x.o /\ y.d.dict = x.d.dict /\ y.d.dictSize = x.d.dictSize
  /\ y.d.dStage \in Early \cup Skips /\ (y.go = "stop" => y.d.dStage # "init")

LEMMA BeginsFrame ==
  ASSUME NEW x, NEW a, NEW h, NEW w, NEW keep, Always(x, a, keep), Going(x, a, h, w, keep),
         x.go = "go", x.d.dStage \in Early,
         NEW y, Always(y, a, keep), Begun(x, y), Storing(y.d)
  PROVE  Turned(x, y, a, h, w, keep)
<1>1. /\ y.m = x.m /\ y.o = x.o /\ y.d.dict = x.d.dict /\ y.d.dictSize = x.d.dictSize
      /\ y.d.dStage \in Early \cup Skips /\ (y.go = "stop" => y.d.dStage # "init")
  BY DEF Begun
<1>2. /\ Remembered(h, w) /\ x.o = a.dst /\ x.d.dict # TMPOUT
      /\ Outside(x.m, x.d, x.o, a, h, w, keep)
  BY DEF Going, History
<1>3. Outside(y.m, y.d, y.o, a, h, w, keep) /\ y.d.dict # TMPOUT
  BY <1>1, <1>2 DEF Outside, Found, Given
<1>4. /\ y.d.dStage \notin Data /\ y.d.dStage \notin InBlocks /\ y.d.dStage # "flushOut"
  BY <1>1 DEF Early, Data, InBlocks, Skips
<1>5. History(y, a, h, w, keep)
  BY <1>1, <1>2, <1>3, <1>4 DEF History
<1>6. HistAfter(x, y, h) = h /\ WhereAfter(x, y, w) = w
  <2>1. ~Over(x, y)
    BY DEF Over
  <2>2. x.o \in Int
    BY <1>2 DEF Always, Within
  <2>3. QED
    BY <1>1, <1>2, <2>1, <2>2, NothingOut
<1>7. QED
  BY <1>1, <1>5, <1>6 DEF Turned, Fine, Going

\* The call after a header was read as far as it is there.
HasRead(x, y, a, hd) ==
  /\ IsCall(y) /\ y.m = x.m /\ y.o = x.o /\ y.inside = TRUE /\ y.d = hd.d
  /\ y.i \in 0 .. Len(a.src) /\ y.go = IF hd.err = "none" THEN "go" ELSE hd.err

LEMMA HeaderTaken ==
  ASSUME NEW x, NEW a, NEW h, NEW w, NEW keep, Always(x, a, keep), Going(x, a, h, w, keep),
         x.go = "go", x.d.dStage \in Early,
         NEW hd, NEW b, HeaderRead(x.d, hd, b), NEW y, HasRead(x, y, a, hd)
  PROVE  Turned(x, y, a, h, w, keep)
<1>1. /\ IsCall(y) /\ y.m = x.m /\ y.o = x.o /\ y.inside = TRUE /\ y.d = hd.d
      /\ y.i \in 0 .. Len(a.src) /\ y.go = IF hd.err = "none" THEN "go" ELSE hd.err
  BY DEF HasRead
<1>2. WellFormed(y.d)
  BY <1>1 DEF HeaderRead, Always, WellFormed, Allocated
<1>3. Always(y, a, keep)
  BY <1>1, <1>2 DEF Always, Within
<1>4. CASE hd.err = "none"
  <2>1. Begun(x, y) /\ Storing(y.d)
    BY <1>1, <1>4 DEF Begun, HeaderRead
  <2>2. QED
    BY <1>3, <2>1, BeginsFrame
<1>5. CASE hd.err # "none"
  BY <1>1, <1>3, <1>5 DEF Turned, Fine, HeaderRead
<1>6. QED
  BY <1>4, <1>5

LEMMA TurnsFrameHeader ==
  ASSUME NEW x, NEW a, NEW h, NEW w, NEW keep, Always(x, a, keep), Going(x, a, h, w, keep),
         x.go = "go", x.d.dStage = "getFrameHeader"
  PROVE  Turned(x, GetFrameHeader(a, x), a, h, w, keep)
<1> DEFINE y == GetFrameHeader(a, x)
           n == Avail(a, x)
           b == Ahead(a, x, n)
           hd == LZ4F_decodeHeader(x.d, b, FALSE)
<1> SUFFICES Turned(x, y, a, h, w, keep)
  OBVIOUS
<1>1. /\ IsCall(x) /\ IsContext(x.d) /\ WellFormed(x.d) /\ x.inside = TRUE /\ a.src \in Seq(Wire)
      /\ x.i \in 0 .. Len(a.src) /\ x.d.dStage \in Early /\ x.d.target \in Nat
  BY DEF Always, WellFormed, Within, Early
<1>2. Len(a.src) \in Nat
  BY <1>1, LenProperties
<1>3. n \in 0 .. Len(a.src) - x.i /\ x.i + n = Len(a.src)
  BY <1>1, <1>2 DEF Avail
<1>4. b \in Seq(Wire) /\ Len(b) = n
  <2> HIDE DEF n
  <2> QED BY <1>1, <1>3, AheadIs
<1>5. HeaderRead(x.d, hd, b)
  <2> HIDE DEF b
  <2>1. FALSE \in BOOLEAN
    OBVIOUS
  <2>2. QED
    BY <1>1, <1>4, <2>1, DecodesHeader
<1>6. CASE n >= maxFHSize
  <2>1. y = IF hd.err # "none" THEN [Err(x, hd.err) EXCEPT !.d = hd.d]
            ELSE [x EXCEPT !.d = hd.d, !.i = @ + hd.n]
    BY <1>6 DEF GetFrameHeader
  <2> HIDE DEF y, n, b, hd
  <2>2. x.i + hd.n \in 0 .. Len(a.src)
    <3>1. hd.n \in 0 .. n
      BY <1>4, <1>5 DEF HeaderRead
    <3>2. QED
      BY ONLY <1>1, <1>2, <1>3, <3>1
  <2>3. HasRead(x, y, a, hd)
    <3>1. CASE hd.err # "none"
      <4>1. /\ IsCall(y) /\ y.m = x.m /\ y.o = x.o /\ y.inside = TRUE /\ y.d = hd.d
            /\ y.i = x.i /\ y.go = hd.err
        BY <1>1, <2>1, <3>1 DEF Err, IsCall, CallFields
      <4>2. QED
        BY <1>1, <3>1, <4>1 DEF HasRead
    <3>2. CASE hd.err = "none"
      <4>1. /\ IsCall(y) /\ y.m = x.m /\ y.o = x.o /\ y.inside = TRUE /\ y.d = hd.d
            /\ y.i = x.i + hd.n /\ y.go = "go"
        BY <1>1, <2>1, <3>2 DEF IsCall, CallFields
      <4>2. QED
        BY <2>2, <3>2, <4>1 DEF HasRead
    <3>3. QED
      BY <3>1, <3>2
  <2>4. QED
    BY <1>1, <1>5, <2>3, HeaderTaken
<1>7. CASE ~(n >= maxFHSize) /\ n = 0
  <2> DEFINE z == [x EXCEPT !.d.stored = <<>>]
             c == [x.d EXCEPT !.stored = <<>>]
  <2>1. y = Stop(z, minFHSize)
    BY <1>7 DEF GetFrameHeader, maxFHSize
  <2>2. /\ IsCall(y) /\ y.m = x.m /\ y.o = x.o /\ y.inside = TRUE /\ y.d = c /\ y.i = x.i
    <3> HIDE DEF y
    <3>1. /\ IsCall(z) /\ z.m = x.m /\ z.o = x.o /\ z.inside = TRUE /\ z.d = c /\ z.i = x.i
      BY <1>1 DEF IsCall, CallFields
    <3> HIDE DEF z
    <3>2. QED
      BY <2>1, <3>1 DEF Stop, IsCall, CallFields
  <2>3. /\ IsContext(c) /\ c.info = x.d.info /\ c.dStage = x.d.dStage
        /\ c.maxBlockSize = x.d.maxBlockSize /\ c.maxBufferSize = x.d.maxBufferSize
        /\ c.room = x.d.room /\ c.stored = <<>> /\ c.target = x.d.target
        /\ c.dict = x.d.dict /\ c.dictSize = x.d.dictSize /\ c.tmpOut = x.d.tmpOut
    BY <1>1 DEF IsContext, ContextFields
  <2> HIDE DEF y, z, c
  <2>4. Kept(x, y) /\ Holds(y, a) /\ y.d.dStage = "getFrameHeader"
    BY <1>1, <2>2, <2>3, EmptyWire DEF Kept, Holds
  <2>5. Storing(y.d)
    BY <2>4 DEF Storing, Early, Data, InBlocks, AtSuffix, Skips
  <2>6. Always(y, a, keep) /\ Begun(x, y)
    BY <2>4, KeptAlways DEF Begun, Kept, Early
  <2>7. QED
    BY <1>1, <2>5, <2>6, BeginsFrame
<1>8. CASE ~(n >= maxFHSize) /\ n # 0
  <2> DEFINE z == [x EXCEPT !.d.stored = <<>>, !.d.target = minFHSize, !.d.dStage = "storeFrameHeader"]
             c == [x.d EXCEPT !.stored = <<>>, !.target = minFHSize, !.dStage = "storeFrameHeader"]
  <2>1. y = z
    BY <1>8 DEF GetFrameHeader
  <2>2. /\ IsCall(z) /\ z.m = x.m /\ z.o = x.o /\ z.inside = TRUE /\ z.d = c /\ z.i = x.i /\ z.go = "go"
    BY <1>1 DEF IsCall, CallFields
  <2>3. /\ IsContext(c) /\ c.info = x.d.info /\ c.dStage = "storeFrameHeader"
        /\ c.maxBlockSize = x.d.maxBlockSize /\ c.maxBufferSize = x.d.maxBufferSize
        /\ c.room = x.d.room /\ c.stored = <<>> /\ c.target = minFHSize
        /\ c.dict = x.d.dict /\ c.dictSize = x.d.dictSize /\ c.tmpOut = x.d.tmpOut
    BY <1>1 DEF IsContext, ContextFields
  <2> HIDE DEF y, z, c
  <2>4. Kept(x, z) /\ Holds(z, a)
    BY <1>1, <2>2, <2>3, EmptyWire DEF Kept, Holds, minFHSize
  <2>5. Storing(z.d)
    <3>1. Len(z.d.stored) = 0 /\ z.d.target = 7 /\ z.d.dStage = "storeFrameHeader"
      BY <2>2, <2>3, EmptyWire DEF minFHSize
    <3>2. QED
      BY <3>1 DEF Storing, Early, Data, InBlocks, AtSuffix, Skips, minFHSize, maxFHSize
  <2>6. Always(z, a, keep) /\ Begun(x, z)
    BY <2>2, <2>3, <2>4, KeptAlways DEF Begun, Kept, Early
  <2>7. Turned(x, z, a, h, w, keep)
    BY <1>1, <2>5, <2>6, BeginsFrame
  <2>8. QED
    BY <2>1, <2>7
<1>9. QED
  BY <1>6, <1>7, <1>8

LEMMA SkippableStays ==
  ASSUME NEW b, NEW c, Len(b) >= minFHSize, Len(b) \in Nat,
         \A k \in 1 .. Len(b) : c[k] = b[k], ~IsSkippable(b)
  PROVE  ~IsSkippable(c)
<1>1. 1 \in 1 .. Len(b) /\ 2 \in 1 .. Len(b) /\ 3 \in 1 .. Len(b) /\ 4 \in 1 .. Len(b)
  BY DEF minFHSize
<1>2. LZ4F_readLE32(c) = LZ4F_readLE32(b)
  BY <1>1 DEF LZ4F_readLE32
<1>3. QED
  BY <1>2 DEF IsSkippable

LEMMA TurnsStoredHeader ==
  ASSUME NEW x, NEW a, NEW h, NEW w, NEW keep, Always(x, a, keep), Going(x, a, h, w, keep),
         x.go = "go", x.d.dStage = "storeFrameHeader"
  PROVE  Turned(x, StoreFrameHeader(a, x), a, h, w, keep)
<1> DEFINE y == StoreFrameHeader(a, x)
           s == Store(a, x, x.d.target)
           b == s.d.stored
           hd == LZ4F_decodeHeader(s.d, b, TRUE)
<1> SUFFICES Turned(x, y, a, h, w, keep)
  OBVIOUS
<1>1. /\ IsCall(x) /\ WellFormed(x.d) /\ x.inside = TRUE /\ x.d.dStage \in Early
      /\ x.d.stored \in Seq(Wire)
  BY DEF Always, WellFormed, Early
<1>2. /\ x.d.target \in minFHSize .. maxFHSize /\ Len(x.d.stored) <= x.d.target
      /\ x.d.target > minFHSize => Len(x.d.stored) >= minFHSize /\ ~IsSkippable(x.d.stored)
  BY DEF Going, Storing
<1>3. x.d.target \in Nat
  BY <1>2 DEF minFHSize, maxFHSize
<1>4. y = IF Missing(s, s.d.target) > 0 THEN Stop(s, Missing(s, s.d.target) + BHSize)
          ELSE [IF hd.err # "none" THEN [Err(x, hd.err) EXCEPT !.d = hd.d] ELSE [x EXCEPT !.d = hd.d]
                EXCEPT !.i = s.i]
  BY DEF StoreFrameHeader
<1> HIDE DEF y, hd
<1>5. /\ Kept(x, s) /\ Holds(s, a) /\ s.d.dStage = x.d.dStage /\ s.d.target = x.d.target
      /\ Len(b) <= x.d.target /\ Len(x.d.stored) <= Len(b)
      /\ \A k \in 1 .. Len(x.d.stored) : b[k] = x.d.stored[k]
  <2> HIDE DEF s
  <2> QED BY <1>2, <1>3, StoreIs DEF s
<1> HIDE DEF s
<1>6. b \in Seq(Wire) /\ Len(b) \in Nat /\ Len(x.d.stored) \in Nat
  BY <1>1, <1>5, LenProperties DEF Holds
<1>7. x.d.target > minFHSize => Len(b) >= minFHSize /\ ~IsSkippable(b)
  <2>1. SUFFICES ASSUME x.d.target > minFHSize
                 PROVE  Len(b) >= minFHSize /\ ~IsSkippable(b)
    OBVIOUS
  <2>2. Len(x.d.stored) >= minFHSize /\ ~IsSkippable(x.d.stored)
    BY <1>2, <2>1
  <2> HIDE DEF b
  <2>3. Len(b) >= minFHSize
    BY <1>5, <1>6, <2>2 DEF minFHSize
  <2>4. ~IsSkippable(b)
    BY <1>5, <1>6, <2>2, SkippableStays
  <2>5. QED
    BY <2>3, <2>4
<1>8. CASE Missing(s, s.d.target) > 0
  <2>1. Sound(s)
    BY <1>5, SoundKept
  <2>2. Kept(s, y) /\ y.d = s.d /\ y.i = s.i
    BY <1>4, <1>8, <2>1, Stops
  <2>3. Kept(x, y) /\ Holds(y, a)
    BY <1>5, <2>2, KeptTwice DEF Holds
  <2>4. /\ y.d.dStage = "storeFrameHeader" /\ y.d.target \in minFHSize .. maxFHSize
        /\ Len(y.d.stored) <= y.d.target
        /\ y.d.target > minFHSize => Len(y.d.stored) >= minFHSize /\ ~IsSkippable(y.d.stored)
    BY <1>2, <1>5, <1>7, <2>2 DEF b
  <2>5. Storing(y.d)
    BY <2>4 DEF Storing, Early, Data, InBlocks, AtSuffix, Skips
  <2>6. Always(y, a, keep) /\ Begun(x, y)
    BY <2>3, <2>4, KeptAlways DEF Begun, Kept, Early
  <2>7. QED
    BY <1>1, <2>5, <2>6, BeginsFrame
<1>9. CASE ~(Missing(s, s.d.target) > 0)
  <2>1. WellFormed(s.d)
    BY <1>5, KeptAlways DEF Always
  <2>2. TRUE /\ IsSkippable(b) => Len(b) <= 8
    <3>1. ASSUME IsSkippable(b) PROVE Len(b) <= 8
      <4>1. ~(x.d.target > minFHSize)
        BY <1>7, <3>1
      <4> DEFINE l == Len(b)
                 t == x.d.target
      <4>2. t \in 7 .. 19 /\ ~(t > 7) /\ l <= t /\ l \in Nat
        BY <1>2, <1>5, <1>6, <4>1 DEF minFHSize, maxFHSize
      <4> HIDE DEF l, t
      <4>3. l <= 8
        BY ONLY <4>2
      <4>4. QED
        BY <4>3 DEF l
    <3>2. QED
      BY <3>1
  <2>3. HeaderRead(s.d, hd, b)
    <3> HIDE DEF b
    <3>1. TRUE \in BOOLEAN
      OBVIOUS
    <3>2. QED
      BY <1>6, <2>1, <2>2, <3>1, DecodesHeader DEF hd
  <2>4. HeaderRead(x.d, hd, b)
    BY <1>5, <2>3 DEF HeaderRead, Kept
  <2>5. HasRead(x, y, a, hd)
    <3>1. CASE hd.err # "none"
      <4>1. y = [[Err(x, hd.err) EXCEPT !.d = hd.d] EXCEPT !.i = s.i]
        BY <1>4, <1>9, <3>1
      <4>2. /\ IsCall(y) /\ y.m = x.m /\ y.o = x.o /\ y.inside = TRUE /\ y.d = hd.d
            /\ y.i = s.i /\ y.go = hd.err
        BY <1>1, <4>1 DEF Err, IsCall, CallFields
      <4>3. QED
        BY <1>5, <3>1, <4>2 DEF HasRead, Holds
    <3>2. CASE hd.err = "none"
      <4>1. y = [[x EXCEPT !.d = hd.d] EXCEPT !.i = s.i]
        BY <1>4, <1>9, <3>2
      <4>2. /\ IsCall(y) /\ y.m = x.m /\ y.o = x.o /\ y.inside = TRUE /\ y.d = hd.d
            /\ y.i = s.i /\ y.go = "go"
        BY <1>1, <4>1 DEF IsCall, CallFields
      <4>3. QED
        BY <1>5, <3>2, <4>2 DEF HasRead, Holds
    <3>3. QED
      BY <3>1, <3>2
  <2>6. QED
    BY <1>1, <2>4, <2>5, HeaderTaken
<1>10. QED
  BY <1>8, <1>9

-----------------------------------------------------------------------------
(* Stages that put something out.                                          *)

\* What was put out is the same before and after the history is rearranged.
LEMMA ReadSame ==
  ASSUME NEW m1, NEW m2, NEW o \in Int, NEW n \in Nat, \A q \in o .. o + n - 1 : m2[q] = m1[q]
  PROVE  Read(m2, o, n) = Read(m1, o, n)
<1>1. ASSUME NEW k \in 1 .. n
      PROVE  m2[o + k - 1] = m1[o + k - 1]
  <2>1. o + k - 1 \in o .. o + n - 1
    OBVIOUS
  <2>2. QED
    BY <2>1
<1>2. QED
  BY <1>1 DEF Read

LEMMA OutsideWider ==
  ASSUME NEW mem, NEW d, NEW o \in Int, NEW n \in Nat, NEW a, NEW h, NEW w, NEW keep,
         Outside(mem, d, o, a, h, w, keep)
  PROVE  Outside(mem, d, o + n, a, h, w, keep)
<1>1. \A q \in a.dst .. o - 1 : q \in a.dst .. o + n - 1
  OBVIOUS
<1>2. Given(d, o, a, w, keep) => Given(d, o + n, a, w, keep)
  BY <1>1 DEF Given
<1>3. QED
  BY <1>2 DEF Outside

\* How far the call has got: what it read, what it put out, and its stage.
Moved(x, y, n) ==
  /\ IsCall(y) /\ y.m = x.m /\ y.o = x.o + n /\ y.inside = TRUE
  /\ IsContext(y.d) /\ y.d.info = x.d.info
  /\ y.d.maxBlockSize = x.d.maxBlockSize /\ y.d.maxBufferSize = x.d.maxBufferSize
  /\ y.d.room = x.d.room
  /\ y.d.dict = x.d.dict /\ y.d.dictSize = x.d.dictSize /\ y.d.tmpOut = x.d.tmpOut

LEMMA MovedAlways ==
  ASSUME NEW x, NEW a, NEW keep, Always(x, a, keep), NEW n \in Nat, x.o + n <= a.end,
         NEW y, Moved(x, y, n), Holds(y, a)
  PROVE  Always(y, a, keep)
<1>1. WellFormed(y.d)
  BY DEF Always, WellFormed, Moved, Holds, Allocated
<1>2. a.dst \in Nat /\ a.end \in Nat /\ x.o \in a.dst .. a.end
  BY DEF Always, Within
<1>3. y.o \in a.dst .. a.end
  BY <1>2 DEF Moved
<1>4. Within(y, a, keep)
  BY <1>3 DEF Always, Within, Holds
<1>5. QED
  BY <1>1, <1>4 DEF Always, Moved

\* A stage between the blocks of a frame is left for another such stage, its
\* output being before y.o and the history in y what it was, and that output.
Between(x, y, n) ==
  /\ x.d.dStage \in Data /\ y.d.dStage \in Data /\ y.o = x.o + n /\ y.d.info = x.d.info
  /\ y.d.maxBlockSize = x.d.maxBlockSize /\ y.d.maxBufferSize = x.d.maxBufferSize

LEMMA BetweenBlocks ==
  ASSUME NEW x, NEW a, NEW h, NEW w, NEW keep, Always(x, a, keep), Going(x, a, h, w, keep),
         NEW n \in Nat, x.o + n <= a.end,
         NEW y, Always(y, a, keep), Between(x, y, n), Filled(y.d),
         NEW g, g = LastOf(h \o Read(y.m, x.o, n), KB64),
         NEW v, v = LastOf(w \o [k \in 1 .. n |-> x.o + k - 1], KB64),
         x.d.info.linked => History(y, a, g, v, keep),
         ~x.d.info.linked => History(y, a, h, w, keep)
  PROVE  Turned(x, y, a, h, w, keep)
<1>1. /\ x.d.dStage \in Data /\ y.d.dStage \in Data /\ y.o = x.o + n /\ y.d.info = x.d.info
      /\ y.d.maxBlockSize = x.d.maxBlockSize /\ y.d.maxBufferSize = x.d.maxBufferSize
  BY DEF Between
<1>2. y.d.dStage # "init" /\ y.d.dStage # "getFrameHeader"
  BY <1>1 DEF Data, InBlocks
<1>3. Storing(y.d)
  <2>1. x.d.maxBlockSize \in BlockSizes /\ x.d.maxBlockSize + Window(x.d) <= x.d.maxBufferSize
    BY <1>1 DEF Going, Storing
  <2>2. y.d.maxBlockSize \in BlockSizes /\ y.d.maxBlockSize + Window(y.d) <= y.d.maxBufferSize
    BY <1>1, <2>1 DEF Window
  <2>3. QED
    BY <1>1, <2>2 DEF Storing, Filled, Early, Data, InBlocks, AtSuffix, Skips
<1>4. y.o - x.o = n
  <2>1. x.o \in Nat
    BY ONLY Always(x, a, keep), Facts
  <2>2. QED
    BY <1>1, <2>1
<1>5. /\ HistAfter(x, y, h) = IF x.d.info.linked THEN g ELSE h
      /\ WhereAfter(x, y, w) = IF x.d.info.linked THEN v ELSE w
  BY <1>2, <1>4 DEF HistAfter, WhereAfter, Over
<1>6. Going(y, a, HistAfter(x, y, h), WhereAfter(x, y, w), keep)
  BY <1>3, <1>5 DEF Going
<1>7. QED
  BY <1>2, <1>6 DEF Turned, Fine

\* The history of a frame in the next stage, where the frame's blocks are linked
\* and where they are not.
LEMMA LinkedStage ==
  ASSUME NEW y, y.d.dStage \in InBlocks, y.d.info.linked, NEW a, NEW g, NEW v, NEW keep,
         Remembered(g, v), LinkedHistory(y.m, y.d, y.o, a, g, v, keep), Recent(y.m, y.o, a, g, v)
  PROVE  History(y, a, g, v, keep)
<1>1. y.d.dStage \notin Early /\ y.d.dStage # "flushOut"
  BY DEF Early, InBlocks
<1>2. QED
  BY <1>1 DEF History

LEMMA SingleStage ==
  ASSUME NEW y, y.d.dStage \in Data, ~y.d.info.linked, NEW a, NEW h, NEW w, NEW keep,
         Remembered(h, w), Outside(y.m, y.d, y.o, a, h, w, keep), y.d.dict # TMPOUT,
         y.d.tmpOut = TMPOUT, y.d.dStage = "flushOut" => Placed(y.d)
  PROVE  History(y, a, h, w, keep)
<1>1. y.d.dStage \notin Early
  BY DEF Early, Data, InBlocks
<1>2. QED
  BY <1>1 DEF History

\* What is put out is in the destination, and nothing else has changed.
PutOut(x, u, s) ==
  /\ Wrote(x, u, s) /\ u.d.info = x.d.info
  /\ u.d.maxBlockSize = x.d.maxBlockSize /\ u.d.maxBufferSize = x.d.maxBufferSize
  /\ u.d.dict = x.d.dict /\ u.d.dictSize = x.d.dictSize /\ u.d.tmpOut = x.d.tmpOut

\* n bytes of s are output, and the history is continued with them.
Output(x, u, z, n, s, a) ==
  /\ x.d.dStage \in InBlocks
  /\ Len(s) \in Nat /\ x.o + Len(s) <= a.end /\ n \in 0 .. Len(s) /\ (a.dst = NULL => n = 0)
  /\ PutOut(x, u, s)
  /\ z = IF x.d.info.linked /\ a.dst # NULL THEN LZ4F_updateDict(a, u, x.o, n, FALSE) ELSE u

\* The history after n bytes from address o, and where they are.
Next64(h, mem, o, n) == LastOf(h \o Read(mem, o, n), KB64)
Next64At(w, o, n) == LastOf(w \o [k \in 1 .. n |-> o + k - 1], KB64)

\* LZ4F_updateDict leaves the history where the next block finds it.
LEMMA Copies ==
  ASSUME NEW x, NEW a, NEW h, NEW w, NEW keep, Always(x, a, keep), Going(x, a, h, w, keep),
         NEW u, NEW z, NEW n, NEW s, Output(x, u, z, n, s, a)
  PROVE  LET f == Next64(h, u.m, x.o, n)
             v == Next64At(w, x.o, n)
         IN  /\ Always(u, a, keep) /\ Rearranged(u, z) /\ z.d.tmpOut = u.d.tmpOut
             /\ x.d.info.linked /\ a.dst # NULL =>
                  LinkedHistory(z.m, z.d, x.o + n, a, f, v, keep) /\ Recent(z.m, x.o + n, a, f, v)
<1>1. /\ x.d.dStage \in InBlocks
      /\ Len(s) \in Nat /\ x.o + Len(s) <= a.end /\ n \in 0 .. Len(s) /\ (a.dst = NULL => n = 0)
      /\ Wrote(x, u, s) /\ u.d.info = x.d.info
      /\ u.d.maxBlockSize = x.d.maxBlockSize /\ u.d.maxBufferSize = x.d.maxBufferSize
      /\ u.d.dict = x.d.dict /\ u.d.dictSize = x.d.dictSize /\ u.d.tmpOut = x.d.tmpOut
      /\ z = IF x.d.info.linked /\ a.dst # NULL THEN LZ4F_updateDict(a, u, x.o, n, FALSE) ELSE u
  BY DEF Output, PutOut
<1>2. /\ x.o \in Nat /\ a.dst \in Nat /\ a.end \in Nat /\ a.dst <= x.o
      /\ x.d.dict \in Nat /\ x.d.dictSize \in Nat /\ Allocated(x.d)
  BY ONLY Always(x, a, keep), Facts
<1>3. n \in Nat /\ x.o + n <= a.end /\ x.o \in Int /\ a.dst \in Int
  BY ONLY <1>1, <1>2
<1>4. Always(u, a, keep) /\ Spared(x.m, u.m, x.o, a, keep) /\ u.o = x.o
  BY <1>1, PutsOut DEF Wrote, SameCall
<1>5. /\ Remembered(h, w)
      /\ x.d.info.linked => LinkedHistory(x.m, x.d, x.o, a, h, w, keep) /\ Recent(x.m, x.o, a, h, w)
  BY <1>1 DEF Going, History, Data
<1> DEFINE f == Next64(h, u.m, x.o, n)
           v == Next64At(w, x.o, n)
<1>6. Later(f, h, u.m, x.o, n) /\ LaterAt(v, w, x.o, n)
  BY <1>3, <1>5, HistoryGrows, WhereGrows DEF Remembered, Next64, Next64At
<1> HIDE DEF f, v
<1>7. CASE x.d.info.linked /\ a.dst # NULL
  <2>2. z = LZ4F_updateDict(a, u, u.o, n, FALSE)
    BY <1>1, <1>4, <1>7
  <2>3. LinkedHistory(u.m, u.d, u.o, a, h, w, keep)
    <3>1. LinkedHistory(u.m, x.d, x.o, a, h, w, keep)
      BY <1>2, <1>4, <1>5, <1>7, SparedLinked
    <3>2. QED
      BY <1>1, <1>4, <3>1 DEF LinkedHistory, Found, Given
  <2>4. Recent(u.m, u.o, a, h, w)
    <3>1. Recent(u.m, x.o, a, h, w)
      BY <1>2, <1>3, <1>4, <1>5, <1>7, SparedRecent
    <3>2. QED
      BY <1>4, <3>1
  <2>5. 2 * KB64 <= u.d.maxBufferSize
    <3>1. x.d.maxBlockSize \in BlockSizes /\ x.d.maxBlockSize + 2 * KB64 <= x.d.maxBufferSize
      BY <1>1, <1>7 DEF Going, Storing, Data, Window
    <3>2. KB64 \in Nat /\ x.d.maxBufferSize \in Nat
      BY <1>2, Bounds
    <3>3. x.d.maxBlockSize \in Nat
      BY ONLY <3>1, <3>2 DEF BlockSizes
    <3>4. QED
      BY <1>1, <3>1, <3>2, <3>3
  <2>6. Later(f, h, u.m, u.o, n) /\ LaterAt(v, w, u.o, n) /\ u.o + n <= a.end
    BY <1>3, <1>4, <1>6
  <2>7. /\ Rearranged(u, z) /\ z.d.tmpOut = u.d.tmpOut
        /\ LinkedHistory(z.m, z.d, u.o + n, a, f, v, keep)
        /\ Recent(z.m, u.o + n, a, f, v)
    BY <1>3, <1>4, <1>5, <1>7, <2>2, <2>3, <2>4, <2>5, <2>6, UpdatesDict
  <2>8. QED
    BY <1>4, <2>7 DEF f, v
<1>8. CASE ~(x.d.info.linked /\ a.dst # NULL)
  <2>1. z = u
    BY <1>1, <1>8
  <2>2. Rearranged(u, u)
    BY <1>4, RearrangedNot
  <2>3. QED
    BY <1>4, <1>8, <2>1, <2>2
<1>9. QED
  BY <1>7, <1>8

LEMMA Delivers ==
  ASSUME NEW x, NEW a, NEW h, NEW w, NEW keep, Always(x, a, keep), Going(x, a, h, w, keep),
         NEW u, NEW z, NEW n, NEW s, Output(x, u, z, n, s, a),
         NEW y, Moved(z, y, n), Holds(y, a), Filled(y.d), y.d.dStage \in InBlocks
  PROVE  Turned(x, y, a, h, w, keep)
<1>1. /\ x.d.dStage \in InBlocks
      /\ Len(s) \in Nat /\ x.o + Len(s) <= a.end /\ n \in 0 .. Len(s) /\ (a.dst = NULL => n = 0)
      /\ Wrote(x, u, s) /\ u.d.info = x.d.info
      /\ u.d.maxBlockSize = x.d.maxBlockSize /\ u.d.maxBufferSize = x.d.maxBufferSize
      /\ u.d.dict = x.d.dict /\ u.d.dictSize = x.d.dictSize /\ u.d.tmpOut = x.d.tmpOut
      /\ z = IF x.d.info.linked /\ a.dst # NULL THEN LZ4F_updateDict(a, u, x.o, n, FALSE) ELSE u
  BY DEF Output, PutOut
<1>2. /\ x.o \in Nat /\ a.dst \in Nat /\ a.end \in Nat /\ a.dst <= x.o
      /\ x.d.dict \in Nat /\ x.d.dictSize \in Nat /\ Allocated(x.d)
      /\ \A q \in a.dst .. a.end - 1 : q \in Addresses /\ q \notin keep
      /\ \A q \in a.dst .. a.end : q \notin TmpOut
  BY ONLY Always(x, a, keep), Facts
<1>3. n \in Nat /\ x.o + n <= a.end /\ x.o \in Int /\ a.dst \in Int
  BY ONLY <1>1, <1>2
<1>4. Always(u, a, keep) /\ Spared(x.m, u.m, x.o, a, keep) /\ u.o = x.o
  BY <1>1, PutsOut DEF Wrote, SameCall
<1>5. /\ Remembered(h, w)
      /\ x.d.info.linked => LinkedHistory(x.m, x.d, x.o, a, h, w, keep) /\ Recent(x.m, x.o, a, h, w)
      /\ ~x.d.info.linked => /\ x.d.dict # TMPOUT /\ x.d.tmpOut = TMPOUT
                             /\ Outside(x.m, x.d, x.o, a, h, w, keep)
  BY <1>1 DEF Going, History, Data
<1>6. \A q \in x.o .. x.o + n - 1 : q \in Addresses /\ q \notin TmpOut
  <2>1. \A q \in x.o .. x.o + n - 1 : q \in a.dst .. a.end - 1 /\ q \in a.dst .. a.end
    BY ONLY <1>2, <1>3
  <2>2. QED
    BY <1>2, <2>1
<1>7. /\ IsCall(y) /\ y.m = z.m /\ y.o = z.o + n /\ y.d.info = z.d.info
      /\ y.d.maxBlockSize = z.d.maxBlockSize /\ y.d.maxBufferSize = z.d.maxBufferSize
      /\ y.d.dict = z.d.dict /\ y.d.dictSize = z.d.dictSize /\ y.d.tmpOut = z.d.tmpOut
  BY DEF Moved
<1> DEFINE g == LastOf(h \o Read(y.m, x.o, n), KB64)
           v == LastOf(w \o [k \in 1 .. n |-> x.o + k - 1], KB64)
<1>8. Later(g, h, y.m, x.o, n) /\ LaterAt(v, w, x.o, n)
  BY <1>3, <1>5, HistoryGrows, WhereGrows DEF Remembered
<1>9. CASE x.d.info.linked /\ a.dst # NULL
  <2> DEFINE f == LastOf(h \o Read(u.m, x.o, n), KB64)
  <2>7. /\ Rearranged(u, z) /\ z.d.tmpOut = u.d.tmpOut
        /\ LinkedHistory(z.m, z.d, x.o + n, a, f, v, keep)
        /\ Recent(z.m, x.o + n, a, f, v)
    <3> HIDE DEF g
    <3>1. QED
      BY <1>9, Copies DEF Next64, Next64At
  <2> HIDE DEF f, g, v
  <2>8. f = g
    <3>1. \A q \in x.o .. x.o + n - 1 : y.m[q] = u.m[q]
      BY <1>6, <1>7, <2>7 DEF Rearranged
    <3>2. Read(y.m, x.o, n) = Read(u.m, x.o, n)
      BY <1>3, <3>1, ReadSame
    <3>3. QED
      BY <3>2 DEF f, g
  <2>9. /\ z.o = x.o /\ z.d.info = x.d.info /\ z.d.maxBlockSize = x.d.maxBlockSize
        /\ z.d.maxBufferSize = x.d.maxBufferSize /\ Always(z, a, keep)
    <3>1. Always(z, a, keep)
      BY <1>4, <2>7, RearrangedAlways
    <3>2. /\ z.o = u.o /\ z.d.info = u.d.info /\ z.d.maxBlockSize = u.d.maxBlockSize
          /\ z.d.maxBufferSize = u.d.maxBufferSize
      BY <2>7 DEF Rearranged, SameCall, SameFrame
    <3>3. QED
      BY <1>1, <1>4, <3>1, <3>2
  <2>10. Remembered(g, v)
    BY <1>3, <1>5, <1>6, <1>8, RememberedLater
  <2>11. LinkedHistory(y.m, y.d, y.o, a, g, v, keep) /\ Recent(y.m, y.o, a, g, v)
    BY <1>4, <1>7, <2>7, <2>8, <2>9 DEF LinkedHistory, Found, Given
  <2>12. History(y, a, g, v, keep)
    BY <1>7, <1>9, <2>9, <2>10, <2>11, LinkedStage
  <2>13. Always(y, a, keep)
    BY <1>3, <2>9, MovedAlways
  <2>14. Between(x, y, n)
    BY <1>1, <1>7, <2>9 DEF Between, Data
  <2>15. QED
    BY <1>3, <1>9, <2>12, <2>13, <2>14, BetweenBlocks DEF g, v
<1>10. CASE ~(x.d.info.linked /\ a.dst # NULL)
  <2> HIDE DEF g, v
  <2>1. z = u
    BY <1>1, <1>10
  <2>2. Always(y, a, keep)
    BY <1>3, <1>4, <2>1, MovedAlways
  <2>3. Between(x, y, n)
    BY <1>1, <1>4, <1>7, <2>1 DEF Between, Data
  <2>4. CASE x.d.info.linked
    <3>1. n = 0
      BY <1>1, <1>10, <2>4
    <3>2. g = h /\ v = w
      <4>1. Later(g, h, y.m, x.o, 0) /\ LaterAt(v, w, x.o, 0)
        BY <1>8, <3>1
      <4>2. QED
        BY <1>5, <4>1, NotGrown
    <3>3. LinkedHistory(u.m, x.d, x.o, a, h, w, keep) /\ Recent(u.m, x.o, a, h, w)
      BY <1>2, <1>3, <1>4, <1>5, <2>4, SparedLinked, SparedRecent
    <3>4. y.m = u.m /\ y.o = x.o
      BY <1>2, <1>4, <1>7, <2>1, <3>1
    <3>5. LinkedHistory(y.m, y.d, y.o, a, h, w, keep) /\ Recent(y.m, y.o, a, h, w)
      BY <1>1, <1>7, <2>1, <3>3, <3>4 DEF LinkedHistory, Found, Given
    <3>6. History(y, a, g, v, keep)
      BY <1>1, <1>5, <1>7, <2>1, <2>4, <3>2, <3>5, LinkedStage
    <3>7. QED
      BY <1>3, <2>2, <2>3, <2>4, <3>6, BetweenBlocks DEF g, v
  <2>5. CASE ~x.d.info.linked
    <3>1. Outside(u.m, x.d, x.o, a, h, w, keep)
      BY <1>2, <1>4, <1>5, <2>5, SparedOutside
    <3>2. Outside(u.m, x.d, x.o + n, a, h, w, keep)
      BY <1>3, <3>1, OutsideWider
    <3>3. Outside(y.m, y.d, y.o, a, h, w, keep)
      BY <1>1, <1>4, <1>7, <2>1, <3>2 DEF Outside, Found, Given
    <3>4. History(y, a, h, w, keep)
      <4>1. ~y.d.info.linked /\ y.d.dict # TMPOUT /\ y.d.tmpOut = TMPOUT
        BY <1>1, <1>5, <1>7, <2>1, <2>5
      <4>2. y.d.dStage \in Data /\ y.d.dStage # "flushOut"
        BY DEF Data, InBlocks
      <4>3. QED
        BY <1>5, <3>3, <4>1, <4>2, SingleStage
    <3>5. QED
      BY <1>3, <2>2, <2>3, <2>5, <3>4, BetweenBlocks
  <2>6. QED
    BY <2>4, <2>5
<1>11. QED
  BY <1>9, <1>10

\* Counting and summing what came out.
LEMMA SummedSound ==
  ASSUME NEW x, Sound(x), NEW s
  PROVE  LET y == Summed(x, s)
         IN  Sound(y) /\ y.m = x.m /\ y.o = x.o /\ y.i = x.i /\ y.go = x.go /\ SameFrame(x.d, y.d)
             /\ y.d.tmpOut = x.d.tmpOut /\ y.d.dict = x.d.dict /\ y.d.dictSize = x.d.dictSize
<1>1. IsCall(x) /\ IsContext(x.d) /\ x.inside = TRUE
  BY DEF Sound
<1> DEFINE y == Summed(x, s)
<1>2. /\ SameCall(x, y) /\ SameFrame(x.d, y.d)
      /\ y.m = x.m /\ y.inside = x.inside /\ y.d.tmpOut = x.d.tmpOut
      /\ y.d.dict = x.d.dict /\ y.d.dictSize = x.d.dictSize
  BY <1>1, SummedIs
<1> HIDE DEF y
<1>3. IsCall(y) /\ IsContext(y.d) /\ y.inside = TRUE /\ y.o = x.o /\ y.i = x.i /\ y.go = x.go
  BY <1>1, <1>2 DEF SameCall, SameFrame
<1>4. Sound(y)
  BY <1>3 DEF Sound
<1>5. QED
  BY <1>2, <1>3, <1>4 DEF y

-----------------------------------------------------------------------------
(* A block that is not compressed.                                         *)

LEMMA TurnsCopyDirect ==
  ASSUME NEW x, NEW a, NEW h, NEW w, NEW keep, Always(x, a, keep), Going(x, a, h, w, keep),
         x.d.dStage = "copyDirect"
  PROVE  Turned(x, CopyDirect(a, x), a, h, w, keep)
<1> DEFINE d == x.d
           room == a.end - x.o
           n == IF a.dst = NULL THEN 0 ELSE Min({d.target, Avail(a, x), room})
           s == Ahead(a, x, n)
           vs == [k \in 1 .. n |-> s[k].v]
           b == IF d.info.blockSum THEN d.block \o s ELSE d.block
           t == [x EXCEPT !.m = Write(@, x.o, vs), !.d.block = b]
           u == Summed(t, vs)
           z == IF d.info.linked /\ a.dst # NULL THEN LZ4F_updateDict(a, u, x.o, n, FALSE) ELSE u
           v == [z EXCEPT !.i = @ + n, !.o = @ + n]
           left == v.d.target - n
           y1 == [v EXCEPT !.d.target = left]
           y2 == [To(v, "getBlockChecksum") EXCEPT !.d.stored = <<>>]
           y3 == To(v, "getBlockHeader")
           hint == d.target - n + BFSize * Flag(d.info.blockSum) + BHSize
<1>1. /\ IsCall(x) /\ IsContext(x.d) /\ x.inside = TRUE /\ WellFormed(x.d) /\ a.src \in Seq(Wire)
      /\ x.i \in 0 .. Len(a.src) /\ x.d.target \in Nat /\ x.d.stored \in Seq(Wire)
      /\ x.o \in a.dst .. a.end /\ a.dst \in Nat /\ a.end \in Nat
  BY DEF Always, WellFormed, Within
<1>2. Len(a.src) \in Nat
  BY <1>1, LenProperties
<1>3. n \in Nat /\ n <= d.target /\ n <= Len(a.src) - x.i /\ x.o + n <= a.end /\ (a.dst = NULL => n = 0)
  <2>1. Avail(a, x) \in Nat /\ room \in Nat
    BY <1>1, <1>2 DEF Avail
  <2>2. LET k == Min({d.target, Avail(a, x), room})
        IN  k \in Nat /\ k <= d.target /\ k <= Avail(a, x) /\ k <= room
    BY <1>1, <2>1, MinThree
  <2>3. QED
    BY <1>1, <1>2, <2>1, <2>2 DEF Avail
<1> HIDE DEF n
<1>4. Len(vs) = n
  <2> DEFINE r == [k \in 1 .. n |-> vs[k]]
  <2>1. vs \in [1 .. n -> {vs[k] : k \in 1 .. n}]
    OBVIOUS
  <2> HIDE DEF vs
  <2>2. QED
    BY <1>3, <2>1, FunSeq
<1> HIDE DEF s, vs
<1>5. CopyDirect(a, x) = IF n < d.target THEN Stop(y1, hint) ELSE IF d.info.blockSum THEN y2 ELSE y3
  BY DEF CopyDirect, n, s, vs
<1> HIDE DEF b, hint
<1>6. Sound(t) /\ t.m = Write(x.m, x.o, vs) /\ t.o = x.o /\ t.i = x.i /\ t.go = x.go
      /\ t.d = [x.d EXCEPT !.block = b]
  BY <1>1 DEF IsCall, CallFields, IsContext, ContextFields, Sound
<1>7. LET e == [x.d EXCEPT !.block = b]
      IN  SameFrame(x.d, e) /\ e.dict = d.dict /\ e.dictSize = d.dictSize /\ e.tmpOut = d.tmpOut
  BY <1>1 DEF SameFrame, IsContext, ContextFields
<1> HIDE DEF t
<1>8. /\ Sound(u) /\ u.m = Write(x.m, x.o, vs) /\ u.o = x.o /\ u.i = x.i /\ u.go = x.go
      /\ SameFrame(x.d, u.d)
      /\ u.d.tmpOut = d.tmpOut /\ u.d.dict = d.dict /\ u.d.dictSize = d.dictSize
  <2>1. LET q == Summed(t, vs)
        IN  Sound(q) /\ q.m = t.m /\ q.o = t.o /\ q.i = t.i /\ q.go = t.go /\ SameFrame(t.d, q.d)
            /\ q.d.tmpOut = t.d.tmpOut /\ q.d.dict = t.d.dict /\ q.d.dictSize = t.d.dictSize
    BY <1>6, SummedSound
  <2>2. SameFrame(x.d, u.d)
    BY <1>6, <1>7, <2>1 DEF SameFrame
  <2>3. QED
    BY <1>6, <1>7, <2>1, <2>2
<1> HIDE DEF u
<1>9. WellFormed(u.d)
  BY <1>1, <1>8 DEF SameFrame, WellFormed, Allocated
<1>10. Output(x, u, z, n, vs, a)
  <2>1. Wrote(x, u, vs)
    BY <1>8, <1>9 DEF Wrote, SameCall, Sound
  <2>2. PutOut(x, u, vs)
    BY <1>8, <2>1 DEF PutOut, SameFrame
  <2>3. x.d.dStage \in InBlocks /\ n \in 0 .. n
    BY <1>3 DEF InBlocks
  <2>4. QED
    BY <1>3, <1>4, <2>2, <2>3 DEF Output
<1> HIDE DEF z
<1>11. Rearranged(u, z) /\ z.d.tmpOut = u.d.tmpOut
  BY <1>10, Copies
<1>12. /\ IsCall(z) /\ IsContext(z.d) /\ z.inside = TRUE /\ z.i = x.i /\ z.o = x.o
       /\ z.d.stored = d.stored /\ z.d.target = d.target /\ z.d.info = d.info
       /\ z.d.dStage = "copyDirect"
  BY <1>8, <1>11 DEF Rearranged, SameCall, SameFrame
<1>13. Sound(v) /\ v.m = z.m /\ v.i = x.i + n /\ v.o = z.o + n /\ v.d = z.d
  BY <1>12 DEF IsCall, CallFields, Sound
<1> HIDE DEF v
<1> DEFINE Gone(q) == /\ IsCall(q) /\ q.m = v.m /\ q.o = v.o /\ q.inside = TRUE /\ q.i = v.i
                      /\ IsContext(q.d) /\ q.d.info = v.d.info
                      /\ q.d.maxBlockSize = v.d.maxBlockSize /\ q.d.maxBufferSize = v.d.maxBufferSize
                      /\ q.d.room = v.d.room
                      /\ q.d.dict = v.d.dict /\ q.d.dictSize = v.d.dictSize /\ q.d.tmpOut = v.d.tmpOut
                      /\ q.d.stored \in Seq(Wire) /\ q.d.target \in Nat
\* However the stage is left.
<1>14. ASSUME NEW q, Gone(q), q.d.dStage \in {"copyDirect", "getBlockHeader", "getBlockChecksum"},
              q.d.dStage = "getBlockChecksum" => Len(q.d.stored) <= 4
       PROVE  Turned(x, q, a, h, w, keep)
  <2>1. Moved(z, q, n)
    BY <1>13, <1>14 DEF Moved
  <2>2. x.i + n \in 0 .. Len(a.src)
    BY <1>1, <1>2, <1>3
  <2>3. Holds(q, a)
    BY <1>13, <1>14, <2>2 DEF Holds
  <2>4. Filled(q.d) /\ q.d.dStage \in InBlocks
    BY <1>14 DEF Filled, InBlocks
  <2> HIDE DEF Gone
  <2>5. QED
    BY <1>10, <2>1, <2>3, <2>4, Delivers
<1>15. left \in Nat
  BY <1>1, <1>3, <1>12, <1>13
<1>16. CASE n < d.target
  <2>1. /\ IsCall(y1) /\ y1.m = v.m /\ y1.o = v.o /\ y1.inside = TRUE /\ y1.i = v.i
        /\ y1.d = [v.d EXCEPT !.target = left]
    BY <1>13 DEF Sound, IsCall, CallFields
  <2> DEFINE e == [v.d EXCEPT !.target = left]
  <2>2. /\ IsContext(e) /\ e.info = v.d.info /\ e.dStage = v.d.dStage
        /\ e.maxBlockSize = v.d.maxBlockSize /\ e.maxBufferSize = v.d.maxBufferSize
        /\ e.room = v.d.room /\ e.stored = v.d.stored /\ e.target = left
        /\ e.dict = v.d.dict /\ e.dictSize = v.d.dictSize /\ e.tmpOut = v.d.tmpOut
    BY <1>13 DEF Sound, IsContext, ContextFields
  <2> HIDE DEF y1, e, left
  <2>3. Sound(y1)
    BY <2>1, <2>2 DEF Sound, e
  <2> DEFINE y == Stop(y1, hint)
  <2>4. Kept(y1, y) /\ y.d = y1.d /\ y.i = y1.i
    BY <2>3, Stops
  <2>5. CopyDirect(a, x) = y
    BY <1>5, <1>16
  <2> HIDE DEF y
  <2>6. Gone(y)
    BY <1>1, <1>12, <1>13, <1>15, <2>1, <2>2, <2>4 DEF Kept, e
  <2>7. y.d.dStage = "copyDirect"
    BY <1>12, <1>13, <2>1, <2>2, <2>4 DEF e
  <2> HIDE DEF Gone
  <2>8. QED
    BY <1>14, <2>5, <2>6, <2>7
<1>17. CASE ~(n < d.target) /\ d.info.blockSum
  <2> DEFINE f == [[v.d EXCEPT !.dStage = "getBlockChecksum"] EXCEPT !.stored = <<>>]
  <2>1. /\ IsCall(y2) /\ y2.m = v.m /\ y2.o = v.o /\ y2.inside = TRUE /\ y2.i = v.i
        /\ y2.d = f
    BY <1>13 DEF Sound, IsCall, CallFields, To
  <2>2. /\ IsContext(f) /\ f.info = v.d.info /\ f.dStage = "getBlockChecksum"
        /\ f.maxBlockSize = v.d.maxBlockSize /\ f.maxBufferSize = v.d.maxBufferSize
        /\ f.room = v.d.room /\ f.stored = <<>> /\ f.target = v.d.target
        /\ f.dict = v.d.dict /\ f.dictSize = v.d.dictSize /\ f.tmpOut = v.d.tmpOut
    BY <1>13 DEF Sound, IsContext, ContextFields
  <2>3. CopyDirect(a, x) = y2
    BY <1>5, <1>17
  <2> HIDE DEF y2, f
  <2>4. Gone(y2)
    BY <1>1, <1>12, <1>13, <2>1, <2>2, EmptyWire
  <2>5. y2.d.dStage = "getBlockChecksum" /\ Len(y2.d.stored) <= 4
    BY <2>1, <2>2, EmptyWire
  <2> HIDE DEF Gone
  <2>6. QED
    BY <1>14, <2>3, <2>4, <2>5
<1>18. CASE ~(n < d.target) /\ ~d.info.blockSum
  <2>1. /\ Kept(v, y3) /\ y3.d.dStage = "getBlockHeader" /\ y3.i = v.i
        /\ y3.d.stored = v.d.stored /\ y3.d.target = v.d.target
    BY <1>13, Enters
  <2>2. CopyDirect(a, x) = y3
    BY <1>5, <1>18
  <2> HIDE DEF y3
  <2>3. Gone(y3)
    BY <1>1, <1>12, <1>13, <2>1 DEF Kept
  <2> HIDE DEF Gone
  <2>4. QED
    BY <1>14, <2>1, <2>2, <2>3
<1>19. QED
  BY <1>16, <1>17, <1>18

-----------------------------------------------------------------------------
(* A block that is compressed.                                             *)

LEMMA FailsAt ==
  ASSUME NEW z, NEW a, NEW keep, Always(z, a, keep), NEW code, code \notin {"go", "stop"},
         NEW x, NEW h, NEW w
  PROVE  Turned(x, Err(z, code), a, h, w, keep)
<1> DEFINE y == Err(z, code)
<1>0. Sound(z) /\ y = Err(z, code)
  BY SoundAlways
<1> HIDE DEF y
<1>1. Kept(z, y) /\ y.d = z.d /\ y.go = code /\ y.i = z.i
  BY <1>0, Errs
<1>2. Holds(z, a)
  BY DEF Always, WellFormed, Within, Holds
<1>3. Holds(y, a)
  BY <1>1, <1>2 DEF Holds
<1>4. Always(y, a, keep)
  BY <1>1, <1>3, KeptAlways
<1>5. QED
  BY <1>1, <1>4 DEF Turned, Fine, y

LEMMA OutAddress ==
  ASSUME NEW x, NEW a, NEW keep, Always(x, a, keep)
  PROVE  x.o \in Int
<1>1. x.o \in Nat
  BY Facts
<1>2. QED
  BY <1>1

\* A step of which nothing has come out yet.
LEMMA Settles ==
  ASSUME NEW x, NEW a, NEW h, NEW w, NEW keep, Always(x, a, keep), Going(x, a, h, w, keep),
         NEW y, Always(y, a, keep), Between(x, y, 0), Filled(y.d), History(y, a, h, w, keep)
  PROVE  Turned(x, y, a, h, w, keep)
<1>1. x.d.dStage \in Data /\ y.d.dStage \in Data /\ y.o = x.o + 0 /\ y.d.info = x.d.info
      /\ y.d.maxBlockSize = x.d.maxBlockSize /\ y.d.maxBufferSize = x.d.maxBufferSize
  BY DEF Between
<1>2. x.o \in Int
  BY OutAddress
<1>3. y.o = x.o /\ ~Over(x, y)
  BY <1>1, <1>2 DEF Over, Data, InBlocks
<1>4. Remembered(h, w)
  BY DEF Going, History
<1>5. HistAfter(x, y, h) = h /\ WhereAfter(x, y, w) = w
  BY <1>2, <1>3, <1>4, NothingOut
<1>6. Storing(x.d)
  BY DEF Going
<1>7. x.d.maxBlockSize \in BlockSizes /\ x.d.maxBlockSize + Window(x.d) <= x.d.maxBufferSize
  BY <1>1, <1>6 DEF Storing
<1>8. y.d.maxBlockSize \in BlockSizes /\ y.d.maxBlockSize + Window(y.d) <= y.d.maxBufferSize
  BY <1>1, <1>7 DEF Window
<1>9. Storing(y.d)
  BY <1>1, <1>8 DEF Storing, Filled, Data, InBlocks, Early, AtSuffix, Skips
<1>10. Going(y, a, h, w, keep) /\ y.d.dStage # "init"
  BY <1>1, <1>9 DEF Going, Data, InBlocks
<1>11. QED
  BY <1>5, <1>10 DEF Turned, Fine

\* The text of a block, and what the decoder may leave behind it.
Padded(text, n) == text \o [k \in 1 .. n - Len(text) |-> 0]

LEMMA TextLength ==
  ASSUME NEW b \in Seq(Wire), Decodes(b)
  PROVE  b[1].of \in Seq(Nat) /\ Len(b[1].of) \in Nat
<1>1. b # <<>>
  BY DEF Decodes, IsPacked
<1>2. b[1] \in Wire
  BY <1>1
<1>3. b[1].of \in Seq(Nat)
  BY <1>2, ReadingAssumption
<1>4. QED
  BY <1>3, LenProperties

LEMMA UnpackedIs ==
  ASSUME NEW b \in Seq(Wire), Decodes(b), NEW old, NEW n \in Nat, Len(b[1].of) <= n
  PROVE  /\ Len(Unpacked(b, old)) \in Nat /\ Len(Unpacked(b, old)) <= n
         /\ Len(Padded(Unpacked(b, old), n)) = n
<1>3. b[1].of \in Seq(Nat)
  BY TextLength
<1> DEFINE of == b[1].of
           text == Unpacked(b, old)
           none == [k \in DOMAIN of |-> 0]
           rest == [k \in 1 .. n - Len(text) |-> 0]
<1>4. of \in Seq(Nat) /\ Len(of) \in Nat /\ DOMAIN of = 1 .. Len(of)
  BY <1>3, LenProperties
<1>5. none \in Seq(Nat) /\ Len(none) = Len(of)
  <2> HIDE DEF of
  <2>1. none \in [1 .. Len(of) -> Nat]
    BY <1>4
  <2> HIDE DEF none
  <2>2. QED
    BY <1>4, <2>1, FunSeq
<1>6. text \in {of, none}
  BY DEF Unpacked
<1>7. Len(of) <= n
  OBVIOUS
<1> HIDE DEF of, none, text
<1>8. text \in Seq(Nat) /\ Len(text) = Len(of)
  BY <1>4, <1>5, <1>6
<1>9. n - Len(text) \in Nat
  BY <1>4, <1>7, <1>8
<1>10. rest \in Seq(Nat) /\ Len(rest) = n - Len(text)
  <2>1. rest \in [1 .. n - Len(text) -> Nat]
    OBVIOUS
  <2> HIDE DEF rest
  <2>2. QED
    BY <1>9, <2>1, FunSeq
<1>11. Padded(text, n) = text \o rest
  BY DEF Padded
<1> HIDE DEF rest
<1>12. Len(Padded(text, n)) = n
  BY <1>4, <1>8, <1>10, <1>11, ConcatProperties
<1>13. QED
  BY <1>4, <1>7, <1>8, <1>12 DEF text

\* The block is in tmpOut and goes out from there.
Filling(x, n) == [x EXCEPT !.d.tmpOutSize = n, !.d.tmpOutStart = 0, !.d.dStage = "flushOut"]

LEMMA FillingIs ==
  ASSUME NEW x, NEW a, NEW keep, Always(x, a, keep), NEW n
  PROVE  LET y == Filling(x, n)
         IN  /\ Kept(x, y) /\ Always(y, a, keep)
             /\ y.d.dStage = "flushOut" /\ y.d.tmpOutSize = n /\ y.d.tmpOutStart = 0
<1> DEFINE y == Filling(x, n)
           e == [x.d EXCEPT !.tmpOutSize = n, !.tmpOutStart = 0, !.dStage = "flushOut"]
<1>1. IsCall(x) /\ IsContext(x.d) /\ x.inside = TRUE /\ Holds(x, a)
  BY DEF Always, WellFormed, Within, Holds
<1>2. /\ IsCall(y) /\ y.m = x.m /\ y.o = x.o /\ y.inside = TRUE /\ y.i = x.i /\ y.d = e
  BY <1>1 DEF Filling, IsCall, CallFields
<1>3. /\ IsContext(e) /\ e.info = x.d.info /\ e.maxBlockSize = x.d.maxBlockSize
      /\ e.maxBufferSize = x.d.maxBufferSize /\ e.room = x.d.room /\ e.stored = x.d.stored
      /\ e.target = x.d.target /\ e.dict = x.d.dict /\ e.dictSize = x.d.dictSize
      /\ e.tmpOut = x.d.tmpOut
      /\ e.dStage = "flushOut" /\ e.tmpOutSize = n /\ e.tmpOutStart = 0
  BY <1>1 DEF IsContext, ContextFields
<1> HIDE DEF y, e
<1>4. Kept(x, y) /\ Holds(y, a)
  BY <1>1, <1>2, <1>3 DEF Kept, Holds
<1>5. Always(y, a, keep)
  BY <1>4, KeptAlways
<1>6. QED
  BY <1>2, <1>3, <1>4, <1>5 DEF y

\* Where any block fits into the destination, it is decoded there.
Written(x, s) == [x EXCEPT !.m = Write(@, x.o, s)]
Carried(a, x, u, n) == IF x.d.info.linked THEN LZ4F_updateDict(a, u, x.o, n, FALSE) ELSE u
Past(z, n) == [z EXCEPT !.o = @ + n, !.d.dStage = "getBlockHeader"]

LEMMA DecodesDirect ==
  ASSUME NEW x, NEW a, NEW h, NEW w, NEW keep, Always(x, a, keep), Going(x, a, h, w, keep),
         x.d.dStage \in InBlocks, NEW x1, Kept(x, x1), Holds(x1, a), SameCall(x, x1),
         a.end - x.o >= x.d.maxBlockSize,
         NEW text, Len(text) \in Nat, Len(text) <= x.d.maxBlockSize,
         NEW s, Len(s) = x.d.maxBlockSize,
         NEW u, u = Written(Summed(x1, text), s),
         NEW z, z = Carried(a, x, u, Len(text))
  PROVE  Turned(x, Past(z, Len(text)), a, h, w, keep)
<1> DEFINE n == Len(text)
           v == Summed(x1, text)
           y == Past(z, n)
<1>1. /\ WellFormed(x.d) /\ x.o \in a.dst .. a.end /\ a.dst \in Nat /\ a.end \in Nat
      /\ a.dst = NULL => a.end = NULL
  BY DEF Always, Within
<1>2. x.d.maxBlockSize \in BlockSizes
  BY DEF Going, Storing, Data
<1>3. KB64 \in Nat /\ KB64 > 0
  BY ReadingAssumption
<1>4. x.d.maxBlockSize \in Nat /\ x.d.maxBlockSize > 0
  BY ONLY <1>2, <1>3 DEF BlockSizes
<1>5. a.dst # NULL
  BY <1>1, <1>4 DEF NULL
<1>6. n \in 0 .. Len(s) /\ Len(s) \in Nat /\ x.o + Len(s) <= a.end /\ x.o + n <= a.end /\ n \in Nat
  BY <1>1, <1>4
<1>7. Sound(x1)
  BY SoundKept
<1>8. Sound(v) /\ v.m = x1.m /\ v.o = x1.o /\ v.i = x1.i /\ v.go = x1.go /\ SameFrame(x1.d, v.d)
      /\ v.d.tmpOut = x1.d.tmpOut /\ v.d.dict = x1.d.dict /\ v.d.dictSize = x1.d.dictSize
  BY <1>7, SummedSound
<1>9. u = [v EXCEPT !.m = Write(@, v.o, s)]
  BY DEF Written
<1> HIDE DEF v
<1>10. Sound(u) /\ u.m = Write(v.m, v.o, s) /\ u.o = v.o /\ u.i = v.i /\ u.go = v.go /\ u.d = v.d
  BY <1>8, <1>9 DEF Sound, IsCall, CallFields
<1>11. Wrote(x, u, s)
  <2>1. WellFormed(u.d)
    <3>1. /\ IsContext(v.d) /\ v.d.info = x1.d.info /\ v.d.stored = x1.d.stored
          /\ v.d.target = x1.d.target /\ v.d.maxBufferSize = x1.d.maxBufferSize /\ v.d.room = x1.d.room
      BY <1>8 DEF SameFrame
    <3>2. /\ x1.d.info = x.d.info /\ x1.d.maxBufferSize = x.d.maxBufferSize /\ x1.d.room = x.d.room
          /\ x1.d.dict = x.d.dict /\ x1.d.dictSize = x.d.dictSize
          /\ x1.d.stored \in Seq(Wire) /\ x1.d.target \in Nat
      BY DEF Kept, Holds
    <3>3. WellFormed(v.d)
      BY <1>1, <1>8, <3>1, <3>2 DEF WellFormed, Allocated
    <3>4. QED
      BY <1>10, <3>3
  <2>2. SameCall(x, u) /\ u.inside = TRUE
    BY <1>8, <1>10 DEF SameCall, Sound
  <2>3. u.m = Write(x.m, x.o, s)
    BY <1>8, <1>10 DEF Kept
  <2>4. QED
    BY <2>1, <2>2, <2>3 DEF Wrote
<1>12. Output(x, u, z, n, s, a)
  <2>1. PutOut(x, u, s)
    BY <1>8, <1>10, <1>11 DEF PutOut, Kept, SameFrame
  <2>2. z = IF x.d.info.linked /\ a.dst # NULL THEN LZ4F_updateDict(a, u, x.o, n, FALSE) ELSE u
    BY <1>5 DEF Carried
  <2>3. a.dst = NULL => n = 0
    BY <1>5
  <2> HIDE DEF n
  <2>4. QED
    BY <1>6, <2>1, <2>2, <2>3 DEF Output
<1>13. Rearranged(u, z) /\ z.d.tmpOut = u.d.tmpOut
  BY <1>12, Copies
<1>14. IsCall(z) /\ IsContext(z.d) /\ z.inside = TRUE /\ z.i = u.i
  BY <1>13 DEF Rearranged, SameCall, SameFrame
<1> DEFINE e == [z.d EXCEPT !.dStage = "getBlockHeader"]
<1>15. IsCall(y) /\ y.m = z.m /\ y.o = z.o + n /\ y.i = z.i /\ y.d = e /\ y.inside = TRUE
  BY <1>14 DEF Past, IsCall, CallFields
<1>16. /\ IsContext(e) /\ e.info = z.d.info /\ e.maxBlockSize = z.d.maxBlockSize
       /\ e.maxBufferSize = z.d.maxBufferSize /\ e.room = z.d.room /\ e.stored = z.d.stored
       /\ e.target = z.d.target /\ e.dict = z.d.dict /\ e.dictSize = z.d.dictSize
       /\ e.tmpOut = z.d.tmpOut /\ e.dStage = "getBlockHeader"
  BY <1>14 DEF IsContext, ContextFields
<1> SUFFICES Turned(x, y, a, h, w, keep)
  OBVIOUS
<1> HIDE DEF y, e, n
<1>17. Moved(z, y, n)
  BY <1>15, <1>16 DEF Moved
<1>18. Holds(y, a)
  <2>1. z.d.stored = u.d.stored /\ z.d.target = u.d.target
    BY <1>13 DEF Rearranged, SameFrame
  <2>2. v.d.stored = x1.d.stored /\ v.d.target = x1.d.target
    BY <1>8 DEF SameFrame
  <2>3. y.d.stored = x1.d.stored /\ y.d.target = x1.d.target /\ y.i = x1.i
    BY <1>8, <1>10, <1>14, <1>15, <1>16, <2>1, <2>2
  <2>4. QED
    BY <2>3 DEF Holds
<1>19. Filled(y.d) /\ y.d.dStage \in InBlocks
  BY <1>15, <1>16 DEF Filled, InBlocks
<1>20. QED
  BY <1>12, <1>17, <1>18, <1>19, Delivers

\* Elsewhere it is decoded into tmpOutBuffer, behind the history.
LEMMA DecodesToTmp ==
  ASSUME NEW x, NEW a, NEW h, NEW w, NEW keep, Always(x, a, keep), Going(x, a, h, w, keep),
         x.d.dStage \in InBlocks, NEW x1, Kept(x, x1), Holds(x1, a),
         NEW x2, x2 = PlaceTmp(x1),
         NEW text, Len(text) \in Nat, Len(text) <= x.d.maxBlockSize,
         NEW s, Len(s) = x.d.maxBlockSize,
         NEW v, v = Summed(x2, text),
         NEW t, t = ToTmp(v, v.d.tmpOut, s)
  PROVE  Turned(x, Filling(t, Len(text)), a, h, w, keep)
<1> DEFINE n == Len(text)
           y == Filling(t, n)
<1> SUFFICES Turned(x, y, a, h, w, keep)
  OBVIOUS
<1>1. Always(x1, a, keep)
  BY KeptAlways
<1>2. x.d.maxBlockSize \in BlockSizes /\ x.d.maxBlockSize + Window(x.d) <= x.d.maxBufferSize
  BY DEF Going, Storing, Data
<1>3. KB64 \in Nat /\ KB64 > 0 /\ TMPOUT \in Nat
  BY ReadingAssumption
<1>4. x.d.maxBlockSize \in Nat /\ x.d.maxBlockSize > 0
  BY ONLY <1>2, <1>3 DEF BlockSizes
<1>5. x.d.maxBufferSize \in Nat
  BY Bounds, Facts
<1>6. /\ Remembered(h, w)
      /\ x.d.info.linked => LinkedHistory(x.m, x.d, x.o, a, h, w, keep) /\ Recent(x.m, x.o, a, h, w)
      /\ ~x.d.info.linked => /\ x.d.dict # TMPOUT /\ x.d.tmpOut = TMPOUT
                             /\ Outside(x.m, x.d, x.o, a, h, w, keep)
  BY DEF Going, History, Data
<1>7. n \in 0 .. x.d.maxBlockSize
  BY <1>4
<1> HIDE DEF n
\* What is put behind the text does not matter: where, what is written, and what before it.
<1>8. ASSUME NEW p, Always(p, a, keep), Rearranged(x1, p), v = Summed(p, text)
      PROVE  /\ Always(v, a, keep) /\ Rearranged(p, v) /\ v.m = p.m /\ v.o = x.o /\ v.d.tmpOut = p.d.tmpOut
             /\ v.d.dict = p.d.dict /\ v.d.dictSize = p.d.dictSize
             /\ v.d.info = x.d.info /\ v.d.maxBlockSize = x.d.maxBlockSize
             /\ v.d.maxBufferSize = x.d.maxBufferSize
  <2>1. Sound(p)
    BY <1>8, SoundAlways
  <2>2. /\ Sound(v) /\ v.m = p.m /\ v.o = p.o /\ v.i = p.i /\ v.go = p.go /\ SameFrame(p.d, v.d)
        /\ v.d.tmpOut = p.d.tmpOut /\ v.d.dict = p.d.dict /\ v.d.dictSize = p.d.dictSize
    BY <1>8, <2>1, SummedSound
  <2>3. p.d.dict \in Nat /\ p.d.dictSize \in Nat /\ (p.d.dict = NULL => p.d.dictSize = 0)
        /\ DOMAIN p.m = Addresses
    BY <1>8, Facts
  <2>4. Rearranged(p, v)
    BY <2>2, <2>3 DEF Rearranged, SameCall, Sound
  <2>5. Always(v, a, keep)
    BY <1>8, <2>4, RearrangedAlways
  <2>6. /\ p.o = x1.o /\ p.d.info = x1.d.info /\ p.d.maxBlockSize = x1.d.maxBlockSize
        /\ p.d.maxBufferSize = x1.d.maxBufferSize
    BY <1>8 DEF Rearranged, SameCall, SameFrame
  <2>7. /\ v.d.info = p.d.info /\ v.d.maxBlockSize = p.d.maxBlockSize
        /\ v.d.maxBufferSize = p.d.maxBufferSize
    BY <2>2 DEF SameFrame
  <2>8. /\ x1.o = x.o /\ x1.d.info = x.d.info /\ x1.d.maxBlockSize = x.d.maxBlockSize
        /\ x1.d.maxBufferSize = x.d.maxBufferSize
    BY DEF Kept
  <2>9. QED
    BY <2>2, <2>4, <2>5, <2>6, <2>7, <2>8
\* And once it is there.
<1>9. ASSUME Always(t, a, keep), Rearranged(v, t), v.o = x.o, v.d.info = x.d.info,
             v.d.maxBlockSize = x.d.maxBlockSize, v.d.maxBufferSize = x.d.maxBufferSize,
             History(y, a, h, w, keep)
      PROVE  Turned(x, y, a, h, w, keep)
  <2>1. /\ Kept(t, y) /\ Always(y, a, keep)
        /\ y.d.dStage = "flushOut" /\ y.d.tmpOutSize = n /\ y.d.tmpOutStart = 0
    BY <1>9, FillingIs
  <2> HIDE DEF y
  <2>2. /\ t.o = x.o /\ t.d.info = x.d.info /\ t.d.maxBlockSize = x.d.maxBlockSize
        /\ t.d.maxBufferSize = x.d.maxBufferSize
    <3>1. /\ t.o = v.o /\ t.d.info = v.d.info /\ t.d.maxBlockSize = v.d.maxBlockSize
          /\ t.d.maxBufferSize = v.d.maxBufferSize
      <4>1. Rearranged(v, t)
        BY <1>9
      <4>2. QED
        BY <4>1 DEF Rearranged, SameCall, SameFrame
    <3>2. QED
      BY <1>9, <3>1
  <2>3. x.o + 0 = x.o
    <3>1. x.o \in Nat
      BY ONLY Always(x, a, keep), Facts
    <3>2. QED
      BY ONLY <3>1
  <2>4. Between(x, y, 0)
    BY <2>1, <2>2, <2>3 DEF Between, Kept, Data
  <2>5. Filled(y.d)
    BY <2>1 DEF Filled
  <2>6. QED
    BY <1>9, <2>1, <2>4, <2>5, Settles
<1>10. CASE x.d.info.linked
  <2>1. 2 * KB64 <= x1.d.maxBufferSize /\ x.d.maxBlockSize + 2 * KB64 <= x.d.maxBufferSize
    <3>1. x1.d.maxBufferSize = x.d.maxBufferSize
      BY DEF Kept
    <3>2. x.d.maxBlockSize + 2 * KB64 <= x.d.maxBufferSize
      BY <1>2, <1>10 DEF Window
    <3>3. QED
      BY <1>3, <1>4, <1>5, <3>1, <3>2
  <2>2. LinkedHistory(x1.m, x1.d, x.o, a, h, w, keep) /\ x1.d.info.linked /\ Recent(x1.m, x1.o, a, h, w)
    BY <1>6, <1>10 DEF Kept, LinkedHistory, Found, Given
  <2>3. Rearranged(x1, x2) /\ LinkedHistory(x2.m, x2.d, x.o, a, h, w, keep) /\ Beside(x2.d, h)
    BY <1>1, <1>6, <2>1, <2>2, Places
  <2>4. Always(x2, a, keep)
    BY <1>1, <2>3, RearrangedAlways
  <2>5. /\ Always(v, a, keep) /\ Rearranged(x2, v) /\ v.m = x2.m /\ v.o = x.o /\ v.d.tmpOut = x2.d.tmpOut
        /\ v.d.dict = x2.d.dict /\ v.d.dictSize = x2.d.dictSize
        /\ v.d.info = x.d.info /\ v.d.maxBlockSize = x.d.maxBlockSize
        /\ v.d.maxBufferSize = x.d.maxBufferSize
    BY <1>8, <2>3, <2>4
  <2>6. LinkedHistory(v.m, v.d, x.o, a, h, w, keep) /\ Beside(v.d, h)
    <3>1. x2.d.maxBufferSize = v.d.maxBufferSize
      BY <2>5 DEF Rearranged, SameFrame
    <3>2. QED
      BY <2>3, <2>5, <3>1 DEF LinkedHistory, Found, Given, Beside
  <2>7. Len(s) \in Nat /\ Len(s) + 2 * KB64 <= v.d.maxBufferSize /\ n \in 0 .. Len(s)
    BY <1>4, <1>7, <2>1, <2>5
  <2>8. /\ Rearranged(v, t) /\ t.d = v.d
        /\ \A e : Buffered(v, t, s, n, e) => FlushHistory(t.m, e, x.o, a, h, w, keep)
    <3>1. ASSUME NEW e, Buffered(v, t, s, n, e)
          PROVE  Rearranged(v, t) /\ t.d = v.d /\ FlushHistory(t.m, e, x.o, a, h, w, keep)
      <4>1. Always(v, a, keep) /\ Remembered(h, w)
        BY <1>6, <2>5
      <4> DEFINE o == x.o
      <4>2. LinkedHistory(v.m, v.d, o, a, h, w, keep) /\ Beside(v.d, h)
        BY <2>6
      <4> HIDE DEF o
      <4>3. Rearranged(v, t) /\ t.d = v.d /\ FlushHistory(t.m, e, o, a, h, w, keep)
        BY ONLY <3>1, <4>1, <4>2, InTmp
      <4>4. QED
        BY <4>3 DEF o
    <3> DEFINE e1 == [dict |-> t.d.dict, dictSize |-> t.d.dictSize, tmpOut |-> t.d.tmpOut,
                      tmpOutSize |-> n, tmpOutStart |-> 0]
    <3>2. Buffered(v, t, s, n, e1)
      BY <2>7 DEF Buffered
    <3> HIDE DEF e1
    <3>3. Rearranged(v, t) /\ t.d = v.d
      BY <3>1, <3>2
    <3>4. QED
      BY <3>1, <3>3
  <2>9. Always(t, a, keep)
    BY <2>5, <2>8, RearrangedAlways
  <2>10. /\ Kept(t, y) /\ Always(y, a, keep)
        /\ y.d.dStage = "flushOut" /\ y.d.tmpOutSize = n /\ y.d.tmpOutStart = 0
    BY <2>9, FillingIs
  <2>11. Recent(t.m, x.o, a, h, w)
    <3>1. Rearranged(x1, v)
      BY <2>3, <2>5, RearrangedTwice
    <3>2. Rearranged(x1, t)
      BY <2>8, <3>1, RearrangedTwice
    <3>3. x1.o = x.o
      BY DEF Kept
    <3>4. QED
      BY <1>1, <1>6, <2>2, <3>2, <3>3, RecentStays
  <2>12. t.o = x.o
    BY <2>5, <2>8 DEF Rearranged, SameCall
  <2> HIDE DEF y
  <2>13. y.o = x.o /\ y.m = t.m /\ y.d.dict = t.d.dict /\ y.d.dictSize = t.d.dictSize
         /\ y.d.tmpOut = t.d.tmpOut /\ y.d.info = x.d.info /\ y.d.maxBlockSize = x.d.maxBlockSize
    BY <2>5, <2>8, <2>10, <2>12 DEF Kept
  <2>14. FlushHistory(y.m, y.d, y.o, a, h, w, keep) /\ Recent(y.m, y.o, a, h, w)
    <3>1. Buffered(v, t, s, n, y.d)
      BY <2>10, <2>13, <2>7 DEF Buffered
    <3>2. QED
      BY <2>8, <2>11, <2>13, <3>1
  <2>15. Placed(y.d)
    <3>1. y.d.tmpOut \in TMPOUT .. TMPOUT + 2 * KB64
      BY <2>6, <2>8, <2>13 DEF Beside
    <3>2. Window(y.d) = 2 * KB64
      BY <1>10, <2>13 DEF Window
    <3>3. QED
      BY <1>4, <1>7, <2>10, <2>13, <3>1, <3>2 DEF Placed
  <2>16. History(y, a, h, w, keep)
    <3>1. y.d.dStage \notin Early /\ y.d.dStage \notin InBlocks /\ y.d.info.linked
      BY <1>10, <2>10, <2>13 DEF Early, InBlocks
    <3>2. QED
      BY <1>6, <2>10, <2>14, <2>15, <3>1 DEF History
  <2>17. QED
    BY <1>9, <2>5, <2>8, <2>9, <2>16 DEF y
<1>11. CASE ~x.d.info.linked
  <2>1. x2 = x1
    BY <1>11 DEF PlaceTmp, Kept
  <2>2. Rearranged(x1, x1)
    BY <1>1, RearrangedNot
  <2>3. /\ Always(v, a, keep) /\ Rearranged(x1, v) /\ v.m = x1.m /\ v.o = x.o /\ v.d.tmpOut = x1.d.tmpOut
        /\ v.d.dict = x1.d.dict /\ v.d.dictSize = x1.d.dictSize
        /\ v.d.info = x.d.info /\ v.d.maxBlockSize = x.d.maxBlockSize
        /\ v.d.maxBufferSize = x.d.maxBufferSize
    BY <1>1, <1>8, <2>1, <2>2
  <2>4. v.m = x.m /\ v.d.tmpOut = TMPOUT /\ v.d.dict = x.d.dict /\ v.d.dictSize = x.d.dictSize
    BY <1>6, <1>11, <2>3 DEF Kept
  <2>5. x.d.maxBlockSize <= x.d.maxBufferSize
    BY <1>2, <1>11 DEF Window
  <2>6. Rearranged(v, t) /\ t.d = v.d
    <3>1. TMPOUT >= TMPOUT /\ TMPOUT + Len(s) <= TMPOUT + v.d.maxBufferSize /\ Len(s) \in Nat
      BY <1>3, <1>4, <1>5, <2>3, <2>5
    <3>2. t = ToTmp(v, TMPOUT, s)
      BY <2>4
    <3>3. QED
      <4>1. LET q == ToTmp(v, TMPOUT, s)
            IN  Rearranged(v, q) /\ q.d = v.d /\ q.m = Write(v.m, TMPOUT, s)
        BY ONLY <1>3, <2>3, <3>1, TmpWritten
      <4>2. QED
        BY <3>2, <4>1
  <2>7. Always(t, a, keep)
    BY <2>3, <2>6, RearrangedAlways
  <2>8. /\ Kept(t, y) /\ Always(y, a, keep)
        /\ y.d.dStage = "flushOut" /\ y.d.tmpOutSize = n /\ y.d.tmpOutStart = 0
    BY <2>7, FillingIs
  <2>9. Outside(t.m, t.d, x.o, a, h, w, keep)
    <3>1. Outside(v.m, v.d, x.o, a, h, w, keep)
      BY <1>6, <1>11, <2>4 DEF Outside, Found, Given
    <3>2. QED
      BY <1>6, <2>6, <3>1, OutsideStays
  <2>10. t.o = x.o
    BY <2>3, <2>6 DEF Rearranged, SameCall
  <2> HIDE DEF y
  <2>11. y.o = x.o /\ y.m = t.m /\ y.d.dict = t.d.dict /\ y.d.dictSize = t.d.dictSize
         /\ y.d.tmpOut = TMPOUT /\ y.d.info = x.d.info /\ y.d.maxBlockSize = x.d.maxBlockSize
    BY <2>3, <2>4, <2>6, <2>8, <2>10 DEF Kept
  <2>12. Outside(y.m, y.d, y.o, a, h, w, keep)
    BY <2>9, <2>11 DEF Outside, Found, Given
  <2>13. Placed(y.d)
    <3>1. Window(y.d) = 0
      BY <1>11, <2>11 DEF Window
    <3>2. QED
      BY <1>3, <1>4, <1>7, <2>8, <2>11, <3>1 DEF Placed
  <2>14. History(y, a, h, w, keep)
    <3>1. ~y.d.info.linked /\ y.d.dict # TMPOUT /\ y.d.tmpOut = TMPOUT /\ y.d.dStage \in Data
      BY <1>6, <1>11, <2>4, <2>6, <2>8, <2>11 DEF Data
    <3>2. QED
      BY <1>6, <2>12, <2>13, <3>1, SingleStage
  <2>15. QED
    BY <1>9, <2>3, <2>6, <2>7, <2>14 DEF y
<1>12. QED
  BY <1>10, <1>11

LEMMA Decoded ==
  ASSUME NEW x, NEW a, NEW h, NEW w, NEW keep, Always(x, a, keep), Going(x, a, h, w, keep),
         x.d.dStage \in {"getCBlock", "storeCBlock"},
         NEW b0 \in Seq(Wire), Len(b0) = x.d.target
  PROVE  Turned(x, DecodeBlock(a, x, b0), a, h, w, keep)
<1> DEFINE crc == BFSize * Flag(x.d.info.blockSum)
           n == x.d.target - crc
           b == SubSeq(b0, 1, n)
           x1 == [x EXCEPT !.d.target = n]
           direct == a.end - x.o >= x.d.maxBlockSize
           x2 == IF direct THEN x1 ELSE PlaceTmp(x1)
           hist0 == Read(x2.m, x2.d.dict, x2.d.dictSize)
           text == Unpacked(b, hist0)
           s == Padded(text, x2.d.maxBlockSize)
           v == Summed(x2, text)
           u == Written(v, s)
           z == IF u.d.info.linked THEN LZ4F_updateDict(a, u, v.o, Len(text), FALSE) ELSE u
           t == ToTmp(v, v.d.tmpOut, s)
<1>1. /\ IsCall(x) /\ IsContext(x.d) /\ x.inside = TRUE /\ Holds(x, a) /\ x.d.target \in Nat
      /\ x.d.stored \in Seq(Wire)
  BY DEF Always, WellFormed, Within, Holds
<1>2. Crc(x.d) <= x.d.target /\ x.d.maxBlockSize \in BlockSizes /\ x.d.dStage \in InBlocks
  BY DEF Going, Storing, Data, InBlocks
<1>3. crc \in Nat /\ crc = Crc(x.d)
  BY FlagIs DEF Crc, BFSize
<1> HIDE DEF crc
<1>4. n \in Nat /\ n <= Len(b0) /\ n \in 0 .. Len(b0)
  BY <1>1, <1>2, <1>3
<1>5. b \in Seq(Wire)
  <2> HIDE DEF n
  <2>1. Len(b0) \in Nat /\ \A k \in 1 .. n : b0[k] \in Wire
    <3>1. Len(b0) \in Nat
      BY LenProperties
    <3>2. \A k \in 1 .. n : k \in 1 .. Len(b0)
      BY <1>4, <3>1
    <3>3. QED
      BY <3>1, <3>2, ElementOfSeq
  <2>2. 1 \in Int /\ n \in Int
    BY <1>4
  <2>3. QED
    BY <2>1, <2>2, SubSeqProperties
<1>6. Kept(x, x1) /\ Holds(x1, a) /\ SameCall(x, x1)
  <2> DEFINE e == [x.d EXCEPT !.target = n]
  <2>1. SameCall(x, x1) /\ x1.m = x.m /\ x1.inside = TRUE /\ x1.d = e
    BY <1>1 DEF SameCall, IsCall, CallFields
  <2>2. /\ IsContext(e) /\ e.info = x.d.info /\ e.maxBlockSize = x.d.maxBlockSize
        /\ e.maxBufferSize = x.d.maxBufferSize /\ e.room = x.d.room /\ e.stored = x.d.stored
        /\ e.target = n /\ e.dict = x.d.dict /\ e.dictSize = x.d.dictSize /\ e.tmpOut = x.d.tmpOut
    BY <1>1 DEF IsContext, ContextFields
  <2> HIDE DEF x1, e, n
  <2>3. QED
    BY <1>1, <1>4, <2>1, <2>2 DEF Kept, Holds, SameCall
<1>7. \/ DecodeBlock(a, x, b0) = Err(x1, "blockChecksum_invalid")
      \/ DecodeBlock(a, x, b0) = Decompressed(a, x2, b, direct)
  <2> HIDE DEF b, x1
  <2>1. \/ DecodeBlock(a, x, b0) = Err(x1, "blockChecksum_invalid")
        \/ DecodeBlock(a, x, b0) = Decompressed(a, IF direct THEN x1 ELSE PlaceTmp(x1), b, direct)
    BY DEF DecodeBlock, b, x1, crc
  <2>2. QED
    BY <2>1
<1> HIDE DEF n, b, x1
<1>8. Always(x1, a, keep)
  BY <1>6, KeptAlways
<1>9. x1.o = x.o /\ x1.d.info = x.d.info /\ x1.d.maxBlockSize = x.d.maxBlockSize
      /\ x1.d.maxBufferSize = x.d.maxBufferSize
  BY <1>6 DEF Kept
<1>10. Always(x2, a, keep) /\ x2.d.maxBlockSize = x.d.maxBlockSize
  <2>1. CASE direct
    BY <1>8, <1>9, <2>1
  <2>2. CASE ~direct /\ ~x.d.info.linked
    <3>1. x2 = x1
      BY <1>9, <2>2 DEF PlaceTmp
    <3>2. QED
      BY <1>8, <1>9, <3>1
  <2>3. CASE ~direct /\ x.d.info.linked
    <3>1. KB64 \in Nat /\ KB64 > 0
      BY ReadingAssumption
    <3>2. x.d.maxBlockSize \in Nat /\ x.d.maxBlockSize > 0
      BY ONLY <1>2, <3>1 DEF BlockSizes
    <3>3. x.d.maxBlockSize + 2 * KB64 <= x.d.maxBufferSize
      BY <2>3 DEF Going, Storing, Window, Data, InBlocks
    <3>4. x.d.maxBufferSize \in Nat
      BY Bounds, Facts
    <3>5. 2 * KB64 <= x1.d.maxBufferSize
      BY <1>9, <3>1, <3>2, <3>3, <3>4
    <3>6. Remembered(h, w) /\ LinkedHistory(x.m, x.d, x.o, a, h, w, keep)
      BY <1>2, <2>3 DEF Going, History
    <3>7. LinkedHistory(x1.m, x1.d, x.o, a, h, w, keep) /\ x1.d.info.linked
      BY <1>6, <2>3, <3>6 DEF Kept, LinkedHistory, Found, Given
    <3>8. Rearranged(x1, PlaceTmp(x1))
      BY <1>8, <3>5, <3>6, <3>7, Places
    <3>9. Always(PlaceTmp(x1), a, keep)
      BY <1>8, <3>8, RearrangedAlways
    <3>10. PlaceTmp(x1).d.maxBlockSize = x1.d.maxBlockSize
      BY <3>8 DEF Rearranged, SameFrame
    <3>11. QED
      BY <1>9, <2>3, <3>9, <3>10
  <2>4. QED
    BY <2>1, <2>2, <2>3
<1> SUFFICES Turned(x, DecodeBlock(a, x, b0), a, h, w, keep)
  OBVIOUS
<1>11. CASE DecodeBlock(a, x, b0) = Err(x1, "blockChecksum_invalid")
  <2>1. "blockChecksum_invalid" \notin {"go", "stop"}
    OBVIOUS
  <2>2. Turned(x, Err(x1, "blockChecksum_invalid"), a, h, w, keep)
    BY <1>8, <2>1, FailsAt
  <2>3. QED
    BY <1>11, <2>2
<1>12. CASE DecodeBlock(a, x, b0) = Decompressed(a, x2, b, direct)
            /\ (~Decodes(b) \/ Len(b[1].of) > x2.d.maxBlockSize)
  <2> HIDE DEF x2
  <2>1. "decompressionFailed" \notin {"go", "stop"}
    OBVIOUS
  <2>2. Turned(x, Err(x2, "decompressionFailed"), a, h, w, keep)
    BY <1>10, <2>1, FailsAt
  <2>3. DecodeBlock(a, x, b0) = Err(x2, "decompressionFailed")
    BY ONLY <1>12 DEF Decompressed
  <2>4. QED
    BY <2>2, <2>3
<1>13. CASE DecodeBlock(a, x, b0) = Decompressed(a, x2, b, direct)
            /\ ~(~Decodes(b) \/ Len(b[1].of) > x2.d.maxBlockSize)
  <2>1. KB64 \in Nat /\ KB64 > 0
    BY ReadingAssumption
  <2>2. x.d.maxBlockSize \in Nat
    BY ONLY <1>2, <2>1 DEF BlockSizes
  <2>3. Len(text) \in Nat /\ Len(text) <= x.d.maxBlockSize /\ Len(s) = x.d.maxBlockSize
    <3>0. Len(b[1].of) \in Nat
      BY <1>5, <1>13, TextLength
    <3>1. s = Padded(text, x.d.maxBlockSize) /\ Len(b[1].of) <= x.d.maxBlockSize /\ Decodes(b)
      BY <1>10, <1>13, <2>2, <3>0
    <3> HIDE DEF s, hist0, x2
    <3>2. QED
      BY <1>5, <2>2, <3>1, UnpackedIs
  <2>4. CASE direct
    <3>0. DecodeBlock(a, x, b0) = Past(z, Len(text))
      <4> HIDE DEF x2, direct
      <4>1. Decompressed(a, x2, b, direct) = Past(z, Len(text))
        <5>1. Decompressed(a, x2, b, direct) = IntoDst(a, v, text, s)
          BY <1>13, <2>4 DEF Decompressed, Padded
        <5> HIDE DEF v, text, s
        <5>2. IntoDst(a, v, text, s) = Past(IF u.d.info.linked THEN LZ4F_updateDict(a, u, v.o, Len(text), FALSE) ELSE u, Len(text))
          BY DEF IntoDst, Past, Written
        <5>3. QED
          BY <5>1, <5>2
      <4>2. QED
        BY <1>13, <4>1
    <3>1. x2 = x1
      BY <2>4
    <3>2. v = Summed(x1, text)
      BY <3>1
    <3> HIDE DEF text, s, x2
    <3>3. Sound(v) /\ v.o = x1.o /\ SameFrame(x1.d, v.d)
      BY <1>8, <3>2, SoundAlways, SummedSound
    <3>4. u.d = v.d
      BY <3>3 DEF Written, Sound, IsCall, CallFields
    <3>5. u.d.info = x.d.info /\ v.o = x.o
      BY <1>9, <3>3, <3>4 DEF SameFrame
    <3>6. z = Carried(a, x, u, Len(text))
      BY <3>5 DEF Carried
    <3>7. u = Written(Summed(x1, text), s)
      BY <3>2
    <3> HIDE DEF v, u, z
    <3>8. Turned(x, Past(z, Len(text)), a, h, w, keep)
      BY <1>2, <1>6, <2>3, <2>4, <3>6, <3>7, DecodesDirect
    <3>9. QED
      BY <3>0, <3>8 DEF z
  <2>5. CASE ~direct
    <3>0. DecodeBlock(a, x, b0) = Filling(t, Len(text))
      <4> HIDE DEF x2, direct
      <4>1. Decompressed(a, x2, b, direct) = Filling(t, Len(text))
        <5>1. Decompressed(a, x2, b, direct) = IntoTmp(v, text, s)
          BY <1>13, <2>5 DEF Decompressed, Padded
        <5> HIDE DEF v, text, s
        <5>2. QED
          BY <5>1 DEF IntoTmp, Filling
      <4>2. QED
        BY <1>13, <4>1
    <3>1. x2 = PlaceTmp(x1)
      BY <2>5
    <3>2. v = Summed(x2, text) /\ t = ToTmp(v, v.d.tmpOut, s)
      OBVIOUS
    <3> HIDE DEF text, s, x2, v, t
    <3>3. Turned(x, Filling(t, Len(text)), a, h, w, keep)
      BY <1>2, <1>6, <2>3, <3>1, <3>2, DecodesToTmp
    <3>4. QED
      BY <3>0, <3>3
  <2>6. QED
    BY <2>4, <2>5
<1>14. QED
  BY <1>7, <1>11, <1>12, <1>13

\* What a stage does with what it has read, it does with the context it read it into.
LEMMA KeptGoing ==
  ASSUME NEW x, NEW a, NEW h, NEW w, NEW keep, Always(x, a, keep), Going(x, a, h, w, keep),
         NEW z, Kept(x, z), Holds(z, a), Forward(x, z), Filled(z.d), z.go = "go"
  PROVE  Always(z, a, keep) /\ Going(z, a, h, w, keep)
<1>1. Turned(x, z, a, h, w, keep)
  BY Leads
<1>2. z.o = x.o /\ x.o \in Int
  <2>1. x.o \in Nat
    BY ONLY Always(x, a, keep), Facts
  <2>2. QED
    BY <2>1 DEF Kept
<1>3. ~Over(x, z)
  BY DEF Over, Forward, InBlocks, AtSuffix
<1>4. Remembered(h, w)
  BY DEF Going, History
<1>5. HistAfter(x, z, h) = h /\ WhereAfter(x, z, w) = w
  BY <1>2, <1>3, <1>4, NothingOut
<1>6. QED
  BY <1>1, <1>5 DEF Turned, Fine

LEMMA TurnedFrom ==
  ASSUME NEW x, NEW z, Kept(x, z), x.d.dStage \notin Early, z.d.dStage \notin Early,
         NEW y, NEW a, NEW h, NEW w, NEW keep, Turned(z, y, a, h, w, keep)
  PROVE  Turned(x, y, a, h, w, keep)
<1>1. z.o = x.o /\ z.d.info = x.d.info
  BY DEF Kept
<1>2. HistAfter(x, y, h) = HistAfter(z, y, h) /\ WhereAfter(x, y, w) = WhereAfter(z, y, w)
  BY <1>1 DEF HistAfter, WhereAfter, Over
<1>3. QED
  BY <1>2 DEF Turned

LEMMA TurnsCBlock ==
  ASSUME NEW x, NEW a, NEW h, NEW w, NEW keep, Always(x, a, keep), Going(x, a, h, w, keep),
         x.go = "go", x.d.dStage \in {"getCBlock", "storeCBlock"}
  PROVE  Turned(x, CBlock(a, x), a, h, w, keep)
<1> DEFINE t == x.d.target
           q == Store(a, x, t)
           r == [q EXCEPT !.inside = @ /\ Len(q.d.stored) <= q.d.room]
           hint == Missing(r, t) + BFSize * Flag(r.d.info.blockSum) + BHSize
           g == [x EXCEPT !.i = @ + t]
<1>1. /\ a.src \in Seq(Wire) /\ x.i \in 0 .. Len(a.src) /\ t \in Nat /\ Allocated(x.d)
  BY DEF Always, Within, WellFormed
<1>2. Len(a.src) \in Nat
  BY <1>1, LenProperties
<1>3. /\ Crc(x.d) <= t /\ t <= x.d.maxBlockSize + Crc(x.d) /\ x.d.maxBlockSize \in BlockSizes
      /\ x.d.maxBlockSize + Window(x.d) <= x.d.maxBufferSize
      /\ x.d.dStage = "storeCBlock" => Len(x.d.stored) <= t
  BY DEF Going, Storing, Data, InBlocks
<1>4. x.d.dStage \in InBlocks /\ x.d.dStage \notin Early
  BY DEF InBlocks, Early
<1>5. x.d.dStage # "storeCBlock" => x.d.dStage = "getCBlock"
  OBVIOUS
\* Once the block is there.
<1>6. ASSUME NEW z, Kept(x, z), Holds(z, a), z.go = "go", z.d.dStage = x.d.dStage, z.d.target = t,
             z.d.dStage = "storeCBlock" => Len(z.d.stored) <= t,
             NEW b \in Seq(Wire), Len(b) = t
      PROVE  Turned(x, DecodeBlock(a, z, b), a, h, w, keep)
  <2>1. Crc(z.d) = Crc(x.d) /\ z.d.maxBlockSize = x.d.maxBlockSize
    BY <1>6 DEF Kept, Crc
  <2>2. Filled(z.d)
    BY <1>3, <1>6, <2>1 DEF Filled
  <2>3. Forward(x, z)
    BY <1>4, <1>6 DEF Forward, InBlocks, AtSuffix
  <2>4. Always(z, a, keep) /\ Going(z, a, h, w, keep)
    BY <1>6, <2>2, <2>3, KeptGoing
  <2>5. z.d.dStage \in {"getCBlock", "storeCBlock"} /\ Len(b) = z.d.target
    BY <1>6
  <2>6. Turned(z, DecodeBlock(a, z, b), a, h, w, keep)
    BY <1>6, <2>4, <2>5, Decoded
  <2>7. z.d.dStage \notin Early
    BY <1>4, <1>6
  <2>8. QED
    BY <1>4, <1>6, <2>6, <2>7, TurnedFrom
<1>7. CASE x.d.dStage = "storeCBlock"
  <2>1. /\ Kept(x, q) /\ Holds(q, a) /\ q.go = "go" /\ q.d.dStage = "storeCBlock" /\ q.d.target = t
        /\ Len(q.d.stored) <= t
    <3>1. t \in Nat /\ Len(x.d.stored) <= t
      BY <1>1, <1>3, <1>7
    <3> DEFINE l == t
    <3>2. l \in Nat /\ Len(x.d.stored) <= l
      BY <3>1
    <3> HIDE DEF t, l
    <3>3. LET p == Store(a, x, l)
          IN  /\ Kept(x, p) /\ Holds(p, a) /\ p.go = x.go
              /\ p.d.dStage = x.d.dStage /\ p.d.target = x.d.target /\ Len(p.d.stored) <= l
      BY <3>2, StoreIs
    <3>4. q = Store(a, x, l)
      BY DEF l
    <3> HIDE DEF q
    <3>5. QED
      BY <1>7, <3>3, <3>4 DEF l, t
  <2>2. Len(q.d.stored) \in Nat /\ q.d.stored \in Seq(Wire)
    <3> HIDE DEF q
    <3>1. q.d.stored \in Seq(Wire)
      BY <2>1 DEF Holds
    <3>2. QED
      BY <3>1, LenProperties
  <2>3. r = q
    <3> HIDE DEF q
    <3>1. x.d.maxBlockSize + BFSize <= x.d.room
      BY <1>1, <1>3, RoomForBlock
    <3>2. Crc(x.d) \in Nat /\ Crc(x.d) <= BFSize
      BY FlagIs DEF Crc, BFSize
    <3>3. KB64 \in Nat /\ x.d.room \in Nat
      BY <1>1, Bounds
    <3>4. x.d.maxBlockSize \in Nat
      BY ONLY <1>3, <3>3 DEF BlockSizes
    <3>5. q.d.room = x.d.room
      BY <2>1 DEF Kept
    <3>6. Len(q.d.stored) <= q.d.room
      BY <1>1, <1>3, <2>1, <2>2, <3>1, <3>2, <3>3, <3>4, <3>5, SMTT(30) DEF BFSize
    <3>7. IsCall(q) /\ q.inside = TRUE
      BY <2>1 DEF Kept
    <3> DEFINE c == Len(q.d.stored) <= q.d.room
    <3>8. c = TRUE
      BY <3>6
    <3>9. r = [q EXCEPT !.inside = @ /\ c]
      OBVIOUS
    <3> HIDE DEF c, r
    <3>10. QED
      BY <3>7, <3>8, <3>9, StillInside
  <2>4. CBlock(a, x) = IF Missing(r, t) > 0 THEN Stop(r, hint) ELSE DecodeBlock(a, r, r.d.stored)
    BY <1>7 DEF CBlock
  <2> HIDE DEF q, r, hint, t
  <2>5. CBlock(a, x) = IF Missing(q, t) > 0 THEN Stop(q, hint) ELSE DecodeBlock(a, q, q.d.stored)
    BY <2>3, <2>4
  <2>6. CASE Missing(q, t) > 0
    <3> DEFINE y == Stop(q, hint)
    <3>1. Sound(q) /\ y = Stop(q, hint)
      BY <2>1, SoundKept
    <3> HIDE DEF y
    <3>2. Kept(q, y) /\ y.d = q.d /\ y.i = q.i
      BY <3>1, Stops
    <3>3. Kept(x, y) /\ Holds(y, a) /\ y.d.dStage = "storeCBlock" /\ y.d.target = t
          /\ Len(y.d.stored) <= t
      BY <2>1, <3>2, KeptTwice DEF Holds
    <3>4. Crc(y.d) = Crc(x.d) /\ y.d.maxBlockSize = x.d.maxBlockSize
      BY <3>3 DEF Kept, Crc
    <3>5. Filled(y.d)
      BY <1>3, <3>3, <3>4 DEF Filled
    <3>6. Forward(x, y)
      BY <1>4, <3>3 DEF Forward, InBlocks, AtSuffix
    <3>7. Turned(x, y, a, h, w, keep)
      BY <3>3, <3>5, <3>6, Leads
    <3>8. QED
      BY <2>5, <2>6, <3>1, <3>7
  <2>7. CASE ~(Missing(q, t) > 0)
    <3>1. Len(q.d.stored) = t
      BY <1>1, <2>1, <2>2, <2>7 DEF Missing
    <3>2. Turned(x, DecodeBlock(a, q, q.d.stored), a, h, w, keep)
      BY <1>6, <1>7, <2>1, <2>2, <3>1
    <3>3. QED
      BY <2>5, <2>7, <3>2
  <2>8. QED
    BY <2>6, <2>7
<1>8. CASE x.d.dStage # "storeCBlock" /\ Avail(a, x) < t
  <2> DEFINE y == Anew(x, "storeCBlock")
  <2>1. CBlock(a, x) = y
    BY <1>8 DEF CBlock, Anew
  <2>2. /\ Kept(x, y) /\ Holds(y, a) /\ y.d.dStage = "storeCBlock" /\ y.d.stored = <<>>
        /\ y.d.target = t
    BY StartsStoring
  <2> HIDE DEF y
  <2>3. Crc(y.d) = Crc(x.d) /\ y.d.maxBlockSize = x.d.maxBlockSize /\ Len(y.d.stored) = 0
    BY <2>2, EmptyWire DEF Kept, Crc
  <2>4. Filled(y.d)
    BY <1>1, <1>3, <2>2, <2>3 DEF Filled
  <2>5. Forward(x, y)
    BY <1>4, <2>2 DEF Forward, InBlocks, AtSuffix
  <2>6. Turned(x, y, a, h, w, keep)
    BY <2>2, <2>4, <2>5, Leads
  <2>7. QED
    BY <2>1, <2>6
<1>9. CASE x.d.dStage # "storeCBlock" /\ ~(Avail(a, x) < t)
  <2>1. CBlock(a, x) = DecodeBlock(a, g, Ahead(a, x, t))
    BY <1>9 DEF CBlock
  <2>2. t \in 0 .. Len(a.src) - x.i
    BY <1>1, <1>2, <1>9 DEF Avail
  <2>3. Kept(x, g) /\ Holds(g, a) /\ g.d = x.d /\ g.go = x.go
    BY <2>2, Reads
  <2>4. Ahead(a, x, t) \in Seq(Wire) /\ Len(Ahead(a, x, t)) = t
    BY <1>1, <2>2, AheadIs
  <2> HIDE DEF g
  <2>5. Turned(x, DecodeBlock(a, g, Ahead(a, x, t)), a, h, w, keep)
    BY <1>6, <1>9, <2>3, <2>4
  <2>6. QED
    BY <2>1, <2>5
<1>10. QED
  BY <1>7, <1>8, <1>9

-----------------------------------------------------------------------------
(* A block goes out from tmpOutBuffer.                                     *)

FlushedTo(x) ==
  IF x.d.tmpOutStart = x.d.tmpOutSize THEN To(x, "getBlockHeader") ELSE Stop(x, BHSize)

LEMMA FlushedKept ==
  ASSUME NEW x, NEW a, NEW keep, Always(x, a, keep), x.d.dStage = "flushOut"
  PROVE  LET y == FlushedTo(x)
         IN  /\ Kept(x, y) /\ Always(y, a, keep) /\ Filled(y.d)
             /\ \/ y.d.dStage = "flushOut" /\ y.d = x.d
                \/ y.d.dStage = "getBlockHeader" /\ x.d.tmpOutStart = x.d.tmpOutSize
<1> DEFINE y == FlushedTo(x)
<1>0. Sound(x)
  BY SoundAlways
<1>1. Holds(x, a)
  BY DEF Always, WellFormed, Within, Holds
<1>2. Kept(x, y) /\ y.i = x.i /\ y.d.stored = x.d.stored /\ y.d.target = x.d.target
      /\ \/ y.d.dStage = "flushOut" /\ y.d = x.d
         \/ y.d.dStage = "getBlockHeader" /\ x.d.tmpOutStart = x.d.tmpOutSize
  <2>1. CASE x.d.tmpOutStart = x.d.tmpOutSize
    <3>1. y = To(x, "getBlockHeader")
      BY <2>1 DEF FlushedTo
    <3> HIDE DEF y
    <3>2. QED
      BY <1>0, <2>1, <3>1, Enters
  <2>2. CASE x.d.tmpOutStart # x.d.tmpOutSize
    <3>1. y = Stop(x, BHSize)
      BY <2>2 DEF FlushedTo
    <3> HIDE DEF y
    <3>2. Kept(x, y) /\ y.d = x.d /\ y.i = x.i
      BY <1>0, <3>1, Stops
    <3>3. QED
      BY <3>2
  <2>3. QED
    BY <2>1, <2>2
<1> HIDE DEF y
<1>3. Holds(y, a)
  BY <1>1, <1>2 DEF Holds
<1>4. Always(y, a, keep)
  BY <1>2, <1>3, KeptAlways
<1>5. Filled(y.d)
  BY <1>2 DEF Filled
<1>6. QED
  BY <1>2, <1>4, <1>5 DEF y

LEMMA FlushedLinked ==
  ASSUME NEW x, NEW a, NEW keep, Always(x, a, keep), Flushing(x), x.d.dStage = "flushOut",
         NEW h, NEW w, Remembered(h, w),
         FlushHistory(x.m, x.d, x.o, a, h, w, keep), Recent(x.m, x.o, a, h, w)
  PROVE  History(FlushedTo(x), a, h, w, keep)
<1> DEFINE y == FlushedTo(x)
<1> SUFFICES History(y, a, h, w, keep)
  OBVIOUS
<1>1. /\ Kept(x, y) /\ Always(y, a, keep) /\ Filled(y.d)
      /\ \/ y.d.dStage = "flushOut" /\ y.d = x.d
         \/ y.d.dStage = "getBlockHeader" /\ x.d.tmpOutStart = x.d.tmpOutSize
  BY FlushedKept
<1> HIDE DEF y
<1>2. Placed(x.d) /\ x.d.info.linked
  BY DEF Flushing
<1>3. y.m = x.m /\ y.o = x.o
  BY <1>1 DEF Kept
<1>4. CASE y.d = x.d
  <2>1. y.d.dStage \notin Early /\ y.d.dStage \notin InBlocks /\ y.d.info.linked
        /\ y.d.dStage = "flushOut"
    BY <1>2, <1>4 DEF Early, InBlocks
  <2>2. FlushHistory(y.m, y.d, y.o, a, h, w, keep) /\ Recent(y.m, y.o, a, h, w) /\ Placed(y.d)
    BY <1>2, <1>3, <1>4
  <2>3. QED
    BY <2>1, <2>2 DEF History
<1>5. CASE y.d.dStage = "getBlockHeader" /\ x.d.tmpOutStart = x.d.tmpOutSize
  <2>1. LinkedHistory(x.m, x.d, x.o, a, h, w, keep)
    BY <1>5, FlushedAll
  <2>2. LinkedHistory(y.m, y.d, y.o, a, h, w, keep) /\ Recent(y.m, y.o, a, h, w) /\ y.d.info.linked
    BY <1>1, <1>2, <1>3, <2>1 DEF LinkedHistory, Found, Given, Kept
  <2>3. y.d.dStage \in InBlocks
    BY <1>5 DEF InBlocks
  <2>4. QED
    BY <2>2, <2>3, LinkedStage
<1>6. QED
  BY <1>1, <1>4, <1>5

LEMMA FlushedSingle ==
  ASSUME NEW x, NEW a, NEW keep, Always(x, a, keep), ~x.d.info.linked, x.d.dStage = "flushOut",
         Placed(x.d), x.d.dict # TMPOUT, x.d.tmpOut = TMPOUT,
         NEW h, NEW w, Remembered(h, w), Outside(x.m, x.d, x.o, a, h, w, keep)
  PROVE  History(FlushedTo(x), a, h, w, keep)
<1> DEFINE y == FlushedTo(x)
<1>1. /\ Kept(x, y) /\ Always(y, a, keep) /\ Filled(y.d)
      /\ \/ y.d.dStage = "flushOut" /\ y.d = x.d
         \/ y.d.dStage = "getBlockHeader" /\ x.d.tmpOutStart = x.d.tmpOutSize
  BY FlushedKept
<1> HIDE DEF y
<1>2. /\ y.m = x.m /\ y.o = x.o /\ ~y.d.info.linked /\ y.d.dict = x.d.dict
      /\ y.d.dictSize = x.d.dictSize /\ y.d.tmpOut = x.d.tmpOut
  BY <1>1 DEF Kept
<1>3. Outside(y.m, y.d, y.o, a, h, w, keep)
  BY <1>2 DEF Outside, Found, Given
<1>4. y.d.dStage \in Data /\ (y.d.dStage = "flushOut" => Placed(y.d))
  BY <1>1 DEF Data, InBlocks
<1>5. y.d.dict # TMPOUT /\ y.d.tmpOut = TMPOUT
  BY <1>2
<1>6. QED
  BY <1>2, <1>3, <1>4, <1>5, SingleStage DEF y

\* n bytes have gone out.
Advanced(z, n) == [z EXCEPT !.d.tmpOutStart = @ + n, !.o = @ + n]

LEMMA AdvancedIs ==
  ASSUME NEW z, NEW a, NEW keep, Always(z, a, keep), NEW n \in Nat, z.o + n <= a.end
  PROVE  LET y == Advanced(z, n)
         IN  /\ Always(y, a, keep) /\ y.m = z.m /\ y.o = z.o + n /\ y.d.info = z.d.info
             /\ y.d.dStage = z.d.dStage /\ y.d.maxBlockSize = z.d.maxBlockSize
             /\ y.d.maxBufferSize = z.d.maxBufferSize /\ y.d.dict = z.d.dict
             /\ y.d.dictSize = z.d.dictSize /\ y.d.tmpOut = z.d.tmpOut
             /\ y.d.tmpOutSize = z.d.tmpOutSize /\ y.d.tmpOutStart = z.d.tmpOutStart + n
<1> DEFINE y == Advanced(z, n)
           e == [z.d EXCEPT !.tmpOutStart = @ + n]
<1>1. IsCall(z) /\ IsContext(z.d) /\ z.inside = TRUE /\ Holds(z, a)
  BY DEF Always, WellFormed, Within, Holds
<1>2. /\ IsCall(y) /\ y.m = z.m /\ y.o = z.o + n /\ y.inside = TRUE /\ y.i = z.i /\ y.d = e
  BY <1>1 DEF Advanced, IsCall, CallFields
<1>3. /\ IsContext(e) /\ e.info = z.d.info /\ e.dStage = z.d.dStage
      /\ e.maxBlockSize = z.d.maxBlockSize /\ e.maxBufferSize = z.d.maxBufferSize
      /\ e.room = z.d.room /\ e.stored = z.d.stored /\ e.target = z.d.target
      /\ e.dict = z.d.dict /\ e.dictSize = z.d.dictSize /\ e.tmpOut = z.d.tmpOut
      /\ e.tmpOutSize = z.d.tmpOutSize /\ e.tmpOutStart = z.d.tmpOutStart + n
  BY <1>1 DEF IsContext, ContextFields
<1> HIDE DEF y, e
<1>4. Moved(z, y, n) /\ Holds(y, a)
  BY <1>1, <1>2, <1>3 DEF Moved, Holds
<1>5. Always(y, a, keep)
  BY <1>4, MovedAlways
<1>6. QED
  BY <1>2, <1>3, <1>5 DEF y

\* The context after n bytes of tmpOutBuffer have joined the history.
After(e, c, d, n) ==
  /\ e.dict = c.dict /\ e.dictSize = c.dictSize /\ e.tmpOut = d.tmpOut
  /\ e.tmpOutSize = d.tmpOutSize /\ e.tmpOutStart = d.tmpOutStart + n

LEMMA TurnsFlush ==
  ASSUME NEW x, NEW a, NEW h, NEW w, NEW keep, Always(x, a, keep), Going(x, a, h, w, keep),
         x.d.dStage = "flushOut"
  PROVE  Turned(x, FlushOut(a, x), a, h, w, keep)
<1> DEFINE d == x.d
           left == d.tmpOutSize - d.tmpOutStart
           n == IF a.dst = NULL THEN 0 ELSE Min({left, a.end - x.o})
           from == d.tmpOut + d.tmpOutStart
           s == Read(x.m, from, n)
           u == [x EXCEPT !.m = Write(@, x.o, s)]
           z == IF d.info.linked /\ a.dst # NULL THEN LZ4F_updateDict(a, u, x.o, n, TRUE) ELSE u
           t == Advanced(z, n)
           y == FlushedTo(t)
<1>1. /\ IsCall(x) /\ IsContext(x.d) /\ x.inside = TRUE /\ WellFormed(x.d)
      /\ x.o \in a.dst .. a.end /\ a.dst \in Nat /\ a.end \in Nat
      /\ DOMAIN x.m = Addresses
  BY DEF Always, WellFormed, Within
<1>2. /\ x.d.maxBlockSize \in BlockSizes /\ x.d.maxBlockSize + Window(x.d) <= x.d.maxBufferSize
      /\ Placed(x.d) /\ Remembered(h, w)
      /\ x.d.info.linked =>
           FlushHistory(x.m, x.d, x.o, a, h, w, keep) /\ Recent(x.m, x.o, a, h, w)
      /\ ~x.d.info.linked => /\ x.d.dict # TMPOUT /\ x.d.tmpOut = TMPOUT
                             /\ Outside(x.m, x.d, x.o, a, h, w, keep)
  BY DEF Going, Storing, History, Data
<1>3. KB64 \in Nat /\ KB64 > 0 /\ TMPOUT \in Nat
  BY ReadingAssumption
<1>4. x.d.maxBlockSize \in Nat /\ x.d.maxBlockSize > 0
  BY ONLY <1>2, <1>3 DEF BlockSizes
<1>5. /\ d.tmpOut \in Nat /\ d.tmpOutSize \in Nat /\ d.tmpOutStart \in Nat /\ left \in Nat
      /\ d.tmpOut >= TMPOUT /\ d.tmpOut <= TMPOUT + Window(d) /\ d.tmpOutSize <= d.maxBlockSize
  <2>1. Window(d) \in Nat
    BY <1>3 DEF Window
  <2> HIDE DEF d
  <2>2. QED
    BY <1>2, <1>3, <1>4, <2>1 DEF Placed, d
<1>6. n \in Nat /\ n <= left /\ x.o + n <= a.end /\ (a.dst = NULL => n = 0)
  <2>1. a.end - x.o \in Int /\ left \in Int /\ a.end - x.o \in Nat
    BY <1>1, <1>5
  <2>2. Min({left, a.end - x.o}) = Least(left, a.end - x.o)
    BY <2>1, MinTwo
  <2>3. QED
    BY <1>1, <1>5, <2>1, <2>2 DEF Least
<1>7. FlushOut(a, x) = y
  BY DEF FlushOut, FlushedTo, Advanced
<1> HIDE DEF n, left, y
<1>8. /\ Len(s) = n /\ from \in Int
      /\ \A k \in 1 .. n : s[k] = x.m[from + k - 1]
  <2>1. from \in Int
    BY <1>5
  <2> HIDE DEF from
  <2>2. QED
    BY <1>6, <2>1, ReadIs
<1> HIDE DEF s
<1>9. IsCall(u) /\ u.m = Write(x.m, x.o, s) /\ u.o = x.o /\ u.i = x.i /\ u.go = x.go
      /\ u.d = x.d /\ u.inside = TRUE
  BY <1>1 DEF IsCall, CallFields
<1> HIDE DEF u, t
<1>10. Always(u, a, keep) /\ Spared(x.m, u.m, x.o, a, keep)
       /\ \A j \in 1 .. n : u.m[x.o + n - j] = s[n + 1 - j]
  <2>1. Wrote(x, u, s)
    BY <1>1, <1>9 DEF Wrote, SameCall
  <2>2. Len(s) \in Nat /\ x.o + Len(s) <= a.end
    BY <1>6, <1>8
  <2>3. /\ Always(u, a, keep) /\ Spared(x.m, u.m, x.o, a, keep)
        /\ \A j \in 1 .. Len(s) : u.m[x.o + Len(s) - j] = s[Len(s) + 1 - j]
    BY <2>1, <2>2, PutsOut
  <2>4. QED
    BY <1>8, <2>3
<1>11. x.o \in Int /\ x.o \in Nat /\ a.dst \in Int /\ a.dst <= x.o /\ Allocated(x.d)
       /\ x.d.dict \in Nat /\ x.d.dictSize \in Nat
  BY <1>1 DEF WellFormed
<1> DEFINE g == LastOf(h \o Read(y.m, x.o, n), KB64)
           v == LastOf(w \o [k \in 1 .. n |-> x.o + k - 1], KB64)
<1>12. Later(g, h, y.m, x.o, n) /\ LaterAt(v, w, x.o, n)
  BY <1>2, <1>6, <1>11, HistoryGrows, WhereGrows DEF Remembered
<1>13. ASSUME Always(t, a, keep), t.o = x.o + n, t.d.dStage = "flushOut", t.d.info = x.d.info,
              t.d.maxBlockSize = x.d.maxBlockSize, t.d.maxBufferSize = x.d.maxBufferSize,
              x.d.info.linked => History(y, a, g, v, keep),
              ~x.d.info.linked => History(y, a, h, w, keep)
       PROVE  Turned(x, y, a, h, w, keep)
  <2> HIDE DEF g, v
  <2>1. Kept(t, y) /\ Always(y, a, keep) /\ Filled(y.d) /\ y.d.dStage \in Data
    <3>1. LET q == FlushedTo(t)
          IN  /\ Kept(t, q) /\ Always(q, a, keep) /\ Filled(q.d)
              /\ \/ q.d.dStage = "flushOut" /\ q.d = t.d
                 \/ q.d.dStage = "getBlockHeader" /\ t.d.tmpOutStart = t.d.tmpOutSize
      BY <1>13, FlushedKept
    <3>2. QED
      BY <3>1 DEF y, Data, InBlocks
  <2>2. Between(x, y, n)
    <3>1. /\ y.o = t.o /\ y.d.info = t.d.info /\ y.d.maxBlockSize = t.d.maxBlockSize
          /\ y.d.maxBufferSize = t.d.maxBufferSize
      BY <2>1 DEF Kept
    <3>2. QED
      BY <1>13, <2>1, <3>1 DEF Between, Data
  <2>3. QED
    BY <1>6, <1>13, <2>1, <2>2, BetweenBlocks DEF g, v
\* Where the bytes go out from, and where to.
<1>14. x.d.info.linked => Flushing(x)
  BY <1>2, <1>4 DEF Flushing, Window
<1>15. CASE x.d.info.linked /\ a.dst # NULL
  <2>1. z = LZ4F_updateDict(a, u, u.o, n, TRUE)
    BY <1>9, <1>15
  <2> DEFINE f == LastOf(h \o Read(u.m, x.o, n), KB64)
  <2>2. Later(f, h, u.m, x.o, n)
    BY <1>2, <1>6, <1>11, HistoryGrows DEF Remembered
  <2> HIDE DEF z, f, g, v
  <2>3. Flushing(u) /\ Flushing(x)
    BY <1>9, <1>14, <1>15 DEF Flushing
  <2>4. FlushHistory(u.m, u.d, u.o, a, h, w, keep) /\ Recent(u.m, u.o, a, h, w)
    <3>1. FlushHistory(u.m, x.d, x.o, a, h, w, keep)
      BY <1>2, <1>10, <1>15, <2>3, SparedFlush
    <3>2. Recent(u.m, x.o, a, h, w)
      BY <1>2, <1>10, <1>11, <1>15, SparedRecent
    <3>3. QED
      BY <1>9, <3>1, <3>2
  <2>5. \A j \in 1 .. n : u.m[(u.d.tmpOut + u.d.tmpOutStart) + n - j] = u.m[u.o + n - j]
    <3>1. TMPOUT .. TMPOUT + x.d.maxBufferSize \subseteq TmpOut /\ x.d.maxBufferSize \in Nat
      BY <1>11, Bounds
    <3>2. Window(d) = 2 * KB64
      BY <1>15 DEF Window
    <3>3. \A q \in from .. from + n - 1 : q \in TMPOUT .. TMPOUT + x.d.maxBufferSize
      <4> HIDE DEF d
      <4>1. d.maxBufferSize \in Nat /\ d.maxBlockSize \in Nat /\ d.maxBlockSize + 2 * KB64 <= d.maxBufferSize
        BY <1>2, <1>4, <3>1, <3>2 DEF d
      <4>2. QED
        BY <1>3, <1>5, <1>6, <3>2, <4>1 DEF d, left
    <3>4. \A q \in from .. from + n - 1 : u.m[q] = x.m[q]
      BY <1>10, <3>1, <3>3 DEF Spared
    <3>5. ASSUME NEW j \in 1 .. n
          PROVE  u.m[from + n - j] = u.m[x.o + n - j]
      <4> HIDE DEF from
      <4>1. n + 1 - j \in 1 .. n /\ from + (n + 1 - j) - 1 = from + n - j
            /\ from + n - j \in from .. from + n - 1
        BY <1>6, <1>8
      <4>2. u.m[x.o + n - j] = x.m[from + n - j]
        BY <1>8, <1>10, <4>1
      <4>3. QED
        BY <3>4, <4>1, <4>2
    <3>6. QED
      BY <1>9, <3>5
  <2>6. /\ Rearranged(u, z) /\ z.d.tmpOut = u.d.tmpOut
        /\ \A e : After(e, z.d, u.d, n) => /\ FlushHistory(z.m, e, u.o + n, a, f, v, keep)
                                           /\ Recent(z.m, u.o + n, a, f, v)
    <3>1. ASSUME NEW e, After(e, z.d, u.d, n)
          PROVE  /\ Rearranged(u, z) /\ z.d.tmpOut = u.d.tmpOut
                 /\ FlushHistory(z.m, e, u.o + n, a, f, v, keep)
                 /\ Recent(z.m, u.o + n, a, f, v)
      <4>1. u.o + n <= a.end /\ u.d.tmpOutStart + n <= u.d.tmpOutSize
        BY <1>5, <1>6, <1>9 DEF left
      <4>2. Later(f, h, u.m, u.o, n) /\ LaterAt(v, w, u.o, n)
        BY <1>9, <1>12, <2>2
      <4>3. e.dict = z.d.dict /\ e.dictSize = z.d.dictSize /\ e.tmpOut = u.d.tmpOut
            /\ e.tmpOutSize = u.d.tmpOutSize /\ e.tmpOutStart = u.d.tmpOutStart + n
        BY <3>1 DEF After
      <4>4. QED
        BY <1>2, <1>6, <1>10, <1>15, <2>1, <2>3, <2>4, <2>5, <4>1, <4>2, <4>3, UpdatesTmp, ZenonT(30)
    <3> DEFINE e1 == [dict |-> z.d.dict, dictSize |-> z.d.dictSize, tmpOut |-> u.d.tmpOut,
                      tmpOutSize |-> u.d.tmpOutSize, tmpOutStart |-> u.d.tmpOutStart + n]
    <3>2. After(e1, z.d, u.d, n)
      BY DEF After
    <3> HIDE DEF e1
    <3>3. Rearranged(u, z) /\ z.d.tmpOut = u.d.tmpOut
      BY <3>1, <3>2
    <3>4. QED
      BY <3>1, <3>3
  <2>7. Always(z, a, keep)
    BY <1>10, <2>6, RearrangedAlways
  <2>8. /\ z.o = u.o /\ z.d.info = u.d.info /\ z.d.dStage = u.d.dStage
        /\ z.d.maxBlockSize = u.d.maxBlockSize /\ z.d.maxBufferSize = u.d.maxBufferSize
        /\ z.d.tmpOutSize = u.d.tmpOutSize /\ z.d.tmpOutStart = u.d.tmpOutStart
    BY <2>6 DEF Rearranged, SameCall, SameFrame
  <2>9. /\ Always(t, a, keep) /\ t.m = z.m /\ t.o = z.o + n /\ t.d.info = z.d.info
        /\ t.d.dStage = z.d.dStage /\ t.d.maxBlockSize = z.d.maxBlockSize
        /\ t.d.maxBufferSize = z.d.maxBufferSize /\ t.d.dict = z.d.dict
        /\ t.d.dictSize = z.d.dictSize /\ t.d.tmpOut = z.d.tmpOut
        /\ t.d.tmpOutSize = z.d.tmpOutSize /\ t.d.tmpOutStart = z.d.tmpOutStart + n
    BY <1>6, <1>9, <2>7, <2>8, AdvancedIs DEF t
  <2>10. FlushHistory(t.m, t.d, t.o, a, f, v, keep) /\ Recent(t.m, t.o, a, f, v)
    <3>1. After(t.d, z.d, u.d, n)
      BY <2>6, <2>8, <2>9 DEF After
    <3>2. t.o = u.o + n
      BY <2>8, <2>9
    <3>3. QED
      BY <2>6, <2>9, <3>1, <3>2
  <2>11. Remembered(f, v)
    <3>1. \A q \in a.dst .. a.end - 1 : q \in Addresses
      BY ONLY Always(x, a, keep), Facts
    <3>2. \A q \in a.dst .. a.end : q \notin TmpOut
      BY ONLY Always(x, a, keep), Facts
    <3>3. \A q \in x.o .. x.o + n - 1 : q \in a.dst .. a.end - 1 /\ q \in a.dst .. a.end
      BY <1>1, <1>6, <1>11
    <3>4. \A q \in x.o .. x.o + n - 1 : q \in Addresses /\ q \notin TmpOut
      BY <3>1, <3>2, <3>3
    <3>5. QED
      BY <1>2, <1>6, <1>11, <1>12, <2>2, <3>4, RememberedLater
  <2>12. Flushing(t) /\ t.d.dStage = "flushOut" /\ t.d.info = x.d.info
    <3>1. /\ t.d.info = x.d.info /\ t.d.maxBlockSize = x.d.maxBlockSize
          /\ t.d.maxBufferSize = x.d.maxBufferSize /\ t.d.tmpOut = x.d.tmpOut
          /\ t.d.tmpOutSize = x.d.tmpOutSize /\ t.d.tmpOutStart = x.d.tmpOutStart + n
          /\ t.d.dStage = "flushOut"
      BY <1>9, <2>6, <2>8, <2>9
    <3>2. Placed(t.d)
      <4>1. Window(t.d) = Window(x.d)
        BY <3>1 DEF Window
      <4>2. x.d.tmpOutStart + n \in 0 .. x.d.tmpOutSize
        BY <1>5, <1>6 DEF left
      <4>3. QED
        BY <1>2, <3>1, <4>1, <4>2 DEF Placed
    <3>3. QED
      BY <2>3, <3>1, <3>2 DEF Flushing
  <2>13. History(y, a, f, v, keep)
    BY <2>9, <2>10, <2>11, <2>12, FlushedLinked DEF y
  <2>14. f = g
    <3>1. y.m = t.m
      <4>1. Kept(t, FlushedTo(t))
        BY <2>9, <2>12, FlushedKept
      <4>2. QED
        BY <4>1 DEF Kept, y
    <3>2. \A q \in x.o .. x.o + n - 1 : q \in Addresses /\ q \notin TmpOut
      <4>1. \A q \in a.dst .. a.end - 1 : q \in Addresses
        BY ONLY Always(x, a, keep), Facts
      <4>2. \A q \in a.dst .. a.end : q \notin TmpOut
        BY ONLY Always(x, a, keep), Facts
      <4>3. \A q \in x.o .. x.o + n - 1 : q \in a.dst .. a.end - 1 /\ q \in a.dst .. a.end
        BY <1>1, <1>6, <1>11
      <4>4. QED
        BY <4>1, <4>2, <4>3
    <3>3. \A q \in x.o .. x.o + n - 1 : y.m[q] = u.m[q]
      BY <2>6, <2>9, <3>1, <3>2 DEF Rearranged
    <3>4. Read(y.m, x.o, n) = Read(u.m, x.o, n)
      <4>1. ASSUME NEW k \in 1 .. n
            PROVE  y.m[x.o + k - 1] = u.m[x.o + k - 1]
        <5>1. x.o + k - 1 \in x.o .. x.o + n - 1
          BY <1>6, <1>11
        <5>2. QED
          BY <3>3, <5>1
      <4>2. QED
        BY <4>1 DEF Read
    <3>5. QED
      BY <3>4 DEF f, g
  <2>15. History(y, a, g, v, keep)
    BY <2>13, <2>14
  <2>16. t.o = x.o + n /\ t.d.maxBlockSize = x.d.maxBlockSize /\ t.d.maxBufferSize = x.d.maxBufferSize
    BY <1>9, <2>8, <2>9
  <2>17. Turned(x, y, a, h, w, keep)
    BY <1>13, <1>15, <2>9, <2>12, <2>15, <2>16
  <2>18. QED
    BY <1>7, <2>17
<1>16. CASE ~(x.d.info.linked /\ a.dst # NULL)
  <2>1. z = u
    BY <1>16
  <2> HIDE DEF z, g, v
  <2>2. u.o + n <= a.end
    BY <1>6, <1>9
  <2>3. /\ Always(t, a, keep) /\ t.m = u.m /\ t.o = u.o + n /\ t.d.info = u.d.info
        /\ t.d.dStage = u.d.dStage /\ t.d.maxBlockSize = u.d.maxBlockSize
        /\ t.d.maxBufferSize = u.d.maxBufferSize /\ t.d.dict = u.d.dict
        /\ t.d.dictSize = u.d.dictSize /\ t.d.tmpOut = u.d.tmpOut
        /\ t.d.tmpOutSize = u.d.tmpOutSize /\ t.d.tmpOutStart = u.d.tmpOutStart + n
    BY <1>6, <1>10, <2>1, <2>2, AdvancedIs DEF t
  <2>4. /\ t.o = x.o + n /\ t.d.info = x.d.info /\ t.d.dStage = "flushOut"
        /\ t.d.maxBlockSize = x.d.maxBlockSize /\ t.d.maxBufferSize = x.d.maxBufferSize
        /\ t.d.dict = x.d.dict /\ t.d.dictSize = x.d.dictSize /\ t.d.tmpOut = x.d.tmpOut
        /\ t.d.tmpOutSize = x.d.tmpOutSize /\ t.d.tmpOutStart = x.d.tmpOutStart + n
    BY <1>9, <2>3
  <2>5. Placed(t.d)
    <3>1. Window(t.d) = Window(x.d)
      BY <2>4 DEF Window
    <3>2. x.d.tmpOutStart + n \in 0 .. x.d.tmpOutSize
      BY <1>5, <1>6 DEF left
    <3>3. QED
      BY <1>2, <2>4, <3>1, <3>2 DEF Placed
  <2>6. CASE x.d.info.linked
    <3>1. n = 0
      BY <1>6, <1>16, <2>6
    <3>2. g = h /\ v = w
      <4>1. Later(g, h, y.m, x.o, 0) /\ LaterAt(v, w, x.o, 0)
        BY <1>12, <3>1
      <4>2. QED
        BY <1>2, <4>1, NotGrown
    <3>3. FlushHistory(u.m, x.d, x.o, a, h, w, keep) /\ Recent(u.m, x.o, a, h, w)
      BY <1>2, <1>10, <1>11, <1>14, <2>6, SparedFlush, SparedRecent
    <3>4. t.o = x.o /\ t.d.tmpOutStart = x.d.tmpOutStart
      BY <1>5, <1>11, <2>4, <3>1
    <3>5. FlushHistory(t.m, t.d, t.o, a, h, w, keep) /\ Recent(t.m, t.o, a, h, w)
      BY <2>3, <2>4, <3>3, <3>4 DEF FlushHistory, InFront, Outside, Found, Given
    <3>6. Flushing(t)
      BY <1>14, <2>4, <2>5, <2>6 DEF Flushing
    <3>7. History(y, a, h, w, keep)
      BY <1>2, <2>3, <2>4, <3>5, <3>6, FlushedLinked DEF y
    <3>8. Turned(x, y, a, h, w, keep)
      BY <1>13, <2>3, <2>4, <2>6, <3>2, <3>7
    <3>9. QED
      BY <1>7, <3>8
  <2>7. CASE ~x.d.info.linked
    <3>1. Outside(u.m, x.d, x.o, a, h, w, keep)
      BY <1>2, <1>10, <1>11, <2>7, SparedOutside
    <3>2. Outside(u.m, x.d, x.o + n, a, h, w, keep)
      BY <1>6, <1>11, <3>1, OutsideWider
    <3>3. Outside(t.m, t.d, t.o, a, h, w, keep)
      BY <2>3, <2>4, <3>2 DEF Outside, Found, Given
    <3>4. ~t.d.info.linked /\ t.d.dict # TMPOUT /\ t.d.tmpOut = TMPOUT
      BY <1>2, <2>4, <2>7
    <3>5. History(y, a, h, w, keep)
      BY <1>2, <2>3, <2>4, <2>5, <3>3, <3>4, FlushedSingle DEF y
    <3>6. Turned(x, y, a, h, w, keep)
      BY <1>13, <2>3, <2>4, <2>7, <3>5
    <3>7. QED
      BY <1>7, <3>6
  <2>8. QED
    BY <2>6, <2>7
<1>17. QED
  BY <1>15, <1>16

-----------------------------------------------------------------------------
(* One turn of the loop.                                                   *)

LEMMA TurnsStage ==
  ASSUME NEW x, NEW a, NEW h, NEW w, NEW keep, Always(x, a, keep), Going(x, a, h, w, keep),
         x.go = "go"
  PROVE  Turned(x, Stage(a, x), a, h, w, keep)
<1>1. x.d.dStage \in Early \cup Data \cup AtSuffix \cup Skips
  BY DEF Going, Storing
<1>2. CASE x.d.dStage = "getFrameHeader"
  <2>1. Stage(a, x) = GetFrameHeader(a, x)
    BY <1>2 DEF Stage
  <2>2. QED
    BY <1>2, <2>1, TurnsFrameHeader
<1>3. CASE x.d.dStage = "storeFrameHeader"
  <2>1. Stage(a, x) = StoreFrameHeader(a, x)
    BY <1>3 DEF Stage
  <2>2. QED
    BY <1>3, <2>1, TurnsStoredHeader
<1>4. CASE x.d.dStage = "init"
  <2>1. Stage(a, x) = InitFrame(x)
    BY <1>4 DEF Stage
  <2>2. QED
    BY <1>4, <2>1, TurnsInit
<1>5. CASE x.d.dStage \in {"getBlockHeader", "storeBlockHeader"}
  <2> DEFINE f == Four(a, x, "storeBlockHeader")
             y == IF f.b = <<>> THEN f.x ELSE BlockHeader(a, f.x, f.b)
  <2>1. Turned(x, y, a, h, w, keep)
    BY <1>5, TurnsBlockHeader
  <2>2. Stage(a, x) = y
    BY <1>5 DEF Stage
  <2> HIDE DEF f, y
  <2>3. QED
    BY <2>1, <2>2
<1>6. CASE x.d.dStage = "copyDirect"
  <2>1. Stage(a, x) = CopyDirect(a, x)
    BY <1>6 DEF Stage
  <2>2. QED
    BY <1>6, <2>1, TurnsCopyDirect
<1>7. CASE x.d.dStage = "getBlockChecksum"
  <2>1. Stage(a, x) = GetBlockChecksum(a, x)
    BY <1>7 DEF Stage
  <2>2. QED
    BY <1>7, <2>1, TurnsBlockChecksum
<1>8. CASE x.d.dStage \in {"getCBlock", "storeCBlock"}
  <2>1. Stage(a, x) = CBlock(a, x)
    BY <1>8 DEF Stage
  <2>2. QED
    BY <1>8, <2>1, TurnsCBlock
<1>9. CASE x.d.dStage = "flushOut"
  <2>1. Stage(a, x) = FlushOut(a, x)
    BY <1>9 DEF Stage
  <2>2. QED
    BY <1>9, <2>1, TurnsFlush
<1>10. CASE x.d.dStage \in {"getSuffix", "storeSuffix"}
  <2>1. Stage(a, x) = Suffix(a, x)
    BY <1>10 DEF Stage
  <2>2. QED
    BY <1>10, <2>1, TurnsSuffix DEF AtSuffix
<1>11. CASE x.d.dStage \in {"getSFrameSize", "storeSFrameSize"}
  <2>1. Stage(a, x) = SFrameSize(a, x)
    BY <1>11 DEF Stage
  <2>2. QED
    BY <1>11, <2>1, TurnsSFrameSize
<1>12. CASE x.d.dStage = "skipSkippable"
  <2>1. Stage(a, x) = SkipSkippable(a, x)
    BY <1>12 DEF Stage
  <2>2. QED
    BY <1>12, <2>1, TurnsSkip
<1>13. QED
  BY <1>1, <1>2, <1>3, <1>4, <1>5, <1>6, <1>7, <1>8, <1>9, <1>10, <1>11, <1>12
  DEF Early, Data, InBlocks, AtSuffix, Skips

LEMMA TurnKeeps == IInv /\ Turn => IInv'
<1> SUFFICES ASSUME IInv, Turn PROVE IInv'
  OBVIOUS
<1>1. /\ Always(dctx, args, kept) /\ Going(dctx, args, hist, where, kept) /\ dctx.go = "go"
      /\ calling = TRUE /\ taken \in Nat
  BY DEF IInv, Turn
<1>2. /\ dctx' = Stage(args, dctx) /\ taken' = taken /\ args' = args /\ calling' = calling
      /\ kept' = kept
  BY DEF Turn
<1>3. hist' = HistAfter(dctx, dctx', hist) /\ where' = WhereAfter(dctx, dctx', where)
  BY DEF Turn, HistAfter, WhereAfter, Over
<1>4. Turned(dctx, dctx', args, hist, where, kept)
  BY <1>1, <1>2, TurnsStage
<1>5. Fine(dctx', args, hist', where', kept)
  BY <1>3, <1>4 DEF Turned
<1>6. /\ Always(dctx', args', kept')
      /\ dctx'.go \in {"go", "stop"} => Going(dctx', args', hist', where', kept')
      /\ dctx'.go = "stop" => dctx'.d.dStage # "init"
  BY <1>2, <1>5 DEF Fine
<1>7. QED
  BY <1>1, <1>2, <1>6 DEF IInv

\* What the decoder is given ends as the history does.
LEMMA FoundIsRead ==
  ASSUME NEW d, d.dict \in Nat, d.dictSize \in Nat, NEW mem, NEW h, IsSeq(h), Found(mem, d, h)
  PROVE  LastOf(Read(mem, d.dict, d.dictSize), KB64) = h
<1> DEFINE r == Read(mem, d.dict, d.dictSize)
           l == LastOf(r, KB64)
<1>1. KB64 \in Nat
  BY ReadingAssumption
<1>2. /\ IsSeq(r) /\ Len(r) = d.dictSize
      /\ \A j \in 1 .. d.dictSize : Back(r, j) = mem[d.dict + d.dictSize - j]
  BY ReadIs
<1> HIDE DEF r
<1>3. /\ IsSeq(l) /\ Len(l) = Least(d.dictSize, KB64)
      /\ \A j \in 1 .. Len(l) : Back(l, j) = Back(r, j)
  BY <1>1, <1>2, LastOfIs
<1> HIDE DEF l
<1>4. Len(h) = Least(d.dictSize, KB64)
      /\ \A j \in 1 .. Len(h) : mem[d.dict + d.dictSize - j] = Back(h, j)
  BY DEF Found, Ends
<1>5. \A j \in 1 .. Len(l) : Back(l, j) = Back(h, j)
  <2>1. Least(d.dictSize, KB64) <= d.dictSize /\ Least(d.dictSize, KB64) \in Nat
    BY <1>1 DEF Least
  <2>2. \A j \in 1 .. Len(l) : j \in 1 .. d.dictSize
    BY <1>3, <2>1
  <2>3. QED
    BY <1>2, <1>3, <1>4, <2>2
<1>6. l = h
  BY <1>3, <1>4, <1>5, SameBack
<1>7. QED
  BY <1>6 DEF l, r

LEMMA InvIsEnough == IInv => ReadsInOrder
<1> SUFFICES ASSUME IInv, dctx.go \in {"go", "stop"}
             PROVE  dctx.inside /\ WithinCall /\ StoredInside /\ HistoryKept
  BY DEF ReadsInOrder
<1>1. Always(dctx, args, kept) /\ Storing(dctx.d) /\ History(dctx, args, hist, where, kept)
  BY DEF IInv, Going
<1>2. dctx.inside
  <2>1. dctx.inside = TRUE
    BY <1>1 DEF Always
  <2>2. QED
    BY ONLY <2>1, Zenon
<1>3. WellFormed(dctx.d)
  BY <1>1 DEF Always
<1>4. StoredInside
  <2> DEFINE d == dctx.d
  <2>1. Storing(d) /\ Allocated(d) /\ Len(d.stored) \in Nat
    BY <1>1, <1>3 DEF WellFormed
  <2> SUFFICES /\ d.dStage \in {"storeFrameHeader", "storeSFrameSize", "getBlockChecksum"} =>
                    Len(d.stored) <= maxFHSize
               /\ d.dStage \in {"storeBlockHeader", "storeCBlock", "storeSuffix"} =>
                    Len(d.stored) <= d.room
    BY DEF StoredInside
  <2> HIDE DEF d
  <2>2. d.dStage \in {"storeFrameHeader", "storeSFrameSize", "getBlockChecksum"} =>
          Len(d.stored) <= maxFHSize
    BY <2>1 DEF Storing, maxFHSize, minFHSize
  <2>3. ASSUME d.dStage \in {"storeBlockHeader", "storeCBlock", "storeSuffix"}
        PROVE  Len(d.stored) <= d.room
    <3>1. d.dStage \in Data \cup AtSuffix
      BY <2>3 DEF Data, InBlocks, AtSuffix
    <3>2. d.maxBlockSize \in BlockSizes /\ d.maxBlockSize + BFSize <= d.room
      BY <2>1, <3>1, RoomForBlock DEF Storing
    <3>3. d.maxBlockSize \in Nat /\ d.room \in Nat
      <4>1. KB64 \in Nat
        BY ReadingAssumption
      <4>2. d.room \in Nat
        BY <2>1, Bounds
      <4>3. QED
        BY <3>2, <4>1, <4>2 DEF BlockSizes
    <3>4. CASE d.dStage \in {"storeBlockHeader", "storeSuffix"}
      <4>1. Len(d.stored) <= 4
        BY <2>1, <3>4 DEF Storing
      <4>2. QED
        BY ONLY <2>1, <3>2, <3>3, <4>1 DEF BFSize
    <3>5. CASE d.dStage = "storeCBlock"
      <4>1. Len(d.stored) <= d.target /\ Crc(d) <= d.target /\ d.target <= d.maxBlockSize + Crc(d)
        BY <2>1, <3>5 DEF Storing
      <4>2. Crc(d) \in {0, BFSize} /\ d.target \in Nat
        <5>1. d.target \in Nat
          BY <1>3 DEF WellFormed, d
        <5>2. QED
          BY <5>1, FlagIs DEF Crc, BFSize
      <4>3. QED
        BY ONLY <2>1, <3>2, <3>3, <4>1, <4>2 DEF BFSize
    <3>6. QED
      BY <2>3, <3>4, <3>5
  <2>4. QED
    BY <2>2, <2>3
<1>5. HistoryKept
  <2>1. /\ IsSeq(hist) /\ dctx.d.dict \in Nat /\ dctx.d.dictSize \in Nat
    BY <1>1, <1>3 DEF History, Remembered, WellFormed
  <2>2. dctx.d.dStage \in InBlocks => Found(dctx.m, dctx.d, hist)
    BY <1>1 DEF History, Data, LinkedHistory, Outside
  <2>3. QED
    BY <2>1, <2>2, FoundIsRead DEF HistoryKept
<1>6. WithinCall
  <2>1. Within(dctx, args, kept)
    BY <1>1 DEF Always
  <2>2. Len(args.src) \in Nat
    BY <2>1, LenProperties DEF Within
  <2>3. QED
    BY <2>1, <2>2 DEF Within, WithinCall
<1>7. QED
  BY <1>2, <1>4, <1>5, <1>6

-----------------------------------------------------------------------------
(* Before a call and after it.                                             *)

\* The program has its memory back, but for what it must keep.
Rested(y, mem) == [y EXCEPT !.m = mem, !.i = 0, !.o = NULL, !.hint = 1]
Spares(m1, m2, k) ==
  DOMAIN m2 = Addresses /\ \A q \in Addresses : q \in k \cup TmpOut => m2[q] = m1[q]

\* Addresses the program may be told to keep.
Keepable(k) == \A q \in k : q \in Addresses /\ q \notin TmpOut

LEMMA UsedSpares ==
  ASSUME NEW mem, NEW k, NEW junk
  PROVE  Spares(mem, Used(mem, k, junk), k)
BY DEF Spares, Used

LEMMA OutOfCall ==
  ASSUME NEW y, NEW a, NEW keep, Always(y, a, keep), NEW mem, NEW k, Keepable(k),
         Spares(y.m, mem, k)
  PROVE  LET z == Rested(y, mem)
         IN  /\ Always(z, NoCall, k) /\ z.d = y.d /\ z.m = mem /\ z.i = 0 /\ z.o = 0 /\ z.go = y.go
<1> DEFINE z == Rested(y, mem)
<1>1. Sound(y) /\ WellFormed(y.d)
  BY DEF Always, Sound, WellFormed
<1>2. /\ IsCall(z) /\ z.inside = y.inside /\ z.d = y.d /\ z.m = mem /\ z.i = 0 /\ z.o = 0
      /\ z.go = y.go
  BY <1>1 DEF Rested, Sound, IsCall, CallFields, NULL
<1>3. Within(z, NoCall, k)
  <2>1. TMPOUT \in Nat /\ TMPOUT > 0 /\ TmpOut \subseteq Int
    BY ReadingAssumption DEF TmpOut
  <2>2. 0 \notin TmpOut
    BY <2>1 DEF TmpOut
  <2>3. /\ NoCall.src = <<>> /\ NoCall.dst = 0 /\ NoCall.end = 0
    BY DEF NoCall, NULL
  <2>4. 0 .. 0 - 1 = {} /\ 0 .. 0 = {0}
    OBVIOUS
  <2>5. k \subseteq Addresses /\ k \cap TmpOut = {}
    BY DEF Keepable
  <2>6. <<>> \in Seq(Wire) /\ Len(<<>>) = 0
    BY EmptyWire
  <2> HIDE DEF z
  <2>7. QED
    BY <1>2, <2>2, <2>3, <2>4, <2>5, <2>6 DEF Within, NULL
<1>4. DOMAIN z.m = Addresses
  BY <1>2 DEF Spares
<1>5. z.inside = TRUE
  BY <1>1, <1>2 DEF Sound
<1> HIDE DEF z
<1>6. Always(z, NoCall, k)
  BY <1>1, <1>2, <1>3, <1>4, <1>5 DEF Always
<1>7. QED
  BY <1>2, <1>6 DEF z

\* A history that is not in a call's own destination is the same for every call.
LEMMA HistoryElsewhere ==
  ASSUME NEW x, NEW a, a.dst \in Nat, x.o = a.dst, NEW y, NEW b, b.dst \in Nat, y.o = b.dst,
         y.d = x.d, y.m = x.m, NEW h, NEW w, NEW k, History(x, a, h, w, k)
  PROVE  History(y, b, h, w, k)
<1>1. Remembered(h, w) /\ Len(h) \in Nat
  BY DEF History, Remembered, IsSeq
<1>2. Given(x.d, x.o, a, w, k) => Given(y.d, y.o, b, w, k)
  <2>1. a.dst .. x.o - 1 = {}
    OBVIOUS
  <2>2. QED
    BY <2>1 DEF Given
<1>3. Outside(x.m, x.d, x.o, a, h, w, k) => Outside(y.m, y.d, y.o, b, h, w, k)
  BY <1>2 DEF Outside
<1>4. LinkedHistory(x.m, x.d, x.o, a, h, w, k) => LinkedHistory(y.m, y.d, y.o, b, h, w, k)
  BY <1>2 DEF LinkedHistory
<1>5. FlushHistory(x.m, x.d, x.o, a, h, w, k) => FlushHistory(y.m, y.d, y.o, b, h, w, k)
  BY <1>3 DEF FlushHistory
<1>6. Recent(y.m, y.o, b, h, w)
  <2>1. KB64 \in Nat
    BY ReadingAssumption
  <2>2. y.o - b.dst = 0
    OBVIOUS
  <2>3. QED
    BY <1>1, <2>1, <2>2 DEF Recent, Least
<1>7. QED
  BY <1>1, <1>3, <1>4, <1>5, <1>6 DEF History

\* And survives when only what it need not be in is changed.
LEMMA HistorySpared ==
  ASSUME NEW x, NEW a, NEW k, Always(x, a, k), NEW h, NEW w, Going(x, a, h, w, k), x.o = a.dst,
         NEW y, NEW b, b.dst \in Nat, y.o = b.dst, y.d = x.d, Spares(x.m, y.m, k)
  PROVE  Going(y, b, h, w, k)
<1>1. /\ Remembered(h, w) /\ x.d.dict \in Nat /\ x.d.dictSize \in Nat /\ Allocated(x.d)
      /\ a.dst \in Nat /\ Storing(x.d) /\ History(x, a, h, w, k)
  BY Facts DEF Going, History
<1>2. Spared(x.m, y.m, x.o, a, k)
  <2>1. a.dst .. x.o - 1 = {}
    BY <1>1
  <2>2. TmpOut \subseteq Addresses /\ k \subseteq Addresses
    BY ReadingAssumption DEF Always, Within
  <2>3. QED
    BY <2>1, <2>2 DEF Spared, Spares
<1> DEFINE z == [x EXCEPT !.m = y.m]
<1>3. z.m = y.m /\ z.d = x.d /\ z.o = x.o /\ z.go = x.go
  BY DEF Always, IsCall, CallFields
<1> HIDE DEF z
<1>4. Outside(x.m, x.d, x.o, a, h, w, k) => Outside(y.m, x.d, x.o, a, h, w, k)
  BY <1>1, <1>2, SparedOutside
<1>5. LinkedHistory(x.m, x.d, x.o, a, h, w, k) => LinkedHistory(y.m, x.d, x.o, a, h, w, k)
  BY <1>1, <1>2, SparedLinked
<1>6. ASSUME x.d.info.linked, x.d.dStage = "flushOut"
      PROVE  FlushHistory(y.m, x.d, x.o, a, h, w, k)
  <2>1. Flushing(x) /\ FlushHistory(x.m, x.d, x.o, a, h, w, k)
    <3>1. x.d.maxBlockSize \in BlockSizes /\ x.d.maxBlockSize + 2 * KB64 <= x.d.maxBufferSize
      BY <1>1, <1>6 DEF Storing, Data, Window
    <3>2. x.d.maxBlockSize \in Nat
      BY <3>1, ReadingAssumption DEF BlockSizes
    <3>3. QED
      BY <1>1, <1>6, <3>1, <3>2 DEF Flushing, History
  <2>2. QED
    BY <1>1, <1>2, <2>1, SparedFlush
<1>7. Recent(x.m, x.o, a, h, w) => Recent(y.m, x.o, a, h, w)
  <2>1. x.o \in Int /\ a.dst \in Int /\ a.dst <= x.o
    BY <1>1
  <2>2. QED
    BY <1>1, <1>2, <2>1, SparedRecent
<1>8. History(z, a, h, w, k)
  BY <1>1, <1>3, <1>4, <1>5, <1>6, <1>7 DEF History
<1>9. History(y, b, h, w, k)
  BY <1>1, <1>3, <1>8, HistoryElsewhere
<1>10. QED
  BY <1>1, <1>9 DEF Going

\* Where a call has left the history, for as long as no other begins.
Rests(mem, d, h, w, k) ==
  \A v : v.d = d /\ v.m = mem /\ v.o = 0 => History(v, NoCall, h, w, k)

\* The program must keep what lies in its own memory.
LEMMA RestsInBlocks ==
  ASSUME NEW d, d.dStage \in InBlocks, d.info.linked, NEW h, NEW w, Remembered(h, w),
         NEW mem, NEW k, LinkedHistory(mem, d, 0, NoCall, h, w, k)
  PROVE  Rests(mem, d, h, w, k)
<1> SUFFICES ASSUME NEW v, v.d = d, v.m = mem, v.o = 0
             PROVE  History(v, NoCall, h, w, k)
  BY DEF Rests
<1>1. Recent(v.m, v.o, NoCall, h, w)
  <2>1. KB64 \in Nat /\ Len(h) \in Nat /\ v.o - NoCall.dst = 0
    BY ReadingAssumption DEF Remembered, IsSeq, NoCall, NULL
  <2>2. QED
    BY <2>1 DEF Recent, Least
<1>2. QED
  BY <1>1 DEF History, InBlocks, Early, Data

LEMMA RestsFlushing ==
  ASSUME NEW d, d.dStage = "flushOut", d.info.linked, NEW h, NEW w, Remembered(h, w), Placed(d),
         NEW mem, NEW k, FlushHistory(mem, d, 0, NoCall, h, w, k)
  PROVE  Rests(mem, d, h, w, k)
<1> SUFFICES ASSUME NEW v, v.d = d, v.m = mem, v.o = 0
             PROVE  History(v, NoCall, h, w, k)
  BY DEF Rests
<1>1. Recent(v.m, v.o, NoCall, h, w)
  <2>1. KB64 \in Nat /\ Len(h) \in Nat /\ v.o - NoCall.dst = 0
    BY ReadingAssumption DEF Remembered, IsSeq, NoCall, NULL
  <2>2. QED
    BY <2>1 DEF Recent, Least
<1>2. QED
  BY <1>1 DEF History, InBlocks, Early, Data

LEMMA RestsOutside ==
  ASSUME NEW d, d.dStage \in Early \/ (d.dStage \in Data /\ ~d.info.linked),
         d.dStage \in Data => d.tmpOut = TMPOUT, d.dStage = "flushOut" => Placed(d),
         NEW h, NEW w, Remembered(h, w), d.dict # TMPOUT,
         NEW mem, NEW k, Outside(mem, d, 0, NoCall, h, w, k)
  PROVE  Rests(mem, d, h, w, k)
<1> SUFFICES ASSUME NEW v, v.d = d, v.m = mem, v.o = 0
             PROVE  History(v, NoCall, h, w, k)
  BY DEF Rests
<1>1. v.o = NoCall.dst
  BY DEF NoCall, NULL
<1>2. QED
  BY <1>1 DEF History, InBlocks, Early, Data

LEMMA RestsNowhere ==
  ASSUME NEW d, d.dStage \in AtSuffix \cup Skips, NEW h, NEW w, Remembered(h, w), NEW mem, NEW k
  PROVE  Rests(mem, d, h, w, k)
BY DEF Rests, History, AtSuffix, Skips, Early, Data, InBlocks

LEMMA SameStoring ==
  ASSUME NEW d, NEW e, SameFrame(d, e), Storing(d)
  PROVE  Storing(e)
<1>1. Window(e) = Window(d) /\ Crc(e) = Crc(d)
  BY DEF SameFrame, Window, Crc
<1>2. QED
  BY <1>1 DEF SameFrame, Storing

\* The history moves to tmpOutBuffer between two blocks.
LEMMA PreservesBlocks ==
  ASSUME NEW x, NEW a, NEW h, NEW w, NEW keep, Always(x, a, keep), Going(x, a, h, w, keep),
         x.d.dStage \in InBlocks, x.d.info.linked, ~a.stableDst, x.d.dict \notin {TMPOUT, NULL},
         NEW k
  PROVE  LET y == PreserveHistory(a, x)
         IN  Rearranged(x, y) /\ Rests(y.m, y.d, h, w, k)
<1> DEFINE n == Min({x.d.dictSize, KB64})
           z == KeepLast(x, n)
           y == [z EXCEPT !.d.tmpOut = TMPOUT + n]
<1>1. PreserveHistory(a, x) = y
  BY DEF PreserveHistory, InBlocks
<1>2. /\ x.d.dictSize \in Nat /\ KB64 \in Nat /\ KB64 > 0 /\ TMPOUT \in Nat
      /\ Allocated(x.d) /\ Remembered(h, w)
      /\ LinkedHistory(x.m, x.d, x.o, a, h, w, keep)
      /\ x.d.maxBlockSize \in BlockSizes /\ x.d.maxBlockSize + 2 * KB64 <= x.d.maxBufferSize
  <2>1. LinkedHistory(x.m, x.d, x.o, a, h, w, keep) /\ Remembered(h, w)
    BY DEF Going, History
  <2>2. x.d.maxBlockSize \in BlockSizes /\ x.d.maxBlockSize + 2 * KB64 <= x.d.maxBufferSize
    BY DEF Going, Storing, Data, Window
  <2>3. x.d.dictSize \in Nat /\ Allocated(x.d)
    BY ONLY Always(x, a, keep), Facts
  <2>4. QED
    BY <2>1, <2>2, <2>3, ReadingAssumption
<1>3. n = Least(x.d.dictSize, KB64)
  BY <1>2, MinTwo
<1> HIDE DEF n
<1>4. x.d.maxBufferSize \in Nat /\ KB64 <= x.d.maxBufferSize
  <2>1. x.d.maxBufferSize \in Nat
    BY <1>2, Bounds
  <2>2. QED
    BY ONLY <1>2, <2>1 DEF BlockSizes
<1>5. n \in Nat /\ n <= x.d.dictSize /\ n <= KB64 /\ n <= x.d.maxBufferSize
  BY <1>2, <1>3, <1>4 DEF Least
<1>6. Found(x.m, x.d, h) /\ Len(h) = n
  BY <1>2, <1>3 DEF LinkedHistory, Found
<1>7. /\ Rearranged(x, z) /\ z.d.dict = TMPOUT /\ z.d.dictSize = n
      /\ Ends(z.m, TMPOUT + n, h, n)
  BY <1>5, <1>6, Moves
<1> HIDE DEF z
<1>8. Always(z, a, keep)
  BY <1>7, RearrangedAlways
<1>9. /\ Rearranged(z, y) /\ y.m = z.m /\ y.d.dict = z.d.dict /\ y.d.dictSize = z.d.dictSize
  BY <1>8, TmpOutSet
<1> HIDE DEF y
<1>10. Rearranged(x, y)
  BY <1>7, <1>9, RearrangedTwice
<1>11. y.d.dStage = x.d.dStage /\ y.d.info = x.d.info /\ y.d.maxBufferSize = x.d.maxBufferSize
  BY <1>10 DEF Rearranged, SameFrame
<1>12. LinkedHistory(y.m, y.d, 0, NoCall, h, w, k)
  <2>1. y.d.dict = TMPOUT /\ y.d.dictSize = n
    BY <1>7, <1>9
  <2>2. Least(n, KB64) = n
    BY <1>5 DEF Least
  <2>3. QED
    BY <1>4, <1>5, <1>6, <1>7, <1>9, <1>11, <2>1, <2>2 DEF LinkedHistory, Found
<1>13. Rests(y.m, y.d, h, w, k)
  BY <1>2, <1>11, <1>12, RestsInBlocks
<1>14. QED
  BY <1>1, <1>10, <1>13

\* And before a block that is still going out.
LEMMA PreservesFlush ==
  ASSUME NEW x, NEW a, NEW h, NEW w, NEW keep, Always(x, a, keep), Going(x, a, h, w, keep),
         x.d.dStage = "flushOut", x.d.info.linked, ~a.stableDst, x.d.dict \notin {TMPOUT, NULL},
         NEW k
  PROVE  LET y == PreserveHistory(a, x)
         IN  Rearranged(x, y) /\ Rests(y.m, y.d, h, w, k)
<1> DEFINE y == InFrontOfTmp(x, 0)
           before == x.d.tmpOut - TMPOUT
           s == x.d.tmpOutStart
<1>1. PreserveHistory(a, x) = y
  BY DEF PreserveHistory
<1> HIDE DEF y
<1>2. /\ Remembered(h, w) /\ Placed(x.d) /\ FlushHistory(x.m, x.d, x.o, a, h, w, keep)
      /\ KB64 \in Nat /\ Len(h) \in Nat
  BY ReadingAssumption DEF Going, History, Remembered, IsSeq
<1>3. Flushing(x)
  <2>1. x.d.maxBlockSize \in BlockSizes /\ x.d.maxBlockSize + 2 * KB64 <= x.d.maxBufferSize
    BY DEF Going, Storing, Data, Window
  <2>2. x.d.maxBlockSize \in Nat
    BY <1>2, <2>1 DEF BlockSizes
  <2>3. QED
    BY <1>2, <2>1, <2>2 DEF Flushing
<1>4. /\ before \in Nat /\ s \in Nat /\ InFront(x.d) \in Nat /\ TMPOUT \in Nat
      /\ x.d.tmpOut \in Nat
  BY <1>3, FlushFacts
<1>5. /\ Len(h) = Least(before + s, KB64) /\ Found(x.m, x.d, h)
      /\ Ends(x.m, x.d.tmpOut + s, h, Least(s, Len(h)))
  BY <1>2 DEF FlushHistory, Outside
<1>6. /\ Rearranged(x, y) /\ y.d.tmpOut = x.d.tmpOut /\ y.d.dict = TMPOUT
      /\ y.d.dictSize = before + s + 0
      /\ Ends(y.m, x.d.tmpOut + s, h, Least(Len(h), s + InFront(x.d)))
  BY <1>3, <1>5, MovesInFront DEF y
<1>7. /\ y.d.dStage = x.d.dStage /\ y.d.info = x.d.info /\ y.d.tmpOutSize = x.d.tmpOutSize
      /\ y.d.tmpOutStart = s /\ y.d.maxBlockSize = x.d.maxBlockSize
  BY <1>6 DEF Rearranged, SameFrame
<1>8. InFront(y.d) = InFront(x.d) /\ Window(y.d) = Window(x.d)
  BY <1>6, <1>7 DEF InFront, Window
<1>9. Placed(y.d)
  BY <1>2, <1>6, <1>7, <1>8 DEF Placed
<1>10. FlushHistory(y.m, y.d, 0, NoCall, h, w, k)
  <2>1. TMPOUT + (before + s) = x.d.tmpOut + s /\ before + s + 0 = before + s
    BY <1>4
  <2>2. /\ Least(s, Len(h)) \in Nat /\ Least(Len(h), s + InFront(x.d)) \in Nat
        /\ Least(s, Len(h)) <= Least(Len(h), s + InFront(x.d))
    BY <1>2, <1>4 DEF Least
  <2>3. Ends(y.m, x.d.tmpOut + s, h, Least(s, Len(h)))
    BY <1>6, <2>2, EndsLess
  <2>4. Outside(y.m, y.d, 0, NoCall, h, w, k)
    BY <1>6 DEF Outside
  <2> HIDE DEF s
  <2>5. QED
    BY <1>5, <1>6, <1>7, <1>8, <2>1, <2>3, <2>4 DEF FlushHistory
<1>11. Rests(y.m, y.d, h, w, k)
  BY <1>2, <1>7, <1>9, <1>10, RestsFlushing
<1>12. QED
  BY <1>1, <1>6, <1>11

\* The addresses a call that returns has asked the program to keep.
Owed(x, a, w) ==
  IF a.stableDst \/ ~x.d.info.linked \/ x.d.dStage \in Early THEN {w[i] : i \in DOMAIN w} ELSE {}

\* The history is not in the program's memory, or the program keeps it.
LEMMA KeptAsOwed ==
  ASSUME NEW x, NEW a, NEW h, NEW w, NEW keep, Always(x, a, keep), Remembered(h, w),
         x.d.dStage \in Early \cup Data, Outside(x.m, x.d, x.o, a, h, w, keep),
         x.d.dict # TMPOUT => x.d.dict = NULL \/ a.stableDst \/ ~x.d.info.linked \/ x.d.dStage \in Early
  PROVE  Outside(x.m, x.d, 0, NoCall, h, w, Owed(x, a, w))
<1> DEFINE k == Owed(x, a, w)
<1> SUFFICES ASSUME x.d.dict # TMPOUT
             PROVE  Found(x.m, x.d, h) /\ Given(x.d, 0, NoCall, w, k)
  BY DEF Outside
<1>1. Found(x.m, x.d, h) /\ Given(x.d, x.o, a, w, keep)
  BY DEF Outside
<1>2. Len(w) \in Nat /\ Len(w) = Len(h) /\ DOMAIN w = 1 .. Len(w)
  BY DEF Remembered, IsSeq
<1>3. ASSUME NEW j \in 1 .. Len(w)
      PROVE  Back(w, j) \in k
  <2>1. CASE a.stableDst \/ ~x.d.info.linked \/ x.d.dStage \in Early
    <3>1. Len(w) + 1 - j \in DOMAIN w
      BY <1>2
    <3>2. QED
      BY <2>1, <3>1 DEF Owed, Back
  <2>2. CASE x.d.dict = NULL
    <3>1. x.d.dictSize = 0 /\ KB64 \in Nat
      BY <2>2, ReadingAssumption DEF Always, WellFormed
    <3>2. Len(h) = 0
      BY <1>1, <3>1 DEF Found, Least
    <3>3. QED
      BY <1>2, <3>2
  <2>3. QED
    BY <2>1, <2>2
<1> HIDE DEF k
<1>4. Given(x.d, 0, NoCall, w, k)
  BY <1>1, <1>3 DEF Given
<1>5. QED
  BY <1>1, <1>4

LEMMA Preserves ==
  ASSUME NEW x, NEW a, NEW h, NEW w, NEW keep, Always(x, a, keep), Going(x, a, h, w, keep),
         x.d.dStage # "init"
  PROVE  LET y == PreserveHistory(a, x)
         IN  Always(y, a, keep) /\ Storing(y.d) /\ y.go = x.go /\ Rests(y.m, y.d, h, w, Owed(x, a, w))
<1> DEFINE y == PreserveHistory(a, x)
           k == Owed(x, a, w)
           moved == /\ x.d.info.linked /\ ~a.stableDst /\ x.d.dict \notin {TMPOUT, NULL}
                    /\ x.d.dStage \in Data
<1>1. Remembered(h, w) /\ Storing(x.d) /\ History(x, a, h, w, keep)
  BY DEF Going, History
<1>2. CASE moved
  <2>1. Rearranged(x, y) /\ Rests(y.m, y.d, h, w, k)
    <3>1. CASE x.d.dStage \in InBlocks
      BY <1>2, <3>1, PreservesBlocks
    <3>2. CASE x.d.dStage = "flushOut"
      BY <1>2, <3>2, PreservesFlush
    <3>3. QED
      BY <1>2, <3>1, <3>2 DEF Data
  <2> HIDE DEF y, k
  <2>2. Always(y, a, keep)
    BY <2>1, RearrangedAlways
  <2>3. Storing(y.d) /\ y.go = x.go
    BY <1>1, <2>1, SameStoring DEF Rearranged, SameCall
  <2>4. QED
    BY <2>1, <2>2, <2>3 DEF y, k
<1>3. CASE ~moved
  <2>1. y = x
    BY <1>3 DEF PreserveHistory, Data, InBlocks
  <2> HIDE DEF y
  <2>2. Rests(x.m, x.d, h, w, k)
    <3>1. ASSUME x.d.dStage \in Early \cup Data, Outside(x.m, x.d, x.o, a, h, w, keep)
          PROVE  Outside(x.m, x.d, 0, NoCall, h, w, k)
      <4>1. x.d.dict # TMPOUT => x.d.dict = NULL \/ a.stableDst \/ ~x.d.info.linked \/ x.d.dStage \in Early
        BY <1>3, <3>1
      <4>2. QED
        BY <1>1, <3>1, <4>1, KeptAsOwed
    <3> HIDE DEF k, moved
    <3>2. CASE x.d.dStage \in Early \/ (x.d.dStage \in Data /\ ~x.d.info.linked)
      <4>1. /\ x.d.dict # TMPOUT /\ Outside(x.m, x.d, x.o, a, h, w, keep)
            /\ x.d.dStage \in Data => x.d.tmpOut = TMPOUT
            /\ x.d.dStage = "flushOut" => Placed(x.d)
        BY <1>1, <3>2 DEF History, Early, Data, InBlocks
      <4>2. Outside(x.m, x.d, 0, NoCall, h, w, k)
        BY <3>1, <3>2, <4>1
      <4>3. QED
        BY <1>1, <3>2, <4>1, <4>2, RestsOutside
    <3>3. CASE x.d.dStage \in InBlocks /\ x.d.info.linked
      <4>1. LinkedHistory(x.m, x.d, x.o, a, h, w, keep)
        BY <1>1, <3>3 DEF History
      <4>2. Outside(x.m, x.d, x.o, a, h, w, keep)
        BY <4>1 DEF LinkedHistory, Outside
      <4>3. Outside(x.m, x.d, 0, NoCall, h, w, k)
        BY <3>1, <3>3, <4>2 DEF Data
      <4>4. LinkedHistory(x.m, x.d, 0, NoCall, h, w, k)
        BY <4>1, <4>3 DEF LinkedHistory, Outside
      <4>5. QED
        BY <1>1, <3>3, <4>4, RestsInBlocks
    <3>4. CASE x.d.dStage = "flushOut" /\ x.d.info.linked
      <4>1. FlushHistory(x.m, x.d, x.o, a, h, w, keep) /\ Placed(x.d)
        BY <1>1, <3>4 DEF History
      <4>2. Outside(x.m, x.d, x.o, a, h, w, keep)
        BY <4>1 DEF FlushHistory
      <4>3. Outside(x.m, x.d, 0, NoCall, h, w, k)
        BY <3>1, <3>4, <4>2 DEF Data
      <4>4. FlushHistory(x.m, x.d, 0, NoCall, h, w, k)
        BY <4>1, <4>3 DEF FlushHistory
      <4>5. QED
        BY <1>1, <3>4, <4>1, <4>4, RestsFlushing
    <3>5. CASE x.d.dStage \in AtSuffix \cup Skips
      BY <1>1, <3>5, RestsNowhere
    <3>6. \/ x.d.dStage \in Early \/ x.d.dStage \in InBlocks \/ x.d.dStage = "flushOut"
          \/ x.d.dStage \in AtSuffix \cup Skips
      BY <1>1 DEF Storing, Data
    <3>7. CASE x.d.info.linked
      BY ONLY <3>2, <3>3, <3>4, <3>5, <3>6, <3>7
    <3>8. CASE ~x.d.info.linked
      <4>1. x.d.dStage \in Early \/ x.d.dStage \in Data \/ x.d.dStage \in AtSuffix \cup Skips
        BY <3>6 DEF Data
      <4>2. QED
        BY <3>2, <3>5, <3>8, <4>1
    <3>9. QED
      BY <3>7, <3>8
  <2>3. QED
    BY <1>1, <2>1, <2>2 DEF y
<1>4. QED
  BY <1>2, <1>3

LEMMA OwedIsKeepable ==
  ASSUME NEW x, NEW a, NEW h, NEW w, Remembered(h, w)
  PROVE  Keepable(Owed(x, a, w))
<1>1. \A i \in DOMAIN w : w[i] \in Addresses /\ w[i] \notin TmpOut
  BY DEF Remembered, IsSeq
<1>2. QED
  BY <1>1 DEF Keepable, Owed

\* What rests so goes on so, whatever becomes of the rest of the memory.
LEMMA RestsOn ==
  ASSUME NEW y, NEW a, NEW keep, Always(y, a, keep), Storing(y.d), NEW h, NEW w, NEW k, Keepable(k),
         Rests(y.m, y.d, h, w, k), NEW mem, Spares(y.m, mem, k)
  PROVE  LET z == Rested(y, mem)
         IN  /\ Always(z, NoCall, k) /\ Going(z, NoCall, h, w, k) /\ z.i = 0 /\ z.go = y.go
<1> DEFINE z == Rested(y, mem)
           v == Rested(y, y.m)
<1>1. /\ Always(z, NoCall, k) /\ z.d = y.d /\ z.m = mem /\ z.i = 0 /\ z.o = 0 /\ z.go = y.go
  BY OutOfCall
<1>2. Spares(y.m, y.m, k)
  BY DEF Spares, Always
<1>3. /\ Always(v, NoCall, k) /\ v.d = y.d /\ v.m = y.m /\ v.o = 0
  BY <1>2, OutOfCall
<1> HIDE DEF z, v
<1>4. Going(v, NoCall, h, w, k)
  BY <1>3 DEF Rests, Going
<1>5. NoCall.dst = 0
  BY DEF NoCall, NULL
<1>6. Going(z, NoCall, h, w, k)
  BY <1>1, <1>3, <1>4, <1>5, HistorySpared
<1>7. QED
  BY <1>1, <1>6 DEF z

LEMMA ReturnKeeps == ASSUME NEW junk, IInv, Return(junk) PROVE IInv'
<1> DEFINE y == PreserveHistory(args, dctx)
           k == Owed(dctx, args, where)
           mem == Used(y.m, kept', junk)
<1>1. /\ Always(dctx, args, kept) /\ Going(dctx, args, hist, where, kept) /\ dctx.go = "stop"
      /\ dctx.d.dStage # "init" /\ taken \in Nat
  BY DEF IInv, Return
<1>2. kept' = k
  BY DEF Return, Owed
<1>3. /\ calling' = FALSE /\ args' = NoCall /\ taken' = taken + dctx.i /\ hist' = hist
      /\ where' = where /\ dctx' = [y EXCEPT !.m = Used(@, kept', junk), !.i = 0, !.o = NULL, !.hint = 1]
  BY DEF Return
<1>4. /\ Always(y, args, kept) /\ Storing(y.d) /\ y.go = dctx.go
      /\ Rests(y.m, y.d, hist, where, k)
  BY <1>1, Preserves
<1>5. Keepable(k)
  BY <1>1, OwedIsKeepable DEF Going, History
<1> HIDE DEF y, k
<1>6. dctx' = Rested(y, mem)
  BY <1>3, <1>4 DEF Rested, Always, IsCall, CallFields
<1>7. Spares(y.m, mem, k)
  BY <1>2, UsedSpares
<1> HIDE DEF mem
<1>8. /\ Always(dctx', NoCall, k) /\ Going(dctx', NoCall, hist, where, k) /\ dctx'.i = 0
      /\ dctx'.go = y.go
  BY <1>4, <1>5, <1>6, <1>7, RestsOn
<1>9. taken' \in Nat
  <2>1. dctx.i \in Nat
    BY <1>1 DEF Always, Within
  <2>2. QED
    BY <1>1, <1>3, <2>1
<1>10. QED
  BY <1>1, <1>2, <1>3, <1>4, <1>8, <1>9 DEF IInv

LEMMA PieceIs ==
  ASSUME taken \in Nat, NEW n \in Sizes
  PROVE  Piece(n) \in Seq(Wire) /\ Len(Piece(n)) \in Nat
<1>1. Stream \in Seq(Wire) /\ Len(Stream) \in Nat /\ n \in Nat
  BY ReadingAssumption, LenProperties
<1> DEFINE e == Min({taken + n, Len(Stream)})
<1>2. e = Least(taken + n, Len(Stream))
  BY <1>1, MinTwo
<1>3. e \in Int /\ e <= Len(Stream) /\ taken + 1 \in Int /\ taken + 1 > 0
  BY <1>1, <1>2 DEF Least
<1>4. Piece(n) = SubSeq(Stream, taken + 1, e)
  BY DEF Piece
<1> HIDE DEF e
<1>5. \A k \in taken + 1 .. e : Stream[k] \in Wire
  <2>1. \A k \in taken + 1 .. e : k \in 1 .. Len(Stream)
    BY <1>1, <1>3
  <2>2. QED
    BY <1>1, <2>1, ElementOfSeq
<1>6. Piece(n) \in Seq(Wire)
  BY <1>1, <1>3, <1>4, <1>5, SubSeqProperties
<1>7. QED
  BY <1>6, LenProperties

\* A destination, or a dictionary.
LEMMA ExtentIs ==
  ASSUME NEW r \in Rooms \cup Dictionaries
  PROVE  /\ r.at \in Nat /\ r.size \in Nat /\ (r.at = NULL => r.size = 0)
         /\ \A q \in r.at .. r.at + r.size - 1 : q \in Addresses
         /\ \A q \in r.at .. r.at + r.size : q \notin TmpOut
         /\ r.at # TMPOUT
<1>1. /\ r.at \in Nat /\ r.size \in Nat /\ (r.at = NULL => r.size = 0)
      /\ Extent(r) \subseteq Addresses
      /\ (r.at .. r.at + r.size) \cap TmpOut = {}
  BY ReadingAssumption
<1>2. \A q \in r.at .. r.at + r.size : q \notin TmpOut
  BY <1>1
<1>3. TMPOUT \in TmpOut
  BY ReadingAssumption DEF TmpOut, MaxBuffer
<1>4. r.at \in r.at .. r.at + r.size
  BY <1>1
<1>5. QED
  BY <1>1, <1>2, <1>3, <1>4 DEF Extent

\* The call of LZ4F_decompress, with a context that is as it was or has a dictionary.
LEMMA IntoCall ==
  ASSUME NEW y, Sound(y), y.i = 0, WellFormed(y.d), DOMAIN y.m = Addresses,
         NEW n \in Sizes, taken \in Nat, NEW r \in Rooms, y.o = r.at, NEW b, b.src = Piece(n),
         b.dst = r.at, b.end = r.at + r.size, NEW k, Keepable(k), Extent(r) \cap k = {}
  PROVE  Always(y, b, k)
<1>1. /\ r.at \in Nat /\ r.size \in Nat /\ (r.at = NULL => r.size = 0)
      /\ \A q \in r.at .. r.at + r.size - 1 : q \in Addresses
      /\ \A q \in r.at .. r.at + r.size : q \notin TmpOut
  BY ExtentIs
<1>2. Piece(n) \in Seq(Wire) /\ Len(Piece(n)) \in Nat
  BY PieceIs
<1>3. /\ b.src \in Seq(Wire) /\ y.i \in 0 .. Len(b.src)
  BY <1>2
<1>4. /\ b.dst \in Nat /\ b.end \in Nat /\ y.o \in b.dst .. b.end /\ (b.dst = NULL => b.end = NULL)
  BY <1>1 DEF NULL
<1>5. /\ b.dst .. b.end - 1 \subseteq Addresses /\ (b.dst .. b.end) \cap TmpOut = {}
  BY <1>1
<1>6. k \subseteq Addresses /\ k \cap TmpOut = {} /\ k \cap (b.dst .. b.end - 1) = {}
  <2>1. b.dst .. b.end - 1 = Extent(r)
    BY <1>1 DEF Extent
  <2>2. k \subseteq Addresses /\ k \cap TmpOut = {}
    BY DEF Keepable
  <2>3. k \cap Extent(r) = {}
    OBVIOUS
  <2>4. QED
    BY ONLY <2>1, <2>2, <2>3
<1>7. Within(y, b, k)
  BY <1>3, <1>4, <1>5, <1>6 DEF Within
<1>8. QED
  BY <1>7 DEF Always, Sound

\* What is known between two calls.
LEMMA AtRest ==
  ASSUME IInv, ~calling
  PROVE  /\ Always(dctx, NoCall, kept) /\ Going(dctx, NoCall, hist, where, kept)
         /\ Sound(dctx) /\ WellFormed(dctx.d) /\ DOMAIN dctx.m = Addresses
         /\ dctx.go = "stop" /\ dctx.i = 0 /\ dctx.o = NoCall.dst /\ NoCall.dst \in Nat
         /\ taken \in Nat /\ Keepable(kept)
<1>1. /\ Always(dctx, NoCall, kept) /\ Going(dctx, NoCall, hist, where, kept)
      /\ dctx.go = "stop" /\ dctx.i = 0 /\ taken \in Nat
  BY DEF IInv
<1>2. Sound(dctx) /\ WellFormed(dctx.d) /\ DOMAIN dctx.m = Addresses
  BY <1>1, SoundAlways DEF Always
<1>3. dctx.o = NoCall.dst /\ NoCall.dst \in Nat
  BY <1>1 DEF Always, Within, NoCall, NULL
<1>4. Keepable(kept)
  BY <1>1 DEF Always, Within, Keepable
<1>5. QED
  BY <1>1, <1>2, <1>3, <1>4

LEMMA PlainKeeps ==
  ASSUME IInv, NEW n \in Sizes, NEW r \in Rooms, NEW stable \in BOOLEAN,
         DecompressPlain(n, r, stable)
  PROVE  IInv'
<1>1. /\ ~calling /\ calling' = TRUE /\ taken' = taken /\ hist' = hist /\ where' = where
      /\ kept' = kept /\ Extent(r) \cap kept = {}
      /\ args' = [src |-> Piece(n), dst |-> r.at, end |-> r.at + r.size, stableDst |-> stable]
      /\ dctx' = [dctx EXCEPT !.d = dctx.d, !.m = dctx.m, !.o = r.at, !.go = "go"]
  BY DEF DecompressPlain, Started
<1>2. /\ Always(dctx, NoCall, kept) /\ Going(dctx, NoCall, hist, where, kept)
      /\ Sound(dctx) /\ WellFormed(dctx.d) /\ DOMAIN dctx.m = Addresses /\ dctx.i = 0
      /\ dctx.o = NoCall.dst /\ NoCall.dst \in Nat /\ taken \in Nat /\ Keepable(kept)
  BY <1>1, AtRest
<1>3. /\ Sound(dctx') /\ dctx'.d = dctx.d /\ dctx'.m = dctx.m /\ dctx'.i = 0 /\ dctx'.o = r.at
      /\ dctx'.go = "go"
  BY <1>1, <1>2 DEF Sound, IsCall, CallFields
<1>4. args'.src = Piece(n) /\ args'.dst = r.at /\ args'.end = r.at + r.size
  BY <1>1
<1>5. Always(dctx', args', kept')
  BY <1>1, <1>2, <1>3, <1>4, IntoCall
<1>6. r.at \in Nat
  BY ExtentIs
<1>7. Going(dctx', args', hist', where', kept')
  <2>1. History(dctx, NoCall, hist, where, kept) /\ Storing(dctx.d)
    BY <1>2 DEF Going
  <2>2. args'.dst \in Nat /\ dctx'.o = args'.dst
    BY <1>3, <1>4, <1>6
  <2>3. History(dctx', args', hist, where, kept)
    BY ONLY <1>2, <1>3, <2>1, <2>2, HistoryElsewhere
  <2>4. QED
    BY <1>1, <1>3, <2>1, <2>3 DEF Going
<1>8. QED
  BY <1>1, <1>2, <1>3, <1>5, <1>7 DEF IInv

\* The window of a dictionary, and where it is.
LEMMA OfDictionary ==
  ASSUME NEW dict \in Dictionaries, NEW mem
  PROVE  LET h == LastOf(Read(mem, dict.at, dict.size), KB64)
             w == LastOf([j \in 1 .. dict.size |-> dict.at + j - 1], KB64)
         IN  /\ Remembered(h, w) /\ Len(h) = Least(dict.size, KB64)
             /\ \A j \in 1 .. Len(h) : /\ Back(w, j) = dict.at + dict.size - j
                                       /\ mem[dict.at + dict.size - j] = Back(h, j)
             /\ \A i \in DOMAIN w : w[i] \in Extent(dict)
<1> DEFINE given == [j \in 1 .. dict.size |-> dict.at + j - 1]
           all == Read(mem, dict.at, dict.size)
           h == LastOf(all, KB64)
           w == LastOf(given, KB64)
<1>1. /\ dict.at \in Nat /\ dict.size \in Nat /\ dict.at \in Int
      /\ \A q \in dict.at .. dict.at + dict.size - 1 : q \in Addresses
      /\ \A q \in dict.at .. dict.at + dict.size : q \notin TmpOut
  BY ExtentIs
<1>2. KB64 \in Nat
  BY ReadingAssumption
<1>3. /\ IsSeq(all) /\ Len(all) = dict.size
      /\ \A j \in 1 .. dict.size : Back(all, j) = mem[dict.at + dict.size - j]
  BY <1>1, ReadIs
<1>4. /\ IsSeq(given) /\ Len(given) = dict.size
      /\ \A j \in 1 .. dict.size : Back(given, j) = dict.at + dict.size - j
  BY <1>1, AddressesAre
<1> HIDE DEF all, given
<1>5. /\ IsSeq(h) /\ Len(h) = Least(dict.size, KB64)
      /\ \A j \in 1 .. Len(h) : Back(h, j) = Back(all, j)
  BY <1>2, <1>3, LastOfIs
<1>6. /\ IsSeq(w) /\ Len(w) = Least(dict.size, KB64)
      /\ \A j \in 1 .. Len(w) : Back(w, j) = Back(given, j)
  BY <1>2, <1>4, LastOfIs
<1> HIDE DEF h, w
<1>7. Least(dict.size, KB64) \in Nat /\ Least(dict.size, KB64) <= dict.size
      /\ Least(dict.size, KB64) <= KB64
  BY <1>1, <1>2 DEF Least
<1>8. ASSUME NEW j \in 1 .. Len(h)
      PROVE  /\ Back(w, j) = dict.at + dict.size - j
             /\ mem[dict.at + dict.size - j] = Back(h, j)
  <2>1. j \in 1 .. dict.size /\ j \in 1 .. Len(w)
    <3> DEFINE l == Least(dict.size, KB64)
    <3>1. j \in 1 .. l /\ 1 .. Len(w) = 1 .. l /\ l \in Nat /\ l <= dict.size /\ dict.size \in Nat
      BY <1>1, <1>5, <1>6, <1>7
    <3> HIDE DEF l
    <3>2. QED
      BY ONLY <3>1
  <2>2. QED
    BY <1>3, <1>4, <1>5, <1>6, <2>1
<1>9. ASSUME NEW i \in 1 .. Len(w)
      PROVE  w[i] \in dict.at .. dict.at + dict.size - 1
  <2>1. Len(w) + 1 - i \in 1 .. Len(w) /\ Len(w) + 1 - (Len(w) + 1 - i) = i
    BY <1>6, <1>7
  <2>2. w[i] = Back(w, Len(w) + 1 - i)
    BY <2>1 DEF Back
  <2>3. w[i] = dict.at + dict.size - (Len(w) + 1 - i)
    BY <1>5, <1>6, <1>8, <2>1, <2>2
  <2>4. Len(w) \in Nat /\ Len(w) <= dict.size
    BY <1>6, <1>7
  <2>5. QED
    BY ONLY <1>1, <2>3, <2>4, i \in 1 .. Len(w)
<1>10. ASSUME NEW i \in 1 .. Len(w)
       PROVE  w[i] \in Addresses /\ w[i] \notin TmpOut /\ w[i] \in Int
  <2>1. w[i] \in dict.at .. dict.at + dict.size - 1 /\ w[i] \in dict.at .. dict.at + dict.size
    BY <1>1, <1>9
  <2>2. QED
    BY <1>1, <2>1
<1>11. Remembered(h, w)
  BY <1>2, <1>5, <1>6, <1>7, <1>10 DEF Remembered
<1>12. DOMAIN w = 1 .. Len(w)
  BY <1>6 DEF IsSeq
<1>13. \A i \in DOMAIN w : w[i] \in Extent(dict)
  BY <1>9, <1>12 DEF Extent
<1>14. QED
  BY <1>5, <1>8, <1>11, <1>13 DEF h, w, all, given

LEMMA DictKeeps ==
  ASSUME IInv, NEW n \in Sizes, NEW r \in Rooms, NEW stable \in BOOLEAN, NEW dict \in Dictionaries,
         NEW junk \in Leftovers, DecompressUsingDict(n, r, stable, dict, junk)
  PROVE  IInv'
<1> DEFINE e == [dctx.d EXCEPT !.dict = dict.at, !.dictSize = dict.size]
           mem == Used(dctx.m, {}, junk)
           h == LastOf(Read(mem, dict.at, dict.size), KB64)
           w == LastOf([j \in 1 .. dict.size |-> dict.at + j - 1], KB64)
           k == {w[j] : j \in DOMAIN w}
<1>1. /\ ~calling /\ calling' = TRUE /\ taken' = taken
      /\ dctx.d.dStage \in Early /\ Extent(r) \cap Extent(dict) = {}
      /\ args' = [src |-> Piece(n), dst |-> r.at, end |-> r.at + r.size, stableDst |-> stable]
      /\ dctx' = [dctx EXCEPT !.d = e, !.m = mem, !.o = r.at, !.go = "go"]
  BY DEF DecompressUsingDict, Started
<1>2. /\ Going(dctx, NoCall, hist, where, kept)
      /\ Sound(dctx) /\ WellFormed(dctx.d) /\ DOMAIN dctx.m = Addresses /\ dctx.i = 0 /\ taken \in Nat
  BY <1>1, AtRest
<1> HIDE DEF e
<1>3. /\ IsContext(e) /\ e.dict = dict.at /\ e.dictSize = dict.size /\ e.info = dctx.d.info
      /\ e.dStage = dctx.d.dStage /\ e.maxBlockSize = dctx.d.maxBlockSize
      /\ e.maxBufferSize = dctx.d.maxBufferSize /\ e.stored = dctx.d.stored
      /\ e.target = dctx.d.target /\ e.room = dctx.d.room
  BY <1>2 DEF e, WellFormed, IsContext, ContextFields
<1>4. /\ Sound(dctx') /\ dctx'.d = e /\ dctx'.m = mem /\ dctx'.i = 0 /\ dctx'.o = r.at
      /\ dctx'.go = "go"
  <2> HIDE DEF mem
  <2>1. QED
    BY <1>1, <1>2, <1>3 DEF Sound, IsCall, CallFields
<1>5. args'.src = Piece(n) /\ args'.dst = r.at /\ args'.end = r.at + r.size
  BY <1>1
<1>6. hist' = h /\ where' = w /\ kept' = k
  BY <1>4 DEF DecompressUsingDict
<1>7. DOMAIN mem = Addresses
  BY DEF Used
<1>8. /\ dict.at \in Nat /\ dict.size \in Nat /\ (dict.at = NULL => dict.size = 0)
      /\ dict.at # TMPOUT
      /\ \A q \in dict.at .. dict.at + dict.size - 1 : q \in Addresses
      /\ \A q \in dict.at .. dict.at + dict.size : q \notin TmpOut
  BY ExtentIs
<1>9. WellFormed(e)
  BY <1>2, <1>3, <1>8 DEF WellFormed, Allocated
<1>10. /\ Remembered(h, w) /\ Len(h) = Least(dict.size, KB64)
       /\ \A j \in 1 .. Len(h) : /\ Back(w, j) = dict.at + dict.size - j
                                 /\ mem[dict.at + dict.size - j] = Back(h, j)
       /\ \A i \in DOMAIN w : w[i] \in Extent(dict)
  BY OfDictionary
<1> HIDE DEF h, w, mem
<1>11. /\ \A q \in k : q \in Extent(dict)
       /\ Keepable(k) /\ Extent(r) \cap k = {}
  <2>1. \A q \in k : q \in Extent(dict)
    BY <1>10
  <2>2. \A q \in Extent(dict) : q \in dict.at .. dict.at + dict.size - 1 /\ q \in dict.at .. dict.at + dict.size
    BY <1>8 DEF Extent
  <2>3. Keepable(k)
    BY <1>8, <2>1, <2>2 DEF Keepable
  <2> HIDE DEF k
  <2>4. QED
    BY <1>1, <2>1, <2>3
<1>12. Always(dctx', args', kept')
  <2> HIDE DEF k
  <2>1. QED
    BY <1>2, <1>4, <1>5, <1>6, <1>7, <1>9, <1>11, IntoCall
<1>13. Outside(mem, e, r.at, args', h, w, k)
  <2>1. Len(w) = Len(h) /\ Len(w) \in Nat /\ DOMAIN w = 1 .. Len(w)
    BY <1>10 DEF Remembered, IsSeq
  <2>2. \A j \in 1 .. Len(w) : Back(w, j) \in k
    <3>1. \A i \in DOMAIN w : w[i] \in k
      OBVIOUS
    <3> HIDE DEF k
    <3>2. \A j \in 1 .. Len(w) : Len(w) + 1 - j \in DOMAIN w
      BY ONLY <2>1
    <3>3. QED
      BY <3>1, <3>2 DEF Back
  <2> HIDE DEF k
  <2>3. Found(mem, e, h)
    <3>1. Ends(mem, dict.at + dict.size, h, Len(h))
      <4>1. ASSUME NEW j \in 1 .. Len(h)
            PROVE  mem[(dict.at + dict.size) - j] = Back(h, j)
        <5>1. (dict.at + dict.size) - j = dict.at + dict.size - j
          BY <1>8
        <5>2. QED
          BY <1>10, <5>1
      <4>2. QED
        BY ONLY <4>1 DEF Ends
    <3>2. QED
      BY <1>3, <1>10, <3>1 DEF Found
  <2>4. Given(e, r.at, args', w, k)
    BY <1>3, <1>10, <2>1, <2>2 DEF Given
  <2>5. QED
    BY <2>3, <2>4 DEF Outside
<1> HIDE DEF k
<1>14. History(dctx', args', hist', where', kept')
  BY <1>1, <1>3, <1>4, <1>5, <1>6, <1>8, <1>10, <1>13 DEF History, Early, Data, InBlocks
<1>15. Storing(dctx'.d)
  <2>1. Storing(dctx.d)
    BY <1>2 DEF Going
  <2>2. Window(e) = Window(dctx.d) /\ Crc(e) = Crc(dctx.d)
    BY <1>3 DEF Window, Crc
  <2>3. Storing(e)
    BY ONLY <1>3, <2>1, <2>2 DEF Storing
  <2>4. QED
    BY <1>4, <2>3
<1>16. QED
  BY <1>1, <1>2, <1>4, <1>12, <1>14, <1>15 DEF IInv, Going

LEMMA InfoKeeps ==
  ASSUME IInv, NEW n \in Sizes, GetFrameInfo(n)
  PROVE  IInv'
<1> DEFINE b == SubSeq(Piece(n), 1, LZ4F_headerSize(Piece(n)))
           hd == LZ4F_decodeHeader(dctx.d, b, FALSE)
<1>1. /\ ~calling /\ calling' = calling /\ args' = args /\ hist' = hist /\ where' = where
      /\ kept' = kept /\ dctx.d.dStage = "getFrameHeader" /\ taken' = taken + hd.n
      /\ dctx' = [dctx EXCEPT !.d = hd.d]
      /\ LZ4F_headerSize(Piece(n)) <= Len(Piece(n))
  BY DEF GetFrameInfo
<1>2. /\ Always(dctx, NoCall, kept) /\ Going(dctx, NoCall, hist, where, kept)
      /\ Sound(dctx) /\ WellFormed(dctx.d) /\ DOMAIN dctx.m = Addresses /\ dctx.i = 0
      /\ dctx.o = NoCall.dst /\ taken \in Nat /\ dctx.go = "stop"
  BY <1>1, AtRest
<1>3. b \in Seq(Wire) /\ Len(b) \in Nat
  <2> DEFINE size == LZ4F_headerSize(Piece(n))
  <2>1. Piece(n) \in Seq(Wire) /\ Len(Piece(n)) \in Nat
    BY <1>2, PieceIs
  <2>2. size \in Int /\ 1 \in Int
    <3>1. size \in {0, 8, 7, 11, 15, 19}
      BY HeaderSizes DEF LZ4F_headerSize
    <3> HIDE DEF size
    <3>2. QED
      BY <3>1
  <2>3. size <= Len(Piece(n))
    BY <1>1
  <2> HIDE DEF size
  <2>4. \A j \in 1 .. size : Piece(n)[j] \in Wire
    <3>1. \A j \in 1 .. size : j \in 1 .. Len(Piece(n))
      BY <2>1, <2>2, <2>3
    <3>2. QED
      BY <2>1, <3>1, ElementOfSeq
  <2>5. SubSeq(Piece(n), 1, size) \in Seq(Wire)
    BY <2>2, <2>4, SubSeqProperties
  <2>6. QED
    BY <2>5, LenProperties DEF size
<1> HIDE DEF b
<1>4. HeaderRead(dctx.d, hd, b)
  BY <1>2, <1>3, DecodesHeader
<1> HIDE DEF hd
<1>5. /\ Sound(dctx') /\ dctx'.d = hd.d /\ dctx'.m = dctx.m /\ dctx'.i = dctx.i /\ dctx'.o = dctx.o
      /\ dctx'.go = dctx.go
  BY <1>1, <1>2, <1>4 DEF Sound, IsCall, CallFields, HeaderRead
<1>6. WellFormed(hd.d)
  BY <1>2, <1>4 DEF WellFormed, Allocated, HeaderRead
<1>7. Always(dctx', args', kept')
  <2>1. args' = NoCall
    BY <1>1 DEF IInv
  <2>2. Within(dctx', NoCall, kept)
    BY <1>2, <1>5 DEF Always, Within
  <2>3. QED
    BY <1>1, <1>2, <1>5, <1>6, <2>1, <2>2 DEF Always, Sound
<1>8. Storing(hd.d) /\ hd.d.dStage \in Early \cup Skips
  <2>1. CASE hd.err = "none"
    BY <1>4, <2>1 DEF HeaderRead
  <2>2. CASE hd.err # "none"
    <3>1. hd.d.dStage = "getFrameHeader"
      BY <1>1, <1>4, <2>2 DEF HeaderRead
    <3>2. QED
      BY <3>1 DEF Storing, Early, Data, InBlocks, AtSuffix, Skips
  <2>3. QED
    BY <2>1, <2>2
<1>9. History(dctx', args', hist', where', kept')
  <2>1. /\ Remembered(hist, where) /\ dctx.d.dict # TMPOUT
        /\ Outside(dctx.m, dctx.d, dctx.o, NoCall, hist, where, kept)
    BY <1>1, <1>2 DEF Going, History, Early
  <2>2. hd.d.dict = dctx.d.dict /\ hd.d.dictSize = dctx.d.dictSize
    BY <1>4 DEF HeaderRead
  <2>3. Outside(dctx.m, hd.d, dctx.o, NoCall, hist, where, kept)
    BY <2>1, <2>2 DEF Outside, Found, Given
  <2>4. args' = NoCall
    BY <1>1 DEF IInv
  <2>5. QED
    BY <1>1, <1>2, <1>5, <1>8, <2>1, <2>2, <2>3, <2>4
    DEF History, Early, Data, InBlocks, Skips
<1>10. taken' \in Nat
  <2>1. hd.n \in Nat
    BY <1>3, <1>4 DEF HeaderRead
  <2>2. QED
    BY <1>1, <1>2, <2>1
<1>11. args' = NoCall
  BY <1>1 DEF IInv
<1>12. QED
  BY <1>1, <1>2, <1>5, <1>7, <1>8, <1>9, <1>10, <1>11 DEF IInv, Going

\* Nothing is going on.
LEMMA NoCallIs ==
  ASSUME NEW x, x.i = 0, x.o = 0
  PROVE  Within(x, NoCall, {})
<1>1. NoCall.src = <<>> /\ NoCall.dst = 0 /\ NoCall.end = 0
  BY DEF NoCall, NULL
<1>2. 0 \notin TmpOut
  BY ReadingAssumption DEF TmpOut
<1>3. 0 .. 0 - 1 = {} /\ 0 .. 0 = {0}
  OBVIOUS
<1>4. QED
  BY <1>1, <1>2, <1>3, EmptyWire DEF Within, NULL

LEMMA NothingYet ==
  ASSUME NEW x, x.d.dStage = "getFrameHeader", x.d.dict = NULL, x.d.dictSize = 0, x.o = 0
  PROVE  Going(x, NoCall, <<>>, <<>>, {})
<1>1. KB64 \in Nat /\ TMPOUT # NULL
  BY ReadingAssumption DEF NULL
<1>2. IsSeq(<<>>) /\ Len(<<>>) = 0
  BY EmptySeq, OfSeq
<1>3. Remembered(<<>>, <<>>)
  BY <1>1, <1>2 DEF Remembered
<1>4. Outside(x.m, x.d, x.o, NoCall, <<>>, <<>>, {})
  BY <1>1, <1>2 DEF Outside, Found, Given, Ends, Least
<1>5. History(x, NoCall, <<>>, <<>>, {})
  BY <1>1, <1>3, <1>4 DEF History, Early, Data, InBlocks, NoCall, NULL
<1>6. Storing(x.d)
  BY DEF Storing, Early, Data, InBlocks, AtSuffix, Skips
<1>7. QED
  BY <1>5, <1>6 DEF Going

LEMMA ResetKeeps ==
  ASSUME IInv, NEW junk \in Leftovers, ResetContext(junk)
  PROVE  IInv'
<1> DEFINE e == LZ4F_resetDecompressionContext(dctx.d)
           mem == Used(dctx.m, {}, junk)
<1>1. /\ dctx' = [dctx EXCEPT !.d = e, !.m = mem, !.i = 0, !.o = NULL, !.hint = 1, !.go = "stop"]
      /\ args' = NoCall /\ calling' = FALSE /\ hist' = <<>> /\ where' = <<>> /\ kept' = {}
      /\ taken' \in Starts
  BY DEF ResetContext
<1>2. Sound(dctx) /\ WellFormed(dctx.d)
  BY SoundAlways DEF IInv, Always
<1>3. /\ IsContext(e) /\ e.dict = NULL /\ e.dictSize = 0 /\ e.info = dctx.d.info
      /\ e.dStage = "getFrameHeader" /\ e.maxBufferSize = dctx.d.maxBufferSize
      /\ e.stored = dctx.d.stored /\ e.target = dctx.d.target /\ e.room = dctx.d.room
  BY <1>2 DEF WellFormed, IsContext, ContextFields, LZ4F_resetDecompressionContext
<1> HIDE DEF e
<1>4. DOMAIN mem = Addresses
  BY DEF Used
<1> HIDE DEF mem
<1>5. /\ Sound(dctx') /\ dctx'.d = e /\ dctx'.m = mem /\ dctx'.i = 0 /\ dctx'.o = 0
      /\ dctx'.go = "stop"
  BY <1>1, <1>2, <1>3 DEF Sound, IsCall, CallFields, NULL
<1>6. WellFormed(e)
  BY <1>2, <1>3 DEF WellFormed, Allocated, NULL
<1>7. Always(dctx', NoCall, {})
  BY <1>4, <1>5, <1>6, NoCallIs DEF Always, Sound
<1>8. Going(dctx', NoCall, <<>>, <<>>, {})
  BY <1>3, <1>5, NothingYet
<1>9. taken' \in Nat
  <2>1. Starts \subseteq 0 .. Len(Stream) /\ Len(Stream) \in Nat
    BY ReadingAssumption, LenProperties
  <2>2. QED
    BY <1>1, <2>1
<1>10. QED
  BY <1>1, <1>5, <1>7, <1>8, <1>9 DEF IInv

LEMMA InitHolds == ReadingInit => IInv
<1> SUFFICES ASSUME ReadingInit PROVE IInv
  OBVIOUS
<1> DEFINE e == LZ4F_createDecompressionContext
<1>1. PICK mem \in Leftovers :
        dctx = [d |-> e, m |-> mem, i |-> 0, o |-> NULL, hint |-> 1, go |-> "stop", inside |-> TRUE]
  BY DEF ReadingInit
<1>2. /\ taken = 0 /\ args = NoCall /\ calling = FALSE /\ hist = <<>> /\ where = <<>> /\ kept = {}
  BY DEF ReadingInit
<1>3. /\ IsContext(e) /\ e.dict = NULL /\ e.dictSize = 0 /\ e.info = NoInfo
      /\ e.dStage = "getFrameHeader" /\ e.maxBufferSize = 0 /\ e.room = 0
      /\ e.stored = <<>> /\ e.target = 0
  BY DEF IsContext, ContextFields, LZ4F_createDecompressionContext
<1> HIDE DEF e
<1>4. DOMAIN mem = Addresses
  BY ReadingAssumption
<1>5. /\ Sound(dctx) /\ dctx.d = e /\ dctx.m = mem /\ dctx.i = 0 /\ dctx.o = 0
      /\ dctx.go = "stop"
  BY <1>1, <1>3 DEF Sound, IsCall, CallFields, NULL
<1>6. WellFormed(e)
  BY <1>3, EmptyWire, NoInfoIs DEF WellFormed, Allocated, NULL
<1>7. Always(dctx, NoCall, {})
  BY <1>4, <1>5, <1>6, NoCallIs DEF Always, Sound
<1>8. Going(dctx, NoCall, <<>>, <<>>, {})
  BY <1>3, <1>5, NothingYet
<1>9. QED
  BY <1>2, <1>5, <1>7, <1>8 DEF IInv

LEMMA NextKeeps == IInv /\ [ReadingNext]_reading => IInv'
<1> SUFFICES ASSUME IInv, [ReadingNext]_reading PROVE IInv'
  OBVIOUS
<1>1. CASE \E n \in Sizes, r \in Rooms, stable \in BOOLEAN : DecompressPlain(n, r, stable)
  BY <1>1, PlainKeeps
<1>2. CASE \E n \in Sizes, r \in Rooms, stable \in BOOLEAN, dict \in Dictionaries, junk \in Leftovers :
             DecompressUsingDict(n, r, stable, dict, junk)
  BY <1>2, DictKeeps
<1>3. CASE Turn
  BY <1>3, TurnKeeps
<1>4. CASE \E junk \in Leftovers : Return(junk)
  BY <1>4, ReturnKeeps
<1>5. CASE \E n \in Sizes : GetFrameInfo(n)
  BY <1>5, InfoKeeps
<1>6. CASE \E junk \in Leftovers : ResetContext(junk)
  BY <1>6, ResetKeeps
<1>7. CASE UNCHANGED reading
  BY <1>7 DEF reading, IInv
<1>8. QED
  BY <1>1, <1>2, <1>3, <1>4, <1>5, <1>6, <1>7 DEF ReadingNext

-----------------------------------------------------------------------------
(* The theorem.                                                            *)

\* Whatever stream it is given, intact or not, in pieces of any size, and whatever
\* the program does with its memory between the calls, LZ4F_decompress takes no
\* more than it was given, puts out no more than there is room for, writes to
\* tmpOutBuffer, tmpIn and header only within them, and the decoder of each block
\* sees the last 64 KB of what the blocks of its frame may refer to.
THEOREM ReadsItsFrames == ReadingSpec => []ReadsInOrder
<1>1. ReadingInit => IInv
  BY InitHolds
<1>2. IInv /\ [ReadingNext]_reading => IInv'
  BY NextKeeps
<1>3. IInv => ReadsInOrder
  BY InvIsEnough
<1>4. QED
  BY <1>1, <1>2, <1>3, PTL DEF ReadingSpec
=============================================================================
