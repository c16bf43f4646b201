------------------------------- MODULE Lz4Base -------------------------------
(***************************************************************************)
(* What the block encoders and the block decoder of lz4.c and lz4hc.c      *)
(* share: the sizes of the format, reads and hashes, common lengths, the   *)
(* bytes of a length, and the copies that write more than they are asked   *)
(* to.  Memory is a function from addresses to bytes.  The format's limits *)
(* on the parsing are the real ones; the number a byte can hold, and what  *)
(* follows from it (the mask of a token's half, the window) are constants. *)
(***************************************************************************)
EXTENDS Integers, Sequences, FiniteSets, FiniteSetsExt

CONSTANTS BYTE,       \* the largest byte, 255
          ML_MASK,    \* the largest half of a token, 15
          HALF,       \* values of one byte of an offset, 256
          HASHSIZE,   \* entries of a hash table, 2^LZ4_HASHLOG
          REG         \* sizeof(reg_t), 4 or 8

ASSUME SizesAssumption ==
  /\ ML_MASK \in 1 .. 15 /\ BYTE \in Nat /\ BYTE + 1 = (ML_MASK + 1) * (ML_MASK + 1)
  /\ HALF \in 1 .. BYTE + 1
  /\ REG \in {4, 8}

NULL == 0             \* no byte lies there
KB64 == HALF * HALF   \* the window; an offset of two bytes is below it
MINMATCH == 4
WILDCOPYLENGTH == 8
LASTLITERALS == 5
MFLIMIT == 12
LZ4_minLength == MFLIMIT + 1
MATCH_SAFEGUARD_DISTANCE == 2 * WILDCOPYLENGTH - MINMATCH
FASTLOOP_SAFE_DISTANCE == 64
LZ4_DISTANCE_MAX == KB64 - 1
RUN_MASK == ML_MASK

\* A block of isize bytes never needs more; what is larger, or negative as an int,
\* is not compressed.
LZ4_MAX_INPUT_SIZE == 2113929216   \* 0x7E000000
Supported(isize) == isize \in 0 .. LZ4_MAX_INPUT_SIZE
LZ4_compressBound(isize) == IF Supported(isize) THEN isize + (isize \div BYTE) + 16 ELSE 0

\* The n bytes at p, as one value.
LZ4_read(m, p, n) == [k \in 1 .. n |-> m[p + k - 1]]

SameWord(m, p, q) == \A k \in 0 .. 3 : m[p + k] = m[q + k]

\* The hash looks at four bytes, at five of a large register unless the table
\* is the one of 16-bit entries, which is twice as long.
HashOf(m, p, n, size) ==
  FoldSet(LAMBDA k, sum : sum + (k + 1) * m[p + k], 0, 0 .. n - 1) % size

LZ4_hashPosition(m, p, tableType) ==
  IF tableType = "byU16" THEN HashOf(m, p, 4, 2 * HASHSIZE)
  ELSE HashOf(m, p, IF REG = 8 THEN 5 ELSE 4, HASHSIZE)

\* How many bytes at the start of two registers are equal, in memory order on
\* either kind of processor.
LZ4_NbCommonBytes(m, p, q) == Min({k \in 0 .. REG - 1 : m[p + k] # m[q + k]})

\* The length of what p and q have in common, up to limit: registers first,
\* then four, two and one byte.
CountRegisters(m, p, q, limit) ==
  LET whole == Max({0, (limit - p) \div REG})
      differ == {k \in 0 .. REG * whole - 1 : m[p + k] # m[q + k]}
      at == REG * (Min(differ) \div REG)
  IN  IF differ = {} THEN [n |-> REG * whole, differ |-> FALSE]
      ELSE [n |-> at + LZ4_NbCommonBytes(m, p + at, q + at), differ |-> TRUE]

\* One more group of n bytes after the k that agree.
More(m, p, q, limit, n, k) ==
  IF p + k < limit - (n - 1) /\ \A j \in k .. k + n - 1 : m[p + j] = m[q + j] THEN k + n ELSE k

CountRest(m, p, q, limit, r) ==
  IF r.differ THEN r.n
  ELSE More(m, p, q, limit, 1,
            More(m, p, q, limit, 2, IF REG = 8 THEN More(m, p, q, limit, 4, r.n) ELSE r.n))

LZ4_count(m, pIn, pMatch, pInLimit) ==
  CountRest(m, pIn, pMatch, pInLimit, CountRegisters(m, pIn, pMatch, pInLimit))

\* The bytes that follow a token whose half is full.
LengthBytes(rest) == [k \in 1 .. rest \div BYTE |-> BYTE] \o <<rest % BYTE>>

LZ4_writeLE16(value) == <<value % HALF, value \div HALF>>
LZ4_readLE16(b, i) == (b[i + 1] % HALF) + HALF * (b[i + 2] % HALF)

-----------------------------------------------------------------------------
(* Copies in memory.                                                       *)

\* memcpy of regions that do not overlap, memmove of ones that may.
Copy(m, d, s, n) == [a \in DOMAIN m |-> IF a \in d .. d + n - 1 THEN m[a - d + s] ELSE m[a]]

\* Where a copy of groups of w bytes from d stops writing: at least one group.
WildEnd(d, e, w) == IF e <= d THEN d + w ELSE d + w * ((e - d + w - 1) \div w)

\* Groups of w bytes from s to d until e is reached: the last may go up to w - 1
\* bytes beyond e.  What one group wrote the next reads: a source less than the
\* whole length behind the destination, and no caller's is less than one group
\* behind it, is a pattern that repeats.
WildCopy(m, d, s, e, w) ==
  [a \in DOMAIN m |-> IF a \in d .. WildEnd(d, e, w) - 1
                      THEN m[s + (IF s < d THEN (a - d) % (d - s) ELSE a - d)] ELSE m[a]]

LZ4_wildCopy8(m, d, s, e) == WildCopy(m, d, s, e, 8)

\* Two copies of 16 bytes in each turn, so 16 bytes behind are far enough.
LZ4_wildCopy32(m, d, s, e) == WildCopy(m, d, s, e, 32)

inc32table == <<0, 1, 2, 1, 0, 4, 4, 4>>
dec64table == <<0, 0, 0, -1, -4, 1, 2, 3>>

\* The first eight bytes of a match less than eight bytes back: four one by
\* one (a match at itself is of zeros), four from where the pattern repeats,
\* and the source moved on so that groups of eight can follow.
CopyNear(m, d, s, offset) ==
  LET m0 == [a \in DOMAIN m |-> IF a \in d .. d + 3 THEN 0 ELSE m[a]]
      m1 == Copy(m0, d, s, 1)
      m2 == Copy(m1, d + 1, s + 1, 1)
      m3 == Copy(m2, d + 2, s + 2, 1)
      m4 == Copy(m3, d + 3, s + 3, 1)
      s1 == s + inc32table[offset + 1]
  IN  [m |-> Copy(m4, d + 4, s1, 4), s |-> s1 - dec64table[offset + 1]]

LZ4_memcpy_using_offset_base(m, d, s, e, offset) ==
  IF offset < 8
  THEN LET near == CopyNear(m, d, s, offset) IN LZ4_wildCopy8(near.m, d + 8, near.s, e)
  ELSE LZ4_wildCopy8(Copy(m, d, s, 8), d + 8, s + 8, e)

\* A pattern of one, two or four bytes is written eight bytes at a time.
LZ4_memcpy_using_offset(m, d, s, e, offset) ==
  IF offset \in {1, 2, 4}
  THEN [a \in DOMAIN m |-> IF a \in d .. WildEnd(d, e, 8) - 1
                           THEN m[s + ((a - d) % offset)] ELSE m[a]]
  ELSE LZ4_memcpy_using_offset_base(m, d, s, e, offset)
=============================================================================
