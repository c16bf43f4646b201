--------------------------- MODULE Lz4FrameFormat ---------------------------
(***************************************************************************)
(* What the writer and the reader of lz4frame.c share: the numbers of a    *)
(* frame, its checksums, and the blocks inside it.                         *)
(* A byte of a frame is a record [v, of, after].  v is its value.  A byte  *)
(* of a checksum says in after which bytes it was taken of (XxHash has what*)
(* they are mixed to); a byte of a compressed block says of which text,    *)
(* and after which history the block was made: it may refer to all of it,  *)
(* so only the same history decodes it.  Sizes of fields are the real      *)
(* ones; the window, from which the sizes of blocks follow, is KB64.       *)
(***************************************************************************)
EXTENDS Integers, Sequences, SequencesExt, FiniteSetsExt, TLC

CONSTANTS KB64,        \* the window, 64 KB
          Squeezed(_)  \* the size a text compresses to; its own size or more if it does not

NULL == 0   \* no byte lies there

Byte(n) == [v |-> n, of |-> <<>>, after |-> <<>>]
Bytes(s) == [k \in DOMAIN s |-> Byte(s[k])]

\* The n values from address p on.
Read(m, p, n) == [k \in 1 .. n |-> m[p + k - 1]]
Write(m, p, s) == [a \in DOMAIN m |-> IF a \in p .. p + Len(s) - 1 THEN s[a - p + 1] ELSE m[a]]
LastOf(s, n) == IF Len(s) <= n THEN s ELSE SubSeq(s, Len(s) - n + 1, Len(s))

LZ4F_writeLE32(n) == [k \in 1 .. 4 |-> Byte((n \div 256^(k - 1)) % 256)]
LZ4F_readLE32(b) == b[1].v + 256 * b[2].v + 65536 * b[3].v + 16777216 * (b[4].v % 128)

\* Sizes of contents are below 2^31 here.
LZ4F_writeLE64(n) == LZ4F_writeLE32(n) \o LZ4F_writeLE32(0)
LZ4F_readLE64(b) == LZ4F_readLE32(SubSeq(b, 1, 4))

\* The highest bit of a block header, LZ4F_BLOCKUNCOMPRESSED_FLAG.
Flagged(b) == [k \in DOMAIN b |-> IF k = 4 THEN [b[k] EXCEPT !.v = @ + 128] ELSE b[k]]
IsFlagged(b) == b[4].v >= 128

XXH32(bytes) == [k \in 1 .. 4 |-> [v |-> k, of |-> <<>>, after |-> bytes]]
LZ4F_headerChecksum(bytes) == [v |-> 0, of |-> <<>>, after |-> bytes]
IsSum(b, sum) == \A k \in DOMAIN sum : b[k].of = <<>> /\ b[k].v = sum[k].v /\ b[k].after = sum[k].after

LZ4F_MAGICNUMBER == 407708164             \* 0x184D2204
LZ4F_MAGIC_SKIPPABLE_START == 407710288   \* 0x184D2A50
minFHSize == 7
maxFHSize == 19
BHSize == 4
BFSize == 4

\* 64 KB, 256 KB, 1 MB and 4 MB; 0 stands for an identifier that is none.
LZ4F_getBlockSize(blockSizeID) ==
  CASE blockSizeID \in {0, 4} -> KB64
    [] blockSizeID = 5        -> 4 * KB64
    [] blockSizeID = 6        -> 16 * KB64
    [] blockSizeID = 7        -> 64 * KB64
    [] OTHER                  -> 0

Flag(b) == IF b THEN 1 ELSE 0
Bit(n, k) == (n \div 2^k) % 2 = 1

\* A block of n bytes made of text after a history; decoding it needs that
\* history to be the end of the reader's.
Packed(text, hist, n) == [k \in 1 .. n |-> [v |-> k, of |-> text, after |-> hist]]
IsPacked(b) ==
  /\ b # <<>> /\ b[1].of # <<>> /\ Len(b) = Squeezed(b[1].of)
  /\ \A k \in DOMAIN b : b[k].of = b[1].of /\ b[k].after = b[1].after

\* LZ4_decompress_safe_usingDict.  Another history than the block was made
\* after gives other bytes, and so may a block that was changed, or it fails:
\* a change by 2 stands for the first, any other for the second.
Decodes(b) == IsPacked(b) /\ \A k \in DOMAIN b : b[k].v \in {k, k + 2}
Unpacked(b, hist) ==
  IF IsSuffix(b[1].after, hist) /\ \A k \in DOMAIN b : b[k].v = k
  THEN b[1].of ELSE [k \in DOMAIN b[1].of |-> 0]
=============================================================================
