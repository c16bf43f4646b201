--------------------------- MODULE Lz4FrameReader ---------------------------
(***************************************************************************)
(* The decompressing half of lz4frame.c: LZ4F_decompress, a state machine  *)
(* that takes its input and gives its output in pieces of any size.  A     *)
(* context (LZ4F_dctx) is a record                                         *)
(*   info          frameInfo, with skippable for frameType                 *)
(*   dStage, maxBlockSize, maxBufferSize, dict, dictSize, tmpOut,          *)
(*   tmpOutSize, tmpOutStart    as in the code                             *)
(*   remaining     frameRemainingSize                                      *)
(*   stored        what tmpIn or header holds, of length tmpInSize         *)
(*   target, room  tmpInTarget, and the size tmpIn was allocated with      *)
(*   xxh, block    what went into xxh and blockChecksum                    *)
(* A call has arguments a (src, dst, end, stableDst) and gets to x: the    *)
(* context, memory m, bytes of src used (i), dstPtr (o), the hint, and how *)
(* it goes on: "go", "stop" or an error.                                   *)
(***************************************************************************)
EXTENDS Lz4FrameFormat

CONSTANTS TMPOUT   \* where tmpOutBuffer is allocated

NoInfo == [skippable |-> FALSE, linked |-> TRUE, blockSum |-> FALSE, contentSum |-> FALSE,
           contentSize |-> 0, dictID |-> 0, sizeID |-> 0]

LZ4F_createDecompressionContext ==
  [info |-> NoInfo, dStage |-> "getFrameHeader", remaining |-> 0, maxBlockSize |-> 0,
   maxBufferSize |-> 0, stored |-> <<>>, target |-> 0, room |-> 0, dict |-> NULL, dictSize |-> 0,
   tmpOut |-> NULL, tmpOutSize |-> 0, tmpOutStart |-> 0, xxh |-> <<>>, block |-> <<>>]

LZ4F_resetDecompressionContext(d) ==
  [d EXCEPT !.dStage = "getFrameHeader", !.dict = NULL, !.dictSize = 0]

-----------------------------------------------------------------------------
(* The header of a frame.                                                  *)

HeaderSize(flg) == minFHSize + 8 * Flag(Bit(flg, 3)) + 4 * Flag(Bit(flg, 0))
IsSkippable(b) == (LZ4F_readLE32(b) \div 16) * 16 = LZ4F_MAGIC_SKIPPABLE_START

HeaderError(b) ==
  LET flg == b[5].v
      bd == b[6].v
      size == HeaderSize(flg)
  IN  CASE Bit(flg, 1)            -> "reservedFlag_set"
        [] flg \div 64 # 1        -> "headerVersion_wrong"
        [] Len(b) < size          -> "none"
        [] Bit(bd, 7)             -> "reservedFlag_set"
        [] (bd \div 16) % 8 < 4   -> "maxBlockSize_invalid"
        [] bd % 16 # 0            -> "reservedFlag_set"
        [] ~IsSum(<<b[size]>>, <<LZ4F_headerChecksum(SubSeq(b, 5, size - 1))>>) -> "headerChecksum_invalid"
        [] OTHER                  -> "none"

Fields(d, b) ==
  LET flg == b[5].v
      size == HeaderSize(flg)
      id == (b[6].v \div 16) % 8
      content == IF Bit(flg, 3) THEN LZ4F_readLE64(SubSeq(b, 7, 14)) ELSE 0
  IN  [d EXCEPT
         !.info = [skippable |-> FALSE, linked |-> ~Bit(flg, 5), blockSum |-> Bit(flg, 4),
                   contentSum |-> Bit(flg, 2), contentSize |-> content, sizeID |-> id,
                   dictID |-> IF Bit(flg, 0) THEN LZ4F_readLE32(SubSeq(b, size - 4, size - 1)) ELSE 0],
         !.maxBlockSize = LZ4F_getBlockSize(id),
         !.remaining = IF Bit(flg, 3) THEN content ELSE @,
         !.dStage = "init"]

\* The context and how much of b was read.  A header that is longer than b
\* is kept until the rest is there; inHeader says that it is kept already.
LZ4F_decodeHeader(d0, b, inHeader) ==
  LET d == [d0 EXCEPT !.info = NoInfo]
      Ok(e, n) == [d |-> e, n |-> n, err |-> "none"]
      Error(e) == [d |-> d, n |-> 0, err |-> e]
  IN  IF Len(b) < minFHSize THEN [Error("frameHeader_incomplete") EXCEPT !.d = d0]
      ELSE IF IsSkippable(b) /\ inHeader
      THEN Ok([d EXCEPT !.info.skippable = TRUE, !.stored = b, !.target = 8,
                        !.dStage = "storeSFrameSize"], Len(b))
      ELSE IF IsSkippable(b)
      THEN Ok([d EXCEPT !.info.skippable = TRUE, !.dStage = "getSFrameSize"], 4)
      ELSE IF LZ4F_readLE32(b) # LZ4F_MAGICNUMBER THEN Error("frameType_unknown")
      ELSE IF HeaderError(b) # "none" THEN Error(HeaderError(b))
      ELSE IF Len(b) < HeaderSize(b[5].v)
      THEN Ok([d EXCEPT !.stored = b, !.target = HeaderSize(b[5].v),
                        !.dStage = "storeFrameHeader"], Len(b))
      ELSE Ok(Fields(d, b), HeaderSize(b[5].v))

LZ4F_headerSize(b) ==
  IF Len(b) < 5 \/ (~IsSkippable(b) /\ LZ4F_readLE32(b) # LZ4F_MAGICNUMBER) THEN 0
  ELSE IF IsSkippable(b) THEN 8 ELSE HeaderSize(b[5].v)

-----------------------------------------------------------------------------
(* A call and its input.                                                   *)

Stop(x, hint) == [x EXCEPT !.go = "stop", !.hint = hint]
Err(x, code) == [x EXCEPT !.go = code]
To(x, stage) == [x EXCEPT !.d.dStage = stage]
Avail(a, x) == Len(a.src) - x.i
Ahead(a, x, n) == SubSeq(a.src, x.i + 1, x.i + n)

\* What is missing of n bytes is added to what is stored, as far as it is there.
Store(a, x, n) ==
  LET k == Min({n - Len(x.d.stored), Avail(a, x)})
  IN  [x EXCEPT !.d.stored = @ \o Ahead(a, x, k), !.i = @ + k]
Missing(x, n) == n - Len(x.d.stored)

\* Mutant of Summed: counts down the content's size in frames that have none.
SummedUnsized(x, s) == [x EXCEPT !.d.xxh = IF x.d.info.contentSum THEN @ \o s ELSE @,
                                 !.d.remaining = @ - Len(s)]

Summed(x, s) == [x EXCEPT !.d.xxh = IF x.d.info.contentSum THEN @ \o s ELSE @,
                          !.d.remaining = IF x.d.info.contentSize > 0 THEN @ - Len(s) ELSE @]

\* Writes to tmpOutBuffer.
ToTmp(x, at, s) ==
  [x EXCEPT !.m = Write(@, at, s),
            !.inside = @ /\ at >= TMPOUT /\ at + Len(s) <= TMPOUT + x.d.maxBufferSize]

Dict(x, at, n) == [x EXCEPT !.d.dict = at, !.d.dictSize = n]

-----------------------------------------------------------------------------
(* The history that linked blocks refer to.                                *)

\* The history before what is in tmpOut moves in front of it.
InFrontOfTmp(x, more) ==
  LET d == x.d
      preserve == d.tmpOut - TMPOUT
      copy == Min({preserve, Max({KB64 - d.tmpOutSize, 0})})
      oldDictEnd == d.dict + d.dictSize - d.tmpOutStart
  IN  Dict([ToTmp(x, TMPOUT + preserve - copy, Read(x.m, oldDictEnd - copy, copy)) EXCEPT
              !.inside = @ /\ (copy = 0 \/ copy <= d.dictSize - d.tmpOutStart)],
           TMPOUT, preserve + d.tmpOutStart + more)

\* The last n bytes of the history move to the start of tmpOutBuffer.
KeepLast(x, n) ==
  Dict(ToTmp(x, TMPOUT, Read(x.m, x.d.dict + x.d.dictSize - n, n)), TMPOUT, n)

\* n bytes were put out at p: the history is continued where it is, found in
\* the destination, or put together in tmpOutBuffer.
LZ4F_updateDict(a, x0, p, n, withinTmp) ==
  LET x == IF x0.d.dictSize = 0 THEN Dict(x0, p, 0) ELSE x0
      d == x.d
      sofar == p - a.dst + n
      Append1(y) == Dict(ToTmp(y, TMPOUT + y.d.dictSize, Read(x.m, p, n)), TMPOUT, y.d.dictSize + n)
  IN  IF d.dict + d.dictSize = p THEN [x EXCEPT !.d.dictSize = @ + n]
      ELSE IF sofar >= KB64 THEN Dict(x, a.dst, sofar)
      ELSE IF withinTmp /\ d.dict = TMPOUT
      THEN [x EXCEPT !.d.dictSize = @ + n,
                     !.inside = @ /\ d.dict + d.dictSize = d.tmpOut + d.tmpOutStart]
      ELSE IF withinTmp THEN InFrontOfTmp(x, n)
      ELSE IF d.dict = TMPOUT /\ d.dictSize + n <= d.maxBufferSize THEN Append1(x)
      ELSE Append1(KeepLast(x, Min({KB64 - n, d.dictSize})))

-----------------------------------------------------------------------------
(* The stages.  A stage the code falls through to is entered by one more   *)
(* turn of the loop.                                                       *)

GetFrameHeader(a, x) ==
  LET Go(h) == IF h.err # "none" THEN [Err(x, h.err) EXCEPT !.d = h.d]
               ELSE [x EXCEPT !.d = h.d, !.i = @ + h.n]
  IN  IF Avail(a, x) >= maxFHSize
      THEN Go(LZ4F_decodeHeader(x.d, Ahead(a, x, Avail(a, x)), FALSE))
      ELSE IF Avail(a, x) = 0 THEN Stop([x EXCEPT !.d.stored = <<>>], minFHSize)
      ELSE [x EXCEPT !.d.stored = <<>>, !.d.target = minFHSize, !.d.dStage = "storeFrameHeader"]

\* Mutant of StoreFrameHeader: asks for the whole header again.
StoreAndAskForAll(a, x) ==
  LET Go(h) == IF h.err # "none" THEN [Err(x, h.err) EXCEPT !.d = h.d]
               ELSE [x EXCEPT !.d = h.d]
      Stored(y) == IF Missing(y, y.d.target) > 0 THEN Stop(y, y.d.target + BHSize)
                   ELSE [Go(LZ4F_decodeHeader(y.d, y.d.stored, TRUE)) EXCEPT !.i = y.i]
  IN  Stored(Store(a, x, x.d.target))

StoreFrameHeader(a, x) ==
  LET Go(h) == IF h.err # "none" THEN [Err(x, h.err) EXCEPT !.d = h.d]
               ELSE [x EXCEPT !.d = h.d]
      Stored(y) == IF Missing(y, y.d.target) > 0 THEN Stop(y, Missing(y, y.d.target) + BHSize)
                   ELSE [Go(LZ4F_decodeHeader(y.d, y.d.stored, TRUE)) EXCEPT !.i = y.i]
  IN  Stored(Store(a, x, x.d.target))

\* The buffers grow when this frame needs more than the ones before it.
InitFrame(x) ==
  LET needed == x.d.maxBlockSize + (IF x.d.info.linked THEN 2 * KB64 ELSE 0)
      grow == needed > x.d.maxBufferSize
  IN  [x EXCEPT !.d.maxBufferSize = IF grow THEN needed ELSE @,
                !.d.room = IF grow THEN x.d.maxBlockSize + BFSize ELSE @,
                !.d.xxh = IF x.d.info.contentSum THEN <<>> ELSE @,
                !.d.stored = <<>>, !.d.target = 0,
                !.d.tmpOut = TMPOUT, !.d.tmpOutSize = 0, !.d.tmpOutStart = 0,
                !.d.dStage = "getBlockHeader"]

Ready(x, b) == [x |-> x, b |-> b]
NotReady(x) == Ready(x, <<>>)

\* Mutant of Four: waits for more when all four are there.
FourAndMore(a, x, store) ==
  LET Stored(y) == IF Missing(y, 4) >= 0 THEN NotReady(Stop(y, 4)) ELSE Ready(y, y.d.stored)
  IN  IF x.d.dStage = store THEN Stored(Store(a, x, 4))
      ELSE IF Avail(a, x) >= 4 THEN Ready([x EXCEPT !.i = @ + 4], Ahead(a, x, 4))
      ELSE NotReady([x EXCEPT !.d.stored = <<>>, !.d.dStage = store])

\* Four bytes, from the input or put together there, if they have come.
Four(a, x, store) ==
  LET Stored(y) == IF Missing(y, 4) > 0 THEN NotReady(Stop(y, Missing(y, 4)))
                   ELSE Ready(y, y.d.stored)
  IN  IF x.d.dStage = store THEN Stored(Store(a, x, 4))
      ELSE IF Avail(a, x) >= 4 THEN Ready([x EXCEPT !.i = @ + 4], Ahead(a, x, 4))
      ELSE NotReady([x EXCEPT !.d.stored = <<>>, !.d.dStage = store])

BlockHeader(a, x, b) ==
  LET size == LZ4F_readLE32(b)
      crc == BFSize * Flag(x.d.info.blockSum)
      y == [x EXCEPT !.d.target = size + crc, !.d.dStage = "getCBlock"]
  IN  IF size = 0 /\ ~IsFlagged(b) THEN To(x, "getSuffix")
      ELSE IF size > x.d.maxBlockSize THEN Err(x, "maxBlockSize_invalid")
      ELSE IF IsFlagged(b)
      THEN [x EXCEPT !.d.target = size, !.d.block = <<>>, !.d.dStage = "copyDirect"]
      ELSE IF x.o = a.end \/ Avail(a, x) = 0 THEN Stop(y, BHSize + size + crc) ELSE y

\* A block that is not compressed passes through.
CopyDirect(a, x) ==
  LET d == x.d
      n == IF a.dst = NULL THEN 0 ELSE Min({d.target, Avail(a, x), a.end - x.o})
      s == Ahead(a, x, n)
      vs == [k \in 1 .. n |-> s[k].v]
      Copied(y) == IF d.info.linked /\ a.dst # NULL THEN LZ4F_updateDict(a, y, x.o, n, FALSE) ELSE y
      Moved(y) == [y EXCEPT !.i = @ + n, !.o = @ + n]
      Next(y) == IF n < d.target
                 THEN Stop([y EXCEPT !.d.target = @ - n],
                           d.target - n + BFSize * Flag(d.info.blockSum) + BHSize)
                 ELSE IF d.info.blockSum THEN [To(y, "getBlockChecksum") EXCEPT !.d.stored = <<>>]
                 ELSE To(y, "getBlockHeader")
  IN  Next(Moved(Copied(Summed([x EXCEPT !.m = Write(@, x.o, vs),
                                         !.d.block = IF d.info.blockSum THEN @ \o s ELSE @], vs))))

GetBlockChecksum(a, x) ==
  LET Check(y, b) == IF IsSum(b, XXH32(y.d.block)) THEN To(y, "getBlockHeader")
                     ELSE Err(y, "blockChecksum_invalid")
      Stored(y) == IF Missing(y, 4) > 0 THEN Stop(y, y.hint) ELSE Check(y, y.d.stored)
  IN  IF Avail(a, x) >= 4 /\ x.d.stored = <<>> THEN Check([x EXCEPT !.i = @ + 4], Ahead(a, x, 4))
      ELSE Stored(Store(a, x, 4))

\* Room for a block in tmpOut, behind the history.
PlaceTmp(x) ==
  LET Put(y) == [y EXCEPT !.d.tmpOut = TMPOUT + y.d.dictSize]
  IN  IF ~x.d.info.linked THEN x
      ELSE IF x.d.dict # TMPOUT THEN [x EXCEPT !.d.tmpOut = TMPOUT + Min({x.d.dictSize, KB64})]
      ELSE Put(IF x.d.dictSize > 2 * KB64 THEN KeepLast(x, KB64) ELSE x)

\* A decoded block and what the decoder leaves behind it go to the destination,
\* or to tmpOutBuffer and out from there.
IntoDst(a, x, text, whole) ==
  LET y == [x EXCEPT !.m = Write(@, x.o, whole)]
      Copied == IF y.d.info.linked THEN LZ4F_updateDict(a, y, x.o, Len(text), FALSE) ELSE y
  IN  [Copied EXCEPT !.o = @ + Len(text), !.d.dStage = "getBlockHeader"]
IntoTmp(x, text, whole) ==
  [ToTmp(x, x.d.tmpOut, whole) EXCEPT !.d.tmpOutSize = Len(text), !.d.tmpOutStart = 0,
                                      !.d.dStage = "flushOut"]

\* A block is decoded, with the history the context has.
Decompressed(a, x, b, direct) ==
  LET text == Unpacked(b, Read(x.m, x.d.dict, x.d.dictSize))
      whole == text \o [k \in 1 .. x.d.maxBlockSize - Len(text) |-> 0]
  IN  IF ~Decodes(b) \/ Len(b[1].of) > x.d.maxBlockSize THEN Err(x, "decompressionFailed")
      ELSE IF direct THEN IntoDst(a, Summed(x, text), text, whole)
      ELSE IntoTmp(Summed(x, text), text, whole)

\* A whole block: into the destination if any block fits there.
DecodeBlock(a, x, b0) ==
  LET crc == BFSize * Flag(x.d.info.blockSum)
      n == x.d.target - crc
      b == SubSeq(b0, 1, n)
      y == [x EXCEPT !.d.target = n]
      direct == a.end - x.o >= x.d.maxBlockSize
  IN  IF crc > 0 /\ ~IsSum(SubSeq(b0, n + 1, n + 4), XXH32(b)) THEN Err(y, "blockChecksum_invalid")
      ELSE Decompressed(a, IF direct THEN y ELSE PlaceTmp(y), b, direct)

CBlock(a, x) ==
  LET t == x.d.target
      Stored(y) == IF Missing(y, t) > 0
                   THEN Stop(y, Missing(y, t) + BFSize * Flag(y.d.info.blockSum) + BHSize)
                   ELSE DecodeBlock(a, y, y.d.stored)
      Room(y) == [y EXCEPT !.inside = @ /\ Len(y.d.stored) <= y.d.room]
  IN  IF x.d.dStage = "storeCBlock" THEN Stored(Room(Store(a, x, t)))
      ELSE IF Avail(a, x) < t THEN [x EXCEPT !.d.stored = <<>>, !.d.dStage = "storeCBlock"]
      ELSE DecodeBlock(a, [x EXCEPT !.i = @ + t], Ahead(a, x, t))

FlushOut(a, x) ==
  LET d == x.d
      n == IF a.dst = NULL THEN 0 ELSE Min({d.tmpOutSize - d.tmpOutStart, a.end - x.o})
      Copied(y) == IF d.info.linked /\ a.dst # NULL THEN LZ4F_updateDict(a, y, x.o, n, TRUE) ELSE y
      Moved(y) == [y EXCEPT !.d.tmpOutStart = @ + n, !.o = @ + n]
      Next(y) == IF y.d.tmpOutStart = y.d.tmpOutSize THEN To(y, "getBlockHeader") ELSE Stop(y, BHSize)
  IN  Next(Moved(Copied([x EXCEPT !.m = Write(@, x.o, Read(x.m, d.tmpOut + d.tmpOutStart, n))])))

EndOfFrame(x) == Stop([x EXCEPT !.d = LZ4F_resetDecompressionContext(@)], 0)

\* Mutant of Suffix: reads the checksum and does not compare it.
SuffixUnchecked(a, x) ==
  LET Skip(f) == IF f.b = <<>> THEN f.x ELSE EndOfFrame(f.x)
  IN  IF x.d.dStage = "getSuffix" /\ ~x.d.info.contentSum THEN EndOfFrame(x)
      ELSE Skip(Four(a, x, "storeSuffix"))

\* Mutant of Suffix: does not reset the context behind a checksum.
SuffixEndsOnly(a, x) ==
  LET Check(f) == IF f.b = <<>> THEN f.x
                  ELSE IF IsSum(f.b, XXH32(Bytes(f.x.d.xxh))) THEN Stop(f.x, 0)
                  ELSE Err(f.x, "contentChecksum_invalid")
  IN  IF x.d.dStage = "getSuffix" /\ x.d.remaining # 0 THEN Err(x, "frameSize_wrong")
      ELSE IF x.d.dStage = "getSuffix" /\ ~x.d.info.contentSum THEN EndOfFrame(x)
      ELSE Check(Four(a, x, "storeSuffix"))

Suffix(a, x) ==
  LET Check(f) == IF f.b = <<>> THEN f.x
                  ELSE IF IsSum(f.b, XXH32(Bytes(f.x.d.xxh))) THEN EndOfFrame(f.x)
                  ELSE Err(f.x, "contentChecksum_invalid")
  IN  IF x.d.dStage = "getSuffix" /\ x.d.remaining # 0 THEN Err(x, "frameSize_wrong")
      ELSE IF x.d.dStage = "getSuffix" /\ ~x.d.info.contentSum THEN EndOfFrame(x)
      ELSE Check(Four(a, x, "storeSuffix"))

\* A frame of another kind: its size, then that many bytes are passed over.
SFrameSize(a, x) ==
  LET Size(y, b) == [y EXCEPT !.d.info.contentSize = LZ4F_readLE32(b),
                              !.d.target = LZ4F_readLE32(b), !.d.dStage = "skipSkippable"]
      Stored(y) == IF Missing(y, y.d.target) > 0 THEN Stop(y, Missing(y, y.d.target))
                   ELSE Size(y, SubSeq(y.d.stored, 5, 8))
  IN  IF x.d.dStage = "storeSFrameSize" THEN Stored(Store(a, x, x.d.target))
      ELSE IF Avail(a, x) >= 4 THEN Size([x EXCEPT !.i = @ + 4], Ahead(a, x, 4))
      ELSE [x EXCEPT !.d.stored = [k \in 1 .. 4 |-> Byte(0)], !.d.target = 8,
                     !.d.dStage = "storeSFrameSize"]

SkipSkippable(a, x) ==
  LET n == Min({x.d.target, Avail(a, x)})
      y == Stop([x EXCEPT !.i = @ + n, !.d.target = @ - n], x.d.target - n)
  IN  IF n = x.d.target THEN EndOfFrame(y) ELSE y

-----------------------------------------------------------------------------
Stage(a, x) ==
  CASE x.d.dStage = "getFrameHeader"   -> GetFrameHeader(a, x)
    [] x.d.dStage = "storeFrameHeader" -> StoreFrameHeader(a, x)
    [] x.d.dStage = "init"             -> InitFrame(x)
    [] x.d.dStage \in {"getBlockHeader", "storeBlockHeader"} ->
         LET Use(f) == IF f.b = <<>> THEN f.x ELSE BlockHeader(a, f.x, f.b)
         IN  Use(Four(a, x, "storeBlockHeader"))
    [] x.d.dStage = "copyDirect"       -> CopyDirect(a, x)
    [] x.d.dStage = "getBlockChecksum" -> GetBlockChecksum(a, x)
    [] x.d.dStage \in {"getCBlock", "storeCBlock"} -> CBlock(a, x)
    [] x.d.dStage = "flushOut"         -> FlushOut(a, x)
    [] x.d.dStage \in {"getSuffix", "storeSuffix"} -> Suffix(a, x)
    [] x.d.dStage \in {"getSFrameSize", "storeSFrameSize"} -> SFrameSize(a, x)
    [] x.d.dStage = "skipSkippable"    -> SkipSkippable(a, x)

\* Mutant of PreserveHistory: leaves it in the destination.
LeaveHistory(a, x) == x

\* The history leaves the destination, which the program may use again.
PreserveHistory(a, x) ==
  LET n == Min({x.d.dictSize, KB64})
      Put(y) == [y EXCEPT !.d.tmpOut = TMPOUT + n]
  IN  IF \/ ~x.d.info.linked \/ x.d.dict \in {TMPOUT, NULL} \/ a.stableDst
         \/ x.d.dStage \notin {"init", "getBlockHeader", "storeBlockHeader", "copyDirect",
                               "getBlockChecksum", "getCBlock", "storeCBlock", "flushOut"}
      THEN x
      ELSE IF x.d.dStage = "flushOut" THEN InFrontOfTmp(x, 0)
      ELSE Put(KeepLast(x, n))
=============================================================================
