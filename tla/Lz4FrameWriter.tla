--------------------------- MODULE Lz4FrameWriter ---------------------------
(***************************************************************************)
(* The compressing half of lz4frame.c.  A context (LZ4F_cctx) is a record  *)
(*   prefs                      preferences: linked, blockSum, contentSum, *)
(*                              contentSize, dictID, sizeID, autoFlush, hc *)
(*   cStage, maxBlockSize, maxBufferSize, tmpBuff, tmpIn, tmpInSize,       *)
(*   totalInSize, alloc, state  as in the code (lz4CtxAlloc, lz4CtxState)  *)
(*   xxh                        what went into the checksum of the content *)
(*   lz                         the stream of lz4.c or lz4hc.c: the history*)
(*                              it keeps (ext before dict), and dctx       *)
(*   cdict                      content of the dictionary, or <<>>         *)
(* and a call a record z of the context, memory m, the bytes put out, and  *)
(* how it ended (res); inside says that tmpBuff was not left.              *)
(***************************************************************************)
EXTENDS Lz4FrameFormat

CONSTANTS TMPBUFF   \* where the writer's buffer is allocated

NoStream == [dict |-> NULL, size |-> 0, ext |-> NULL, extSize |-> 0, dctx |-> <<>>]

LZ4F_INIT_PREFERENCES ==
  [linked |-> TRUE, blockSum |-> FALSE, contentSum |-> FALSE, contentSize |-> 0, dictID |-> 0,
   sizeID |-> 0, autoFlush |-> FALSE, hc |-> FALSE]

LZ4F_createCompressionContext ==
  [prefs |-> LZ4F_INIT_PREFERENCES, cStage |-> 0, maxBlockSize |-> 0, maxBufferSize |-> 0,
   tmpBuff |-> NULL, tmpIn |-> NULL, tmpInSize |-> 0, totalInSize |-> 0, alloc |-> 0,
   state |-> 0, xxh |-> <<>>, lz |-> NoStream, cdict |-> <<>>]

\* A dictionary keeps its last 64 KB.
LZ4F_createCDict(dict) == LastOf(dict, KB64)

-----------------------------------------------------------------------------
(* Bounds.  (size_t)-1 bytes buffered means as many as there can be.       *)

WorstCase == [LZ4F_INIT_PREFERENCES EXCEPT !.blockSum = TRUE, !.contentSum = TRUE]

LZ4F_compressBound_internal(n, p, buffered) ==
  LET size == LZ4F_getBlockSize(p.sizeID)
      most == n + Min({buffered, size - 1})
      full == most \div size
      rest == IF p.autoFlush \/ n = 0 THEN most % size ELSE 0
  IN  (BHSize + BFSize * Flag(p.blockSum)) * (full + Flag(rest > 0))
      + size * full + rest + BHSize + BFSize * Flag(p.contentSum)

LZ4F_compressBound(n, p) ==
  LZ4F_compressBound_internal(n, p, IF p.autoFlush THEN 0 ELSE LZ4F_getBlockSize(p.sizeID))

LZ4F_compressFrameBound(n, p) ==
  maxFHSize + LZ4F_compressBound_internal(n, [p EXCEPT !.autoFlush = TRUE], 0)

\* The smallest size that is asked for or holds the source.
LZ4F_optimalBSID(requested, n) ==
  LET enough == {id \in 4 .. requested - 1 : n <= LZ4F_getBlockSize(id)}
  IN  IF enough = {} THEN requested ELSE Min(enough)

-----------------------------------------------------------------------------
(* One block.                                                              *)

\* The stream before a block at src: it goes on behind the last one, or what
\* it had becomes an external segment, less what the block is written over.
Segment(lz, src, n, hc) ==
  LET end == lz.dict + lz.size
      cut == IF src + n > lz.dict /\ (IF hc THEN src < end ELSE src + n < end)
             THEN Min({src + n, end}) ELSE lz.dict
  IN  IF lz.size > 0 /\ end = src THEN lz
      ELSE [dict |-> src, size |-> 0, ext |-> cut, extSize |-> end - cut,
            dctx |-> IF lz.size = 0 THEN lz.dctx ELSE <<>>]

History(lz, m) ==
  LastOf(lz.dctx \o Read(m, lz.ext, lz.extSize) \o Read(m, lz.dict, lz.size), KB64)

\* lz4.c forgets the external segment after the block; lz4hc.c keeps it.
Grown(lz, n, hc) == IF hc THEN [lz EXCEPT !.size = @ + n]
                    ELSE [NoStream EXCEPT !.dict = lz.dict, !.size = lz.size + n]

LZ4F_initStream(cdict) == [NoStream EXCEPT !.dctx = cdict]

\* LZ4F_compressBlock and its three relatives: each block starts afresh, with
\* the dictionary, unless blocks are linked.
StreamOf(c) == IF c.prefs.linked THEN c.lz ELSE LZ4F_initStream(c.cdict)

\* A text that does not get smaller goes out as it is.
LZ4F_makeBlock(z, src, n) ==
  LET c == z.c
      lz == Segment(StreamOf(c), src, n, c.prefs.hc)
      text == Read(z.m, src, n)
      raw == Squeezed(text) > n - 1
      body == IF raw THEN Bytes(text) ELSE Packed(text, History(lz, z.m), Squeezed(text))
      size == LZ4F_writeLE32(Len(body))
  IN  [z EXCEPT !.c.lz = Grown(lz, n, c.prefs.hc),
                !.out = @ \o (IF raw THEN Flagged(size) ELSE size) \o body
                          \o (IF c.prefs.blockSum THEN XXH32(body) ELSE <<>>)]

\* The history moves to the start of tmpBuff, and input goes behind it.
LZ4F_localSaveDict(z) ==
  LET lz == z.c.lz
      n == Min({lz.size, KB64})
  IN  [z EXCEPT !.m = Write(@, z.c.tmpBuff, Read(@, lz.dict + lz.size - n, n)),
                !.c.lz = [lz EXCEPT !.dict = z.c.tmpBuff, !.size = n, !.extSize = 0],
                !.c.tmpIn = z.c.tmpBuff + n,
                !.inside = @ /\ z.c.tmpBuff # NULL /\ n <= z.c.maxBufferSize]

\* Input that waits for its block to be full.
Buffered(z, s) ==
  LET at == z.c.tmpIn + z.c.tmpInSize
  IN  [z EXCEPT !.m = Write(@, at, s), !.c.tmpInSize = @ + Len(s),
                !.inside = @ /\ z.c.tmpBuff # NULL /\ at + Len(s) <= z.c.tmpBuff + z.c.maxBufferSize]

-----------------------------------------------------------------------------
(* A frame.                                                                *)

Call(c, m) == [c |-> c, m |-> m, out |-> <<>>, p |-> 0, last |-> "notDone", res |-> "ok",
               inside |-> TRUE]

Header(p) ==
  LET flg == 64 + 32 * Flag(~p.linked) + 16 * Flag(p.blockSum) + 8 * Flag(p.contentSize > 0)
             + 4 * Flag(p.contentSum) + Flag(p.dictID > 0)
      fields == <<Byte(flg), Byte(16 * p.sizeID)>>
                \o (IF p.contentSize > 0 THEN LZ4F_writeLE64(p.contentSize) ELSE <<>>)
                \o (IF p.dictID > 0 THEN LZ4F_writeLE32(p.dictID) ELSE <<>>)
  IN  LZ4F_writeLE32(LZ4F_MAGICNUMBER) \o fields \o <<LZ4F_headerChecksum(fields)>>

\* The room tmpBuff needs: a block, unless input never waits, and twice the
\* window if blocks are linked.
RequiredBuff(p) ==
  IF p.autoFlush THEN (IF p.linked THEN KB64 ELSE 0)
  ELSE LZ4F_getBlockSize(p.sizeID) + (IF p.linked THEN 2 * KB64 ELSE 0)

LZ4F_compressBegin(c, m, prefs, cdict, cap) ==
  LET p == [prefs EXCEPT !.sizeID = IF @ = 0 THEN 4 ELSE @]
      type == IF p.hc THEN 2 ELSE 1
      grow == c.maxBufferSize < RequiredBuff(p)
      buff == IF grow THEN TMPBUFF ELSE c.tmpBuff
  IN  IF cap < maxFHSize THEN [Call(c, m) EXCEPT !.res = "dstMaxSize_tooSmall"]
      ELSE [Call([c EXCEPT
                    !.prefs = p, !.cStage = 1, !.maxBlockSize = LZ4F_getBlockSize(p.sizeID),
                    !.alloc = Max({@, type}), !.state = type,
                    !.maxBufferSize = IF grow THEN RequiredBuff(p) ELSE @,
                    !.tmpBuff = buff, !.tmpIn = buff, !.tmpInSize = 0, !.xxh = <<>>,
                    !.totalInSize = IF p.contentSize > 0 THEN 0 ELSE @,
                    !.lz = IF p.linked THEN LZ4F_initStream(cdict) ELSE @, !.cdict = cdict], m)
            EXCEPT !.out = Header(p)]

-----------------------------------------------------------------------------
(* LZ4F_compressUpdate, in its order.  The source is n bytes at src.       *)

\* What waits is completed first.
Complete(z, src, n) ==
  LET c == z.c
      room == c.maxBlockSize - c.tmpInSize
      Done(y) == [LZ4F_makeBlock(y, c.tmpIn, c.maxBlockSize) EXCEPT
                    !.c.tmpIn = @ + (IF c.prefs.linked THEN c.maxBlockSize ELSE 0),
                    !.c.tmpInSize = 0, !.p = room, !.last = "fromTmpBuffer"]
  IN  IF c.tmpInSize = 0 THEN z
      ELSE IF room > n THEN [Buffered(z, Read(z.m, src, n)) EXCEPT !.p = n]
      ELSE Done(Buffered(z, Read(z.m, src, room)))

\* Full blocks come straight from the source, and with autoFlush the rest.
RECURSIVE FromSource(_, _, _)
FromSource(z, src, n) ==
  LET left == n - z.p
      take == Min({left, z.c.maxBlockSize})
  IN  IF left >= z.c.maxBlockSize \/ (z.c.prefs.autoFlush /\ left > 0)
      THEN FromSource([LZ4F_makeBlock(z, src + z.p, take) EXCEPT
                         !.p = @ + take, !.last = "fromSrcBuffer"], src, n)
      ELSE z

\* The source may be gone at the next call.
Preserve(z, stableSrc) ==
  IF ~z.c.prefs.linked \/ z.last # "fromSrcBuffer" THEN z
  ELSE IF stableSrc THEN [z EXCEPT !.c.tmpIn = z.c.tmpBuff]
  ELSE IF z.c.lz.size = 0 THEN [z EXCEPT !.res = "GENERIC"]
  ELSE LZ4F_localSaveDict(z)

\* Mutant of KeepWithin: only when not even one more value fits.
KeepOneWithin(z) ==
  LET c == z.c
  IN  IF c.tmpIn + 1 > c.tmpBuff + c.maxBufferSize THEN LZ4F_localSaveDict(z) ELSE z

KeepWithin(z) ==
  LET c == z.c
  IN  IF c.tmpIn + c.maxBlockSize > c.tmpBuff + c.maxBufferSize THEN LZ4F_localSaveDict(z) ELSE z

LZ4F_compressUpdate(c, m, src, n, cap, stableSrc) ==
  LET Limits(z) == IF c.prefs.autoFlush THEN z ELSE KeepWithin(z)
      Rest(z) == IF z.p < n THEN Buffered(z, Read(z.m, src + z.p, n - z.p)) ELSE z
      Sum(z) == [z EXCEPT !.c.xxh = @ \o (IF c.prefs.contentSum THEN Read(m, src, n) ELSE <<>>),
                          !.c.totalInSize = @ + n]
      Go(z) == IF z.res # "ok" THEN z ELSE Sum(Rest(Limits(z)))
  IN  IF c.cStage # 1 THEN [Call(c, m) EXCEPT !.res = "GENERIC"]
      ELSE IF cap < LZ4F_compressBound_internal(n, c.prefs, c.tmpInSize)
      THEN [Call(c, m) EXCEPT !.res = "dstMaxSize_tooSmall"]
      ELSE Go(Preserve(FromSource(Complete(Call(c, m), src, n), src, n), stableSrc))

LZ4F_flush(c, m, cap) ==
  LET n == c.tmpInSize
      Go(z) == KeepWithin([z EXCEPT !.c.tmpIn = @ + (IF c.prefs.linked THEN n ELSE 0),
                                    !.c.tmpInSize = 0])
  IN  IF n = 0 THEN Call(c, m)
      ELSE IF c.cStage # 1 THEN [Call(c, m) EXCEPT !.res = "GENERIC"]
      ELSE IF cap < n + BHSize + BFSize THEN [Call(c, m) EXCEPT !.res = "dstMaxSize_tooSmall"]
      ELSE Go(LZ4F_makeBlock(Call(c, m), c.tmpIn, n))

\* The end mark, the checksum, and the context is free for the next frame; a
\* content that had another size than announced is found last.
LZ4F_compressEnd(c, m, cap) ==
  LET sum == IF c.prefs.contentSum THEN XXH32(Bytes(c.xxh)) ELSE <<>>
      wrong == c.prefs.contentSize > 0 /\ c.prefs.contentSize # c.totalInSize
      End(z) == IF cap - Len(z.out) < BHSize + Len(sum)
                THEN [z EXCEPT !.res = "dstMaxSize_tooSmall"]
                ELSE [z EXCEPT !.out = @ \o LZ4F_writeLE32(0) \o sum,
                               !.c.cStage = 0, !.c.maxBufferSize = 0,
                               !.res = IF wrong THEN "frameSize_wrong" ELSE "ok"]
      Go(z) == IF z.res # "ok" THEN z ELSE End(z)
  IN  Go(LZ4F_flush(c, m, cap))

\* A whole frame at once.  The context is one whose buffer counts as large
\* enough without being there: with autoFlush and a stable source nothing may
\* be put into it.
LZ4F_compressFrame(c, m, src, n, prefs, cdict, cap) ==
  LET id == LZ4F_optimalBSID(prefs.sizeID, n)
      p == [prefs EXCEPT !.contentSize = IF @ # 0 THEN n ELSE 0, !.sizeID = id,
                         !.autoFlush = TRUE,
                         !.linked = @ /\ n > LZ4F_getBlockSize(id)]
      Join(x, y) == [y EXCEPT !.out = x.out \o @, !.inside = @ /\ x.inside]
      End(x) == IF x.res # "ok" THEN x
                ELSE Join(x, LZ4F_compressEnd(x.c, x.m, cap - Len(x.out)))
      Update(x) == IF x.res # "ok" THEN x
                   ELSE End(Join(x, LZ4F_compressUpdate(x.c, x.m, src, n, cap - Len(x.out), TRUE)))
  IN  IF cap < LZ4F_compressFrameBound(n, p)
      THEN [Call(c, m) EXCEPT !.res = "dstMaxSize_tooSmall"]
      ELSE Update(LZ4F_compressBegin(c, m, p, cdict, cap))
=============================================================================
