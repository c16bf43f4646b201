----------------------------- MODULE Lz4HcStream -----------------------------
(***************************************************************************)
(* What a program calls of lz4hc.c: one call, with a fresh or a used       *)
(* context, chains of blocks and dictionaries.                             *)
(***************************************************************************)
EXTENDS Lz4HcOptimal

HcZeroed == [hash |-> [k \in 0 .. HASHSIZE - 1 |-> 0], chain |-> [k \in 0 .. KB64 - 1 |-> 0],
             base |-> NULL, end |-> NULL, dictBase |-> NULL, dictLimit |-> 0, lowLimit |-> 0,
             next |-> 0, dctx |-> NoCtx, level |-> 0, favor |-> FALSE, dirty |-> FALSE]

LZ4_setCompressionLevel(h, level) ==
  [h EXCEPT !.level = IF level < 1 THEN 9 ELSE Min({level, 12})]

LZ4HC_clearTables(h) == [h EXCEPT !.hash = [k \in DOMAIN @ |-> 0],
                                  !.chain = [k \in DOMAIN @ |-> KB64 - 1]]

LZ4HC_init_internal(h, start) ==
  LET big == h.end - h.base > HGB1
      offset == (IF big THEN 0 ELSE h.end - h.base) + KB64
  IN  [(IF big THEN LZ4HC_clearTables(h) ELSE h)
         EXCEPT !.next = offset, !.base = start - offset, !.end = start,
                !.dictBase = start - offset, !.dictLimit = offset, !.lowLimit = offset]

LZ4_initStreamHC == LZ4_setCompressionLevel(HcZeroed, 9)

LZ4_resetStreamHC_fast(h, level) ==
  LZ4_setCompressionLevel(IF h.dirty THEN LZ4_initStreamHC
                          ELSE [h EXCEPT !.end = @ - h.base, !.base = NULL, !.dctx = NoCtx], level)

LZ4_loadDictHC(h, mem, dictionary, dictSize) ==
  LET n == Min({dictSize, KB64})
      at == dictionary + dictSize - n
      new == [LZ4HC_init_internal(LZ4_setCompressionLevel(LZ4_initStreamHC, h.level), at)
                EXCEPT !.end = at + n]
  IN  IF n >= 4 THEN LZ4HC_Insert(mem, new, new.end - 3) ELSE new

LZ4_attach_HC_dictionary(h, dictionary_stream) == [h EXCEPT !.dctx = dictionary_stream]

\* The prefix becomes the external dictionary; the one before is lost.
LZ4HC_setExternalDict(h0, mem, newBlock) ==
  LET h == IF h0.end >= h0.base + h0.dictLimit + 4 THEN LZ4HC_Insert(mem, h0, h0.end - 3) ELSE h0
      limit == h.end - h.base
  IN  [h EXCEPT !.lowLimit = h.dictLimit, !.dictLimit = limit, !.dictBase = h.base,
                !.base = newBlock - limit, !.end = newBlock, !.next = limit, !.dctx = NoCtx]

-----------------------------------------------------------------------------
\* Searches and the length that is good enough, for each level.
clTable(level) ==
  CASE level <= 2  -> [strat |-> "lz4hc", attempts |-> 2, target |-> 16]
    [] level \in 3 .. 9 -> [strat |-> "lz4hc", attempts |-> 2^(level - 1), target |-> 16]
    [] level = 10  -> [strat |-> "lz4opt", attempts |-> 96, target |-> 64]
    [] level = 11  -> [strat |-> "lz4opt", attempts |-> 512, target |-> 128]
    [] OTHER       -> [strat |-> "lz4opt", attempts |-> 16384, target |-> LZ4_OPT_NUM]

HcCall(mem, src, n, cap, out) == [m |-> mem, src |-> src, n |-> n, cap |-> cap, out |-> out]

HcBegin(e, h) ==
  LET none == [start |-> e.src, off |-> 0, len |-> 0]
  IN  [pc |-> IF e.n < LZ4_minLength THEN "last" ELSE "main", h |-> h, ip |-> e.src,
       anchor |-> e.src, op |-> <<>>, saved |-> 0, cut |-> none, m0 |-> none, m1 |-> none,
       m2 |-> none, wr |-> 0, rd |-> e.src, inside |-> TRUE]

LZ4HC_compress_generic_internal(h, a, dd, level) ==
  LET p == clTable(Min({IF level < 1 THEN 9 ELSE level, 12}))
      e == [attempts |-> p.attempts, target |-> Min({p.target, LZ4_OPT_NUM - 1}),
            ultra |-> level >= 12, dd |-> dd] @@ a
      c0 == HcBegin(e, [h EXCEPT !.end = @ + a.n])
      Ended(c) == Result(c, [c.h EXCEPT !.dirty = @ \/ c.pc # "end"], a.src)
  IN  IF (a.out = "fillOutput" /\ a.cap < 1) \/ ~Supported(a.n) THEN Nothing(h, <<>>)
      ELSE Ended(IF p.strat = "lz4hc" THEN LZ4HC_compress_hashChain(e, c0)
                 ELSE LZ4HC_compress_optimal(e, c0))

\* An attached dictionary is used until 64 KB were compressed; for a large
\* first block its context is copied instead.
LZ4HC_compress_generic(h, a, level) ==
  LET position == h.end - h.base - h.lowLimit
      copy == [LZ4HC_setExternalDict(h.dctx, a.m, a.src) EXCEPT !.level = level]
      Go(g, dd) == LZ4HC_compress_generic_internal(g, a, dd, level)
  IN  Go(CASE h.dctx = NoCtx                  -> h
           [] position >= KB64                -> [h EXCEPT !.dctx = NoCtx]
           [] position = 0 /\ a.n > HKB4      -> copy
           [] OTHER                           -> h,
         IF h.dctx # NoCtx /\ position < KB64 /\ ~(position = 0 /\ a.n > HKB4)
         THEN "usingDictCtx" ELSE "noDictCtx")

\* What a call runs on: the context, the arguments and the level.
HcPlan(h, args, level) == [h |-> h, args |-> args, level |-> level]
HcDo(p) == LZ4HC_compress_generic(p.h, p.args, p.level)

LZ4_compress_HC_extStateHC_fastReset(h, mem, src, n, cap, level) ==
  HcPlan(LZ4HC_init_internal(LZ4_resetStreamHC_fast(h, level), src),
         HcCall(mem, src, n, cap, IF cap < LZ4_compressBound(n) THEN "limitedOutput"
                                  ELSE "notLimited"), level)

LZ4_compress_HC(mem, src, n, cap, level) ==
  LZ4_compress_HC_extStateHC_fastReset(LZ4_initStreamHC, mem, src, n, cap, level)

LZ4_compress_HC_destSize(mem, src, n, cap, level) ==
  HcPlan(LZ4_setCompressionLevel(LZ4HC_init_internal(LZ4_initStreamHC, src), level),
         HcCall(mem, src, n, cap, "fillOutput"), level)

\* What the source was written over is no longer part of the dictionary.
HcCutOverlap(h, src, srcEnd) ==
  LET low == Min({srcEnd, h.dictBase + h.dictLimit}) - h.dictBase
  IN  IF srcEnd > h.dictBase + h.lowLimit /\ src < h.dictBase + h.dictLimit
      THEN [h EXCEPT !.lowLimit = IF h.dictLimit - low < 4 THEN h.dictLimit ELSE low] ELSE h

LZ4_compressHC_continue_generic(h0, mem, src, n, cap, out) ==
  LET Init1(h) == IF h.base = NULL THEN LZ4HC_init_internal(h, src) ELSE h
      Reload(h) == LET size == Min({h.end - h.base - h.dictLimit, KB64})
                   IN  IF h.end - h.base > HGB2 THEN LZ4_loadDictHC(h, mem, h.end - size, size) ELSE h
      Follow1(h) == IF src # h.end THEN LZ4HC_setExternalDict(h, mem, src) ELSE h
      Ready(h) == HcPlan(h, HcCall(mem, src, n, cap, out), h.level)
  IN  Ready(HcCutOverlap(Follow1(Reload(Init1(h0))), src, src + n))

LZ4_compress_HC_continue(h, mem, src, n, cap) ==
  LZ4_compressHC_continue_generic(h, mem, src, n, cap,
    IF cap < LZ4_compressBound(n) THEN "limitedOutput" ELSE "notLimited")

LZ4_saveDictHC(h, mem, at, dictSize) ==
  LET prefix == h.end - (h.base + h.dictLimit)
      n == Min({IF dictSize < 4 THEN 0 ELSE dictSize, KB64, prefix})
      index == h.end - h.base
  IN  [m |-> Copy(mem, at, h.end - n, n),
       ctx |-> [h EXCEPT !.end = at + n, !.base = at + n - index, !.dictLimit = index - n,
                         !.lowLimit = index - n, !.next = Max({@, index - n})]]
=============================================================================
