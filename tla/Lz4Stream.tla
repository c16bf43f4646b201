----------------------------- MODULE Lz4Stream -----------------------------
(***************************************************************************)
(* The functions of lz4.c a program calls: compression in one call, with a *)
(* fresh or a used context; chains of blocks each of which may refer to    *)
(* the 64 KB before it; dictionaries; and decoding of all these.           *)
(***************************************************************************)
EXTENDS Lz4Encoder, Lz4Decoder, SequencesExt

CONSTANTS KB4, GB1,    \* 4 KB and 1 GB, sizes at which tables are dealt with otherwise
          MaxOffset    \* 0x80000000, beyond which indexes are scaled down

-----------------------------------------------------------------------------
(* Compression in one call.                                                *)

\* The directives follow from the size of the destination and of the source.
Limit(n, cap) == IF cap >= LZ4_compressBound(n) THEN "notLimited" ELSE "limitedOutput"
TableType(n, src) ==
  IF n < LZ4_64Klimit THEN "byU16"
  ELSE IF REG = 4 /\ src > LZ4_DISTANCE_MAX THEN "byPtr" ELSE "byU32"

\* A call is the context it runs on, its arguments, and whether the source
\* becomes the dictionary of the next.
Plan(ctx, args, follows) == [ctx |-> ctx, args |-> args, follows |-> follows]
Do(p) == LET Rebase(r) == IF p.follows
                          THEN [r EXCEPT !.ctx.dict = p.args.src, !.ctx.size = p.args.n] ELSE r
         IN  Rebase(LZ4_compress_generic(p.ctx, p.args))

LZ4_compress_fast_extState(mem, src, n, cap, accel) ==
  Plan(Zeroed, Call(mem, src, n, cap, Limit(n, cap), TableType(n, src), "noDict", FALSE, accel),
       FALSE)

LZ4_compress_default(mem, src, n, cap) == LZ4_compress_fast_extState(mem, src, n, cap, 1)

LZ4_compress_destSize(mem, src, n, cap) ==
  IF cap >= LZ4_compressBound(n) THEN LZ4_compress_fast_extState(mem, src, n, cap, 1)
  ELSE Plan(Zeroed, Call(mem, src, n, cap, "fillOutput", TableType(n, src), "noDict", FALSE, 1),
            FALSE)

\* The table of an earlier call is kept where its entries cannot be taken for
\* new ones: they are of the same type and lie before the new indexes.
LZ4_prepareTable(ctx, n, tt) ==
  LET stale == ctx.tt # "clearedTable"
               /\ \/ ctx.tt # tt
                  \/ tt = "byU16" /\ ctx.off + n >= KB64 - 1
                  \/ tt = "byU32" /\ ctx.off > GB1
                  \/ tt = "byPtr"
                  \/ n >= KB4
      c == IF stale THEN Zeroed ELSE ctx
  IN  [c EXCEPT !.off = IF @ # 0 /\ tt = "byU32" THEN @ + KB64 ELSE @,
                !.dctx = NoCtx, !.dict = NULL, !.size = 0]

LZ4_compress_fast_extState_fastReset(ctx, mem, src, n, cap) ==
  LET tt == TableType(n, src)
      c == LZ4_prepareTable(ctx, n, tt)
  IN  Plan(c, Call(mem, src, n, cap, Limit(n, cap), tt, "noDict", tt = "byU16" /\ c.off # 0, 1),
           FALSE)

-----------------------------------------------------------------------------
(* Streams.                                                                *)

LZ4_resetStream_fast(ctx) == LZ4_prepareTable(ctx, 0, "byU32")

\* Every third position of the dictionary's last 64 KB goes into the table;
\* indexes start at 64 KB however short it is.
LZ4_loadDict(mem, at, size) ==
  LET n == Min({size, KB64})
      p == at + size - n
      e == [m |-> mem, tt |-> "byU32", src |-> at + size, start |-> KB64]
      places == [k \in 1 .. (n - REG) \div 3 + 1 |-> p + 3 * (k - 1)]
  IN  IF size < REG THEN [Zeroed EXCEPT !.off = KB64]
      ELSE [Zeroed EXCEPT !.off = KB64, !.dict = p, !.size = n, !.tt = "byU32",
                          !.table = FoldLeft(LAMBDA t, q : LZ4_putPosition(e, t, q), @, places)]

LZ4_attach_dictionary(ctx, dictCtx) ==
  [ctx EXCEPT !.off = IF @ = 0 THEN KB64 ELSE @,
              !.dctx = IF dictCtx.size = 0 THEN NoCtx ELSE dictCtx]

\* Mutant of LZ4_renormDictT: indexes are never scaled down.
NoRenorm(ctx, n) == ctx

LZ4_renormDictT(ctx, n) ==
  LET delta == ctx.off - KB64
      size == Min({ctx.size, KB64})
  IN  IF ctx.off + n <= MaxOffset THEN ctx
      ELSE [ctx EXCEPT !.table = [h \in DOMAIN @ |-> Max({@[h] - delta, 0})],
                       !.off = KB64, !.size = size, !.dict = ctx.dict + ctx.size - size]

DictEnd(ctx) == IF ctx.size = 0 THEN NULL ELSE ctx.dict + ctx.size

\* A dictionary too small for a hash is dropped unless the source follows it.
Tiny(ctx, src, n) == ctx.size < 4 /\ DictEnd(ctx) # src /\ n > 0 /\ ctx.dctx = NoCtx

\* Where the source was written over the dictionary's start, the rest of the
\* dictionary is left.
CutOverlap(ctx, srcEnd, end) ==
  LET left == Min({end - srcEnd, KB64})
      size == IF left < 4 THEN 0 ELSE left
  IN  IF srcEnd > ctx.dict /\ srcEnd < end
      THEN [ctx EXCEPT !.size = size, !.dict = end - size] ELSE ctx

SmallDict(ctx) == ctx.size < KB64 /\ ctx.size < ctx.off

LZ4_compress_fast_continue(ctx0, mem, src, n, cap) ==
  LET c1 == LZ4_renormDictT(ctx0, n)
      tiny == Tiny(c1, src, n)
      end == IF tiny THEN src ELSE DictEnd(ctx0)
      ctx == CutOverlap(IF tiny THEN [c1 EXCEPT !.size = 0, !.dict = src] ELSE c1, src + n, end)
      ext == ctx.dctx = NoCtx
      big == ~ext /\ n > KB4
      dd == CASE end = src     -> "withPrefix64k"
              [] ext \/ big    -> "usingExtDict"
              [] OTHER         -> "usingDictCtx"
  IN  Plan(IF big /\ end # src THEN ctx.dctx ELSE ctx,
           Call(mem, src, n, cap, "limitedOutput", "byU32", dd,
                (ext \/ end = src) /\ SmallDict(ctx), 1),
           end # src)

LZ4_compress_forceExtDict(ctx0, mem, src, n) ==
  LET ctx == LZ4_renormDictT(ctx0, n)
  IN  Plan(ctx, Call(mem, src, n, 0, "notLimited", "byU32", "usingExtDict", SmallDict(ctx), 1), TRUE)

\* The last bytes of the dictionary move to a safe place; the table stays.
LZ4_saveDict(ctx, mem, at, dictSize) ==
  LET n == Min({dictSize, KB64, ctx.size})
  IN  [m |-> Copy(mem, at, ctx.dict + ctx.size - n, n),
       ctx |-> [ctx EXCEPT !.dict = at, !.size = n]]

-----------------------------------------------------------------------------
(* Decoding, from the first byte of a block to the result.                 *)

RECURSIVE Decode(_, _)
Decode(x, d) == IF d.pc \in {"end", "error"} THEN d ELSE Decode(x, StepOn(x, d))

\* The result: bytes written to the output (or read, for LZ4_decompress_fast),
\* a negative number for an error.
Answer(m, result) == [result |-> result, m |-> m, rd |-> 0, inside |-> TRUE]

LZ4_decompress_generic(m, x) ==
  LET d == Decode(x, Start(m, x))
  IN  IF x.cap = 0 /\ x.safe
      THEN Answer(m, IF x.partial \/ x.b = <<0>> THEN 0 ELSE -1)
      ELSE IF x.cap = 0 THEN Answer(m, IF In(x, 0) = 0 THEN 1 ELSE -1)
      ELSE IF x.safe /\ x.b = <<>> THEN Answer(m, -1)
      ELSE [result |-> IF d.pc = "error" THEN -d.ip - 1
                       ELSE IF x.safe THEN d.op - x.dst ELSE d.ip,
            m |-> d.m, rd |-> d.rd, inside |-> d.before = 0]
=============================================================================
