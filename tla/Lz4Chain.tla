------------------------------ MODULE Lz4Chain ------------------------------
(***************************************************************************)
(* A sender and a receiver that use lz4.c's blocks.  The sender writes a   *)
(* content into its buffer and compresses it, alone or as the next of a    *)
(* chain; the receiver decodes each block before the next is made.  Both   *)
(* keep their history in the one memory m, reuse their buffers as lz4.h    *)
(* allows, and a block may be damaged on its way.                          *)
(***************************************************************************)
EXTENDS Lz4Stream, Lz4HcStream

CONSTANTS Levels,      \* of lz4hc.c, tried for blocks alone
          Settings,    \* and in chains: pairs of a level and favorDecSpeed
          Memory,      \* the addresses
          SRC, SrcEnd, \* the sender's ring buffer
          SRC2,        \* its second buffer
          SAVE, RSAVE, \* where the sender and the receiver save dictionaries
          DST, DstEnd, \* the receiver's ring buffer, MaxChunk or more at its end
          Dicts,       \* dictionaries both have, pairs of address and size
          Content,     \* what memory holds at first
          Alone,       \* contents compressed alone, sequences of bytes
          Chunks,      \* contents compressed in chains
          MaxChunk,    \* the size of the largest
          Damages,     \* changes to a block: which byte, what it becomes, and
                       \* whether the block ends before it instead
          Caps(_),     \* sizes of the destination tried for a content's size
          MaxBlocks    \* blocks made

VARIABLES coder,   \* the encoder this sender uses, "fast" or "hc"
          m,       \* memory
          enc,     \* LZ4_stream_t
          hc,      \* LZ4_streamHC_t
          dec,     \* LZ4_streamDecode_t: prefixEnd, prefixSize, externalDict, extDictSize
          chain,   \* "none", "open" or "broken": may the next chunk follow
          next,    \* where the sender's last chunk ended
          blocks,  \* blocks made so far
          wire,    \* the block on its way and how it was made, or Empty
          got      \* what the last decoding was given and did, or Empty
vars == <<coder, m, enc, hc, dec, chain, next, blocks, wire, got>>

Empty == [kind |-> "none"]
NoDec == [end |-> NULL, size |-> 0, ext |-> NULL, extSize |-> 0]

Write(mem, at, c) == [a \in DOMAIN mem |-> IF a \in at .. at + Len(c) - 1
                                           THEN c[a - at + 1] ELSE mem[a]]

Init == /\ coder \in {"fast", "hc"}
        /\ m = Content
        /\ enc = Zeroed /\ hc = LZ4_initStreamHC /\ dec = NoDec
        /\ chain = "none" /\ next = SRC /\ blocks = 0
        /\ wire = Empty /\ got = Empty

-----------------------------------------------------------------------------
(* The sender.                                                             *)

Send(kind, c, at, cap, all, r) ==
  wire' = [kind |-> kind, b |-> r.block, n |-> Len(c), cap |-> cap, wr |-> r.wr,
           text |-> IF all \/ r.block = <<>> THEN c ELSE SubSeq(c, 1, r.consumed),
           over |-> r.rd > at + Len(c), inside |-> r.inside]

\* A block alone.  With a fresh context nothing came before it and nothing
\* comes after it; nothing in the buffers of a block alone is used again.
Alone1(how) ==
  /\ wire = Empty /\ chain # "broken" /\ blocks < MaxBlocks
  /\ how # "fastReset" => blocks = 0 /\ chain = "none"
  /\ blocks' = IF how = "fastReset" THEN blocks + 1 ELSE MaxBlocks
  /\ chain' = "none" /\ next' = SRC /\ dec' = NoDec
  /\ got' = Empty /\ UNCHANGED m

Compress(how, c, cap) ==
  LET mem == Write(m, SRC, c)
  IN  /\ coder = "fast" /\ Alone1(how)
      /\ \E r \in {Do(CASE how = "default" -> LZ4_compress_default(mem, SRC, Len(c), cap)
                     [] how = "destSize" -> LZ4_compress_destSize(mem, SRC, Len(c), cap)
                     [] OTHER -> LZ4_compress_fast_extState_fastReset(enc, mem, SRC, Len(c), cap))} :
           /\ Send("alone", c, SRC, cap, how # "destSize", r)
           /\ enc' = IF how = "fastReset" THEN r.ctx ELSE enc
      /\ UNCHANGED <<coder, hc>>

CompressHC(how, c, cap, level) ==
  LET mem == Write(m, SRC, c)
  IN  /\ coder = "hc" /\ Alone1(how) /\ (how = "fastReset" => level = 9)
      /\ \E r \in {HcDo(CASE how = "default" -> LZ4_compress_HC(mem, SRC, Len(c), cap, level)
                       [] how = "destSize" ->
                            LZ4_compress_HC_destSize(mem, SRC, Len(c), cap, level)
                       [] OTHER -> LZ4_compress_HC_extStateHC_fastReset(hc, mem, SRC, Len(c),
                                                                        cap, level))} :
           /\ Send("alone", c, SRC, cap, how # "destSize", r)
           /\ hc' = IF how = "fastReset" THEN r.ctx ELSE hc
      /\ UNCHANGED <<coder, enc>>

\* A new chain, without a dictionary, with one loaded, or with one attached.
StartChain ==
  /\ coder = "fast" /\ wire = Empty /\ chain # "broken" /\ blocks < MaxBlocks
  /\ chain = "open" => enc.size > 0
  /\ enc' = LZ4_resetStream_fast(enc) /\ dec' = NoDec
  /\ chain' = "open"
  /\ got' = Empty /\ UNCHANGED <<coder, m, hc, next, blocks, wire>>

StartWithDict(d, attach) ==
  /\ coder = "fast" /\ wire = Empty /\ chain = "none" /\ blocks < MaxBlocks
  /\ LET dict == LZ4_loadDict(m, d[1], d[2])
     IN  enc' = IF attach THEN LZ4_attach_dictionary(LZ4_resetStream_fast(enc), dict) ELSE dict
  /\ dec' = LZ4_setStreamDecode(d[1], d[2])
  /\ chain' = "open"
  /\ got' = Empty /\ UNCHANGED <<coder, m, hc, next, blocks, wire>>

\* The next chunk goes behind the last one, to the start of the ring when the
\* rest of it is too short, or into the second buffer.  What is written may
\* cut off the start of the history, not the end.
SrcAt(n) == {IF next \in SRC .. SrcEnd - MaxChunk THEN next ELSE SRC, SRC2}
Spares(at, n) == LET end == DictEnd(enc)
                 IN  at + n <= enc.dict \/ at >= end \/ at + n < end

CompressNext(c, at, cap) ==
  LET mem == Write(m, at, c)
  IN  /\ wire = Empty /\ coder = "fast" /\ chain = "open" /\ blocks < MaxBlocks
      /\ at \in SrcAt(Len(c)) /\ Spares(at, Len(c))
      /\ m' = mem
      /\ \E r \in {Do(LZ4_compress_fast_continue(enc, mem, at, Len(c), cap))} :
           /\ Send("chain", c, at, cap, TRUE, r)
           /\ enc' = r.ctx
           /\ chain' = IF r.block = <<>> THEN "broken" ELSE "open"
      /\ next' = at + Len(c) /\ blocks' = blocks + 1
      /\ got' = Empty /\ UNCHANGED <<coder, hc, dec>>

\* The entry tests use; it does not drop a dictionary too small to be read.
CompressExt(c, at) ==
  LET mem == Write(m, at, c)
  IN  /\ wire = Empty /\ coder = "fast" /\ chain = "open" /\ enc.size >= 4 /\ blocks < MaxBlocks
      /\ enc.dctx = NoCtx /\ at = SRC2 /\ Spares(at, Len(c)) /\ DictEnd(enc) # at
      /\ m' = mem
      /\ \E r \in {Do(LZ4_compress_forceExtDict(enc, mem, at, Len(c)))} :
           /\ Send("chain", c, at, LZ4_compressBound(Len(c)), TRUE, r)
           /\ enc' = r.ctx
      /\ next' = at + Len(c) /\ blocks' = blocks + 1
      /\ got' = Empty /\ UNCHANGED <<coder, hc, dec, chain>>

\* The same with lz4hc.c, which also gives up a dictionary whose end the chunk
\* is written over.
StartChainHC(level, favor) ==
  /\ coder = "hc" /\ wire = Empty /\ chain # "broken" /\ blocks < MaxBlocks
  /\ chain = "open" => hc.base # NULL
  /\ hc' = [LZ4_resetStreamHC_fast(hc, level) EXCEPT !.favor = favor] /\ dec' = NoDec
  /\ chain' = "open"
  /\ got' = Empty /\ UNCHANGED <<coder, m, enc, next, blocks, wire>>

StartWithDictHC(d, attach, level) ==
  /\ coder = "hc" /\ wire = Empty /\ chain = "none" /\ blocks < MaxBlocks
  /\ LET used == LZ4_resetStreamHC_fast(hc, level)
         dict == LZ4_loadDictHC(used, m, d[1], d[2])
     IN  hc' = IF attach THEN LZ4_attach_HC_dictionary(used, dict) ELSE dict
  /\ dec' = LZ4_setStreamDecode(d[1], d[2])
  /\ chain' = "open"
  /\ got' = Empty /\ UNCHANGED <<coder, m, enc, next, blocks, wire>>

CompressNextHC(c, at, cap) ==
  LET mem == Write(m, at, c)
  IN  /\ wire = Empty /\ coder = "hc" /\ chain = "open" /\ blocks < MaxBlocks
      /\ at \in SrcAt(Len(c))
      /\ m' = mem
      /\ \E r \in {HcDo(LZ4_compress_HC_continue(hc, mem, at, Len(c), cap))} :
           /\ Send("chain", c, at, cap, TRUE, r)
           /\ hc' = r.ctx
           /\ chain' = IF r.block = <<>> THEN "broken" ELSE "open"
      /\ next' = at + Len(c) /\ blocks' = blocks + 1
      /\ got' = Empty /\ UNCHANGED <<coder, enc, dec>>

SaveHC(n) ==
  /\ wire = Empty /\ coder = "hc" /\ chain = "open" /\ blocks < MaxBlocks
  /\ hc.base # NULL /\ hc.end \notin SAVE .. SAVE + KB64
  /\ LET s == LZ4_saveDictHC(hc, m, SAVE, n)
     IN  m' = [a \in DOMAIN m |-> IF a \in SRC .. SrcEnd - 1 THEN 0 ELSE s.m[a]]
         /\ hc' = s.ctx
  /\ next' = SRC
  /\ got' = Empty /\ UNCHANGED <<coder, enc, dec, chain, blocks, wire>>

\* The history is saved, and the sender's buffers are free.
Save(n) ==
  /\ wire = Empty /\ coder = "fast" /\ chain = "open" /\ blocks < MaxBlocks
  /\ enc.size > 0 /\ enc.dict # SAVE
  /\ LET s == LZ4_saveDict(enc, m, SAVE, n)
     IN  m' = [a \in DOMAIN m |-> IF a \in SRC .. SrcEnd - 1 THEN 0 ELSE s.m[a]]
         /\ enc' = s.ctx
  /\ next' = SRC
  /\ got' = Empty /\ UNCHANGED <<coder, hc, dec, chain, blocks, wire>>

-----------------------------------------------------------------------------
(* The receiver.                                                           *)

Room(at) == DstEnd - at

\* What a decoding was given, with the history it had, and what it did.
Hist(d) == LZ4_read(m, d.ext, d.extSize) \o LZ4_read(m, d.end - d.size, d.size)

Got(kind, x, want, hist, r) ==
  got' = [kind |-> kind, want |-> want, b |-> wire.b, hist |-> hist, result |-> r.result,
          out |-> LZ4_read(r.m, x.dst, x.cap), over |-> r.rd > Len(wire.b), inside |-> r.inside,
          spilt |-> {a \in Memory : r.m[a] # m[a]} \ (x.dst .. x.dst + x.cap - 1)]

\* A block of a chain goes behind the last one, or to the start of the ring.
DstAt == IF dec.end \in DST .. DstEnd - MaxChunk THEN dec.end ELSE DST

\* The ways to decode a block: alone, into a buffer of its size or a larger one,
\* by the function that trusts the block, or only its first bytes; as the next
\* of its chain; and a damaged one all the same.
Ways(kind) == CASE kind = "chain"   -> {"continue", "fast", "usingDict", "fastDict"}
                [] kind = "damaged" -> {"continue", "partial"}
                [] OTHER            -> {"exact", "larger", "fast", "partial"}

\* How many bytes of a good block are wanted where it is not decoded to its end.
Wanted(how) == IF how = "partial" /\ wire.kind # "damaged" THEN {1, 9, 14} ELSE {0}

AskedAlone(how, target) ==
  LET n == Len(wire.text)
  IN  CASE how = "fast"    -> LZ4_decompress_fast(wire.b, DST, n)
        [] how = "partial" -> LZ4_decompress_safe_partial(wire.b, DST, target, n)
        [] how = "larger"  -> LZ4_decompress_safe(wire.b, DST, Room(DST))
        [] OTHER           -> LZ4_decompress_safe(wire.b, DST, n)

AskedNext(how) ==
  LET n == Len(wire.text)
      dict == dec.end - dec.size
  IN  CASE how = "fast"      -> LZ4_decompress_fast_continue(dec, wire.b, DstAt, n)
        [] how = "usingDict" -> LZ4_decompress_safe_usingDict(wire.b, DstAt, n, dict, dec.size)
        [] how = "fastDict"  -> LZ4_decompress_fast_usingDict(wire.b, DstAt, n, dict, dec.size)
        [] OTHER             -> LZ4_decompress_safe_continue(dec, wire.b, DstAt, n)

AskedDamaged(how) ==
  IF how = "partial" THEN LZ4_decompress_safe_partial(wire.b, DST, wire.n - 1, wire.n)
  ELSE LZ4_decompress_safe_continue(dec, wire.b, DstAt, wire.n)

Asked(how, target) == CASE wire.kind = "chain"   -> AskedNext(how)
                        [] wire.kind = "damaged" -> AskedDamaged(how)
                        [] OTHER                 -> AskedAlone(how, target)

DecompressAlone(how, target, x, r) ==
  /\ Got(how, x, IF how = "partial" THEN SubSeq(wire.text, 1, Min({target, Len(wire.text)}))
                 ELSE wire.text, <<>>, r)
  /\ UNCHANGED <<m, dec>>

DecompressNext(how, x, r) ==
  /\ how \in {"usingDict", "fastDict"} => dec.extSize = 0
  /\ m' = r.m
  /\ Got(how, x, wire.text, Hist(dec), r)
  /\ dec' = Decoded(dec, DstAt, Len(wire.text))

DecompressDamaged(how, x, r) ==
  /\ how = "partial" => dec.size = 0
  /\ Got(IF how = "partial" THEN "part" ELSE "damaged", x, <<>>,
         Hist(IF DstAt = dec.end THEN dec ELSE Moved(dec)), r)
  /\ UNCHANGED <<m, dec>>

Decompress(how, target) ==
  /\ wire # Empty
  /\ wire.b # <<>> \/ wire.kind = "damaged"
  /\ \E x \in {Asked(how, target)} : \E r \in {LZ4_decompress_generic(m, x)} :
       CASE wire.kind = "chain"   -> DecompressNext(how, x, r)
         [] wire.kind = "damaged" -> DecompressDamaged(how, x, r)
         [] OTHER                 -> DecompressAlone(how, target, x, r)
  /\ wire' = Empty
  /\ UNCHANGED <<coder, enc, hc, chain, next, blocks>>

\* The receiver saves its history and goes on from the start of its buffer.
ReceiverSaves ==
  LET n == Min({dec.size, KB64})
  IN  /\ wire = Empty /\ blocks < MaxBlocks /\ dec.size > 0 /\ dec.extSize = 0 /\ dec.end \in DST .. DstEnd
      /\ m' = [a \in DOMAIN m |-> IF a \in DST .. DstEnd - 1 THEN 0
                                  ELSE Copy(m, RSAVE, dec.end - n, n)[a]]
      /\ dec' = LZ4_setStreamDecode(RSAVE, n)
      /\ got' = Empty /\ UNCHANGED <<coder, enc, hc, chain, next, blocks, wire>>

\* A block without a fate of its own is dropped: nothing was sent.
Failed == /\ wire # Empty /\ wire.b = <<>>
          /\ wire' = Empty
          /\ got' = Empty /\ UNCHANGED <<coder, m, enc, hc, dec, chain, next, blocks>>

\* A byte of the block is changed, or its end is lost (blocks of one encoder
\* are enough: the decoder is the same).
Damage(k, v, cut) ==
  /\ coder = "fast" /\ wire # Empty /\ wire.kind \in {"alone", "chain"} /\ k <= Len(wire.b) /\ wire.b[k] # v
  /\ wire' = [wire EXCEPT !.kind = "damaged",
                          !.b = IF cut THEN SubSeq(@, 1, k - 1) ELSE [@ EXCEPT ![k] = v]]
  /\ chain' = "broken"
  /\ got' = Empty /\ UNCHANGED <<coder, m, enc, hc, dec, next, blocks>>

-----------------------------------------------------------------------------
Next ==
  \/ \E c \in Alone, how \in {"default", "destSize", "fastReset"} :
        \E cap \in Caps(Len(c)) : Compress(how, c, cap)
  \/ \E c \in Alone, how \in {"default", "destSize", "fastReset"}, level \in Levels :
        \E cap \in Caps(Len(c)) : CompressHC(how, c, cap, level)
  \/ StartChain
  \/ \E s \in Settings : StartChainHC(s[1], s[2])
  \/ \E d \in Dicts, attach \in BOOLEAN, s \in Settings : StartWithDictHC(d, attach, s[1])
  \/ \E c \in Chunks : \E at \in SrcAt(Len(c)), cap \in Caps(Len(c)) : CompressNextHC(c, at, cap)
  \/ \E d \in Dicts, attach \in BOOLEAN : StartWithDict(d, attach)
  \/ \E c \in Chunks : \E at \in SrcAt(Len(c)), cap \in Caps(Len(c)) : CompressNext(c, at, cap)
  \/ \E c \in Chunks : CompressExt(c, SRC2)
  \/ \E n \in {8, KB64} : Save(n) \/ SaveHC(n)
  \/ \E how \in Ways(wire.kind) : \E target \in Wanted(how) : Decompress(how, target)
  \/ ReceiverSaves
  \/ Failed
  \/ \E d \in Damages : Damage(d[1], d[2], d[3])

Spec == Init /\ [][Next]_vars

-----------------------------------------------------------------------------
(* The block format, as a definition of its own: what a block is a list    *)
(* of, and what it stands for after a history.                             *)

\* The bytes from i that belong to a length, and the length.
Extended(b, i, half) ==
  IF half < ML_MASK THEN [n |-> half, i |-> i]
  ELSE LET full == {k \in i .. Len(b) : \A j \in i .. k : b[j] = BYTE}
           stop == i + Cardinality(full)
       IN  IF stop > Len(b) THEN [n |-> 0, i |-> Len(b) + 2]
           ELSE [n |-> half + BYTE * Cardinality(full) + b[stop], i |-> stop + 1]

\* Sequences of literals, offset and match length; the last has literals only.
\* A block that ends within a sequence is <<>>.
RECURSIVE Parse(_, _)
Parse(b, i) ==
  LET lit == Extended(b, i + 1, b[i] \div (ML_MASK + 1))
      after == lit.i + lit.n
      len == Extended(b, after + 2, b[i] % (ML_MASK + 1))
      here == [lit |-> SubSeq(b, lit.i, after - 1), off |-> 0, len |-> 0]
      rest == Parse(b, len.i)
  IN  IF i > Len(b) \/ after > Len(b) + 1 THEN <<>>
      ELSE IF after = Len(b) + 1 THEN <<here>>
      ELSE IF len.i > Len(b) \/ rest = <<>> THEN <<>>
      ELSE <<[here EXCEPT !.off = LZ4_readLE16(b, after - 1), !.len = len.n + MINMATCH]>> \o rest

\* One sequence after a text.
Apply(text, s) ==
  LET t == text \o s.lit
  IN  t \o [k \in 1 .. s.len |-> IF s.off \in 1 .. Len(t)
                                  THEN t[Len(t) - s.off + 1 + ((k - 1) % s.off)] ELSE 0]

Meaning(b, hist) ==
  LET all == FoldLeft(Apply, hist, Parse(b, 1)) IN SubSeq(all, Len(hist) + 1, Len(all))

-----------------------------------------------------------------------------
TypeOK == /\ DOMAIN m = Memory /\ \A a \in Memory : m[a] \in 0 .. BYTE
          /\ chain \in {"none", "open", "broken"}
          /\ blocks \in 0 .. MaxBlocks
          /\ enc.off >= 0 /\ (chain = "open" => enc.off <= MaxOffset)
          /\ dec.size >= 0

\* What was compressed comes out again, of every decoding function, wherever
\* the two sides put their buffers, alone and along a chain: the history a
\* match was found in is the one it is copied from.  (LZ4_compress_generic,
\* LZ4_compress_fast_continue, LZ4_saveDict, LZ4_decompress_safe_continue)
RoundTrip ==
  got.kind \notin {"none", "damaged", "part"} =>
    /\ got.result = IF got.kind \in {"fast", "fastDict"} THEN Len(got.b) ELSE Len(got.want)
    /\ SubSeq(got.out, 1, Len(got.want)) = got.want

\* A block stays inside its destination, the copies of literals and lengths by
\* words with it, and they read nothing behind the source; and a destination
\* of LZ4_compressBound is always enough.  (the checks against olimit)
Fits ==
  wire.kind \notin {"none", "damaged"} =>
    /\ wire.wr <= wire.cap /\ Len(wire.b) <= wire.cap /\ ~wire.over
    /\ wire.cap >= LZ4_compressBound(wire.n) => wire.b # <<>>

\* The encoder compares with its history only: an entry left in the table by
\* an earlier call is never followed out of the buffers.  (prefixIdxLimit,
\* LZ4_prepareTable, the gap of 64 KB, LZ4_renormDictT)
SearchStaysInside == wire.kind \notin {"none", "damaged"} => wire.inside

\* The rules decoders count on: the last five bytes are literals, and the last
\* match starts at least twelve bytes before the end.
EndOfBlock ==
  wire.kind \notin {"none", "damaged"} /\ wire.b # <<>> =>
    LET p == Parse(wire.b, 1)
        n == Len(p)
    IN  /\ p # <<>>
        /\ n > 1 => /\ Len(p[n].lit) >= LASTLITERALS
                    /\ p[n - 1].len + Len(p[n].lit) >= MFLIMIT

\* Whatever a block says, decoding it writes to its destination only; and a
\* checked decoding reads no byte behind the block, copies matches from the
\* history and the output only, and what it accepts is what the format says the
\* block stands for.  (LZ4_decompress_generic)
DecodesTheFormat ==
  /\ got # Empty => got.spilt = {}
  /\ got.kind \notin {"none", "fast", "fastDict"} =>
       /\ ~got.over /\ got.inside
       /\ got.result >= 0 /\ got.kind # "part" /\ got.kind # "partial" =>
            SubSeq(got.out, 1, got.result) = Meaning(got.b, got.hist)
=============================================================================
