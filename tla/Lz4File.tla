------------------------------- MODULE Lz4File -------------------------------
(***************************************************************************)
(* lz4file.c: a frame written to and read from a stdio file.  The file is  *)
(* the bytes on it; a writer is a record [c, max, cap, err], a reader      *)
(* [d, buf, max, pos]: buf is what srcBuf holds beyond srcBufNext, pos how *)
(* far the file was read.                                                  *)
(***************************************************************************)
EXTENDS Lz4FrameWriter, Lz4FrameDecompress

\* prefs is NULL when given says so: bounds are then those of the worst case.
LZ4F_writeOpen(m, prefs, given) ==
  LET max == LZ4F_getBlockSize(prefs.sizeID)
  IN  LZ4F_compressBegin(LZ4F_createCompressionContext, m,
                         IF given THEN prefs ELSE LZ4F_INIT_PREFERENCES, <<>>, maxFHSize)
      @@ [max |-> max, cap |-> LZ4F_compressBound(max, IF given THEN prefs ELSE WorstCase)]

\* Pieces of a block at most, each written out at once.
RECURSIVE LZ4F_write(_, _, _, _, _)
LZ4F_write(w, z, src, n, done) ==
  LET chunk == Min({n - done, w.max})
      Go(y) == IF y.res # "ok" THEN y
               ELSE LZ4F_write(w, [y EXCEPT !.out = z.out \o @, !.inside = @ /\ z.inside],
                               src, n, done + chunk)
  IN  IF done >= n THEN z
      ELSE Go(LZ4F_compressUpdate(z.c, z.m, src + done, chunk, w.cap, FALSE))

LZ4F_writeClose(w, m) == LZ4F_compressEnd(w.c, m, w.cap)

-----------------------------------------------------------------------------
\* The buffer is as large as a block; beside it the bytes the header's read
\* brought along have room, which scaled blocks would not give them.
SrcBufMax(id) == LZ4F_getBlockSize(id) + (maxFHSize - minFHSize)

\* The first read takes as many bytes as the longest header has: a file that
\* is shorter is refused, whatever frame it holds.
LZ4F_readOpen(file, m) ==
  LET Failed(e) == [d |-> LZ4F_createDecompressionContext, buf |-> <<>>, max |-> 0, pos |-> 0,
                    err |-> e]
      Go(h) == IF h.err # "none" THEN Failed(h.err)
               ELSE [d |-> h.d, buf |-> SubSeq(file, h.n + 1, maxFHSize), pos |-> maxFHSize,
                     max |-> SrcBufMax(h.d.info.sizeID), err |-> "none"]
  IN  IF Len(file) < maxFHSize THEN Failed("GENERIC")
      ELSE Go(LZ4F_getFrameInfo(LZ4F_createDecompressionContext, m, SubSeq(file, 1, maxFHSize)))

\* Until size bytes are there or the file ends; y holds the reader f, memory,
\* how many bytes there are (next) and the error.
RECURSIVE LZ4F_read(_, _, _, _)
LZ4F_read(file, y, at, size) ==
  LET f == y.f
      fresh == SubSeq(file, f.pos + 1, Min({f.pos + f.max, Len(file)}))
      g == IF f.buf = <<>> THEN [f EXCEPT !.buf = fresh, !.pos = @ + Len(fresh)] ELSE f
      Go(x) == IF x.go # "stop" THEN [y EXCEPT !.err = x.go]
               ELSE LZ4F_read(file,
                      [f |-> [g EXCEPT !.d = x.d, !.buf = SubSeq(@, x.i + 1, Len(@))], m |-> x.m,
                       next |-> x.o - at, err |-> "none", inside |-> y.inside /\ x.inside], at, size)
  IN  IF y.next >= size \/ g.buf = <<>> THEN y
      ELSE Go(LZ4F_decompress(f.d, y.m, [src |-> g.buf, dst |-> at + y.next, end |-> at + size,
                                         stableDst |-> FALSE]))
=============================================================================
