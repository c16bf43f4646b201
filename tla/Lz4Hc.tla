------------------------------- MODULE Lz4Hc -------------------------------
(***************************************************************************)
(* The encoders of lz4hc.c, which look for longer matches than lz4.c's:    *)
(* LZ4HC_compress_hashChain weighs three overlapping matches, and          *)
(* LZ4HC_compress_optimal the prices of all ways to a position; and their  *)
(* streams.  A call is a record e as in Lz4Encoder (m, src, n, cap, out),  *)
(* with attempts, target and dd; its progress a record c with the context  *)
(* h, the matches m0, m1, m2, m3 (start, off, len), and what an overflow   *)
(* needs: saved, the length of op before the last sequence, and cut, that  *)
(* sequence.                                                               *)
(***************************************************************************)
EXTENDS Lz4HcSearch, SequencesExt

CONSTANTS HKB4, HGB1, HGB2,  \* 4 KB, 1 GB and 2 GB
          LZ4_OPT_NUM        \* positions the optimal parser looks ahead

OPTIMAL_ML == ML_MASK - 1 + MINMATCH
TRAILING_LITERALS == 3

mflimit(e) == iend(e) - MFLIMIT
oend(e) == e.cap - (IF e.out = "fillOutput" THEN LASTLITERALS ELSE 0)

-----------------------------------------------------------------------------
(* Sequences and the end of a block.                                       *)

LZ4HC_encodeSequence(e, c, mt, limited) ==
  LET n == mt.start - c.anchor
      op == Len(c.op)
      at == op + Len(RunHead(n))
      rest == mt.len - MINMATCH - ML_MASK
      done == [c EXCEPT !.op = @ \o [RunHead(n) EXCEPT ![1] = @ + Min({mt.len - MINMATCH, ML_MASK})]
                               \o LZ4_read(e.m, c.anchor, n) \o LZ4_writeLE16(mt.off)
                               \o (IF rest >= 0 THEN LengthBytes(rest) ELSE <<>>),
                        !.wr = Max({@, WildEnd(at, at + n, 8)}),
                        !.rd = Max({@, WildEnd(c.anchor, c.anchor + n, 8)}),
                        !.saved = op, !.ip = mt.start + mt.len, !.anchor = mt.start + mt.len]
      full == [c EXCEPT !.pc = "overflow", !.saved = op, !.cut = mt]
  IN  IF /\ limited
         /\ \/ op + 1 + (n \div BYTE) + n + (2 + 1 + LASTLITERALS) > oend(e)
            \/ at + n + 2 + ((mt.len - MINMATCH) \div BYTE) + (1 + LASTLITERALS) > oend(e)
      THEN full ELSE done

Limited(e) == e.out # "notLimited"

\* The last sequence is cut to what fits, if the rest of the block then ends
\* as the format wants it.
CutSequence(e, c) ==
  LET n == c.cut.start - c.anchor
      cost == 1 + ((n + BYTE - RUN_MASK) \div BYTE) + n
      room == oend(e) - 3 - (c.saved + cost)
      len == Min({c.cut.len, MINMATCH + ML_MASK - 1 + room * BYTE})
      d == [c EXCEPT !.op = SubSeq(@, 1, c.saved)]
  IN  IF room >= 0 /\ oend(e) + LASTLITERALS - (c.saved + cost + 2) - 1 + len >= MFLIMIT
      THEN LZ4HC_encodeSequence(e, d, [c.cut EXCEPT !.len = len], FALSE) ELSE d

HcOverflow(e, c) ==
  IF e.out = "fillOutput" THEN [CutSequence(e, c) EXCEPT !.pc = "last"]
  ELSE [c EXCEPT !.pc = "full"]

HcLastLiterals(e, c) == LastLiterals(e, c)

-----------------------------------------------------------------------------
(* LZ4HC_compress_hashChain                                                *)

Match(r) == [start |-> r.start, off |-> r.off, len |-> r.longest]
Wider(e, c, ip, low, longest) ==
  LZ4HC_InsertAndGetWiderMatch(e.m, c.h, ip, low, matchlimit(e), longest, e.attempts,
                               e.attempts > 128, FALSE, e.dd = "usingDictCtx", FALSE)
Found(c, r) == [c EXCEPT !.h = r.h, !.inside = @ /\ r.inside]

\* From ip, one by one, until there is a match.
FirstMatch(e, c) ==
  LET Go(r) == IF r.longest < MINMATCH THEN [Found(c, r) EXCEPT !.ip = @ + 1]
               ELSE [Found(c, r) EXCEPT !.pc = "search2", !.m1 = Match(r), !.m0 = Match(r)]
  IN  IF c.ip > mflimit(e) THEN [c EXCEPT !.pc = "last"]
      ELSE Go(Wider(e, c, c.ip, c.ip, MINMATCH - 1))

\* A second match that starts before the first one ends and is longer.
Second(e, c, m2) ==
  LET m1 == IF c.m0.start < c.m1.start /\ m2.start < c.m1.start + c.m0.len THEN c.m0 ELSE c.m1
  IN  IF m2.len = c.m1.len THEN [LZ4HC_encodeSequence(e, [c EXCEPT !.pc = "main"], c.m1, Limited(e))
                                 EXCEPT !.m2 = m2]
      ELSE IF m2.start - m1.start < 3 THEN [c EXCEPT !.m1 = m2, !.m2 = m2]
      ELSE [c EXCEPT !.m1 = m1, !.m2 = m2, !.pc = "search3"]

Search2(e, c) ==
  LET Go(r) == Second(e, Found(c, r), Match(r))
      end == c.m1.start + c.m1.len
  IN  IF end <= mflimit(e) THEN Go(Wider(e, c, end - 2, c.m1.start, c.m1.len))
      ELSE Second(e, c, c.m1)

\* What the first match leaves of the second when it takes up to the longest
\* length that needs no byte of its own.
NewMl(m1, m2) == Min({m1.len, OPTIMAL_ML, m2.start - m1.start + m2.len - MINMATCH})
Later(mt, n) == [start |-> mt.start + n, off |-> mt.off, len |-> mt.len - n]
Corrected(m1, m2) ==
  LET n == NewMl(m1, m2) - (m2.start - m1.start)
  IN  IF m2.start - m1.start < OPTIMAL_ML /\ n > 0 THEN Later(m2, n) ELSE m2

\* No longer third match: both are written.
WriteBoth(e, c) ==
  LET m1 == IF c.m2.start < c.m1.start + c.m1.len
            THEN [c.m1 EXCEPT !.len = c.m2.start - c.m1.start] ELSE c.m1
      Go(d) == IF d.pc = "overflow" THEN d ELSE LZ4HC_encodeSequence(e, d, c.m2, Limited(e))
  IN  Go(LZ4HC_encodeSequence(e, [c EXCEPT !.pc = "main"], m1, Limited(e)))

\* No room for the second: it is dropped, and where the third starts behind
\* the first, that is written.
DropSecond(e, c, m3) ==
  LET n == c.m1.start + c.m1.len - c.m2.start
      m2 == IF n <= 0 THEN c.m2 ELSE IF c.m2.len - n < MINMATCH THEN m3 ELSE Later(c.m2, n)
  IN  IF m3.start >= c.m1.start + c.m1.len
      THEN LZ4HC_encodeSequence(e, [c EXCEPT !.pc = "search2", !.m1 = m3, !.m0 = m2],
                                c.m1, Limited(e))
      ELSE [c EXCEPT !.m2 = m3]

\* Three matches: the first is written, up to the second.
WriteFirst(e, c, m3) ==
  LET far == c.m2.start - c.m1.start >= OPTIMAL_ML
      m2 == Corrected(c.m1, c.m2)
      m1 == [c.m1 EXCEPT !.len = IF far THEN c.m2.start - c.m1.start ELSE NewMl(c.m1, c.m2)]
      over == c.m2.start < c.m1.start + c.m1.len
  IN  LZ4HC_encodeSequence(e, [c EXCEPT !.m1 = IF over THEN m2 ELSE c.m2, !.m2 = m3],
                           IF over THEN m1 ELSE c.m1, Limited(e))

Third(e, c, m3) ==
  IF m3.len = c.m2.len THEN WriteBoth(e, c)
  ELSE IF m3.start < c.m1.start + c.m1.len + 3 THEN DropSecond(e, c, m3)
  ELSE WriteFirst(e, c, m3)

Search3(e, c0) ==
  LET Go(c) == LET end == c.m2.start + c.m2.len
                   Then(r) == Third(e, Found(c, r), Match(r))
               IN  IF end <= mflimit(e) THEN Then(Wider(e, c, end - 3, c.m2.start, c.m2.len))
                   ELSE Third(e, c, c.m2)
  IN  Go([c0 EXCEPT !.m2 = Corrected(c0.m1, c0.m2)])

RECURSIVE LZ4HC_compress_hashChain(_, _)
LZ4HC_compress_hashChain(e, c) ==
  CASE c.pc = "main"     -> LZ4HC_compress_hashChain(e, FirstMatch(e, c))
    [] c.pc = "search2"  -> LZ4HC_compress_hashChain(e, Search2(e, c))
    [] c.pc = "search3"  -> LZ4HC_compress_hashChain(e, Search3(e, c))
    [] c.pc = "overflow" -> LZ4HC_compress_hashChain(e, HcOverflow(e, c))
    [] c.pc = "last"     -> LZ4HC_compress_hashChain(e, HcLastLiterals(e, c))
    [] OTHER             -> c
=============================================================================
