---------------------------- MODULE Lz4HcOptimal ----------------------------
(***************************************************************************)
(* LZ4HC_compress_optimal.  From a first match on, opt[p] says how the     *)
(* position p behind it is best reached: the price, and the last step, a   *)
(* match (mlen, off) or a literal (mlen = 1), after litlen literals.  The  *)
(* parsing in hand is a record o: ip, llen, opt, last (last_match_pos) and *)
(* cur.                                                                    *)
(***************************************************************************)
EXTENDS Lz4Hc

Over(n, mask) == IF n >= mask THEN 1 + ((n - mask) \div BYTE) ELSE 0
LZ4HC_literalsPrice(litlen) == litlen + Over(litlen, RUN_MASK)
LZ4HC_sequencePrice(litlen, mlen) ==
  1 + 2 + LZ4HC_literalsPrice(litlen) + Over(mlen, ML_MASK + MINMATCH)

Cell(price, off, mlen, litlen) == [price |-> price, off |-> off, mlen |-> mlen, litlen |-> litlen]
Literal(price, litlen) == Cell(price, 0, 1, litlen)

\* A match longer than minLen, or one of length 0; where speed of decoding is
\* favored, it is cut to the length of the decoder's shortcut.
LZ4HC_FindLongerMatch(e, c, ip, minLen) ==
  LET Go(r) == [h |-> r.h, off |-> r.off, inside |-> r.inside,
                len |-> IF r.longest <= minLen THEN 0
                        ELSE IF c.h.favor /\ r.longest \in 19 .. 36 THEN 18 ELSE r.longest]
  IN  Go(LZ4HC_InsertAndGetWiderMatch(e.m, c.h, ip, ip, matchlimit(e), minLen, e.attempts,
                                      TRUE, TRUE, e.dd = "usingDictCtx", c.h.favor))

\* The three positions behind the last match, reached by literals.
Trailing(opt, last) ==
  [p \in DOMAIN opt |-> IF p \in last + 1 .. last + TRAILING_LITERALS
                        THEN Literal(opt[last].price + LZ4HC_literalsPrice(p - last), p - last)
                        ELSE opt[p]]

\* The prices behind a first match.
Setup(llen, mt) ==
  LET opt == [p \in 0 .. LZ4_OPT_NUM + TRAILING_LITERALS - 1 |->
                IF p \in MINMATCH .. mt.len
                THEN Cell(LZ4HC_sequencePrice(llen, p), mt.off, p, llen)
                ELSE Literal(LZ4HC_literalsPrice(llen + p), llen + p)]
  IN  Trailing(opt, mt.len)

\* A literal run from cur, then a match at cur, wherever they cost less.
BetterLiterals(opt, cur) ==
  LET ll == opt[cur].litlen
      price(p) == opt[cur].price - LZ4HC_literalsPrice(ll) + LZ4HC_literalsPrice(ll + p - cur)
  IN  [p \in DOMAIN opt |-> IF p \in cur + 1 .. cur + MINMATCH - 1 /\ price(p) < opt[p].price
                            THEN Literal(price(p), ll + p - cur) ELSE opt[p]]

BetterMatch(favor, opt, last, cur, mt) ==
  LET ll == IF opt[cur].mlen = 1 THEN opt[cur].litlen ELSE 0
      before == IF opt[cur].mlen # 1 THEN opt[cur].price
                ELSE IF cur > ll THEN opt[cur - ll].price ELSE 0
      price(p) == before + LZ4HC_sequencePrice(ll, p - cur)
      better(p) == p > last + TRAILING_LITERALS
                   \/ price(p) <= opt[p].price - (IF favor THEN 1 ELSE 0)
  IN  [opt |-> [p \in DOMAIN opt |-> IF p \in cur + MINMATCH .. cur + mt.len /\ better(p)
                                     THEN Cell(price(p), mt.off, p - cur, ll) ELSE opt[p]],
       last |-> IF better(cur + mt.len) THEN Max({last, cur + mt.len}) ELSE last]

\* No search where the next position costs no more.
NotUseful(e, o) ==
  /\ o.opt[o.cur + 1].price <= o.opt[o.cur].price
  /\ e.ultra => o.opt[o.cur + MINMATCH].price < o.opt[o.cur].price + 3

\* The result names the last step: at cur, a match of len at off.
Chosen(o) == LET b == o.opt[o.last] IN [o EXCEPT !.cur = o.last - b.mlen, !.len = b.mlen, !.off = b.off]

RECURSIVE FurtherPositions(_, _, _)
FurtherPositions(e, c, o) ==
  LET ip == o.ip + o.cur
      Again(d, p) == FurtherPositions(e, d, [p EXCEPT !.cur = @ + 1])
      Improve(b) == [o EXCEPT !.opt = Trailing(b.opt, b.last), !.last = b.last]
      Use(mt) ==
        LET d == Found(c, mt)
        IN  IF mt.len = 0 THEN Again(d, o)
            ELSE IF mt.len > e.target \/ mt.len + o.cur >= LZ4_OPT_NUM
            THEN <<d, [o EXCEPT !.last = o.cur + 1, !.len = mt.len, !.off = mt.off]>>
            ELSE Again(d, Improve(BetterMatch(c.h.favor, BetterLiterals(o.opt, o.cur), o.last,
                                              o.cur, mt)))
  IN  IF o.cur >= o.last \/ ip > mflimit(e) THEN <<c, Chosen(o)>>
      ELSE IF NotUseful(e, o) THEN Again(c, o)
      ELSE Use(LZ4HC_FindLongerMatch(e, c, ip, IF e.ultra THEN MINMATCH - 1 ELSE o.last - o.cur))

\* From the last step back to the start, each step is put where it begins.
RECURSIVE ReverseTraversal(_, _, _, _)
ReverseTraversal(opt, at, len, off) ==
  LET new == [opt EXCEPT ![at].mlen = len, ![at].off = off]
  IN  IF opt[at].mlen > at THEN new
      ELSE ReverseTraversal(new, at - opt[at].mlen, opt[at].mlen, opt[at].off)

RECURSIVE EncodeAll(_, _, _, _, _)
EncodeAll(e, c, opt, last, p) ==
  LET mt == [start |-> c.ip, off |-> opt[p].off, len |-> opt[p].mlen]
      Go(d) == IF d.pc = "overflow" THEN d ELSE EncodeAll(e, d, opt, last, p + mt.len)
  IN  IF p >= last THEN c
      ELSE IF mt.len = 1 THEN EncodeAll(e, [c EXCEPT !.ip = @ + 1], opt, last, p + 1)
      ELSE Go(LZ4HC_encodeSequence(e, c, mt, Limited(e)))

\* One round of the main loop: a first match, and what follows from it.
Round(e, c) ==
  LET Encode(r) == EncodeAll(e, r[1], ReverseTraversal(r[2].opt, r[2].cur, r[2].len, r[2].off),
                             r[2].last, 0)
      Use(d, mt) ==
        IF mt.len = 0 THEN [d EXCEPT !.ip = @ + 1]
        ELSE IF mt.len > e.target
        THEN LZ4HC_encodeSequence(e, d, [start |-> d.ip, off |-> mt.off, len |-> mt.len], Limited(e))
        ELSE Encode(FurtherPositions(e, d, [ip |-> d.ip, opt |-> Setup(d.ip - d.anchor, mt),
                                            last |-> mt.len, cur |-> 1, len |-> 0, off |-> 0]))
      Start(mt) == Use(Found(c, mt), mt)
  IN  IF c.ip > mflimit(e) THEN [c EXCEPT !.pc = "last"]
      ELSE Start(LZ4HC_FindLongerMatch(e, c, c.ip, MINMATCH - 1))

RECURSIVE LZ4HC_compress_optimal(_, _)
LZ4HC_compress_optimal(e, c) ==
  CASE c.pc = "main"     -> LZ4HC_compress_optimal(e, Round(e, c))
    [] c.pc = "overflow" -> LZ4HC_compress_optimal(e, HcOverflow(e, c))
    [] c.pc = "last"     -> LZ4HC_compress_optimal(e, HcLastLiterals(e, c))
    [] OTHER             -> c
=============================================================================
