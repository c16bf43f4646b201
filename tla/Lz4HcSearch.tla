----------------------------- MODULE Lz4HcSearch -----------------------------
(***************************************************************************)
(* The match finder of lz4hc.c.  A context (LZ4HC_CCtx_internal) is a      *)
(* record h:                                                               *)
(*   hash, chain       hashTable, and chainTable by index modulo 64 KB     *)
(*   base, end, dictBase, dictLimit, lowLimit, next                        *)
(*                     the prefix from base + dictLimit to end, before it  *)
(*                     an external dictionary at dictBase + lowLimit, and  *)
(*                     nextToUpdate                                        *)
(*   dctx              dictCtx, a context or NoCtx                         *)
(*   level, favor, dirty                                                   *)
(* A search is described by a record q, which does not change, and a       *)
(* record w: the best match so far (longest, off, start) and where the     *)
(* search has come to (index, left, pos, repeat).  A match is where it     *)
(* starts and how far back it copies from: the pointer the code carries is *)
(* the difference.                                                         *)
(***************************************************************************)
EXTENDS Lz4Encoder

LZ4HC_hashPtr(m, p) == HashOf(m, p, 4, HASHSIZE)

\* Positions up to the address ip, excluded, join the chains.
RECURSIVE InsertUpTo(_, _, _)
InsertUpTo(m, h, idx) ==
  IF h.next >= idx THEN [h EXCEPT !.next = idx]
  ELSE LET k == LZ4HC_hashPtr(m, h.base + h.next)
       IN  InsertUpTo(m, [h EXCEPT !.chain[h.next % KB64] = Min({h.next - h.hash[k],
                                                                  LZ4_DISTANCE_MAX}),
                                   !.hash[k] = h.next,
                                   !.next = @ + 1], idx)
LZ4HC_Insert(m, h, ip) == InsertUpTo(m, h, ip - h.base)

\* Common bytes before ip and match.
LZ4HC_countBack(m, ip, match, iMin, mMin) ==
  Max({k \in 0 .. Min({ip - iMin, match - mMin}) :
         \A j \in 1 .. k : m[ip - j] = m[match - j]})

\* Repetitions of one byte from ip up to end, and before ip down to low.  The
\* pattern the code counts is one byte four times, however it is rotated.
LZ4HC_countPattern(m, ip, end, byte) ==
  Max({k \in 0 .. Max({end - ip, 0}) : \A j \in 0 .. k - 1 : m[ip + j] = byte})
LZ4HC_reverseCountPattern(m, ip, low, byte) ==
  Max({k \in 0 .. ip - low : \A j \in 1 .. k : m[ip - j] = byte})

\* Not in the last three bytes of the dictionary (the difference is unsigned).
LZ4HC_protectDictEnd(dictLimit, index) == dictLimit - 1 - index >= 3 \/ index >= dictLimit

-----------------------------------------------------------------------------
ipIndex(q) == q.ip - q.h.base
lowPrefix(q) == q.h.base + q.h.dictLimit
lowestMatchIndex(q) ==
  IF q.h.lowLimit + LZ4_DISTANCE_MAX + 1 > ipIndex(q) THEN q.h.lowLimit
  ELSE ipIndex(q) - LZ4_DISTANCE_MAX
lookBack(q) == q.ip - q.low

\* A match of length ml is kept if it is longer than the best.
Keep(q, w, ml, back, index) ==
  IF ml + back > w.longest
  THEN [w EXCEPT !.longest = ml + back, !.off = ipIndex(q) - index, !.start = q.ip - back,
                 !.ml = ml + back]
  ELSE [w EXCEPT !.ml = ml + back]

Back(q, match, low) ==
  IF lookBack(q) = 0 THEN 0 ELSE LZ4HC_countBack(q.m, q.ip, match, q.low, low)

\* A candidate in the prefix; two bytes at the end of the best match are
\* compared first.
InPrefix(q, w) ==
  LET match == q.h.base + w.index
      tail == q.low + w.longest - 1
  IN  IF /\ \A k \in {0, 1} : q.m[tail + k] = q.m[tail - (q.ip - match) + k]
         /\ SameWord(q.m, match, q.ip)
      THEN Keep(q, w, MINMATCH + LZ4_count(q.m, q.ip + MINMATCH, match + MINMATCH, q.high),
                Back(q, match, lowPrefix(q)), w.index)
      ELSE w

\* A candidate in the external dictionary may go on in the prefix.
InDict(q, w) ==
  LET match == q.h.dictBase + w.index
      vLimit == Min({q.ip + (q.h.dictLimit - w.index), q.high})
      GoOn(ml) == IF q.ip + ml = vLimit /\ vLimit < q.high
                  THEN ml + LZ4_count(q.m, q.ip + ml, lowPrefix(q), q.high) ELSE ml
  IN  IF w.index <= q.h.dictLimit - 4 /\ SameWord(q.m, match, q.ip)
      THEN Keep(q, w, GoOn(MINMATCH + LZ4_count(q.m, q.ip + MINMATCH, match + MINMATCH, vLimit)),
                Back(q, match, q.h.dictBase + q.h.lowLimit), w.index)
      ELSE w

Test(q, w0) ==
  LET w == [w0 EXCEPT !.ml = 0, !.left = @ - 1,
                      !.inside = @ /\ w0.index \in q.h.lowLimit .. ipIndex(q) - 1]
  IN  CASE q.favor /\ ipIndex(q) - w.index < 8 -> w
        [] w.index >= q.h.dictLimit            -> InPrefix(q, w)
        [] OTHER                               -> InDict(q, w)

-----------------------------------------------------------------------------
(* Where to look next: down the chain of the candidate, of another byte of *)
(* the match, or past a run of one byte.                                   *)

Delta(q, index) == q.h.chain[index % KB64]

\* The byte of the match whose chain goes farthest; bytes are tried at steps
\* that grow.
RECURSIVE Farthest(_, _, _, _, _, _)
Farthest(q, w, pos, accel, dist, at) ==
  LET d == Delta(q, w.index + pos)
      better == d > dist
  IN  IF pos >= w.longest - MINMATCH + 1 THEN [dist |-> dist, at |-> at]
      ELSE Farthest(q, w, pos + (accel \div 16), IF better THEN 16 ELSE accel + 1,
                    IF better THEN d ELSE dist, IF better THEN pos ELSE at)

ChainSwap(q, w) ==
  LET Go(f) == IF f.dist > 1
               THEN [w EXCEPT !.pos = f.at, !.go = IF f.dist > w.index THEN "stop" ELSE "on",
                              !.index = IF f.dist > @ THEN @ ELSE @ - f.dist]
               ELSE [w EXCEPT !.pos = f.at]
  IN  IF q.swap /\ w.ml = w.longest /\ w.index + w.longest <= ipIndex(q)
      THEN Go(Farthest(q, w, 0, 16, 1, w.pos)) ELSE w

\* A run of one byte at ip, and a run that ends at the candidate: its length
\* behind the candidate (fwd) and before it.
Run1(q) == \A k \in 1 .. 3 : q.m[q.ip + k] = q.m[q.ip]
SrcPattern(q) == 4 + LZ4HC_countPattern(q.m, q.ip + 4, q.high, q.m[q.ip])

Forward(q, cand) ==
  LET ext == cand < q.h.dictLimit
      p == (IF ext THEN q.h.dictBase ELSE q.h.base) + cand
      end == IF ext THEN q.h.dictBase + q.h.dictLimit ELSE q.high
      GoOn(n) == IF ext /\ p + n = end
                 THEN n + LZ4HC_countPattern(q.m, lowPrefix(q), q.high, q.m[q.ip]) ELSE n
  IN  GoOn(4 + LZ4HC_countPattern(q.m, p + 4, end, q.m[q.ip]))

Backward(q, cand) ==
  LET ext == cand < q.h.dictLimit
      p == (IF ext THEN q.h.dictBase ELSE q.h.base) + cand
      low == IF ext THEN q.h.dictBase + q.h.lowLimit ELSE lowPrefix(q)
      GoOn(n) == IF ~ext /\ p - n = low /\ q.h.lowLimit < q.h.dictLimit
                 THEN n + LZ4HC_reverseCountPattern(q.m, q.h.dictBase + q.h.dictLimit,
                                                    q.h.dictBase + q.h.lowLimit, q.m[q.ip])
                 ELSE n
      n0 == GoOn(LZ4HC_reverseCountPattern(q.m, p, low, q.m[q.ip]))
  IN  cand - Max({cand - n0, lowestMatchIndex(q)})

\* The best place in the run: where all of ip's run fits, or its start.
Jump(q, w, cand, fwd, bwd, src) ==
  LET fits == fwd + bwd >= src /\ fwd <= src
      new == IF fits THEN cand + fwd - src ELSE cand - bwd
      ok == LZ4HC_protectDictEnd(q.h.dictLimit, new)
      at == [w EXCEPT !.index = IF ok THEN new ELSE q.h.dictLimit, !.go = "on"]
      maxML == Min({fwd + bwd, src})
      far == w.longest < maxML /\ ipIndex(q) - new > LZ4_DISTANCE_MAX
      best == IF w.longest < maxML
              THEN [at EXCEPT !.longest = maxML, !.off = ipIndex(q) - new, !.start = q.ip] ELSE at
  IN  IF fits \/ ~ok \/ lookBack(q) # 0 THEN at
      ELSE IF far THEN [at EXCEPT !.go = "stop"]
      ELSE IF Delta(q, new) > new THEN [best EXCEPT !.go = "stop"]
      ELSE [best EXCEPT !.index = new - Delta(q, new)]

PatternAnalysis(q, w) ==
  LET cand == w.index - 1
      p == (IF cand < q.h.dictLimit THEN q.h.dictBase ELSE q.h.base) + cand
  IN  IF /\ w.go = "?" /\ q.pa /\ Delta(q, w.index) = 1 /\ w.pos = 0
         /\ Run1(q) /\ cand >= lowestMatchIndex(q)
         /\ LZ4HC_protectDictEnd(q.h.dictLimit, cand) /\ SameWord(q.m, p, q.ip)
      THEN Jump(q, w, cand, Forward(q, cand), Backward(q, cand), SrcPattern(q))
      ELSE w

Follow(q, w) ==
  IF w.go = "?" THEN [w EXCEPT !.index = @ - Delta(q, @ + w.pos)] ELSE [w EXCEPT !.go = "?"]

RECURSIVE Search(_, _)
Search(q, w) ==
  LET After(v) == IF v.go = "stop" THEN v ELSE Search(q, Follow(q, v))
  IN  IF w.index < lowestMatchIndex(q) \/ w.left = 0 THEN w
      ELSE After(PatternAnalysis(q, ChainSwap(q, Test(q, w))))

\* The attached dictionary's chain, with indexes moved so that it ends where
\* the source starts.
RECURSIVE SearchDict(_, _, _, _)
SearchDict(q, w, index, gap) ==
  LET d == q.h.dctx
      match == d.base + index
      vLimit == Min({q.ip + (d.end - d.base - index), q.high})
      w1 == [w EXCEPT !.inside = @ /\ match \in d.base + d.lowLimit .. d.end - 4]
      found == IF SameWord(q.m, match, q.ip)
               THEN Keep(q, w1, MINMATCH + LZ4_count(q.m, q.ip + MINMATCH, match + MINMATCH, vLimit),
                         Back(q, match, d.base + d.dictLimit), index + gap)
               ELSE w1
  IN  IF ipIndex(q) - (index + gap) > LZ4_DISTANCE_MAX \/ w.left = 0 THEN w
      ELSE SearchDict(q, [found EXCEPT !.left = @ - 1], index - d.chain[index % KB64], gap)

WithDict(q, w) ==
  LET d == q.h.dctx
  IN  IF q.dd /\ w.left > 0 /\ ipIndex(q) - lowestMatchIndex(q) < LZ4_DISTANCE_MAX
      THEN SearchDict(q, w, d.hash[LZ4HC_hashPtr(q.m, q.ip)], lowestMatchIndex(q) - (d.end - d.base))
      ELSE w

\* The longest match that covers ip, starts at low or behind it and is longer
\* than longest: [h, longest, off, start].
LZ4HC_InsertAndGetWiderMatch(m, h0, ip, low, high, longest, attempts, pa, swap, dd, favor) ==
  LET Go(q) == WithDict(q, Search(q, [longest |-> longest, off |-> 0, start |-> ip,
                                      index |-> q.h.hash[LZ4HC_hashPtr(m, ip)],
                                      left |-> attempts, pos |-> 0, ml |-> 0, go |-> "?",
                                      inside |-> TRUE]))
      h1 == LZ4HC_Insert(m, h0, ip)
  IN  [h |-> h1] @@ Go([m |-> m, h |-> h1, ip |-> ip, low |-> low, high |-> high, pa |-> pa,
                        swap |-> swap, dd |-> dd, favor |-> favor])
=============================================================================
