----------------------------- MODULE Lz4Decoder -----------------------------
(***************************************************************************)
(* LZ4_decompress_generic of lz4.c.  A call is described by a record x:    *)
(*   b              the block, a sequence of bytes                         *)
(*   dst, cap       the destination and its size                           *)
(*   safe, partial  endOnInput, partialDecoding                            *)
(*   mode           dict: noDict, withPrefix64k or usingExtDict            *)
(*   low            lowPrefix                                              *)
(*   dict, dictSize dictStart and dictSize                                 *)
(* and how far it has come by a record d: what is to be done next (pc),    *)
(* the pointers ip (from the start of the block) and op, memory, the       *)
(* sequence in hand, how far the block was read (rd), and how far before   *)
(* its history a match was looked for at most (before).                    *)
(***************************************************************************)
EXTENDS Lz4Base

CONSTANTS FastLoop   \* LZ4_FAST_DEC_LOOP

iendOf(x) == Len(x.b)
oendOf(x) == x.dst + x.cap
dictEndOf(x) == x.dict + x.dictSize

\* An offset of two bytes cannot leave a history of a whole window.
checkOffset(x) == x.safe /\ x.dictSize < KB64
\* Mutant of OutsideBuffers: offsets are believed.
NeverOutside(x, d) == FALSE

OutsideBuffers(x, d) == checkOffset(x) /\ d.op - d.offset + x.dictSize < x.low

\* A byte of the block; what lies behind it is some byte.
In(x, i) == IF i \in 0 .. Len(x.b) - 1 THEN x.b[i + 1] ELSE 0

CopyIn(x, d, n) ==
  [d EXCEPT !.m = [a \in DOMAIN @ |-> IF a \in d.op .. d.op + n - 1
                                      THEN In(x, d.ip + a - d.op) ELSE @[a]],
            !.rd = Max({@, d.ip + n})]

\* A length goes on while its bytes are full; loop_check and initial_check say
\* whether the end of the block is watched.
read_variable_length(x, ip, lencheck, sum, initial) ==
  LET stop == Min({k \in ip .. Max({ip, iendOf(x)}) :
                     In(x, k) # BYTE \/ (x.safe /\ k + 1 >= lencheck)})
  IN  IF initial /\ ip >= lencheck THEN [length |-> sum, ip |-> ip, error |-> "initial_error"]
      ELSE [length |-> sum + BYTE * (stop - ip) + In(x, stop), ip |-> stop + 1,
            error |-> IF x.safe /\ stop + 1 >= lencheck THEN "loop_error" ELSE "ok"]

Fail(d) == [d EXCEPT !.pc = "error"]

\* Mutant of Token: the byte is looked at and not taken.
TokenPeeks(x, d) == LET t == In(x, d.ip)
                    IN  [d EXCEPT !.token = t, !.length = t \div (ML_MASK + 1), !.rd = Max({@, d.ip + 1})]

\* The token of the next sequence, and its literal length if that is a long one.
Token(x, d) ==
  LET t == In(x, d.ip)
      short == t \div (ML_MASK + 1)
      r == read_variable_length(x, d.ip + 1, iendOf(x) - RUN_MASK, RUN_MASK, x.safe)
      d1 == [d EXCEPT !.token = t, !.length = short, !.ip = @ + 1, !.rd = Max({@, d.ip + 1})]
  IN  IF short # RUN_MASK THEN d1
      ELSE IF r.error = "initial_error" THEN Fail(d1)
      ELSE [d1 EXCEPT !.length = r.length, !.ip = r.ip, !.rd = Max({@, r.ip})]

Offset(x, d) == [d EXCEPT !.offset = LZ4_readLE16(<<In(x, d.ip), In(x, d.ip + 1)>>, 0),
                          !.ip = @ + 2, !.length = d.token % (ML_MASK + 1),
                          !.rd = Max({@, d.ip + 2})]

MatchLength(x, d) ==
  LET r == read_variable_length(x, d.ip, iendOf(x) - LASTLITERALS + 1, ML_MASK, FALSE)
  IN  IF d.length # ML_MASK THEN [d EXCEPT !.length = @ + MINMATCH]
      ELSE IF r.error # "ok" THEN [Fail(d) EXCEPT !.ip = r.ip, !.rd = Max({@, r.ip})]
      ELSE [d EXCEPT !.length = r.length + MINMATCH, !.ip = r.ip, !.rd = Max({@, r.ip})]

Advance(d, n) == [d EXCEPT !.ip = @ + n, !.op = @ + n]

-----------------------------------------------------------------------------
(* Copying a match.                                                        *)

\* The history before the output: 64 KB need not be there whole, a match is
\* never farther back than LZ4_DISTANCE_MAX.
HistoryOf(x) == IF x.mode = "withPrefix64k" THEN x.dst - LZ4_DISTANCE_MAX ELSE x.low

Before(x, d, match) == Max({d.before, HistoryOf(x) - match})

\* A match that starts in the external dictionary may go on in the output.
ExtMatch(x, d) ==
  LET oend == oendOf(x)
      match == d.op - d.offset
      back == x.low - match
      length == IF d.op + d.length > oend - LASTLITERALS
                THEN Min({d.length, oend - d.op}) ELSE d.length
      first == Min({length, back})
      m1 == Copy(d.m, d.op, dictEndOf(x) - back, first)
      rest == length - first
      m2 == WildCopy(m1, d.op + first, x.low, d.op + length, 1)
  IN  IF d.op + d.length > oend - LASTLITERALS /\ ~x.partial THEN Fail(d)
      ELSE [d EXCEPT !.m = IF rest > 0 THEN m2 ELSE m1, !.op = @ + length,
                     !.before = Max({@, back - x.dictSize})]

\* Eight bytes, then eight at a time; near the end of the output up to where
\* eight fit, and the rest one by one.
BlockMatch(x, d) ==
  LET match == d.op - d.offset
      cpy == d.op + d.length
      oend == oendOf(x)
      near == IF d.offset < 8 THEN CopyNear(d.m, d.op, match, d.offset)
              ELSE [m |-> Copy(d.m, d.op, match, 8), s |-> match + 8]
      op == d.op + 8
      oCopyLimit == oend - (WILDCOPYLENGTH - 1)
      m1 == IF op < oCopyLimit THEN LZ4_wildCopy8(near.m, op, near.s, oCopyLimit) ELSE near.m
      at == Max({op, oCopyLimit})
      m2 == IF at < cpy THEN WildCopy(m1, at, near.s + (at - op), cpy, 1) ELSE m1
      m3 == Copy(near.m, op, near.s, 8)
      m4 == IF d.length > 16 THEN LZ4_wildCopy8(m3, op + 8, near.s + 8, cpy) ELSE m3
      done == [d EXCEPT !.op = cpy, !.before = Before(x, d, match)]
  IN  IF cpy > oend - MATCH_SAFEGUARD_DISTANCE
      THEN IF cpy > oend - LASTLITERALS THEN [Fail(d) EXCEPT !.m = near.m]
           ELSE [done EXCEPT !.m = m2]
      ELSE [done EXCEPT !.m = m4]

\* The output ends within the block: as much of the match as fits.
PartialMatch(x, d) ==
  LET mlen == Min({d.length, oendOf(x) - d.op})
      m == IF mlen > 0 THEN WildCopy(d.m, d.op, d.op - d.offset, d.op + mlen, 1) ELSE d.m
  IN  [d EXCEPT !.m = m, !.op = @ + mlen, !.before = Before(x, d, d.op - d.offset),
                !.pc = IF d.op + mlen = oendOf(x) THEN "end" ELSE "safe"]

\* safe_match_copy
MatchCopy(x, d) ==
  LET s == [d EXCEPT !.pc = "safe"]
  IN  IF OutsideBuffers(x, d) THEN Fail(d)
      ELSE IF x.mode = "usingExtDict" /\ d.op - d.offset < x.low THEN ExtMatch(x, s)
      ELSE IF x.partial /\ d.op + d.length > oendOf(x) - MATCH_SAFEGUARD_DISTANCE
      THEN PartialMatch(x, d)
      ELSE BlockMatch(x, s)

-----------------------------------------------------------------------------
(* The fast loop: the output has room for a wild copy after any sequence.  *)

FastLiterals(x, d) ==
  LET far == d.op + d.length > oendOf(x) - 32 \/ d.ip + d.length > iendOf(x) - 32
      long == IF far THEN [d EXCEPT !.pc = "literal"]
              ELSE Advance(CopyIn(x, d, WildEnd(0, d.length, 32)), d.length)
      short == IF d.ip > iendOf(x) - (16 + 1) THEN [d EXCEPT !.pc = "literal"]
               ELSE Advance(CopyIn(x, d, 16), d.length)
      fast == IF d.length >= RUN_MASK /\ d.op + d.length > oendOf(x) - 8
              THEN [d EXCEPT !.pc = "literal"]
              ELSE Advance(CopyIn(x, d, WildEnd(0, d.length, 8)), d.length)
  IN  IF ~x.safe THEN fast ELSE IF d.length >= RUN_MASK THEN long ELSE short

FastMatch(x, d) ==
  LET match == d.op - d.offset
      cpy == d.op + d.length
      stripe == Copy(Copy(Copy(d.m, d.op, match, 8), d.op + 8, match + 8, 8),
                     d.op + 16, match + 16, 2)
      whole == IF d.offset < 16 THEN LZ4_memcpy_using_offset(d.m, d.op, match, cpy, d.offset)
               ELSE LZ4_wildCopy32(d.m, d.op, match, cpy)
      done == [d EXCEPT !.op = cpy, !.before = Before(x, d, match)]
  IN  IF cpy >= oendOf(x) - FASTLOOP_SAFE_DISTANCE THEN [d EXCEPT !.pc = "match"]
      ELSE IF d.token % (ML_MASK + 1) # ML_MASK /\ d.offset >= 8
              /\ (x.mode = "withPrefix64k" \/ match >= x.low)
      THEN [done EXCEPT !.m = stripe]
      ELSE IF OutsideBuffers(x, d) THEN Fail(d)
      ELSE IF x.mode = "usingExtDict" /\ match < x.low THEN ExtMatch(x, d)
      ELSE [done EXCEPT !.m = whole]

FastSequence(x, d) ==
  LET t == Token(x, d)
      l == FastLiterals(x, t)
      o == Offset(x, l)
      n == MatchLength(x, o)
  IN  IF t.pc = "error" THEN t
      ELSE IF l.pc = "literal" THEN l
      ELSE IF o.length = ML_MASK /\ OutsideBuffers(x, o) THEN Fail(o)
      ELSE IF n.pc = "error" THEN n
      ELSE FastMatch(x, n)

-----------------------------------------------------------------------------
(* The safe loop.                                                          *)

\* Mutant of LiteralCopy: the copy by words is not kept off the end of the output.
LiteralCopyWild(x, d) ==
  LET wrong == d.ip + d.length # iendOf(x) \/ d.op + d.length > oendOf(x)
      n == IF x.partial THEN Min({d.length, iendOf(x) - d.ip, oendOf(x) - d.op}) ELSE d.length
      l == Advance(CopyIn(x, d, n), n)
      wild == Advance(CopyIn(x, d, WildEnd(0, d.length, 8)), d.length)
  IN  IF d.op + d.length <= oendOf(x) /\ d.ip + d.length <= iendOf(x) - (2 + 1 + LASTLITERALS)
      THEN [wild EXCEPT !.pc = "offset"]
      ELSE IF ~x.partial /\ wrong THEN Fail(d)
      ELSE [l EXCEPT !.pc = IF ~x.partial \/ l.op = oendOf(x) \/ l.ip >= iendOf(x) - 2
                            THEN "end" ELSE "offset"]

\* safe_literal_copy: at the end of the block or of the output these are the
\* last literals, or with partial decoding as many as there are and fit.
LiteralCopy(x, d) ==
  LET oend == oendOf(x)
      cpy == d.op + d.length
      last == IF x.safe THEN cpy > oend - MFLIMIT
                             \/ d.ip + d.length > iendOf(x) - (2 + 1 + LASTLITERALS)
                        ELSE cpy > oend - WILDCOPYLENGTH
      n == IF x.partial THEN Min({d.length, iendOf(x) - d.ip, oend - d.op}) ELSE d.length
      l == Advance(CopyIn(x, d, n), n)
      wrong == IF x.safe THEN d.ip + d.length # iendOf(x) \/ cpy > oend ELSE cpy # oend
      wild == Advance(CopyIn(x, d, WildEnd(0, d.length, 8)), d.length)
  IN  IF ~last THEN [wild EXCEPT !.pc = "offset"]
      ELSE IF ~x.partial /\ wrong THEN Fail(d)
      ELSE [l EXCEPT !.pc = IF ~x.partial \/ l.op = oend \/ l.ip >= iendOf(x) - 2
                            THEN "end" ELSE "offset"]

\* Short literals and a short match in one go where there is room for both.
Shortcut(x, t) ==
  LET l == Offset(x, Advance(CopyIn(x, t, IF x.safe THEN 16 ELSE 8), t.length))
      match == l.op - l.offset
      copied == Copy(Copy(Copy(l.m, l.op, match, 8), l.op + 8, match + 8, 8),
                     l.op + 16, match + 16, 2)
  IN  IF l.length # ML_MASK /\ l.offset >= 8 /\ (x.mode = "withPrefix64k" \/ match >= x.low)
      THEN [l EXCEPT !.m = copied, !.op = @ + l.length + MINMATCH, !.pc = "safe",
                     !.before = Before(x, l, match)]
      ELSE [l EXCEPT !.pc = "length"]

SafeSequence(x, d) ==
  LET t == Token(x, d)
      maxLL == IF x.safe THEN 14 ELSE 8
      short == t.token \div (ML_MASK + 1)
  IN  IF /\ IF x.safe THEN short # RUN_MASK ELSE short # RUN_MASK /\ short <= 8
         /\ x.safe => t.ip < iendOf(x) - maxLL - 2
         /\ t.op <= oendOf(x) - maxLL - 18
      THEN Shortcut(x, t)
      ELSE IF t.pc = "error" THEN t ELSE [t EXCEPT !.pc = "literal"]

\* What is done next, until the block is at its end or found wrong.
StepOn(x, d) ==
  CASE d.pc = "fast"    -> FastSequence(x, d)
    [] d.pc = "safe"    -> SafeSequence(x, d)
    [] d.pc = "literal" -> LiteralCopy(x, d)
    [] d.pc = "offset"  -> [Offset(x, d) EXCEPT !.pc = "length"]
    [] d.pc = "length"  -> LET n == MatchLength(x, d)
                           IN  IF n.pc = "error" THEN n ELSE MatchCopy(x, [n EXCEPT !.pc = "match"])
    [] d.pc = "match"   -> MatchCopy(x, d)
    [] OTHER            -> d

Start(m, x) ==
  [pc |-> IF FastLoop /\ x.cap >= FASTLOOP_SAFE_DISTANCE THEN "fast" ELSE "safe",
   ip |-> 0, op |-> x.dst, m |-> m, token |-> 0, length |-> 0, offset |-> 0,
   rd |-> 0, before |-> 0]

-----------------------------------------------------------------------------
(* What each function asks of LZ4_decompress_generic.                      *)

Block(b, dst, cap, safe, partial, mode, low, dict, dictSize) ==
  [b |-> b, dst |-> dst, cap |-> cap, safe |-> safe, partial |-> partial, mode |-> mode,
   low |-> low, dict |-> dict, dictSize |-> dictSize]

LZ4_decompress_safe(b, dst, cap) == Block(b, dst, cap, TRUE, FALSE, "noDict", dst, NULL, 0)
LZ4_decompress_safe_partial(b, dst, target, cap) ==
  Block(b, dst, Min({target, cap}), TRUE, TRUE, "noDict", dst, NULL, 0)
LZ4_decompress_fast(b, dst, n) ==
  Block(b, dst, n, FALSE, FALSE, "withPrefix64k", dst - KB64, NULL, 0)
LZ4_decompress_safe_withPrefix64k(b, dst, cap) ==
  Block(b, dst, cap, TRUE, FALSE, "withPrefix64k", dst - KB64, NULL, 0)
LZ4_decompress_safe_withSmallPrefix(b, dst, cap, prefix) ==
  Block(b, dst, cap, TRUE, FALSE, "noDict", dst - prefix, NULL, 0)
LZ4_decompress_safe_forceExtDict(b, dst, cap, dict, dictSize) ==
  Block(b, dst, cap, TRUE, FALSE, "usingExtDict", dst, dict, dictSize)
LZ4_decompress_fast_extDict(b, dst, n, dict, dictSize) ==
  Block(b, dst, n, FALSE, FALSE, "usingExtDict", dst, dict, dictSize)
LZ4_decompress_safe_doubleDict(b, dst, cap, prefix, dict, dictSize) ==
  Block(b, dst, cap, TRUE, FALSE, "usingExtDict", dst - prefix, dict, dictSize)
LZ4_decompress_fast_doubleDict(b, dst, n, prefix, dict, dictSize) ==
  Block(b, dst, n, FALSE, FALSE, "usingExtDict", dst - prefix, dict, dictSize)

LZ4_setStreamDecode(dict, dictSize) ==
  [end |-> dict + dictSize, size |-> dictSize, ext |-> NULL, extSize |-> 0]

\* The history of the next block: none yet; the segment that goes on; or the
\* segment that ended, when decoding moves to another place.
Rolls(d, dst) == d.size # 0 /\ d.end = dst

\* Mutant of Moved: the segment that ended is not kept.
MovedAway(d) == [d EXCEPT !.ext = d.end, !.extSize = 0]

\* The segment that is left becomes the external dictionary.
Moved(d) == [d EXCEPT !.ext = d.end - d.size, !.extSize = d.size]

LZ4_decompress_safe_continue(d, b, dst, cap) ==
  IF d.size = 0 THEN LZ4_decompress_safe(b, dst, cap)
  ELSE IF Rolls(d, dst)
  THEN IF d.size >= KB64 - 1 THEN LZ4_decompress_safe_withPrefix64k(b, dst, cap)
       ELSE IF d.extSize = 0 THEN LZ4_decompress_safe_withSmallPrefix(b, dst, cap, d.size)
       ELSE LZ4_decompress_safe_doubleDict(b, dst, cap, d.size, d.ext, d.extSize)
  ELSE LZ4_decompress_safe_forceExtDict(b, dst, cap, Moved(d).ext, Moved(d).extSize)

LZ4_decompress_fast_continue(d, b, dst, n) ==
  IF d.size = 0 THEN LZ4_decompress_fast(b, dst, n)
  ELSE IF Rolls(d, dst)
  THEN IF d.size >= KB64 - 1 \/ d.extSize = 0 THEN LZ4_decompress_fast(b, dst, n)
       ELSE LZ4_decompress_fast_doubleDict(b, dst, n, d.size, d.ext, d.extSize)
  ELSE LZ4_decompress_fast_extDict(b, dst, n, Moved(d).ext, Moved(d).extSize)

\* The context after a block of n bytes; nothing but the move is kept of a
\* block that failed.
Decoded(d, dst, n) ==
  LET d1 == IF d.size = 0 \/ Rolls(d, dst) THEN d ELSE Moved(d)
  IN  IF n <= 0 THEN d1
      ELSE [d1 EXCEPT !.size = IF Rolls(d, dst) THEN @ + n ELSE n, !.end = dst + n]

LZ4_decompress_safe_usingDict(b, dst, cap, dict, dictSize) ==
  IF dictSize = 0 THEN LZ4_decompress_safe(b, dst, cap)
  ELSE IF dict + dictSize = dst
  THEN IF dictSize >= KB64 - 1 THEN LZ4_decompress_safe_withPrefix64k(b, dst, cap)
       ELSE LZ4_decompress_safe_withSmallPrefix(b, dst, cap, dictSize)
  ELSE LZ4_decompress_safe_forceExtDict(b, dst, cap, dict, dictSize)

LZ4_decompress_fast_usingDict(b, dst, n, dict, dictSize) ==
  IF dictSize = 0 \/ dict + dictSize = dst THEN LZ4_decompress_fast(b, dst, n)
  ELSE LZ4_decompress_fast_extDict(b, dst, n, dict, dictSize)
=============================================================================
