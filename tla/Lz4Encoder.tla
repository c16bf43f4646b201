----------------------------- MODULE Lz4Encoder -----------------------------
(***************************************************************************)
(* LZ4_compress_generic of lz4.c: how one call turns a source into a       *)
(* block.  A call is described by a record e, fixed during the call:       *)
(*   m, src, n         memory, the source's address and size               *)
(*   cap, out          size of the destination, outputDirective            *)
(*   tt, dd, small     tableType, dictDirective, dictIssue = dictSmall     *)
(*   accel             acceleration                                        *)
(*   start, dict, dictSize, delta, dictOffset, dictTable                   *)
(*                     startIndex, dictionary, dictSize, dictDelta, and    *)
(*                     dictCtx's currentOffset and hashTable               *)
(* and how far the call has come by a record c: what is to be done next    *)
(* (pc), the pointers, the hash table, the bytes written (op is after the  *)
(* last), and the ends of what copies by whole words have written and read *)
(***************************************************************************)
EXTENDS Lz4Base, TLC

CONSTANTS SkipTrigger   \* LZ4_skipTrigger

LZ4_64Klimit == KB64 + (MFLIMIT - 1)

\* Pointers into the source by what they are in the code.
iend(e) == e.src + e.n
mflimitPlusOne(e) == iend(e) - MFLIMIT + 1
\* Mutant of matchlimit: matches may go on to the end.
matchlimitAtEnd(e) == iend(e)

matchlimit(e) == iend(e) - LASTLITERALS

\* An index counts from base: a table of pointers counts from address 0.
base(e) == IF e.tt = "byPtr" THEN 0 ELSE e.src - e.start
dictBase(e) == e.dict + e.dictSize - (IF e.dd = "usingDictCtx" THEN e.dictOffset ELSE e.start)
maybe_extMem(e) == e.dd \in {"usingExtDict", "usingDictCtx"}

Hash(e, p) == LZ4_hashPosition(e.m, p, e.tt)

LZ4_putPosition(e, table, p) == [table EXCEPT ![Hash(e, p)] = p - base(e)]

\* What the table offers for the position ip: an index, where it is in memory,
\* and the lowest address the match may grow down to.
Candidate(e, c, ip) ==
  LET h == Hash(e, ip)
      index == c.table[h]
      here == [index |-> index, match |-> base(e) + index, low |-> e.src]
  IN  CASE e.dd = "usingDictCtx" /\ index < e.start ->
             [index |-> e.dictTable[h] + e.delta, match |-> dictBase(e) + e.dictTable[h],
              low |-> e.dict]
        [] e.dd = "usingExtDict" /\ index < e.start ->
             [index |-> index, match |-> dictBase(e) + index, low |-> e.dict]
        [] maybe_extMem(e) /\ index >= e.start -> here
        [] OTHER -> [here EXCEPT !.low = c.low]

\* Mutant of InHistory: entries from before a short history are followed.
AnyEntry(e, cand) == TRUE

\* Not before the history, not too far, and the same four bytes.  The distance
\* is not looked at with 16-bit indexes, which cannot be farther apart.
InHistory(e, cand) == e.small => cand.index >= e.start - e.dictSize
Near(e, cand, ip) == e.tt = "byU16" \/ cand.index + LZ4_DISTANCE_MAX >= ip - base(e)

IsMatch(e, cand, ip) ==
  InHistory(e, cand) /\ Near(e, cand, ip) /\ SameWord(e.m, cand.match, ip)

\* Every read of a candidate lies in the source or in the history.
ReadsInside(e, cand, ip) ==
  InHistory(e, cand) /\ Near(e, cand, ip) =>
    \/ cand.match >= e.src - (IF maybe_extMem(e) THEN 0 ELSE e.dictSize)
    \/ maybe_extMem(e) /\ cand.match \in e.dict .. e.dict + e.dictSize - 4

Take(e, c, cand, ip) ==
  [c EXCEPT !.ip = ip, !.match = cand.match, !.low = cand.low,
            !.offset = ip - base(e) - cand.index]

-----------------------------------------------------------------------------
\* Positions are tried at steps that grow with the misses.
RECURSIVE FindMatch(_, _, _, _, _)
FindMatch(e, c, ip, step, nb) ==
  LET cand == Candidate(e, c, ip)
      c1 == [c EXCEPT !.table[Hash(e, ip)] = ip - base(e),
                      !.inside = @ /\ ReadsInside(e, cand, ip)]
  IN  IF ip + step > mflimitPlusOne(e) THEN [c EXCEPT !.pc = "last"]
      ELSE IF IsMatch(e, cand, ip) THEN [Take(e, c1, cand, ip) EXCEPT !.pc = "literals"]
      ELSE FindMatch(e, c1, ip + step, nb \div 2^SkipTrigger, nb + 1)

\* A match grows downwards while the bytes before it agree.
CatchUp(e, c) ==
  LET most == Min({c.ip - c.anchor, c.match - c.low})
      back == Max({k \in 0 .. Max({most, 0}) :
                     \A j \in 1 .. k : e.m[c.ip - j] = e.m[c.match - j]})
  IN  [c EXCEPT !.filled = c.ip, !.ip = @ - back, !.match = @ - back]

\* Token, length and literals of a sequence, if they fit.
RunHead(n) == IF n >= RUN_MASK
              THEN <<RUN_MASK * (ML_MASK + 1)>> \o LengthBytes(n - RUN_MASK)
              ELSE <<n * (ML_MASK + 1)>>

\* Mutant of WriteLiterals: no room is left for the copy by words.
WriteLiteralsTight(e, c, n) ==
  LET op == Len(c.op) + 1
      at == Len(c.op) + Len(RunHead(n))
  IN  IF e.out # "notLimited" /\ op + n + (n \div BYTE) > e.cap
      THEN [c EXCEPT !.pc = IF e.out = "fillOutput" THEN "last" ELSE "full"]
      ELSE [c EXCEPT !.pc = "match", !.token = op,
                     !.op = @ \o RunHead(n) \o LZ4_read(e.m, c.anchor, n),
                     !.wr = Max({@, WildEnd(at, at + n, 8)}),
                     !.rd = Max({@, WildEnd(c.anchor, c.anchor + n, 8)})]

WriteLiterals(e, c, n) ==
  LET op == Len(c.op) + 1
      at == Len(c.op) + Len(RunHead(n))
  IN  IF e.out = "limitedOutput"
         /\ op + n + (2 + 1 + LASTLITERALS) + (n \div BYTE) > e.cap
      THEN [c EXCEPT !.pc = "full"]
      ELSE IF e.out = "fillOutput"
              /\ op + ((n + BYTE - RUN_MASK) \div BYTE) + n + 2 + 1 + MFLIMIT - MINMATCH > e.cap
      THEN [c EXCEPT !.pc = "last"]
      ELSE [c EXCEPT !.pc = "match", !.token = op,
                     !.op = @ \o RunHead(n) \o LZ4_read(e.m, c.anchor, n),
                     !.wr = Max({@, WildEnd(at, at + n, 8)}),
                     !.rd = Max({@, WildEnd(c.anchor, c.anchor + n, 8)})]

Literals(e, c) == LET Go(d) == WriteLiterals(e, d, d.ip - d.anchor) IN Go(CatchUp(e, c))

\* How far the match goes; one that reaches the end of an external dictionary
\* goes on at the start of the source.
MatchCode(e, c) ==
  LET into == maybe_extMem(e) /\ c.low = e.dict
      end == IF into THEN Min({c.ip + (e.dict + e.dictSize - c.match), matchlimit(e)})
             ELSE matchlimit(e)
      GoOn(code) == IF into /\ c.ip + MINMATCH + code = end
                    THEN code + LZ4_count(e.m, end, e.src, matchlimit(e)) ELSE code
  IN  GoOn(LZ4_count(e.m, c.ip + MINMATCH, c.match + MINMATCH, end))

\* A match does not fit if the last literals could not follow it.  With
\* fillOutput it is cut, and positions entered beyond its end are taken out of
\* the table.
TooLong(e, c, code) ==
  /\ e.out # "notLimited"
  /\ Len(c.op) + 2 + (1 + LASTLITERALS) + ((code + BYTE - ML_MASK) \div BYTE) > e.cap

Shorten(e, c) ==
  LET new == ML_MASK - 1 + (e.cap - (Len(c.op) + 2) - 1 - LASTLITERALS) * BYTE
      gone == {Hash(e, p) : p \in c.ip + MINMATCH + new .. c.filled}
  IN  [code |-> new,
       table |-> [h \in DOMAIN c.table |-> IF h \in gone THEN 0 ELSE c.table[h]]]

\* Offset and match length.
WriteMatch(e, c, code, table) ==
  LET ip == c.ip + MINMATCH + code
      rest == code - ML_MASK
      words == IF rest >= 0 THEN 4 * (rest \div (4 * BYTE)) + 4 ELSE 0
  IN  [c EXCEPT !.pc = IF ip >= mflimitPlusOne(e) THEN "last" ELSE "next",
                !.op = [@ EXCEPT ![c.token] = @ + Min({code, ML_MASK})]
                       \o LZ4_writeLE16(IF maybe_extMem(e) THEN c.offset ELSE c.ip - c.match)
                       \o (IF rest >= 0 THEN LengthBytes(rest) ELSE <<>>),
                !.ip = ip, !.anchor = ip, !.table = table,
                !.wr = Max({@, Len(c.op) + 2 + words})]

EncodeMatch(e, c) ==
  LET Go(code) == IF ~TooLong(e, c, code) THEN WriteMatch(e, c, code, c.table)
                  ELSE IF e.out = "limitedOutput" THEN [c EXCEPT !.pc = "full"]
                  ELSE LET s == Shorten(e, c) IN WriteMatch(e, c, s.code, s.table)
  IN  IF e.out = "fillOutput" /\ Len(c.op) + 2 + 1 + MFLIMIT - MINMATCH > e.cap
      THEN [c EXCEPT !.pc = "last", !.op = SubSeq(@, 1, c.token - 1)]
      ELSE Go(MatchCode(e, c))

\* The position after a match may be a match at once, with no literals.
TestNext(e, c) ==
  LET c1 == [c EXCEPT !.table = LZ4_putPosition(e, @, c.ip - 2)]
      cand == Candidate(e, c1, c.ip)
      c2 == [c1 EXCEPT !.table = LZ4_putPosition(e, @, c.ip),
                       !.inside = @ /\ ReadsInside(e, cand, c.ip)]
  IN  IF IsMatch(e, cand, c.ip)
      THEN [Take(e, c2, cand, c.ip) EXCEPT !.pc = "match", !.token = Len(c.op) + 1,
                                           !.op = Append(@, 0)]
      ELSE [c2 EXCEPT !.pc = "search", !.low = cand.low, !.ip = c.ip + 1]

\* The rest is literals; with fillOutput as many as there is room for.
WriteLast(e, c, n) ==
  [c EXCEPT !.pc = "end", !.op = @ \o RunHead(n) \o LZ4_read(e.m, c.anchor, n),
            !.ip = c.anchor + n, !.wr = Max({@, Len(c.op) + Len(RunHead(n)) + n})]

LastLiterals(e, c) ==
  LET run == iend(e) - c.anchor
      room == e.cap - Len(c.op) - 1
  IN  IF e.out = "notLimited" \/ run + ((run + BYTE - RUN_MASK) \div BYTE) <= room
      THEN WriteLast(e, c, run)
      ELSE IF e.out = "limitedOutput" THEN [c EXCEPT !.pc = "full"]
      ELSE WriteLast(e, c, room - ((room + BYTE + 1 - RUN_MASK) \div (BYTE + 1)))

RECURSIVE Run(_, _)
Run(e, c) ==
  CASE c.pc = "search"   -> Run(e, FindMatch(e, c, c.ip, 1, e.accel * 2^SkipTrigger))
    [] c.pc = "literals" -> Run(e, Literals(e, c))
    [] c.pc = "match"    -> Run(e, EncodeMatch(e, c))
    [] c.pc = "next"     -> Run(e, TestNext(e, c))
    [] c.pc = "last"     -> Run(e, LastLiterals(e, c))
    [] OTHER             -> c

-----------------------------------------------------------------------------
(* A context (LZ4_stream_t_internal) is                                    *)
(*   [table, tt, off, dict, size, dctx]                                    *)
(* hashTable, tableType, currentOffset, dictionary, dictSize, and the      *)
(* context attached as dictCtx (a record, or NoCtx).                       *)

NoCtx == <<>>
Table0 == [h \in 0 .. 2 * HASHSIZE - 1 |-> 0]
Zeroed == [table |-> Table0, tt |-> "clearedTable", off |-> 0, dict |-> NULL, size |-> 0,
           dctx |-> NoCtx]

\* What a call returns: 0 or the size of the block, the block, how much of the
\* source it holds, the context, and the ends of its writes and reads.
Result(c, ctx, src) ==
  [block |-> IF c.pc = "end" THEN c.op ELSE <<>>, ctx |-> ctx,
   consumed |-> c.ip - src, wr |-> c.wr, rd |-> c.rd, inside |-> c.inside]

Nothing(ctx, block) ==
  [block |-> block, ctx |-> ctx, consumed |-> 0, wr |-> Len(block), rd |-> 0, inside |-> TRUE]

\* The arguments of a call that vary: directives and the source.
Call(m, src, n, cap, out, tt, dd, small, accel) ==
  [m |-> m, src |-> src, n |-> n, cap |-> cap, out |-> out, tt |-> tt, dd |-> dd,
   small |-> small, accel |-> accel]

Described(ctx, a) ==
  LET d == IF a.dd = "usingDictCtx" THEN ctx.dctx ELSE ctx
  IN  [start |-> ctx.off, dict |-> d.dict, dictSize |-> d.size,
       delta |-> ctx.off - d.off, dictOffset |-> d.off, dictTable |-> d.table] @@ a

Begin(ctx, e) ==
  [pc |-> IF e.n < LZ4_minLength THEN "last" ELSE "search",
   ip |-> e.src + 1, anchor |-> e.src, match |-> NULL, offset |-> 0,
   low |-> e.src - (IF e.dd = "withPrefix64k" THEN ctx.size ELSE 0),
   filled |-> e.src, token |-> 0, op |-> <<>>, wr |-> 0, rd |-> e.src, inside |-> TRUE,
   table |-> IF e.n < LZ4_minLength THEN ctx.table ELSE LZ4_putPosition(e, ctx.table, e.src)]

LZ4_compress_generic_validated(ctx, a) ==
  LET Ended(c) == Result(c, [ctx EXCEPT !.dctx = IF a.dd = "usingDictCtx" THEN NoCtx ELSE @,
                                        !.size = IF a.dd = "usingDictCtx" THEN a.n ELSE @ + a.n,
                                        !.off = @ + a.n, !.tt = a.tt, !.table = c.table], a.src)
      Start(e) == Ended(Run(e, Begin(ctx, e)))
  IN  IF (a.out = "fillOutput" /\ a.cap < 1) \/ (a.tt = "byU16" /\ a.n >= LZ4_64Klimit)
      THEN Nothing(ctx, <<>>)
      ELSE Start(Described(ctx, a))

\* An empty source makes a block of one byte, which says no literals.
LZ4_compress_generic(ctx, a) ==
  IF ~Supported(a.n) THEN Nothing(ctx, <<>>)
  ELSE IF a.n = 0
  THEN Nothing(ctx, IF a.out # "notLimited" /\ a.cap <= 0 THEN <<>> ELSE <<0>>)
  ELSE LZ4_compress_generic_validated(ctx, a)
=============================================================================
