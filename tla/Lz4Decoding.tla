----------------------------- MODULE Lz4Decoding -----------------------------
(***************************************************************************)
(* One checked decoding of lz4.c, step by step: any block, which may have  *)
(* been damaged or made up, any destination, and any history of the ones   *)
(* the functions know.  A step is a sequence of the fast loop or a part of *)
(* a sequence of the safe one.                                             *)
(***************************************************************************)
EXTENDS Lz4Decoder

CONSTANTS Received,   \* blocks, sequences of bytes
          Rooms,      \* destinations, pairs of address and size
          Targets,    \* numbers of bytes wanted of a block, partially decoded
          Contexts,   \* LZ4_streamDecode_t: prefixEnd, prefixSize, externalDict, extDictSize
          Held        \* what memory holds when the call is made

ASSUME DecodingAssumption ==
  /\ Received \subseteq Seq(0 .. BYTE)
  /\ Rooms \subseteq Nat \X Nat
  /\ Targets \subseteq Nat
  /\ Contexts \subseteq [end : Nat, size : Nat, ext : Nat, extSize : Nat]

VARIABLES call,    \* what LZ4_decompress_generic is asked for
          given,   \* the history the caller has: how much of it ends at the destination,
                   \* and the rest, which lies elsewhere
          at       \* how far the decoding has come
decoding == <<call, given, at>>

History(prefix, ext, extSize) == [prefix |-> prefix, ext |-> ext, extSize |-> extSize]

\* The next block of a stream: its history ends at the destination, or lies elsewhere.
Continues(h, b, dst, cap) ==
  /\ call = LZ4_decompress_safe_continue(h, b, dst, cap)
  /\ given = CASE h.size = 0    -> History(0, NULL, 0)
               [] Rolls(h, dst) -> History(h.size, h.ext, h.extSize)
               [] OTHER         -> History(0, h.end - h.size, h.size)

\* A block after a dictionary.
HasDict(h, b, dst, cap) ==
  /\ call = LZ4_decompress_safe_usingDict(b, dst, cap, h.ext, h.extSize)
  /\ given = IF h.ext + h.extSize = dst THEN History(h.extSize, NULL, 0)
             ELSE History(0, h.ext, h.extSize)

\* The first bytes of a block alone.
Partly(target, b, dst, cap) ==
  /\ call = LZ4_decompress_safe_partial(b, dst, target, cap)
  /\ given = History(0, NULL, 0)

\* An empty block, or no room for a byte, is answered before the loops.
DecodingInit ==
  /\ \E b \in Received, r \in Rooms :
       \/ \E h \in Contexts : Continues(h, b, r[1], r[2]) \/ HasDict(h, b, r[1], r[2])
       \/ \E target \in Targets : Partly(target, b, r[1], r[2])
  /\ call.cap > 0 /\ call.b # <<>>
  /\ at = Start(Held, call)

Finished(d) == d.pc \in {"end", "error"}

DecodingNext == /\ ~Finished(at)
                /\ at' = StepOn(call, at)
                /\ UNCHANGED <<call, given>>

DecodingSpec == DecodingInit /\ [][DecodingNext]_decoding

-----------------------------------------------------------------------------
(* Properties *)

\* The copies of 8, 16, 18 and 32 bytes, which write more than a sequence has,
\* leave everything alone that is not the destination.  (LZ4_decompress_generic)
WritesInside ==
  /\ at.op \in call.dst .. oendOf(call)
  /\ DOMAIN at.m = DOMAIN Held
  /\ \A a \in DOMAIN Held : a \notin call.dst .. oendOf(call) - 1 => at.m[a] = Held[a]

\* No byte behind the block is read, and no match is looked for before the
\* history the caller has, in the part that ends at the destination or in the
\* other one.  (iend, checkOffset, lowPrefix, dictEnd)
LooksInside ==
  /\ at.ip <= iendOf(call) /\ at.rd <= iendOf(call)
  /\ at.before = 0
  /\ HistoryOf(call) >= call.dst - given.prefix
  /\ call.mode = "usingExtDict" => call.dict = given.ext /\ call.dictSize = given.extSize

\* Whatever a block says, decoding it stays inside the buffers.
NothingOutside == WritesInside /\ LooksInside

\* How far a sequence has come, four for every byte of the block and less than
\* four for what is done between two of them.
Progress(d) == 4 * d.ip + CASE d.pc = "literal"           -> 0
                            [] d.pc = "offset"            -> 1
                            [] d.pc \in {"length", "match"} -> 2
                            [] OTHER                      -> 3

\* Every step gets on, so that a block of n bytes is decoded in 4 * n + 4 steps at
\* most, whatever it says.  (the loops of LZ4_decompress_generic, which have no
\* condition)
Advances == [][Finished(at') \/ Progress(at') > Progress(at)]_decoding
=============================================================================
