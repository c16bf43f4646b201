--------------------------- MODULE Lz4FrameReading ---------------------------
(***************************************************************************)
(* A program that reads frames with one LZ4F_dctx, stage by stage.  It     *)
(* reads a stream of bytes, intact or not, in pieces of any size, into a   *)
(* destination chosen anew for every call, with a dictionary or without.   *)
(* Between two calls it uses its memory as it likes, but for what the      *)
(* interface tells it to leave alone: the dictionary of a frame, and the   *)
(* last 64 KB that came out when it has said stableDst.                    *)
(***************************************************************************)
EXTENDS Lz4FrameReader

CONSTANTS Addresses,     \* the program's memory and tmpOutBuffer
          Stream,        \* what is read
          Sizes,         \* how much of it may be given to a call
          Starts,        \* where it may be gone on with when a frame is given up
          Rooms,         \* destinations: records of an address and a size
          Dictionaries,  \* dictionaries, likewise
          Leftovers      \* contents memory may have that nobody looks after

VARIABLES taken,    \* how much of the stream was read
          dctx,     \* the context, the memory, and how far the call has got
          args,     \* the call's src, dst, end and stableDst, or NoCall
          calling,  \* whether LZ4F_decompress is running
          hist,     \* what the next block of the frame may refer to: the last 64 KB of
                    \* the dictionary and of what came out, if its blocks are linked,
                    \* else of the dictionary alone
          where,    \* and where the program was given it
          kept      \* the addresses the program must leave alone
reading == <<taken, dctx, args, calling, hist, where, kept>>

MaxBuffer == 66 * KB64   \* a block of 4 MB and two windows
TmpOut == TMPOUT .. TMPOUT + MaxBuffer
Extent(r) == r.at .. r.at + r.size - 1

Wire == {Byte(0)} \cup {Stream[k] : k \in DOMAIN Stream}

\* The allocator gives tmpOutBuffer a place that neither overlaps a buffer of the
\* program nor begins where one of them ends.
ASSUME ReadingAssumption ==
  /\ KB64 \in Nat \ {0} /\ TMPOUT \in Nat \ {0} /\ TmpOut \subseteq Addresses
  /\ Stream \in Seq(Wire) /\ Sizes \subseteq Nat /\ Starts \subseteq 0 .. Len(Stream)
  /\ \A b \in Wire : b.v \in 0 .. 255 /\ b.of \in Seq(Nat)
  /\ \A r \in Rooms \cup Dictionaries :
       /\ r.at \in Nat /\ r.size \in Nat /\ (r.at = NULL => r.size = 0)
       /\ Extent(r) \subseteq Addresses
       /\ (r.at .. r.at + r.size) \cap TmpOut = {}
  /\ Leftovers \subseteq [Addresses -> Nat]

Early == {"getFrameHeader", "storeFrameHeader", "init"}
InBlocks == {"getBlockHeader", "storeBlockHeader", "copyDirect", "getBlockChecksum",
             "getCBlock", "storeCBlock"}

NoCall == [src |-> <<>>, dst |-> NULL, end |-> NULL, stableDst |-> FALSE]

ReadingInit ==
  /\ \E mem \in Leftovers :
       dctx = [d |-> LZ4F_createDecompressionContext, m |-> mem, i |-> 0, o |-> NULL,
               hint |-> 1, go |-> "stop", inside |-> TRUE]
  /\ taken = 0 /\ args = NoCall /\ calling = FALSE
  /\ hist = <<>> /\ where = <<>> /\ kept = {}

\* What becomes of the program's memory when it is not calling.
Used(mem, keep, junk) ==
  [p \in Addresses |-> IF p \in keep \cup TmpOut THEN mem[p] ELSE junk[p]]

\* The next n bytes, as far as they are there.
Piece(n) == SubSeq(Stream, taken + 1, Min({taken + n, Len(Stream)}))

\* LZ4F_decompress begins, with a context d and memory mem.
Started(d, mem, n, r, stable) ==
  /\ ~calling /\ dctx.go = "stop" /\ calling' = TRUE
  /\ args' = [src |-> Piece(n), dst |-> r.at, end |-> r.at + r.size, stableDst |-> stable]
  /\ dctx' = [dctx EXCEPT !.d = d, !.m = mem, !.o = r.at, !.go = "go"]
  /\ UNCHANGED taken

DecompressPlain(n, r, stable) ==
  /\ Started(dctx.d, dctx.m, n, r, stable)
  /\ Extent(r) \cap kept = {}
  /\ UNCHANGED <<hist, where, kept>>

\* LZ4F_decompress_usingDict: before the first block of the frame the dictionary
\* is taken, whatever was given before; later it is not looked at.
DecompressUsingDict(n, r, stable, dict, junk) ==
  LET given == [k \in 1 .. dict.size |-> dict.at + k - 1]
  IN  /\ dctx.d.dStage \in Early /\ Extent(r) \cap Extent(dict) = {}
      /\ Started([dctx.d EXCEPT !.dict = dict.at, !.dictSize = dict.size], Used(dctx.m, {}, junk),
                 n, r, stable)
      /\ hist' = LastOf(Read(dctx'.m, dict.at, dict.size), KB64)
      /\ where' = LastOf(given, KB64)
      /\ kept' = {where'[k] : k \in DOMAIN where'}

\* One stage.  At the end of a frame the context is ready for the next.
Turn ==
  /\ calling /\ dctx.go = "go"
  /\ dctx' = Stage(args, dctx)
  /\ LET n == dctx'.o - dctx.o
         over == dctx.d.dStage \notin Early /\ dctx'.d.dStage = "getFrameHeader"
     IN  /\ hist' = IF over THEN <<>>
                    ELSE IF dctx.d.info.linked THEN LastOf(hist \o Read(dctx'.m, dctx.o, n), KB64)
                    ELSE hist
         /\ where' = IF over THEN <<>>
                     ELSE IF dctx.d.info.linked
                     THEN LastOf(where \o [k \in 1 .. n |-> dctx.o + k - 1], KB64)
                     ELSE where
  /\ UNCHANGED <<taken, args, calling, kept>>

\* The call returns.  Where the history is linked and stableDst was not said, the
\* program owes it nothing any more, not even the dictionary.
Return(junk) ==
  /\ calling /\ dctx.go = "stop" /\ calling' = FALSE /\ args' = NoCall /\ taken' = taken + dctx.i
  /\ kept' = IF args.stableDst \/ ~dctx.d.info.linked \/ dctx.d.dStage \in Early
             THEN {where[k] : k \in DOMAIN where} ELSE {}
  /\ dctx' = [PreserveHistory(args, dctx) EXCEPT !.m = Used(@, kept', junk), !.i = 0, !.o = NULL, !.hint = 1]
  /\ UNCHANGED <<hist, where>>

\* LZ4F_getFrameInfo before the header was begun; later it is a call without
\* input and room.
GetFrameInfo(n) ==
  LET size == LZ4F_headerSize(Piece(n))
      h == LZ4F_decodeHeader(dctx.d, SubSeq(Piece(n), 1, size), FALSE)
  IN  /\ ~calling /\ dctx.go = "stop" /\ dctx.d.dStage = "getFrameHeader"
      /\ size > 0 /\ size <= Len(Piece(n))
      /\ dctx' = [dctx EXCEPT !.d = h.d] /\ taken' = taken + h.n
      /\ UNCHANGED <<args, calling, hist, where, kept>>

\* A frame is given up, or a call has failed.
ResetContext(junk) ==
  /\ ~calling \/ dctx.go \notin {"go", "stop"}
  /\ dctx' = [dctx EXCEPT !.d = LZ4F_resetDecompressionContext(@), !.m = Used(@, {}, junk),
                          !.i = 0, !.o = NULL, !.hint = 1, !.go = "stop"]
  /\ args' = NoCall /\ calling' = FALSE /\ hist' = <<>> /\ where' = <<>> /\ kept' = {}
  /\ taken' \in Starts

ReadingNext ==
  \/ \E n \in Sizes, r \in Rooms, stable \in BOOLEAN : DecompressPlain(n, r, stable)
  \/ \E n \in Sizes, r \in Rooms, stable \in BOOLEAN, dict \in Dictionaries, junk \in Leftovers :
       DecompressUsingDict(n, r, stable, dict, junk)
  \/ Turn
  \/ \E junk \in Leftovers : Return(junk)
  \/ \E n \in Sizes : GetFrameInfo(n)
  \/ \E junk \in Leftovers : ResetContext(junk)

ReadingSpec == ReadingInit /\ [][ReadingNext]_reading

-----------------------------------------------------------------------------
(* Properties.                                                             *)

\* No more was read than was given, and no more put out than there is room for.
WithinCall == dctx.i <= Len(args.src) /\ dctx.o \in args.dst .. args.end

\* What is kept of a header or of a block lies in the array it is kept in:
\* header has 19 bytes, tmpIn as many as it was allocated with for this frame or
\* for an earlier, larger one.
StoredInside ==
  /\ dctx.d.dStage \in {"storeFrameHeader", "storeSFrameSize", "getBlockChecksum"} =>
       Len(dctx.d.stored) <= maxFHSize
  /\ dctx.d.dStage \in {"storeBlockHeader", "storeCBlock", "storeSuffix"} =>
       Len(dctx.d.stored) <= dctx.d.room

\* The decoder of the next block sees, as the last 64 KB of its dictionary, the
\* last 64 KB of what the frame's blocks may refer to, wherever that has been
\* moved and whatever has become of the destinations it was written to.
HistoryKept ==
  dctx.d.dStage \in InBlocks =>
    LastOf(Read(dctx.m, dctx.d.dict, dctx.d.dictSize), KB64) = hist

\* Whatever a program reads and however it cuts it up, LZ4F_decompress stays
\* within its buffers and decodes every block with its own history.
ReadsInOrder ==
  dctx.go \in {"go", "stop"} => dctx.inside /\ WithinCall /\ StoredInside /\ HistoryKept
=============================================================================
