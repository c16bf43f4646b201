------------------------- MODULE Lz4FrameDecompress -------------------------
(***************************************************************************)
(* The calls of the decompressing half of lz4frame.c, each as one step:    *)
(* stage after stage until the input or the room is used up.               *)
(***************************************************************************)
EXTENDS Lz4FrameReader

RECURSIVE Stages(_, _)
Stages(a, x) == CASE x.go = "go"   -> Stages(a, Stage(a, x))
                  [] x.go = "stop" -> PreserveHistory(a, x)
                  [] OTHER         -> [x EXCEPT !.i = 0, !.o = a.dst]

LZ4F_decompress(d, m, a) ==
  Stages(a, [d |-> d, m |-> m, i |-> 0, o |-> a.dst, hint |-> 1, go |-> "go", inside |-> TRUE])

LZ4F_decompress_usingDict(d, m, a, dict, dictSize) ==
  LZ4F_decompress(IF d.dStage \in {"getFrameHeader", "storeFrameHeader", "init"}
                  THEN [d EXCEPT !.dict = dict, !.dictSize = dictSize] ELSE d, m, a)

\* The header of a frame, before or after its decoding began.
LZ4F_getFrameInfo(d, m, src) ==
  LET n == LZ4F_headerSize(src)
      Known(x) == [d |-> x.d, m |-> x.m, n |-> 0, hint |-> x.hint, err |-> IF x.go = "stop" THEN "none" ELSE x.go]
      Decoded(h) == [d |-> h.d, m |-> m, n |-> h.n, hint |-> BHSize, err |-> h.err]
      Error(e) == [d |-> d, m |-> m, n |-> 0, hint |-> 0, err |-> e]
  IN  IF d.dStage = "storeFrameHeader" THEN Error("frameDecoding_alreadyStarted")
      ELSE IF d.dStage # "getFrameHeader"
      THEN Known(LZ4F_decompress(d, m, [src |-> <<>>, dst |-> NULL, end |-> NULL, stableDst |-> FALSE]))
      ELSE IF n = 0 THEN Error("frameType_unknown")
      ELSE IF Len(src) < n THEN Error("frameHeader_incomplete")
      ELSE Decoded(LZ4F_decodeHeader(d, SubSeq(src, 1, n), FALSE))
=============================================================================
