--------------------------- MODULE Lz4FrameStream ---------------------------
(***************************************************************************)
(* A sender that makes frames with lz4frame.c or lz4file.c and a receiver  *)
(* that reads them with either.  Both keep their contexts from frame to    *)
(* frame; the content goes in and comes out in pieces of any size; buffers *)
(* of the program are used again unless the call was told they would not   *)
(* be; and a frame may be damaged or cut off on its way.                   *)
(***************************************************************************)
EXTENDS Lz4File

CONSTANTS Memory,     \* the addresses
          SRC, DST,   \* the sender's and the receiver's buffers
          DICT,       \* where the receiver has the dictionary
          Dictionary, \* its content
          Content,    \* what is sent: values that all differ
          Jobs(_),    \* the frames tried as the n-th on a pair of contexts
          MaxFrames,  \* frames on one pair of contexts
          Reset       \* which unfinished frames the receiver gives up: all, or
                      \* "unsized" ones only

VARIABLES m,        \* memory
          job,      \* the frame: prefs, total (length of its content), by (how it is
                    \* made), stable (stableSrc, and stableDst at the receiver), and
                    \* what is tried with it: pieces (how much the sender gives at a
                    \* time), sizes and caps (how much the receiver reads at a time
                    \* and has room for), damages (which byte is changed, and by
                    \* how much; 0 for the last cut off)
          sender,   \* "idle", "open" (by calls), "file", "done" or "broken"
          c,        \* the sender's LZ4F_cctx
          w,        \* its LZ4_writeFile_t, or Empty
          given,    \* how much of the content was given
          wire,     \* the frame
          damaged,  \* what befell it on its way: "no", "changed" (a byte), "size"
                    \* (a byte of the size of a block) or "cut"
          room,     \* whether calls stayed in their buffers and bounds
          moving,   \* whether every call that could do something did
          receiver, \* "idle", "calls", "file", "done", "short" or "failed"
          d,        \* the receiver's LZ4F_dctx
          f,        \* its LZ4_readFile_t, or Empty
          pos,      \* how much of the frame was taken
          got,      \* what came out
          hint,     \* the last result of LZ4F_decompress
          frames    \* frames begun on these contexts
sending == <<job, sender, c, w, given, wire>>
receiving == <<receiver, d, f, pos, got, hint, moving>>
vars == <<m, sending, damaged, room, receiving, frames>>

Empty == [kind |-> "none"]

Cleared(mem, from, n) == Write(mem, from, [k \in 1 .. n |-> 0])
Fresh == Write([a \in Memory |-> 0], DICT, Dictionary)

Init ==
  /\ m = Fresh /\ job \in Jobs(1)
  /\ sender = "idle" /\ c = LZ4F_createCompressionContext /\ w = Empty
  /\ given = 0 /\ wire = <<>> /\ damaged = "no" /\ room = TRUE /\ moving = TRUE
  /\ receiver = "idle" /\ d = LZ4F_createDecompressionContext /\ f = Empty
  /\ pos = 0 /\ got = <<>> /\ hint = 1 /\ frames = 1

-----------------------------------------------------------------------------
(* The sender.  n more values of the content are put where its source is:  *)
(* behind what was given before if that must stay, else over it.           *)

At == IF job.stable THEN SRC + given ELSE SRC
Source(n) == Write(m, At, SubSeq(Content, given + 1, given + n))
Taken(mem, n) == IF job.stable THEN mem ELSE Cleared(mem, SRC, n)

\* What a call of the writer leaves behind; cap is what it was allowed to put out.
Sent(z, cap, then) ==
  /\ wire' = wire \o z.out
  /\ room' = (room /\ z.inside /\ Len(z.out) <= cap)
  /\ sender' = IF z.res = "ok" THEN then ELSE "broken"

WithDict == job.prefs.dictID > 0
CDict == IF WithDict THEN LZ4F_createCDict(Dictionary) ELSE <<>>

Begin ==
  /\ sender = "idle" /\ job.by = "calls"
  /\ \E z \in {LZ4F_compressBegin(c, m, job.prefs, CDict, maxFHSize)} :
       Sent(z, maxFHSize, "open") /\ c' = z.c
  /\ UNCHANGED <<m, job, w, given, damaged, receiving, frames>>

Update(n) ==
  LET cap == LZ4F_compressBound(n, c.prefs)
  IN  /\ sender = "open" /\ given + n <= job.total
      /\ \E z \in {LZ4F_compressUpdate(c, Source(n), At, n, cap, job.stable)} :
           /\ Sent(z, cap, "open")
           /\ c' = z.c /\ m' = Taken(z.m, n)
      /\ given' = given + n
      /\ UNCHANGED <<job, w, damaged, receiving, frames>>

Flush ==
  LET cap == LZ4F_compressBound(0, c.prefs)
  IN  /\ sender = "open" /\ c.tmpInSize > 0
      /\ \E z \in {LZ4F_flush(c, m, cap)} : Sent(z, cap, "open") /\ c' = z.c /\ m' = z.m
      /\ UNCHANGED <<job, w, given, damaged, receiving, frames>>

\* The frame is complete; nothing of the sender's buffers is used again.
End ==
  LET cap == LZ4F_compressBound(0, c.prefs)
  IN  /\ sender = "open" /\ given = job.total
      /\ \E z \in {LZ4F_compressEnd(c, m, cap)} : Sent(z, cap, "done") /\ c' = z.c
      /\ m' = Fresh
      /\ UNCHANGED <<job, w, given, damaged, receiving, frames>>

\* LZ4F_compressFrame has a context of its own on its stack.
Frame ==
  LET blank == [LZ4F_createCompressionContext EXCEPT !.maxBufferSize = 80 * KB64]
      cap == LZ4F_compressFrameBound(job.total, job.prefs)
      mem == Write(m, SRC, SubSeq(Content, 1, job.total))
  IN  /\ sender = "idle" /\ job.by = "frame"
      /\ Sent(LZ4F_compressFrame(blank, mem, SRC, job.total, job.prefs, CDict, cap), cap, "done")
      /\ given' = job.total
      /\ UNCHANGED <<m, job, c, w, damaged, receiving, frames>>

\* by "default", no preferences are given.
OpenFile ==
  /\ sender = "idle" /\ job.by \in {"file", "default"}
  /\ \E z \in {LZ4F_writeOpen(m, job.prefs, job.by = "file")} :
       Sent(z, maxFHSize, "file") /\ w' = [c |-> z.c, max |-> z.max, cap |-> z.cap]
  /\ UNCHANGED <<m, job, c, given, damaged, receiving, frames>>

WriteFile(n) ==
  /\ sender = "file" /\ given + n <= job.total
  /\ \E z \in {LZ4F_write(w, Call(w.c, Source(n)), At, n, 0)} :
       /\ Sent(z, Len(z.out), "file")
       /\ w' = [w EXCEPT !.c = z.c] /\ m' = Taken(z.m, n)
  /\ given' = given + n
  /\ UNCHANGED <<job, c, damaged, receiving, frames>>

CloseFile ==
  /\ sender = "file" /\ given = job.total
  /\ Sent(LZ4F_writeClose(w, m), w.cap, "done")
  /\ w' = Empty /\ m' = Fresh
  /\ UNCHANGED <<job, c, given, damaged, receiving, frames>>

\* A frame of another program, which readers pass over.
Skippable ==
  /\ sender = "idle" /\ job.by = "skippable" /\ sender' = "done"
  /\ \E n \in job.pieces :
       wire' = LZ4F_writeLE32(LZ4F_MAGIC_SKIPPABLE_START + 3) \o LZ4F_writeLE32(n)
               \o [k \in 1 .. n |-> Byte(9)]
  /\ UNCHANGED <<m, job, c, w, given, damaged, room, receiving, frames>>

\* Where the sizes of blocks stand in the frame, the end mark not among them.
SizeFields ==
  LET fields[p \in 1 .. Len(wire)] ==
        LET n == LZ4F_readLE32(SubSeq(wire, p, p + BHSize - 1))
        IN  IF n = 0 THEN {}
            ELSE (p .. p + BHSize - 1)
                 \cup fields[p + BHSize + n + BFSize * Flag(job.prefs.blockSum)]
  IN  fields[1 + minFHSize + 8 * Flag(job.prefs.contentSize > 0) + 4 * Flag(WithDict)]

\* Only frames that carry a checksum are damaged: of others nothing is promised.
Damage(k, by) ==
  /\ sender = "done" /\ receiver = "idle" /\ damaged = "no"
  /\ k <= Len(wire) /\ (job.prefs.contentSum \/ job.prefs.blockSum)
  /\ damaged' = IF k = 0 THEN "cut" ELSE IF k \in SizeFields THEN "size" ELSE "changed"
  /\ wire' = IF k = 0 THEN Front(wire) ELSE [wire EXCEPT ![k].v = (@ + by) % 256]
  /\ UNCHANGED <<m, job, sender, c, w, given, room, receiving, frames>>

-----------------------------------------------------------------------------
(* The receiver.                                                           *)

\* The next n bytes of the frame, or what is left of it.
Input(n) == SubSeq(wire, pos + 1, Min({pos + n, Len(wire)}))

\* The result x of a call that was to read n bytes and had cap bytes of room at dst.
Received(x, n, dst, cap) ==
  LET out == x.o - dst
      over == x.go # "stop" \/ x.hint = 0
  IN  /\ d' = x.d /\ hint' = x.hint
      /\ pos' = pos + x.i
      /\ got' = got \o Read(x.m, dst, out)
      /\ receiver' = IF x.go # "stop" THEN "failed" ELSE IF x.hint = 0 THEN "done" ELSE "calls"
      /\ m' = IF over THEN Fresh ELSE IF job.stable THEN x.m ELSE Cleared(x.m, dst, cap)
      /\ room' = (room /\ x.inside /\ out <= cap)
      /\ moving' = (moving /\ (Input(n) = <<>> \/ cap = 0 \/ over \/ x.i > 0 \/ out > 0))

Decompress(n, cap) ==
  LET dst == IF job.stable THEN DST + Len(got) ELSE DST
      a == [src |-> Input(n), dst |-> dst, end |-> dst + cap,
            stableDst |-> job.stable]
  IN  /\ sender = "done" /\ receiver \in {"idle", "calls"}
      /\ \E x \in {IF WithDict THEN LZ4F_decompress_usingDict(d, m, a, DICT, Len(Dictionary))
                   ELSE LZ4F_decompress(d, m, a)} : Received(x, n, dst, cap)
      /\ UNCHANGED <<sending, f, damaged, frames>>

\* The header is asked for, at the start or on the way; not between the header
\* and the first block when there is a dictionary: LZ4F_getFrameInfo calls
\* LZ4F_decompress, which goes on to the blocks, and then it is too late for
\* LZ4F_decompress_usingDict to set it.
GetInfo(n) ==
  /\ sender = "done" /\ receiver \in {"idle", "calls"}
  /\ (receiver = "idle") # (n = 0)
  /\ ~(WithDict /\ d.dStage = "init")
  /\ \E h \in {LZ4F_getFrameInfo(d, m, Input(n))} :
       /\ d' = h.d /\ m' = h.m /\ pos' = pos + h.n
       /\ receiver' = IF h.err # "none" THEN receiver ELSE "calls"
       /\ hint' = IF h.err # "none" THEN hint ELSE h.hint
  /\ UNCHANGED <<sending, f, damaged, room, moving, got, frames>>

\* LZ4F_readOpen makes a context of its own.
ReadOpen ==
  /\ sender = "done" /\ receiver = "idle" /\ ~WithDict /\ ~job.stable
  /\ f' = LZ4F_readOpen(wire, m) /\ pos' = f'.pos
  /\ receiver' = CASE f'.err = "none"    -> "file"
                   [] f'.err = "GENERIC" -> "short"
                   [] OTHER              -> "failed"
  /\ UNCHANGED <<m, sending, d, damaged, room, moving, got, hint, frames>>

\* Fewer bytes than were asked for mean that the file is at its end.
ReadFile(n) ==
  /\ receiver = "file"
  /\ \E y \in {LZ4F_read(wire, [f |-> f, m |-> m, next |-> 0, err |-> "none", inside |-> TRUE],
                         DST, n)} :
       /\ f' = y.f /\ pos' = y.f.pos
       /\ m' = Cleared(y.m, DST, n)
       /\ got' = IF y.err = "none" THEN got \o Read(y.m, DST, y.next) ELSE got
       /\ room' = (room /\ y.inside)
       /\ receiver' = IF y.err # "none" THEN "failed" ELSE IF y.next < n THEN "done" ELSE "file"
  /\ UNCHANGED <<sending, d, damaged, moving, hint, frames>>

-----------------------------------------------------------------------------
(* The next frame on the same contexts.  After an error, and when a frame  *)
(* is given up, the receiver's is reset.                                   *)

Over == receiver \in {"done", "short", "failed"}

Again(ctx) ==
  /\ frames < MaxFrames /\ frames' = frames + 1
  /\ m' = Fresh /\ job' \in Jobs(frames + 1)
  /\ sender' = "idle" /\ w' = Empty
  /\ given' = 0 /\ wire' = <<>> /\ damaged' = "no"
  /\ receiver' = "idle" /\ d' = ctx /\ f' = Empty
  /\ pos' = 0 /\ got' = <<>> /\ hint' = 1
  /\ UNCHANGED <<c, room, moving>>

NextFrame == receiver \in {"done", "short"} /\ Again(d)

ResetFrame ==
  /\ receiver \in {"failed", "calls"} /\ (Reset = "all" \/ d.remaining = 0)
  /\ Again(LZ4F_resetDecompressionContext(d))

Next == \/ Begin \/ Flush \/ End \/ Frame \/ OpenFile \/ CloseFile \/ Skippable
        \/ \E n \in job.pieces : Update(n)
        \/ \E n \in job.pieces : WriteFile(n)
        \/ \E k \in job.damages : Damage(k[1], k[2])
        \/ \E n \in job.sizes, cap \in job.caps : Decompress(n, cap)
        \/ \E n \in job.sizes : GetInfo(n)
        \/ ReadOpen \/ \E n \in job.caps \ {0} : ReadFile(n)
        \/ NextFrame \/ ResetFrame

Spec == Init /\ [][Next]_vars

-----------------------------------------------------------------------------
(* Properties.                                                             *)

Size == 0 .. 12 * Len(Content) + 40

\* The variables and the sizes in both contexts are what they should be; a
\* context's counts never go below zero.
TypeOK ==
  /\ sender \in {"idle", "open", "file", "done", "broken"}
  /\ receiver \in {"idle", "calls", "file", "done", "short", "failed"}
  /\ damaged \in {"no", "changed", "size", "cut"}
  /\ {c.tmpInSize, c.lz.size, c.lz.extSize, given} \subseteq 0 .. Len(Content)
  /\ c.totalInSize \in 0 .. MaxFrames * Len(Content)
  /\ {d.dictSize, d.tmpOutSize, d.tmpOutStart, pos, Len(got)} \subseteq Size
  /\ d.remaining \in 0 .. Len(Content) \/ damaged # "no"
  /\ d.tmpOutStart <= d.tmpOutSize
  /\ hint >= 0 /\ frames \in 1 .. MaxFrames

\* What the receiver has is always the beginning of what was sent, and it is
\* told the end when it has everything: a frame is a stream of bytes.
BS == INSTANCE ByteStream WITH
        sent <- SubSeq(Content, 1, given), closed <- sender = "done",
        received <- IF damaged = "no" THEN got ELSE <<>>,
        ended <- receiver = "done" /\ damaged = "no"
IsByteStream == BS!Spec

\* No call writes outside its context's buffers or more than it was given
\* room for, in all the places the history of linked blocks is moved to.
StaysInside == room

\* What the bounds of the interface promise is enough: the writer never runs
\* out of room, and a frame nobody changed is read without error, whatever
\* the contexts were used for before.
GoodFramesAreRead ==
  /\ sender = "broken" => job.prefs.contentSize \notin {0, job.total}
  /\ receiver = "failed" => damaged # "no"

\* A frame with a checksum that was changed in a byte or cut off is told to be
\* complete by LZ4F_decompress only with the content that was sent.  The checksums
\* of blocks do not cover their sizes: where there is no checksum of the content,
\* a block whose "uncompressed" bit was flipped comes out as it is, and one whose
\* size became 0 ends the frame.
DamageIsFound ==
  damaged # "no" /\ f = Empty /\ receiver = "done" =>
    \/ got = SubSeq(Content, 1, given)
    \/ damaged = "size" /\ ~job.prefs.contentSum

\* A call that has input to read and room to write does something: a program
\* that goes on calling gets to the end of the frame.
NeverStalls == moving

\* The size asked for next does not go beyond the frame, so that a program
\* that reads just this much leaves the next one alone.  The checksum of a
\* block whose bytes are still to come is counted twice, and a skippable frame
\* may be shorter than the header that is asked for at first.
HintsWithinFrame ==
  receiver = "calls" /\ damaged = "no" /\ job.by # "skippable" =>
    hint \in 1 .. Len(wire) - pos + BFSize * Flag(job.prefs.blockSum)
=============================================================================
