-------------------------- MODULE MCLz4FrameStream --------------------------
(***************************************************************************)
(* Frames of at most nine values, with a window of two: blocks of two      *)
(* (blockSizeID 4) or eight (5).  The sender and receiver of               *)
(* Lz4FrameStream and the program of Lz4FrameReading share nothing: one    *)
(* runs while the other rests.                                             *)
(***************************************************************************)
EXTENDS Lz4FrameStream, Lz4FrameReading

MCSqueezed(text) == IF text[1] % 3 = 0 THEN Len(text) ELSE (Len(text) + 1) \div 2

MCMemory == 1 .. 90
MCContent == <<1, 2, 3, 4, 5, 6, 7, 8, 9>>
MCDictionary == <<21, 22, 23>>

P == [LZ4F_INIT_PREFERENCES EXCEPT !.sizeID = 4]

\* Frames of n values, read in all combinations of small and large pieces.
Job(prefs, n, by) ==
  [prefs |-> prefs, total |-> n, by |-> by, stable |-> FALSE, pieces |-> {1, 3},
   sizes |-> {0, 1, 6, 19}, caps |-> {1, 3, 8}, damages |-> {}]

\* By how much a byte is changed: a little, the highest bit, back to 0.
Changes == {1, 2, 128, 253, 255}

FirstJobs ==
  {[Job([P EXCEPT !.contentSum = TRUE, !.autoFlush = TRUE], 5, "calls") EXCEPT
      !.pieces = {3, 2}, !.stable = stable] : stable \in BOOLEAN}
  \cup {[Job([P EXCEPT !.blockSum = TRUE, !.sizeID = 5], 9, "calls") EXCEPT
           !.pieces = {3}, !.sizes = {0, 6, 9}, !.caps = {0, 2, 8}, !.stable = stable] : stable \in BOOLEAN}
  \cup {[Job([P EXCEPT !.hc = TRUE, !.dictID = 7], 5, "calls") EXCEPT !.sizes = {0, 5, 19}],
        Job([P EXCEPT !.linked = FALSE, !.contentSize = 3], 3, "calls"),
        [Job([P EXCEPT !.linked = FALSE, !.contentSum = TRUE, !.dictID = 7], 5, "frame") EXCEPT
           !.stable = TRUE],
        Job([P EXCEPT !.contentSum = TRUE], 6, "file"),
        Job(LZ4F_INIT_PREFERENCES, 4, "default"),
        Job([P EXCEPT !.contentSize = 2], 1, "calls"),
        Job(P, 0, "skippable"),
        [Job(P, 7, "calls") EXCEPT !.sizes = {0, 5, 19}, !.caps = {1, 2, 8}],
        [Job([P EXCEPT !.hc = TRUE, !.blockSum = TRUE, !.contentSum = TRUE], 9, "calls") EXCEPT
           !.pieces = {4, 5}, !.sizes = {3, 9}, !.caps = {1, 5}],
        [Job([P EXCEPT !.contentSum = TRUE, !.sizeID = 5], 6, "calls") EXCEPT
           !.pieces = {6}, !.sizes = {7}, !.caps = {8}, !.damages = (1 .. 25) \X Changes \cup {<<0, 0>>}],
        [Job([P EXCEPT !.blockSum = TRUE], 3, "calls") EXCEPT
           !.pieces = {3}, !.sizes = {7}, !.caps = {8}, !.damages = (1 .. 30) \X Changes \cup {<<0, 0>>}]}

LaterJobs == {[Job([P EXCEPT !.sizeID = 5], 9, "calls") EXCEPT !.pieces = {9}, !.sizes = {6}],
              [Job([P EXCEPT !.contentSize = 4], 4, "calls") EXCEPT
                 !.stable = TRUE, !.pieces = {2}, !.sizes = {6}]}

MCJobs(n) == IF n = 1 THEN FirstJobs ELSE LaterJobs

-----------------------------------------------------------------------------
(* What the program of Lz4FrameReading reads: two frames on one context,   *)
(* one piece after another, the first with linked blocks of up to eight    *)
(* values, the second with blocks of two that are not linked.              *)

FrameHead(flg, sizeID) ==
  LET b == LZ4F_writeLE32(LZ4F_MAGICNUMBER) \o <<Byte(flg), Byte(16 * sizeID)>>
  IN  b \o <<LZ4F_headerChecksum(SubSeq(b, 5, 6))>>
Stored(s) == Flagged(LZ4F_writeLE32(Len(s))) \o Bytes(s)
Compressed(s) == LZ4F_writeLE32(MCSqueezed(s)) \o Packed(s, <<>>, MCSqueezed(s))
Linked == FrameHead(64, 5) \o Compressed(<<1, 2, 3, 4, 5, 6>>) \o Stored(<<7, 8, 9, 10, 11, 12, 13>>)
          \o Compressed(<<14, 16>>) \o LZ4F_writeLE32(0)
MCStream == Linked \o FrameHead(96, 4) \o Compressed(<<1, 2>>) \o LZ4F_writeLE32(0)

MCSizes == {5, 30}
MCStarts == {Len(Linked)}
MCRooms == {[at |-> NULL, size |-> 0], [at |-> 13, size |-> 2], [at |-> 20, size |-> 9]}
MCDictionaries == {[at |-> 40, size |-> 3]}
MCAddresses == 1 .. 207
MCLeftovers == {[p \in MCAddresses |-> 300 + p]}

MCInit == Init /\ ReadingInit
Apart == job = Job(P, 0, "skippable") /\ sender = "idle"
Rests == taken = 0 /\ ~calling /\ dctx.d = LZ4F_createDecompressionContext
MCNext == \/ Rests /\ Next /\ UNCHANGED reading
          \/ Apart /\ ReadingNext /\ UNCHANGED vars
MCSpec == MCInit /\ [][MCNext]_<<vars, reading>>
=============================================================================
