----------------------------- MODULE MCPatcher -----------------------------
(* Instances of Patcher for TLC. *)
EXTENDS Patcher, TLC

CONSTANTS a, b          \* the two targets
CONSTANTS aBal, bBal    \* their backups
CONSTANTS u, v, w, n    \* chunks: u the user's, v, w and n the archive's
CONSTANTS crn           \* n has a 0x0A, crn has a 0x0D before it as well

MCTargets == {a, b}
MCBak == a :> aBal @@ b :> bBal
MCOriginals == {<<u>>}
MCTextMode == [c \in Chunk |-> IF c = n THEN crn ELSE c]

Good(p, c)    == [path |-> p, form |-> "frame", chunks |-> c,
                  fault |-> "none", want |-> c]
\* The frame ends early, or yields other chunks than were archived.
Short(p, c)   == [Good(p, c) EXCEPT !.chunks = <<Head(c)>>]
Other(p, c)   == [Good(p, c) EXCEPT !.chunks = <<u>>]
\* The reader meets an error after the first chunk.
Damaged(p, c) == [Short(p, c) EXCEPT !.fault = "ends"]
\* A corrupt block: LZ4F_read returns the same error from then on.
Corrupt(p, c) == [Short(p, c) EXCEPT !.fault = "stuck"]
\* What ArchiveBuilder writes: a raw block, not a frame.
Raw(p, c)     == [Good(p, c) EXCEPT !.form = "block"]

\* A good entry, a damaged one and a second, wrong entry for the first path.
MixedArchive == <<Good(a, <<v>>), Damaged(b, <<n, v>>), Other(a, <<w>>)>>

\* Entries whose decoding comes to an end: one raw, one cut short, and one for
\* a path that an earlier entry has already replaced.
ReadableArchive ==
  <<Good(a, <<v, w>>), Short(b, <<w, v>>), Damaged(b, <<w>>), Raw(a, <<w>>)>>

\* An archive of intact frames: the first path is named twice, the second time
\* without a 0x0A; so are the others, in the other order.
FrameArchive ==
  <<Good(a, <<v, n>>), Good(b, <<w>>), Good(a, <<w, v>>), Good(b, <<n>>)>>

\* A frame with a corrupt block.
CorruptArchive == <<Good(a, <<v>>), Corrupt(b, <<w, v>>)>>
=============================================================================
