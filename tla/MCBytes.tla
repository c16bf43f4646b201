------------------------------- MODULE MCBytes -------------------------------
(* Instances of Crc32, XxHash and Lz4Decoding for TLC, the machines that    *)
(* take bytes one after another: the CRC with its real width and            *)
(* polynomial, the hashes, and the decoding of a block.  They share         *)
(* nothing, so one of them runs while the others rest: the hashes where the *)
(* block of crc32b is empty, for which it has nothing to do, and each       *)
(* decoding but one beside one choice of the others.                        *)
EXTENDS Crc32Standard, XxHash, Lz4Decoding

\* 0xEDB88320
MCPoly == {5, 8, 9, 15, 19, 20, 21, 23, 24, 26, 27, 29, 30, 31}

CharOf(n) == {k \in 0 .. 7 : (n \div 2^k) % 2 = 1}

\* NUL, a space, characters that differ in many bits and in one, and bytes with
\* the sign bit.
MCChars == {CharOf(n) : n \in {0, 32, 85, 127, 128, 170, 255}}

\* All contents of up to two of them, some of three, and "123456789".
MCBlocks == UNION {[1 .. k -> MCChars] : k \in 0 .. 2}
            \cup [1 .. 3 -> {CharOf(0), CharOf(127), CharOf(255)}]
            \cup {[k \in 1 .. 9 |-> CharOf(48 + k)]}

\* Bytes that all differ: three stripes of XXH64 and one byte of a fourth.
MCContent == [k \in 1 .. 97 |-> k]

-----------------------------------------------------------------------------
\* Blocks to be decoded step by step: every half of a token full and not, short
\* and long literal lengths, near, far and impossible offsets, cut off after
\* a few bytes, and late enough for the fast loop.
Mixed(n) == [k \in 1 .. n |-> (k * 7) % 16]
MCReceived == {<<0>>} \cup
  {<<t>> \o s \o r :
     t \in {0, 3, 4, 7, 8, 12, 15},
     s \in {<<5, 1, 0>>, <<15, 15, 1>>, <<2, 4, 0, 15, 3>>},
     r \in {<<1, 2, 3, 4, 5>>, [k \in 1 .. 30 |-> 0], <<3, 2, 0, 15, 15, 15, 2>> \o Mixed(10),
            <<0, 3, 3>> \o Mixed(30)}}

\* With room for the fast loop, for the shortcut, and for neither.
MCRooms == {<<221, 79>>, <<221, 36>>, <<221, 11>>}
MCTargets == {30, 79}

\* Streams: just begun, after a little, after almost a window with a dictionary
\* besides, after a little with one, and gone on with at another place.
MCContexts ==
  {[end |-> NULL, size |-> 0, ext |-> NULL, extSize |-> 0],
   [end |-> 221, size |-> 12, ext |-> NULL, extSize |-> 0],
   [end |-> 221, size |-> 35, ext |-> 170, extSize |-> 9],
   [end |-> 221, size |-> 7, ext |-> 170, extSize |-> 10],
   [end |-> 180, size |-> 15, ext |-> 185, extSize |-> 36]}
MCHeld == [a \in 160 .. 304 |-> a % 16]

-----------------------------------------------------------------------------
OnlyAsked == call = LZ4_decompress_safe(<<0>>, 221, 11)
OthersRest == src = <<>> /\ signed = TRUE /\ little = TRUE /\ width = 32

MCInit == /\ DecodingInit
          /\ IF OnlyAsked THEN TRUE ELSE OthersRest
          /\ Init /\ XXH_Init
          /\ src # <<>> \/ signed => little /\ width = 32

MCNext == \/ Next /\ UNCHANGED <<hash, decoding>>
          \/ src = <<>> /\ ~signed /\ XXH_Next /\ UNCHANGED <<vars, decoding>>
          \/ ~OnlyAsked /\ DecodingNext /\ UNCHANGED <<vars, hash>>

MCSpec == MCInit /\ [][MCNext]_<<vars, hash, decoding>>
=============================================================================
