------------------------------- MODULE XxHash -------------------------------
(***************************************************************************)
(* XXH32, which lz4frame uses, and XXH64 beside it: a hash fed piece by     *)
(* piece (reset, update, digest) and a hash of the whole input at once.    *)
(* Mixing is left free: a round appends the word it takes to its lane, and *)
(* a hash is the list of all that went into it, in order, so two hashes    *)
(* are equal here exactly when they are of the same reads.  Buffering,     *)
(* stripes, the tail, the counts and their width, and the reads on either  *)
(* kind of processor are the code's.                                       *)
(***************************************************************************)
EXTENDS Integers, Sequences, SequencesExt, FiniteSets

CONSTANTS Content,  \* the bytes that are hashed, a sequence
          Wrap      \* total_len_32 counts modulo Wrap (2^32 in the code)

Byte == 0 .. 255

ASSUME ContentAssumption == Content \in Seq(Byte)

\* The count wraps no sooner than after two stripes: when it is at 16 for the
\* first time, it is seen to be.
ASSUME WrapAssumption == Wrap \in Nat /\ Wrap >= 32

VARIABLES little,   \* XXH_CPU_LITTLE_ENDIAN
          width,    \* 32 or 64: which of the two hashes runs
          fed,      \* bytes of Content given so far
          state     \* XXH32_state_t or XXH64_state_t
hash == <<little, width, fed, state>>

-----------------------------------------------------------------------------
(* Reads.  A number is the sequence of its bytes, the lowest first.        *)

Bytes(b, p, n) == SubSeq(b, p + 1, p + n)

XXH_read32(b, p) == IF little THEN Bytes(b, p, 4) ELSE Reverse(Bytes(b, p, 4))
XXH_read64(b, p) == IF little THEN Bytes(b, p, 8) ELSE Reverse(Bytes(b, p, 8))

XXH_swap32(x) == Reverse(x)
XXH_swap64(x) == Reverse(x)

\* Mutant of XXH_readLE32: the bytes are not swapped.
ReadUnswapped(b, p) == XXH_read32(b, p)

XXH_readLE32(b, p) == IF little THEN XXH_read32(b, p) ELSE XXH_swap32(XXH_read32(b, p))
XXH_readLE64(b, p) == IF little THEN XXH_read64(b, p) ELSE XXH_swap64(XXH_read64(b, p))

-----------------------------------------------------------------------------
(* XXH32.                                                                  *)

\* Each round mixes one word into one lane; PRIME32_1, PRIME32_2 and the seed
\* tell the lanes apart, which the negative numbers stand for.
Lanes == [k \in 1 .. 4 |-> <<-k>>]

XXH32_round(v, b, p, n) ==
  [k \in 1 .. 4 |->
     v[k] \o [j \in 1 .. n |-> XXH_readLE32(b, p + 16 * (j - 1) + 4 * (k - 1))]]

\* What is left of a stripe: whole words (PROCESS4), then bytes (PROCESS1).
\* The switch gives each length its number of each.
XXH32_finalize(h, b, p, len) ==
  LET words == (len % 16) \div 4
  IN  h \o [j \in 1 .. words |-> XXH_readLE32(b, p + 4 * (j - 1))]
        \o [j \in 1 .. len % 4 |-> <<b[p + 4 * words + j]>>]

\* The passes of  do { p += 16 } while (p < limit),  limit = bEnd - 15.
XXH32_passes(len) == Cardinality({j \in 0 .. len : j = 0 \/ 16 * j < len - 15})

XXH32(b) ==
  LET len == Len(b)
      n == IF len >= 16 THEN XXH32_passes(len) ELSE 0
      v == XXH32_round(Lanes, b, 0, n)
      h == IF len >= 16 THEN v ELSE <<v[3]>>
  IN  XXH32_finalize(Append(h, <<<<len % Wrap>>>>), b, 16 * n, len % 16)

XXH32_reset == [total_len |-> 0, large_len |-> FALSE, v |-> Lanes, mem |-> <<>>]

\* Mutant of XXH32_update: large_len forgets what was fed before.
UpdateForgets(s, input) ==
  LET len == Len(input)
      total == (s.total_len + len) % Wrap
      used == IF s.mem = <<>> THEN 0 ELSE 16 - Len(s.mem)
      v == IF s.mem = <<>> THEN s.v
           ELSE XXH32_round(s.v, s.mem \o Bytes(input, 0, used), 0, 1)
      n == Cardinality({j \in 0 .. len : used + 16 * j <= len - 16})
      p == used + 16 * n
  IN  IF Len(s.mem) + len < 16
      THEN [total_len |-> total, large_len |-> len >= 16 \/ total >= 16,
            v |-> s.v, mem |-> s.mem \o input]
      ELSE [total_len |-> total, large_len |-> len >= 16 \/ total >= 16,
            v |-> XXH32_round(v, input, used, n), mem |-> Bytes(input, p, len - p)]

\* A stripe begun is completed from the input, then whole stripes are taken
\* while  p <= bEnd - 16,  and the rest is kept.
XXH32_update(s, input) ==
  LET len == Len(input)
      total == (s.total_len + len) % Wrap
      large == s.large_len \/ len >= 16 \/ total >= 16
      used == IF s.mem = <<>> THEN 0 ELSE 16 - Len(s.mem)
      v == IF s.mem = <<>> THEN s.v
           ELSE XXH32_round(s.v, s.mem \o Bytes(input, 0, used), 0, 1)
      n == Cardinality({j \in 0 .. len : used + 16 * j <= len - 16})
      p == used + 16 * n
  IN  IF Len(s.mem) + len < 16
      THEN [total_len |-> total, large_len |-> large, v |-> s.v, mem |-> s.mem \o input]
      ELSE [total_len |-> total, large_len |-> large,
            v |-> XXH32_round(v, input, used, n), mem |-> Bytes(input, p, len - p)]

XXH32_digest(s) ==
  LET h == IF s.large_len THEN s.v ELSE <<s.v[3]>>
  IN  XXH32_finalize(Append(h, <<<<s.total_len>>>>), s.mem, 0, Len(s.mem))

-----------------------------------------------------------------------------
(* XXH64: stripes of 32 bytes, a count of 64 bits that does not wrap.      *)

XXH64_round(v, b, p, n) ==
  [k \in 1 .. 4 |->
     v[k] \o [j \in 1 .. n |-> XXH_readLE64(b, p + 32 * (j - 1) + 8 * (k - 1))]]

\* The four lanes are added up and then merged in once more, one by one.
XXH64_mergeRound(v) == v \o v

\* PROCESS8_64, PROCESS4_64 and PROCESS1_64.
XXH64_finalize(h, b, p, len) ==
  LET longs == (len % 32) \div 8
      words == (len % 8) \div 4
  IN  h \o [j \in 1 .. longs |-> XXH_readLE64(b, p + 8 * (j - 1))]
        \o [j \in 1 .. words |-> XXH_readLE32(b, p + 8 * longs)]
        \o [j \in 1 .. len % 4 |-> <<b[p + 8 * longs + 4 * words + j]>>]

XXH64_passes(len) == Cardinality({j \in 0 .. len : j = 0 \/ 32 * j <= len - 32})

\* The length goes to finalize whole, which takes it modulo 32.
XXH64(b) ==
  LET len == Len(b)
      n == IF len >= 32 THEN XXH64_passes(len) ELSE 0
      v == XXH64_round(Lanes, b, 0, n)
      h == IF len >= 32 THEN XXH64_mergeRound(v) ELSE <<v[3]>>
  IN  XXH64_finalize(Append(h, <<<<len>>>>), b, 32 * n, len)

XXH64_reset == [total_len |-> 0, v |-> Lanes, mem |-> <<>>]

\* Mutant of XXH64_update: a stripe just completed stays in the buffer.
UpdateKeepsStripe(s, input) ==
  LET len == Len(input)
      used == IF s.mem = <<>> THEN 0 ELSE 32 - Len(s.mem)
      v == IF s.mem = <<>> THEN s.v
           ELSE XXH64_round(s.v, s.mem \o Bytes(input, 0, used), 0, 1)
      n == Cardinality({j \in 0 .. len : used + 32 * j + 32 <= len})
      p == used + 32 * n
  IN  IF Len(s.mem) + len <= 32
      THEN [total_len |-> s.total_len + len, v |-> s.v, mem |-> s.mem \o input]
      ELSE [total_len |-> s.total_len + len, v |-> XXH64_round(v, input, used, n),
            mem |-> Bytes(input, p, len - p)]

XXH64_update(s, input) ==
  LET len == Len(input)
      used == IF s.mem = <<>> THEN 0 ELSE 32 - Len(s.mem)
      v == IF s.mem = <<>> THEN s.v
           ELSE XXH64_round(s.v, s.mem \o Bytes(input, 0, used), 0, 1)
      n == Cardinality({j \in 0 .. len : used + 32 * j + 32 <= len})
      p == used + 32 * n
  IN  IF Len(s.mem) + len < 32
      THEN [total_len |-> s.total_len + len, v |-> s.v, mem |-> s.mem \o input]
      ELSE [total_len |-> s.total_len + len, v |-> XXH64_round(v, input, used, n),
            mem |-> Bytes(input, p, len - p)]

XXH64_digest(s) ==
  LET h == IF s.total_len >= 32 THEN XXH64_mergeRound(s.v) ELSE <<s.v[3]>>
  IN  XXH64_finalize(Append(h, <<<<s.total_len>>>>), s.mem, 0, s.total_len)

-----------------------------------------------------------------------------
XXH_Init == /\ little \in BOOLEAN
            /\ width \in {32, 64}
            /\ fed = 0
            /\ state = IF width = 32 THEN XXH32_reset ELSE XXH64_reset

\* One call of update, with a piece of any length, none included.
Feed(n) == /\ fed + n <= Len(Content)
           /\ state' = IF width = 32 THEN XXH32_update(state, Bytes(Content, fed, n))
                                     ELSE XXH64_update(state, Bytes(Content, fed, n))
           /\ fed' = fed + n
           /\ UNCHANGED <<little, width>>

\* The state is used again for a second input.
Again == /\ state' = IF width = 32 THEN XXH32_reset ELSE XXH64_reset
         /\ fed' = 0
         /\ UNCHANGED <<little, width>>

XXH_Next == Again \/ \E n \in 0 .. Len(Content) : Feed(n)

XXH_Spec == XXH_Init /\ [][XXH_Next]_hash

-----------------------------------------------------------------------------
(* Properties *)

Stripe == IF width = 32 THEN 16 ELSE 32

\* A stripe that is not complete is all that is buffered, so the copies into
\* mem32 and mem64 stay inside them.  (XXH32_update, XXH64_update)
BuffersFit ==
  /\ little \in BOOLEAN /\ width \in {32, 64}
  /\ fed \in 0 .. Len(Content)
  /\ Len(state.mem) = fed % Stripe

\* However the input is cut into pieces, the digest is the hash of the whole
\* input: of the same stripes, words, bytes and length.  (XXH32_update,
\* XXH32_digest, XXH32 and their 64-bit forms; lz4frame feeds a content
\* checksum piece by piece and other tools check it at once.)
StreamIsOneShot ==
  IF width = 32 THEN XXH32_digest(state) = XXH32(Bytes(Content, 0, fed))
                ELSE XXH64_digest(state) = XXH64(Bytes(Content, 0, fed))

\* The hash does not depend on the processor's byte order, nor on the pieces:
\* what a lane has mixed in are the words of every stripe at its place, each the
\* bytes of the input in their order.  (XXH_readLE32, XXH_readLE64)
Portable ==
  LET word == Stripe \div 4
  IN  \A k \in 1 .. 4 :
        state.v[k] = Lanes[k] \o [j \in 1 .. fed \div Stripe |->
                                   Bytes(Content, Stripe * (j - 1) + word * (k - 1), word)]
=============================================================================
