---------------------------- MODULE Crc32Standard ----------------------------
(***************************************************************************)
(* The checksum crc32b is to compute, defined as its mathematics has it:   *)
(* the remainder of a division of polynomials over GF(2).                  *)
(***************************************************************************)
EXTENDS Crc32

\* x^32 + x^26 + ... + 1, as the set of its exponents.
Generator == {0, 1, 2, 4, 5, 7, 8, 10, 11, 12, 16, 22, 23, 26, 32}

\* A register of 32 bits, and 0xEDB88320: the generator without its top
\* exponent, x^31 as bit 0.
ASSUME StandardAssumption == W = 32 /\ Poly = {31 - g : g \in Generator \ {32}}

\* The message as a polynomial, lowest bit of the first byte first, times x^32,
\* with its first 32 coefficients inverted.
Message(bytes) ==
  LET n == 8 * Len(bytes)
  IN  Xor({32 + n - 1 - (8 * (p[1] - 1) + p[2]) :
             p \in {q \in (1 .. Len(bytes)) \X (0 .. 7) : q[2] \in bytes[q[1]]}},
          n .. n + 31)

\* The exponent e is eliminated by the generator's top one.
Eliminated(rest, e) ==
  IF e \in rest THEN Xor(rest, {g + e - 32 : g \in Generator}) ELSE rest

\* Long division: the n exponents from 32 up are eliminated, the highest first.
Remainder(poly, n) ==
  LET Rest[k \in 0 .. n] == IF k = 0 THEN poly ELSE Eliminated(Rest[k - 1], 32 + n - k)
  IN  Rest[n]

\* The coefficient of x^31 is bit 0; the result is inverted.
Standard(bytes) == {k \in 0 .. 31 : 31 - k \notin Remainder(Message(bytes), 8 * Len(bytes))}

\* Both overloads compute the CRC-32 of what they have taken, where it is text of
\* characters below 128, or char is unsigned: crc32b(src, size) and crc32b(path)
\* are right but for the sign of a char, and take the same bytes, white space
\* included.
Plain(bytes) == ~signed \/ \A k \in 1 .. Len(bytes) : 7 \notin bytes[k]

ComputesCrc32OfPlain ==
  /\ Plain(SubSeq(src, 1, i)) => Not(crc) = Standard(SubSeq(src, 1, i))
  /\ Plain(SubSeq(file, 1, i)) => Not(file_crc) = Standard(SubSeq(file, 1, i))
=============================================================================
