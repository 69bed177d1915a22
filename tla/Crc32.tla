------------------------------- MODULE Crc32 -------------------------------
(***************************************************************************)
(* mcd_crc32b of src/faultdump.c and what it should compute.  A word of 32 *)
(* bits is the set of its bits, and so is a byte: bit 31 does not fit the  *)
(* integers of the model checker.                                          *)
(***************************************************************************)
EXTENDS Naturals, Sequences

Bits32 == 0..31
Xor(v, w) == (v \ w) \cup (w \ v)
Not(w) == Bits32 \ w

\* 0xEDB88320
POLY == {5, 8, 9, 15, 19, 20, 21, 23, 24, 26, 27, 29, 30, 31}

\* crc = (crc >> 1) ^ (POLY & mask), where mask is bit 0 of crc in every place
CrcBit == [crc \in SUBSET Bits32 |->
  LET shifted == {i - 1 : i \in crc \ {0}}
  IN  IF 0 \in crc THEN Xor(shifted, POLY) ELSE shifted]

\* The inner loop: the register after each of the bits of a byte.
AfterBits(crc) ==
  LET after[n \in 0..8] == IF n = 0 THEN crc ELSE CrcBit[after[n - 1]]
  IN  after

CrcByte(crc, byte) == AfterBits(Xor(crc, byte))[8]

\* The outer loop: the register after each of the bytes of a message.
AfterBytes(message, crc) ==
  LET after[n \in 0..Len(message)] == IF n = 0 THEN crc ELSE CrcByte(after[n - 1], message[n])
  IN  after

mcd_crc32b(message, initCrc) == Not(AfterBytes(message, initCrc)[Len(message)])

-----------------------------------------------------------------------------
(* CRC-32 by its definition: the remainder of a division of polynomials    *)
(* over the field of two elements, each the set of its exponents.  The     *)
(* first bit is the lowest one of the first byte.                          *)

Generator == {32, 26, 23, 22, 16, 12, 11, 10, 8, 7, 5, 4, 2, 1, 0}

\* A multiple of the generator is taken away if it has the exponent top.
Reduced(top) == [polynomial \in SUBSET Nat |->
  IF top \in polynomial THEN Xor(polynomial, {top - 32 + g : g \in Generator}) ELSE polynomial]

\* The division: exponents n + 31 down to 32, one after the other.
Division(polynomial, n) ==
  LET rest[k \in 0..n] == IF k = 0 THEN polynomial ELSE Reduced(n + 32 - k)[rest[k - 1]]
  IN  rest

\* The polynomial of bytes k + 1 and later, with 32 places below them.
Message(message, k) ==
  UNION {{32 + 8 * (Len(message) - j) + (7 - b) : b \in message[j]} : j \in k+1..Len(message)}

\* The first 32 bits of the message and the remainder are inverted.
CRC32(message) ==
  LET n == 8 * Len(message)
      rest == Division(Xor(Message(message, 0), {n + i : i \in Bits32}), n)
  IN  Not({31 - e : e \in rest[n]})
=============================================================================
