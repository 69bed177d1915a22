---------------------------- MODULE Crc32Proofs ----------------------------
(***************************************************************************)
(* mcd_crc32b computes the CRC-32 of every message, by induction over its  *)
(* bytes and the bits of each: what is left of the division of polynomials *)
(* is the register, with its bits in reverse, and the bytes to come.       *)
(***************************************************************************)
EXTENDS Crc32, SequenceTheorems, Induction

Words == SUBSET Bits32
Bytes == SUBSET (0..7)

-----------------------------------------------------------------------------
(* One bit. *)

\* The polynomial of a register when m bits are still to come.
Place(w, m) == {m + 31 - i : i \in w}

LEMMA PlaceAt ==
  ASSUME NEW w \in Words, NEW m \in Nat, NEW e \in Int
  PROVE  e \in Place(w, m) <=> m + 31 - e \in w
<1>1. ASSUME e \in Place(w, m) PROVE m + 31 - e \in w
  <2>1. PICK i \in w : e = m + 31 - i BY <1>1 DEF Place
  <2>2. i \in Int BY DEF Words, Bits32
  <2>3. m + 31 - e = i BY <2>1, <2>2
  <2> QED BY <2>3
<1>2. ASSUME m + 31 - e \in w PROVE e \in Place(w, m)
  <2>1. e = m + 31 - (m + 31 - e) OBVIOUS
  <2> QED BY <1>2, <2>1 DEF Place
<1> QED BY <1>1, <1>2

LEMMA PlaceType ==
  ASSUME NEW w \in Words, NEW m \in Nat
  PROVE  Place(w, m) \subseteq 0..m+31
BY DEF Place, Words, Bits32

LEMMA XorAt == \A v, w, e : e \in Xor(v, w) <=> ~(e \in v <=> e \in w)
BY DEF Xor

LEMMA ShiftAt ==
  ASSUME NEW m \in Nat, NEW e \in Int
  PROVE  e \in {m + g : g \in Generator} <=> e - m \in Generator
<1>1. Generator \subseteq Nat BY DEF Generator
<1>2. ASSUME NEW g \in Generator, e = m + g PROVE e - m = g BY <1>1, <1>2
<1>3. e = m + (e - m) OBVIOUS
<1> QED BY <1>2, <1>3

\* The polynomial of the source is the generator in reverse, without its exponent 32.
LEMMA PolyIsGenerator ==
  /\ \A i \in Bits32 : i \in POLY <=> 31 - i \in Generator
  /\ 32 \in Generator /\ Generator \subseteq 0..32
<1>1. \A i \in Bits32 : i \in POLY <=> 31 - i \in Generator
  BY DEF Bits32, POLY, Generator
<1> QED BY <1>1 DEF Generator

\* A bit of the register after a shift.
LEMMA CrcBitAt ==
  ASSUME NEW w \in Words
  PROVE  /\ CrcBit[w] \in Words
         /\ \A i \in Bits32 : i \in CrcBit[w] <=> ~(i + 1 \in w <=> (0 \in w /\ i \in POLY))
<1> DEFINE shifted == {i - 1 : i \in w \ {0}}
<1>1. CrcBit[w] = IF 0 \in w THEN Xor(shifted, POLY) ELSE shifted BY DEF CrcBit, Words
<1>2. shifted \subseteq Bits32 BY DEF Words, Bits32
<1>3. POLY \subseteq Bits32 BY DEF POLY, Bits32
<1>4. \A i \in Bits32 : i \in shifted <=> i + 1 \in w
  <2> SUFFICES ASSUME NEW i \in Bits32 PROVE i \in shifted <=> i + 1 \in w OBVIOUS
  <2>1. i \in Int /\ i + 1 # 0 /\ (i + 1) - 1 = i BY DEF Bits32
  <2>2. ASSUME NEW j \in w, i = j - 1 PROVE i + 1 = j BY <2>2 DEF Words, Bits32
  <2> QED BY <2>1, <2>2
<1> HIDE DEF shifted
<1>5. CrcBit[w] \in Words BY <1>1, <1>2, <1>3 DEF Words, Xor
<1> QED BY <1>1, <1>4, <1>5, XorAt

\* A step of the loop is a step of the division, if the bits to come are below it.
LEMMA OneBit ==
  ASSUME NEW w \in Words, NEW m \in Nat, NEW r \in SUBSET (0..m+31)
  PROVE  Reduced(m + 32)[Xor(Place(w, m + 1), r)] = Xor(Place(CrcBit[w], m), r)
<1> DEFINE p == Xor(Place(w, m + 1), r)
           q == Xor(Place(CrcBit[w], m), r)
           s == {m + g : g \in Generator}
<1>1. p \in SUBSET (0..m+32)
  <2>1. m + 1 \in Nat /\ (m + 1) + 31 = m + 32 OBVIOUS
  <2>2. Place(w, m + 1) \subseteq 0..m+32 BY <2>1, PlaceType
  <2>3. r \subseteq 0..m+32 OBVIOUS
  <2> QED BY <2>2, <2>3 DEF Xor
<1>2. Reduced(m + 32)[p] = IF m + 32 \in p THEN Xor(p, s) ELSE p
  <2>1. \A g \in Generator : (m + 32) - 32 + g = m + g BY DEF Generator
  <2>2. {(m + 32) - 32 + g : g \in Generator} = s BY <2>1
  <2> QED BY <1>1, <2>2 DEF Reduced
<1>3. CrcBit[w] \in Words BY CrcBitAt
<1>4. q \subseteq 0..m+31
  <2>1. Place(CrcBit[w], m) \subseteq 0..m+31 BY <1>3, PlaceType
  <2> QED BY <2>1 DEF Xor
<1>5. s \subseteq 0..m+32 BY PolyIsGenerator
<1>6. ASSUME NEW e \in 0..m+32
      PROVE  /\ e \in p <=> ~(m + 32 - e \in w <=> e \in r)
             /\ e \in q <=> ~(m + 31 - e \in CrcBit[w] <=> e \in r)
             /\ e \in s <=> e - m \in Generator
  <2>1. e \in Int /\ m + 1 \in Nat /\ (m + 1) + 31 - e = m + 32 - e OBVIOUS
  <2>2. e \in Place(w, m + 1) <=> m + 32 - e \in w BY <2>1, PlaceAt
  <2>3. e \in Place(CrcBit[w], m) <=> m + 31 - e \in CrcBit[w] BY <1>3, <2>1, PlaceAt
  <2> QED BY <2>1, <2>2, <2>3, ShiftAt, XorAt
<1>7. m + 32 \in p <=> 0 \in w
  <2>1. m + 32 \in 0..m+32 /\ m + 32 - (m + 32) = 0 /\ m + 32 \notin r OBVIOUS
  <2> QED BY <1>6, <2>1
<1>8. ASSUME NEW e \in 0..m+32
      PROVE  e \in q <=> ~(e \in p <=> (0 \in w /\ e \in s))
  <2> DEFINE i == m + 31 - e
  <2>1. i + 1 = m + 32 - e /\ 31 - i = e - m /\ i \in Int OBVIOUS
  <2>2. CASE i \in Bits32
    <3>1. i \in CrcBit[w] <=> ~(i + 1 \in w <=> (0 \in w /\ i \in POLY)) BY <2>2, CrcBitAt
    <3>2. i \in POLY <=> e - m \in Generator BY <2>1, <2>2, PolyIsGenerator
    <3> HIDE DEF i
    <3> QED BY <1>6, <2>1, <3>1, <3>2
  <2>3. CASE i \notin Bits32
    <3>1. i \notin CrcBit[w] BY <1>3, <2>3 DEF Words
    <3>2. i = -1 \/ i > 31 BY <2>1, <2>3 DEF Bits32
    <3>3. CASE i = -1
      <4>1. e = m + 32 BY <3>3
      <4>2. e \notin r /\ e - m = 32 /\ m + 32 - e = 0 BY <4>1
      <4> QED BY <1>6, <3>1, <4>2, PolyIsGenerator
    <3>4. CASE i > 31
      <4>1. m + 32 - e > 31 /\ e - m < 0 BY <2>1, <3>4
      <4>2. m + 32 - e \notin w BY <4>1 DEF Words, Bits32
      <4>3. e - m \notin Generator BY <4>1, PolyIsGenerator
      <4> QED BY <1>6, <3>1, <4>2, <4>3
    <3> QED BY <3>2, <3>3, <3>4
  <2> QED BY <2>2, <2>3
<1> HIDE DEF p, q, s
<1>9. q = IF 0 \in w THEN Xor(p, s) ELSE p
  <2>1. q \subseteq 0..m+32 BY <1>4
  <2>2. Xor(p, s) \subseteq 0..m+32 BY <1>1, <1>5 DEF Xor
  <2>3. CASE 0 \in w
    <3>1. \A e \in 0..m+32 : e \in q <=> e \in Xor(p, s) BY <1>8, <2>3, XorAt
    <3> QED BY <2>1, <2>2, <2>3, <3>1
  <2>4. CASE 0 \notin w
    <3>1. \A e \in 0..m+32 : e \in q <=> e \in p BY <1>8, <2>4
    <3> QED BY <1>1, <2>1, <2>4, <3>1
  <2> QED BY <2>3, <2>4
<1> QED BY <1>2, <1>7, <1>9 DEF p, q, s
-----------------------------------------------------------------------------
(* The loops of the source, and of the division. *)

LEMMA BitsRun ==
  ASSUME NEW crc \in Words
  PROVE  /\ AfterBits(crc)[0] = crc
         /\ \A n \in 1..8 : AfterBits(crc)[n] = CrcBit[AfterBits(crc)[n - 1]]
         /\ \A n \in 0..8 : AfterBits(crc)[n] \in Words
<1> DEFINE body == [n \in 1..8 |-> CrcBit]
           Is(f) == f = [n \in 0..8 |-> IF n = 0 THEN crc ELSE CrcBit[f[n - 1]]]
<1>1. \A n \in 1..8, w \in Words : body[n][w] \in Words BY CrcBitAt
<1>2. \E f \in [0..8 -> Words] : Runs(f, crc, body, 8) BY <1>1, LoopExists
<1>3. \E f : Is(f) BY <1>2 DEF Runs
<1>4. AfterBits(crc) = CHOOSE f : Is(f) BY DEF AfterBits
<1>5. Is(AfterBits(crc)) BY <1>3, <1>4
<1>6. Runs(AfterBits(crc), crc, body, 8) BY <1>5 DEF Runs
<1>7. \A n \in 0..8 : AfterBits(crc)[n] \in Words BY <1>1, <1>6, LoopTyped
<1> QED BY <1>6, <1>7 DEF Runs

LEMMA CrcByteType ==
  ASSUME NEW crc \in Words, NEW byte \in Words
  PROVE  Xor(crc, byte) \in Words /\ CrcByte(crc, byte) \in Words
<1>1. Xor(crc, byte) \in Words BY DEF Xor, Words
<1> QED BY <1>1, BitsRun DEF CrcByte

\* The body of the outer loop.
ByteBody(message, n) == [k \in 1..n |-> [crc \in Words |-> CrcByte(crc, message[k])]]

LEMMA BytesRun ==
  ASSUME NEW message \in Seq(Words), NEW crc \in Words
  PROVE  /\ Runs(AfterBytes(message, crc), crc, ByteBody(message, Len(message)), Len(message))
         /\ AfterBytes(message, crc)[0] = crc
         /\ \A k \in 1..Len(message) :
              AfterBytes(message, crc)[k] = CrcByte(AfterBytes(message, crc)[k - 1], message[k])
         /\ \A k \in 0..Len(message) : AfterBytes(message, crc)[k] \in Words
<1> DEFINE n == Len(message)
           body == ByteBody(message, n)
           a == AfterBytes(message, crc)
           Is(f) == f = [k \in 0..n |-> IF k = 0 THEN crc ELSE CrcByte(f[k - 1], message[k])]
<1>0. n \in Nat /\ \A k \in 1..n : message[k] \in Words BY LenProperties, ElementOfSeq
<1>1. \A k \in 1..n, w \in Words : body[k][w] = CrcByte(w, message[k]) BY DEF ByteBody
<1>2. \A k \in 1..n, w \in Words : body[k][w] \in Words BY <1>0, <1>1, CrcByteType
<1>3. a = CHOOSE f : Is(f) BY DEF AfterBytes
<1> HIDE DEF n, body, a
<1>4. \E f \in [0..n -> Words] : Runs(f, crc, body, n) BY <1>0, <1>2, LoopExists
<1>5. \E f : Is(f)
  <2>1. PICK f \in [0..n -> Words] : Runs(f, crc, body, n) BY <1>4
  <2>2. ASSUME NEW k \in 1..n PROVE f[k] = CrcByte(f[k - 1], message[k])
    <3>1. k - 1 \in 0..n BY <1>0
    <3> QED BY <1>1, <2>1, <3>1 DEF Runs
  <2>3. \A k \in 0..n : f[k] = IF k = 0 THEN crc ELSE CrcByte(f[k - 1], message[k])
    <3>1. f[0] = crc BY <2>1 DEF Runs
    <3>2. \A k \in 0..n : k = 0 \/ k \in 1..n BY <1>0
    <3> QED BY <2>2, <3>1, <3>2
  <2>4. Is(f) BY <2>1, <2>3
  <2> QED BY <2>4
<1>6. Is(a) BY <1>3, <1>5
<1>7. a[0] = crc /\ \A k \in 1..n : a[k] = CrcByte(a[k - 1], message[k]) BY <1>0, <1>6
<1> HIDE DEF Is
<1>8. \A k \in 0..n : a[k] \in Words
  <2> DEFINE T == {k \in 0..n : a[k] \in Words}
  <2>1. 0 \in T BY <1>0, <1>7
  <2>2. ASSUME NEW k \in 1..n, k - 1 \in T PROVE k \in T
    BY <1>0, <1>7, <2>2, CrcByteType
  <2> HIDE DEF T
  <2>3. \A k \in 0..n : k \in T BY <1>0, <2>1, <2>2, RangeInduction
  <2> QED BY <2>3 DEF T
<1>9. Runs(a, crc, body, n)
  <2>1. ASSUME NEW k \in 1..n PROVE a[k] = body[k][a[k - 1]]
    <3>1. k - 1 \in 0..n BY <1>0
    <3> QED BY <1>1, <1>7, <1>8, <3>1
  <2> QED BY <1>7, <2>1 DEF Runs
<1> QED BY <1>7, <1>8, <1>9 DEF n, body, a

\* A message that goes on: what has been computed stays, and one byte is added.
LEMMA OneMoreByte ==
  ASSUME NEW message \in Seq(Words), NEW byte \in Words, NEW crc \in Words
  PROVE  AfterBytes(Append(message, byte), crc)[Len(message) + 1]
           = CrcByte(AfterBytes(message, crc)[Len(message)], byte)
<1> DEFINE n == Len(message)
           more == Append(message, byte)
           a == AfterBytes(message, crc)
           b == AfterBytes(more, crc)
<1>1. /\ more \in Seq(Words) /\ Len(more) = n + 1 /\ more[n + 1] = byte /\ n \in Nat
      /\ \A k \in 1..n : more[k] = message[k]
  BY AppendProperties, LenProperties
<1>2. /\ Runs(a, crc, ByteBody(message, n), n)
      /\ Runs(b, crc, ByteBody(more, n + 1), n + 1)
      /\ b[n + 1] = CrcByte(b[n], more[n + 1])
      /\ \A k \in 0..n : b[k] \in Words
  <2>1. n + 1 \in 1..n+1 /\ (n + 1) - 1 = n /\ \A k \in 0..n : k \in 0..n+1 BY <1>1
  <2> HIDE DEF a, b, more, n
  <2>2. Runs(a, crc, ByteBody(message, n), n) BY BytesRun DEF a, n
  <2>3. /\ Runs(b, crc, ByteBody(more, Len(more)), Len(more))
        /\ \A k \in 1..Len(more) : b[k] = CrcByte(b[k - 1], more[k])
        /\ \A k \in 0..Len(more) : b[k] \in Words
    BY <1>1, BytesRun DEF b
  <2> QED BY <1>1, <2>1, <2>2, <2>3
<1> HIDE DEF more, a, b, n
<1>3. Runs(b, crc, ByteBody(message, n), n)
  <2>1. \A k \in 1..n : ByteBody(message, n)[k] = ByteBody(more, n + 1)[k]
    BY <1>1 DEF ByteBody
  <2>2. \A k \in 1..n : k \in 1..n+1 BY <1>1
  <2> QED BY <1>2, <2>1, <2>2 DEF Runs
<1>4. a[n] = b[n]
  <2>1. n \in 0..n BY <1>1
  <2> QED BY <1>1, <1>2, <1>3, <2>1, LoopUnique
<1> QED BY <1>1, <1>2, <1>4 DEF more, a, b, n

\* The division, of any polynomial.
LEMMA DivisionRun ==
  ASSUME NEW n \in Nat, NEW p \in SUBSET Nat
  PROVE  /\ Division(p, n)[0] = p
         /\ \A k \in 1..n : Division(p, n)[k] = Reduced(n + 32 - k)[Division(p, n)[k - 1]]
<1> DEFINE body == [k \in 1..n |-> Reduced(n + 32 - k)]
           Is(f) == f = [k \in 0..n |-> IF k = 0 THEN p ELSE Reduced(n + 32 - k)[f[k - 1]]]
<1>1. ASSUME NEW k \in 1..n, NEW q \in SUBSET Nat PROVE body[k][q] \in SUBSET Nat
  <2> DEFINE top == n + 32 - k
  <2>1. top \in Nat /\ top >= 32 OBVIOUS
  <2>2. body[k][q] = Reduced(top)[q] OBVIOUS
  <2> HIDE DEF top
  <2>3. {top - 32 + g : g \in Generator} \subseteq Nat BY <2>1 DEF Generator
  <2> HIDE DEF body
  <2> QED BY <2>2, <2>3 DEF Reduced, Xor
<1>2. \E f \in [0..n -> SUBSET Nat] : Runs(f, p, body, n)
  <2> HIDE DEF body
  <2> QED BY <1>1, LoopExists
<1>3. \E f : Is(f) BY <1>2 DEF Runs
<1>4. Division(p, n) = CHOOSE f : Is(f) BY DEF Division
<1>5. Is(Division(p, n)) BY <1>3, <1>4
<1> QED BY <1>5

-----------------------------------------------------------------------------
(* The bytes to come. *)

\* Byte j of a message, from 1, in its polynomial.
LEMMA MessageAt ==
  ASSUME NEW message \in Seq(Bytes), NEW k \in 0..Len(message)-1
  PROVE  LET m == 8 * (Len(message) - k)
         IN  /\ Message(message, k + 1) \subseteq 0..m+23
             /\ Message(message, k) = Xor(Place(message[k + 1], m), Message(message, k + 1))
<1> DEFINE n == Len(message)
           m == 8 * (n - k)
           At(j) == {32 + 8 * (n - j) + (7 - b) : b \in message[j]}
<1>0. n \in Nat /\ k \in Nat /\ k + 1 \in 1..n BY LenProperties
<1>1. \A j \in 1..n : message[j] \in Bytes BY ElementOfSeq
<1>2. Message(message, k) = UNION {At(j) : j \in k+1..n} BY DEF Message
<1>3. Message(message, k + 1) = UNION {At(j) : j \in k+2..n}
  <2>1. (k + 1) + 1 = k + 2 BY <1>0
  <2> QED BY <2>1 DEF Message
<1>4. \A j \in k+2..n : At(j) \subseteq 0..m+23
  <2> SUFFICES ASSUME NEW j \in k+2..n, NEW b \in message[j]
               PROVE  32 + 8 * (n - j) + (7 - b) \in 0..m+23
    OBVIOUS
  <2>1. b \in 0..7 /\ j \in Int BY <1>0, <1>1 DEF Bytes
  <2> QED BY <1>0, <2>1
<1>5. At(k + 1) = Place(message[k + 1], m)
  <2>1. \A b \in 0..7 : 32 + 8 * (n - (k + 1)) + (7 - b) = m + 31 - b BY <1>0
  <2>2. message[k + 1] \subseteq 0..7 BY <1>0, <1>1 DEF Bytes
  <2> HIDE DEF m, n
  <2>3. \A b \in message[k + 1] : 32 + 8 * (n - (k + 1)) + (7 - b) = m + 31 - b
    BY <2>1, <2>2
  <2> QED BY <2>3 DEF Place
<1>6. \A e \in Place(message[k + 1], m) : e > m + 23
  <2>1. \A b \in message[k + 1] : b \in 0..7 BY <1>0, <1>1 DEF Bytes
  <2> QED BY <1>0, <2>1 DEF Place
<1>7. k+1..n = {k + 1} \cup (k+2..n) BY <1>0
<1> HIDE DEF At, m
<1>8. Message(message, k) = At(k + 1) \cup Message(message, k + 1) BY <1>2, <1>3, <1>7
<1>9. Message(message, k + 1) \subseteq 0..m+23 BY <1>3, <1>4
<1>10. \A e \in Message(message, k + 1) : ~(e > m + 23) BY <1>0, <1>9 DEF m
<1>11. Message(message, k) = Xor(Place(message[k + 1], m), Message(message, k + 1))
  BY <1>5, <1>6, <1>8, <1>10 DEF Xor
<1> QED BY <1>9, <1>11 DEF m, n

LEMMA NoMessage == \A message \in Seq(Bytes) : Message(message, Len(message)) = {}
BY LenProperties DEF Message

LEMMA MessageType ==
  ASSUME NEW message \in Seq(Bytes)
  PROVE  Message(message, 0) \subseteq 0..8 * Len(message) + 31
<1>0. Len(message) \in Nat BY LenProperties
<1>1. CASE Len(message) = 0 BY <1>1, NoMessage
<1>2. CASE Len(message) > 0
  <2>1. \A j \in 1..Len(message), b \in 0..7 :
          32 + 8 * (Len(message) - j) + (7 - b) \in 0..8 * Len(message) + 31
    BY <1>0
  <2>2. \A j \in 1..Len(message) : message[j] \subseteq 0..7 BY ElementOfSeq DEF Bytes
  <2>3. 0 + 1 = 1 OBVIOUS
  <2> SUFFICES ASSUME NEW j \in 1..Len(message), NEW b \in message[j]
               PROVE  32 + 8 * (Len(message) - j) + (7 - b) \in 0..8 * Len(message) + 31
    BY <2>3 DEF Message
  <2>4. b \in 0..7 BY <2>2
  <2> QED BY <2>1, <2>4
<1> QED BY <1>0, <1>1, <1>2

-----------------------------------------------------------------------------
(* The register and the division, byte by byte. *)

\* What is left after a byte, if this was left before it.
LEMMA OneByte ==
  ASSUME NEW d, NEW lo \in Nat, NEW m \in Nat, NEW high, high = m + 8,
         \A j \in 1..8 : d[lo + j] = Reduced(m + 40 - j)[d[lo + j - 1]],
         NEW crc \in Words, NEW byte \in Words, NEW rest \in SUBSET (0..m+31),
         d[lo] = Xor(Place(crc, high), Xor(Place(byte, high), rest))
  PROVE  d[lo + 8] = Xor(Place(CrcByte(crc, byte), m), rest)
<1> DEFINE w == Xor(crc, byte)
           T == {j \in 0..8 : d[lo + j] = Xor(Place(AfterBits(w)[j], m + 8 - j), rest)}
<1>1. w \in Words BY CrcByteType
<1>2. 0 \in T
  <2>1. m + 8 \in Nat /\ m + 8 - 0 = m + 8 /\ lo + 0 = lo OBVIOUS
  <2>2. AfterBits(w)[0] = w BY <1>1, BitsRun
  <2>3. Xor(Place(crc, m + 8), Xor(Place(byte, m + 8), rest)) = Xor(Place(w, m + 8), rest)
    <3>1. \A e : e \in Place(crc, m + 8) \/ e \in Place(byte, m + 8) \/ e \in Place(w, m + 8)
                   => e \in Int
      BY <1>1, <2>1, PlaceType
    <3>2. \A e \in Int : e \in Place(w, m + 8)
                           <=> ~(e \in Place(crc, m + 8) <=> e \in Place(byte, m + 8))
      <4> SUFFICES ASSUME NEW e \in Int
                   PROVE  e \in Place(w, m + 8)
                            <=> ~(e \in Place(crc, m + 8) <=> e \in Place(byte, m + 8))
        OBVIOUS
      <4> DEFINE i == m + 8 + 31 - e
      <4>1. i \in w <=> ~(i \in crc <=> i \in byte) BY XorAt
      <4> HIDE DEF w
      <4>2. e \in Place(w, m + 8) <=> i \in w BY <1>1, <2>1, PlaceAt
      <4>3. e \in Place(crc, m + 8) <=> i \in crc BY <2>1, PlaceAt
      <4>4. e \in Place(byte, m + 8) <=> i \in byte BY <2>1, PlaceAt
      <4> QED BY <4>1, <4>2, <4>3, <4>4
    <3>3. \A e : e \in Place(w, m + 8)
                   <=> ~(e \in Place(crc, m + 8) <=> e \in Place(byte, m + 8))
      BY <3>1, <3>2
    <3> HIDE DEF w
    <3> QED BY <3>3 DEF Xor
  <2> HIDE DEF w
  <2> QED BY <2>1, <2>2, <2>3
<1>3. ASSUME NEW j \in 1..8, j - 1 \in T PROVE j \in T
  <2> DEFINE b == m + 8 - j
             v == AfterBits(w)[j - 1]
  <2>1. /\ b \in Nat /\ m + 8 - (j - 1) = b + 1 
        /\ lo + j - 1 = lo + (j - 1) /\ m + 40 - j = b + 32
    OBVIOUS
  <2>2. v \in Words /\ AfterBits(w)[j] = CrcBit[v]
    <3>1. j - 1 \in 0..8 OBVIOUS
    <3> QED BY <1>1, <3>1, BitsRun
  <2>3. rest \in SUBSET (0..b+31)
    <3>1. 0..m+31 \subseteq 0..b+31 BY DEF b
    <3> QED BY <3>1
  <2> HIDE DEF b, w, v
  <2>4. d[lo + (j - 1)] = Xor(Place(v, b + 1), rest) BY <1>3, <2>1 DEF v
  <2>5. d[lo + j] = Reduced(b + 32)[Xor(Place(v, b + 1), rest)] BY <2>1, <2>4
  <2>6. d[lo + j] = Xor(Place(CrcBit[v], b), rest) BY <2>1, <2>2, <2>3, <2>5, OneBit
  <2> QED BY <2>2, <2>6 DEF b
<1>4. \A j \in 0..8 : j \in T
  <2> HIDE DEF T
  <2> QED BY <1>2, <1>3, RangeInduction
<1>5. m + 8 - 8 = m /\ 8 \in 0..8 OBVIOUS
<1> QED BY <1>4, <1>5 DEF CrcByte

\* mcd_crc32b, called for a whole message, computes its CRC-32: the loops over bytes
\* and bits are the division of polynomials that defines it, for messages of any
\* length (mcd_crc32b).
THEOREM CrcIsCorrect == \A message \in Seq(Bytes) : mcd_crc32b(message, Bits32) = CRC32(message)
<1> SUFFICES ASSUME NEW message \in Seq(Bytes)
             PROVE  mcd_crc32b(message, Bits32) = CRC32(message)
  OBVIOUS
<1> DEFINE len == Len(message)
           n == 8 * len
           p == Xor(Message(message, 0), {n + i : i \in Bits32})
           d == Division(p, n)
           a == AfterBytes(message, Bits32)
           T == {k \in 0..len : d[8 * k] = Xor(Place(a[k], 8 * (len - k)), Message(message, k))}
<1>0. len \in Nat /\ n \in Nat BY LenProperties
<1>1. message \in Seq(Words) /\ Bits32 \in Words /\ \A k \in 1..len : message[k] \in Words
  <2>1. Bytes \subseteq Words BY DEF Bytes, Words, Bits32
  <2> QED BY <2>1, ElementOfSeq DEF Words
<1>2. /\ a[0] = Bits32 /\ \A k \in 1..len : a[k] = CrcByte(a[k - 1], message[k])
      /\ \A k \in 0..len : a[k] \in Words
  BY <1>1, BytesRun
<1>3. Place(Bits32, n) = {n + i : i \in Bits32}
  <2>1. ASSUME NEW i \in Bits32 PROVE 31 - i \in Bits32 /\ n + 31 - i = n + (31 - i)
                                      /\ n + i = n + 31 - (31 - i)
    BY <1>0 DEF Bits32
  <2> QED BY <2>1 DEF Place
<1>4. p \in SUBSET Nat
  <2>1. Message(message, 0) \subseteq Nat BY <1>0, MessageType
  <2>2. \A j \in Nat : {j + i : i \in Bits32} \subseteq Nat
    <3> SUFFICES ASSUME NEW j \in Nat, NEW i \in Bits32 PROVE j + i \in Nat OBVIOUS
    <3> QED BY DEF Bits32
  <2>3. {n + i : i \in Bits32} \subseteq Nat
    <3> HIDE DEF n
    <3> QED BY <1>0, <2>2
  <2> QED BY <2>1, <2>3 DEF Xor
<1> HIDE DEF p
<1>5. d[0] = p /\ \A k \in 1..n : d[k] = Reduced(n + 32 - k)[d[k - 1]]
  BY <1>0, <1>4, DivisionRun
<1> HIDE DEF d, a
<1>6. 0 \in T
  <2>1. 8 * 0 = 0 /\ 8 * (len - 0) = n /\ 0 \in 0..len BY <1>0
  <2>2. \A v, w : Xor(v, w) = Xor(w, v) BY DEF Xor
  <2> QED BY <1>2, <1>3, <1>5, <2>1, <2>2 DEF p
<1>7. ASSUME NEW k \in 1..len, k - 1 \in T PROVE k \in T
  <2>0. PICK m \in Nat : m = 8 * (len - k) BY <1>0
  <2>1. /\ k - 1 \in Nat /\ k - 1 \in 0..len-1 /\ n = 8 * (k - 1) + m + 8
        /\ 8 * (len - (k - 1)) = m + 8 /\ (k - 1) + 1 = k /\ 8 * (k - 1) + 8 = 8 * k
        /\ k \in 0..len /\ k - 1 \in 0..len
    BY <1>0, <2>0
  <2>2. /\ Message(message, k) \subseteq 0..m+31
        /\ Message(message, k - 1) = Xor(Place(message[k], m + 8), Message(message, k))
    <3>1. /\ Message(message, (k - 1) + 1) \subseteq 0..(m + 8)+23
          /\ Message(message, k - 1)
               = Xor(Place(message[(k - 1) + 1], m + 8), Message(message, (k - 1) + 1))
      BY <2>1, MessageAt
    <3>2. (m + 8) + 23 = m + 31 BY <2>1
    <3> QED BY <2>1, <3>1, <3>2
  <2>3. d[8 * (k - 1)] = Xor(Place(a[k - 1], m + 8), Message(message, k - 1)) BY <1>7, <2>0, <2>1
  <2>4. d[8 * (k - 1) + 8] = Xor(Place(CrcByte(a[k - 1], message[k]), m), Message(message, k))
    <3>1. PICK lo \in Nat : lo = 8 * (k - 1) BY <2>1
    <3>2. PICK high : high = m + 8 OBVIOUS
    <3>3. PICK crc \in Words : crc = a[k - 1] BY <1>2, <2>1
    <3>4. PICK byte \in Words : byte = message[k] BY <1>1
    <3>5. PICK rest \in SUBSET (0..m+31) : rest = Message(message, k) BY <2>2
    <3>6. ASSUME NEW j \in 1..8 PROVE d[lo + j] = Reduced(m + 40 - j)[d[lo + j - 1]]
      <4>1. lo + j \in 1..n /\ n + 32 - (lo + j) = m + 40 - j BY <2>1, <3>1
      <4>2. d[lo + j] = Reduced(n + 32 - (lo + j))[d[lo + j - 1]] BY <1>5, <4>1
      <4> QED BY <4>1, <4>2
    <3>7. d[lo] = Xor(Place(crc, high), Xor(Place(byte, high), rest))
      BY <2>2, <2>3, <3>1, <3>2, <3>3, <3>4, <3>5
    <3>8. d[lo + 8] = Xor(Place(CrcByte(crc, byte), m), rest)
      BY <3>2, <3>6, <3>7, OneByte, SMTT(60)
    <3> QED BY <3>1, <3>3, <3>4, <3>5, <3>8
  <2> QED BY <1>2, <2>0, <2>1, <2>4
<1>8. \A k \in 0..len : k \in T
  <2> HIDE DEF T, len
  <2> QED BY <1>0, <1>6, <1>7, RangeInduction
<1>9. d[n] = Place(a[len], 0)
  <2>1. len \in T /\ 8 * (len - len) = 0 BY <1>0, <1>8
  <2>2. Message(message, len) = {} BY NoMessage
  <2> QED BY <2>1, <2>2 DEF Xor
<1>10. {31 - e : e \in Place(a[len], 0)} = a[len]
  <2>1. a[len] \in Words BY <1>0, <1>2
  <2>2. \A w \in Words : {31 - e : e \in Place(w, 0)} = w
    <3> SUFFICES ASSUME NEW w \in Words PROVE {31 - e : e \in Place(w, 0)} = w OBVIOUS
    <3>1. \A i \in w : 0 + 31 - i = 31 - i /\ 31 - (31 - i) = i BY DEF Words, Bits32
    <3> QED BY <3>1 DEF Place
  <2> HIDE DEF len
  <2> QED BY <2>1, <2>2
<1> QED BY <1>9, <1>10 DEF mcd_crc32b, CRC32, p, d, a
=============================================================================
