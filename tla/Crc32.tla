-------------------------------- MODULE Crc32 -------------------------------
(***************************************************************************)
(* The loops of crc32 (zip.rs), bit by bit, on words of any width: the     *)
(* table-free, reflected form of a cyclic redundancy check.  Two calls run *)
(* side by side, on contents of the same length, so that what the check    *)
(* tells apart can be stated.                                              *)
(*                                                                         *)
(* A word is a function from bit numbers to bits, bit 0 the least          *)
(* significant; shifting right moves bit i + 1 to bit i.                   *)
(***************************************************************************)
EXTENDS Integers, Sequences, FiniteSets

CONSTANTS
  Width,      \* bits of a checksum: 32
  ByteBits,   \* bits of a byte: 8
  Poly,       \* 0xEDB88320, a word whose highest bit is set
  Pairs       \* the pairs of contents, of the same length

Bits == 0 .. Width - 1
Words == [Bits -> {0, 1}]
Bytes == [0 .. ByteBits - 1 -> {0, 1}]

ASSUME CrcAssumption ==
  /\ Width \in Nat \ {0} /\ ByteBits \in 1 .. Width
  /\ Poly \in Words /\ Poly[Width - 1] = 1
  /\ \A p \in Pairs : /\ p \in Seq(Bytes) \X Seq(Bytes)
                      /\ Len(p[1]) = Len(p[2])

VARIABLES
  contents,   \* the two contents
  crc,        \* the two checksums
  next,       \* the byte the outer loop is at
  bit         \* the iterations left of the inner loop, or -1: returned

vars == <<contents, crc, next, bit>>

Runs == {1, 2}

-----------------------------------------------------------------------------
(* Words                                                                   *)

Xor(a, b) == [i \in Bits |-> (a[i] + b[i]) % 2]

Shifted(c) == [i \in Bits |-> IF i = Width - 1 THEN 0 ELSE c[i + 1]]

\* byte as u32
Widened(byte) == [i \in Bits |-> IF i < ByteBits THEN byte[i] ELSE 0]

\* Mutant: the bit is looked at after the shift.
StepTestsLate(c) ==
  IF Shifted(c)[0] = 1 THEN Xor(Shifted(c), Poly) ELSE Shifted(c)

\* One iteration of the inner loop: the mask is all ones or zero.
Step(c) == IF c[0] = 1 THEN Xor(Shifted(c), Poly) ELSE Shifted(c)

Complement(c) == [i \in Bits |-> 1 - c[i]]

-----------------------------------------------------------------------------
(* The loops                                                               *)

Init ==
  /\ contents \in Pairs
  /\ crc = [r \in Runs |-> [i \in Bits |-> 1]]
  /\ next = 1 /\ bit = 0

TakeByte ==
  /\ bit = 0 /\ next <= Len(contents[1])
  /\ crc' = [r \in Runs |-> Xor(crc[r], Widened(contents[r][next]))]
  /\ bit' = ByteBits
  /\ UNCHANGED <<contents, next>>

ShiftBit ==
  /\ bit \in 1 .. ByteBits
  /\ crc' = [r \in Runs |-> Step(crc[r])]
  /\ bit' = bit - 1
  /\ next' = IF bit = 1 THEN next + 1 ELSE next
  /\ UNCHANGED contents

\* Mutant: the complement is forgotten.
ReturnAsIs ==
  /\ bit = 0 /\ next > Len(contents[1])
  /\ bit' = -1
  /\ UNCHANGED <<contents, crc, next>>

Return ==
  /\ bit = 0 /\ next > Len(contents[1])
  /\ crc' = [r \in Runs |-> Complement(crc[r])]
  /\ bit' = -1
  /\ UNCHANGED <<contents, next>>

Next == TakeByte \/ ShiftBit \/ Return

Spec == Init /\ [][Next]_vars

-----------------------------------------------------------------------------
(* Properties                                                              *)

TypeOK ==
  /\ contents \in Pairs
  /\ crc \in [Runs -> Words]
  /\ next \in 1 .. Len(contents[1]) + 1
  /\ bit \in -1 .. ByteBits
  /\ bit > 0 => next <= Len(contents[1])
  /\ bit = -1 => next > Len(contents[1])

Returned == bit = -1

\* The bits of a content in the order they are fed in.
Length(content) == ByteBits * Len(content)
BitAt(content, k) == content[k \div ByteBits + 1][k % ByteBits]

\* Polynomials over {0, 1}, as their coefficients from the highest down.  The
\* dividend is the content, followed by Width zeros, with the first Width bits
\* complemented; the generator is x^Width and what Poly stands for.
Dividend(content, k) ==
  ((IF k < Length(content) THEN BitAt(content, k) ELSE 0)
     + (IF k < Width THEN 1 ELSE 0)) % 2
Generator(k) == IF k = 0 THEN 1 ELSE Poly[k - 1]
Product(quotient, k) ==
  Cardinality({i \in DOMAIN quotient : /\ quotient[i] = 1
                                       /\ k - i \in 0 .. Width
                                       /\ Generator(k - i) = 1}) % 2

\* What crc32 returns is the complement of the remainder of dividing the
\* content by the generator, as the ZIP format asks for: a quotient exists that
\* leaves it.  The code never divides: it shifts, and tests the bit it drops
\* (crc32, "CRC-32 (IEEE, as used by ZIP)").
IsRemainder ==
  Returned =>
    \A r \in Runs :
      LET n == Length(contents[r])
      IN \E quotient \in [0 .. n - 1 -> {0, 1}] :
           \A k \in 0 .. n + Width - 1 :
             Product(quotient, k)
               = (Dividend(contents[r], k)
                    + (IF k < n THEN 0 ELSE 1 - crc[r][k - n])) % 2

\* A change to a content confined to Width bits in a row, across bytes or not,
\* changes its checksum: no step of the loop forgets a bit (crc32).
BurstsDetected ==
  Returned =>
    LET changed == {k \in 0 .. Length(contents[1]) - 1 :
                      BitAt(contents[1], k) # BitAt(contents[2], k)}
    IN changed # {} /\ (\A j, k \in changed : k - j < Width) => crc[1] # crc[2]
=============================================================================
