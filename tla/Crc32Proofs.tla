---------------------------- MODULE Crc32Proofs -----------------------------
(***************************************************************************)
(* The loop of crc32, for every width, every polynomial whose highest bit  *)
(* is set and contents of every length: what it returns is the remainder   *)
(* of a division, and a change confined to Width bits in a row changes it. *)
(***************************************************************************)
EXTENDS Crc32, FiniteSetTheorems, TLAPS

-----------------------------------------------------------------------------
(* Words                                                                   *)

\* The operations on words yield words (crc32).
LEMMA WordsClosed ==
  ASSUME NEW c \in Words, NEW byte \in Bytes
  PROVE  /\ Xor(c, Widened(byte)) \in Words
         /\ Step(c) \in Words
         /\ Complement(c) \in Words
<1>1. Widened(byte) \in Words
  BY CrcAssumption DEF Widened, Words, Bytes, Bits
<1>2. Shifted(c) \in Words
  BY CrcAssumption DEF Shifted, Words, Bits
<1>3. \A a, b \in Words : Xor(a, b) \in Words
  BY DEF Xor, Words
<1>4. Step(c) \in Words
  BY <1>2, <1>3, CrcAssumption DEF Step
<1>5. Complement(c) \in Words
  BY DEF Complement, Words
<1> QED BY <1>1, <1>3, <1>4, <1>5

\* Words that agree in every bit are the same word.
LEMMA SameBits ==
  ASSUME NEW a \in Words, NEW b \in Words, \A i \in Bits : a[i] = b[i]
  PROVE  a = b
BY DEF Words

-----------------------------------------------------------------------------
(* The loops                                                               *)

\* Both contents have a byte wherever the outer loop takes one.
LEMMA BytesTaken ==
  ASSUME TypeOK, NEW k \in 1 .. Len(contents[1]), NEW r \in Runs
  PROVE  contents[r][k] \in Bytes
<1>1. /\ contents \in Seq(Bytes) \X Seq(Bytes)
      /\ Len(contents[1]) = Len(contents[2])
  BY CrcAssumption DEF TypeOK
<1>2. /\ contents[r] \in Seq(Bytes)
      /\ k \in 1 .. Len(contents[r])
  BY <1>1 DEF Runs
<1> QED BY <1>2

\* The checksums stay words and the counters in their loops (crc32).
THEOREM TypeCorrect == Spec => []TypeOK
<1>1. Init => TypeOK
  <2> SUFFICES ASSUME Init PROVE TypeOK
    OBVIOUS
  <2>1. [i \in Bits |-> 1] \in Words
    BY DEF Words
  <2>2. Len(contents[1]) \in Nat
    <3>1. contents \in Seq(Bytes) \X Seq(Bytes)
      BY CrcAssumption DEF Init
    <3>2. contents[1] \in Seq(Bytes)
      BY <3>1
    <3> QED BY <3>2
  <2> QED BY <2>1, <2>2, CrcAssumption DEF Init, TypeOK
<1>2. TypeOK /\ [Next]_vars => TypeOK'
  <2> SUFFICES ASSUME TypeOK, [Next]_vars PROVE TypeOK'
    OBVIOUS
  <2>0. /\ Len(contents[1]) \in Nat
        /\ \A r \in Runs : crc[r] \in Words
    <3>1. contents \in Seq(Bytes) \X Seq(Bytes)
      BY CrcAssumption DEF TypeOK
    <3>2. contents[1] \in Seq(Bytes)
      BY <3>1
    <3> QED BY <3>2 DEF TypeOK
  <2>1. CASE TakeByte
    <3>1. next \in 1 .. Len(contents[1])
      BY <2>0, <2>1 DEF TakeByte, TypeOK
    <3>2. \A r \in Runs : Xor(crc[r], Widened(contents[r][next])) \in Words
      BY <2>0, <3>1, BytesTaken, WordsClosed
    <3>3. crc' \in [Runs -> Words]
      BY <2>1, <3>2 DEF TakeByte
    <3> QED BY <2>1, <3>1, <3>3, CrcAssumption DEF TakeByte, TypeOK
  <2>2. CASE ShiftBit
    <3>1. \E byte : byte \in Bytes
      <4>1. [i \in 0 .. ByteBits - 1 |-> 0] \in Bytes
        BY DEF Bytes
      <4> QED BY <4>1
    <3>2. \A r \in Runs : Step(crc[r]) \in Words
      BY <2>0, <3>1, WordsClosed
    <3>3. crc' \in [Runs -> Words]
      BY <2>2, <3>2 DEF ShiftBit
    <3>4. next <= Len(contents[1])
      BY <2>2 DEF ShiftBit, TypeOK
    <3> QED BY <2>0, <2>2, <3>3, <3>4, CrcAssumption DEF ShiftBit, TypeOK
  <2>3. CASE Return
    <3>1. \A r \in Runs : Complement(crc[r]) \in Words
      <4>1. [i \in 0 .. ByteBits - 1 |-> 0] \in Bytes
        BY DEF Bytes
      <4> QED BY <2>0, <4>1, WordsClosed
    <3>2. crc' \in [Runs -> Words]
      BY <2>3, <3>1 DEF Return
    <3> QED BY <2>3, <3>2, CrcAssumption DEF Return, TypeOK
  <2>4. CASE UNCHANGED vars
    BY <2>4 DEF vars, TypeOK
  <2> QED BY <2>1, <2>2, <2>3, <2>4 DEF Next
<1> QED BY <1>1, <1>2, PTL DEF Spec

-----------------------------------------------------------------------------
(* What is left to divide                                                  *)

\* The bits that have been added to the checksum, and those shifted out of it.
Absorbed == ByteBits * (next - 1 + (IF bit > 0 THEN 1 ELSE 0))
Fed == Absorbed - (IF bit > 0 THEN bit ELSE 0)

\* The checksum before it is complemented.
Register(r) == IF Returned THEN Complement(crc[r]) ELSE crc[r]

CoefficientAt(content, m) == IF m < Length(content) THEN BitAt(content, m) ELSE 0

\* The coefficients of what is left of the dividend: those of the content not
\* yet added, and the checksum, which lies over the places from Fed on.
Rest(r, m) ==
  ((IF m < Absorbed THEN 0 ELSE CoefficientAt(contents[r], m))
     + (IF m - Fed \in Bits THEN Register(r)[m - Fed] ELSE 0)) % 2

Places == 0 .. Length(contents[1]) + Width - 1

\* What the model is about, in the types the proofs need.
LEMMA Sizes ==
  ASSUME TypeOK
  PROVE  /\ Width \in Nat \ {0} /\ ByteBits \in Nat \ {0} /\ ByteBits <= Width
         /\ Len(contents[1]) \in Nat /\ Length(contents[1]) \in Nat
         /\ \A r \in Runs : /\ contents[r] \in Seq(Bytes)
                            /\ Len(contents[r]) = Len(contents[1])
                            /\ Length(contents[r]) = Length(contents[1])
<1>1. Width \in Nat \ {0} /\ ByteBits \in Nat \ {0} /\ ByteBits <= Width
  BY CrcAssumption
<1>2. contents \in Seq(Bytes) \X Seq(Bytes) /\ Len(contents[1]) = Len(contents[2])
  BY CrcAssumption DEF TypeOK
<1>3. \A r \in Runs : contents[r] \in Seq(Bytes) /\ Len(contents[r]) = Len(contents[1])
  BY <1>2 DEF Runs
<1>4. Len(contents[1]) \in Nat
  BY <1>2
<1> QED
  BY <1>1, <1>3, <1>4 DEF Length

\* The bits of a content, by place and by byte.
LEMMA BitPlaces ==
  ASSUME ByteBits \in Nat \ {0}, NEW content \in Seq(Bytes)
  PROVE  /\ \A m \in Nat : CoefficientAt(content, m) \in {0, 1}
         /\ \A k \in 1 .. Len(content), j \in 0 .. ByteBits - 1 :
              CoefficientAt(content, ByteBits * (k - 1) + j) = content[k][j]
<1>1. Len(content) \in Nat
  OBVIOUS
<1>2. \A k \in 1 .. Len(content), j \in 0 .. ByteBits - 1 : content[k][j] \in {0, 1}
  BY DEF Bytes
<1>3. ASSUME NEW m \in Nat
      PROVE  CoefficientAt(content, m) \in {0, 1}
  <2> SUFFICES ASSUME m < Length(content)
               PROVE  BitAt(content, m) \in {0, 1}
    BY DEF CoefficientAt
  <2> DEFINE q == m \div ByteBits
             j == m % ByteBits
  <2>1. q \in Nat /\ j \in 0 .. ByteBits - 1 /\ m = ByteBits * q + j
    OBVIOUS
  <2>2. BitAt(content, m) = content[q + 1][j]
    BY DEF BitAt
  <2> HIDE DEF q, j
  <2>3. ByteBits * q < ByteBits * Len(content)
    BY <1>1, <2>1 DEF Length
  <2>4. q < Len(content)
    <3>1. \A l \in Nat : l <= q => ByteBits * l <= ByteBits * q
      BY <2>1
    <3>2. ByteBits * q \in Nat /\ ByteBits * Len(content) \in Nat
      BY <1>1, <2>1
    <3> QED
      BY <1>1, <2>1, <2>3, <3>1, <3>2
  <2>5. q + 1 \in 1 .. Len(content)
    BY <1>1, <2>1, <2>4
  <2> QED
    BY <1>2, <2>1, <2>2, <2>5
<1>4. ASSUME NEW k \in 1 .. Len(content), NEW j \in 0 .. ByteBits - 1
      PROVE  CoefficientAt(content, ByteBits * (k - 1) + j) = content[k][j]
  <2> DEFINE q == k - 1
             m == ByteBits * q + j
  <2>1. q \in Nat /\ q + 1 = k /\ k <= Len(content)
    BY <1>1
  <2> HIDE DEF q
  <2>2. m \div ByteBits = q /\ m % ByteBits = j
    BY <2>1
  <2>3. m < ByteBits * Len(content)
    <3>1. ByteBits * (q + 1) = ByteBits * q + ByteBits
      BY <2>1
    <3>2. ByteBits * (q + 1) <= ByteBits * Len(content)
      BY <1>1, <2>1
    <3>3. ByteBits * q \in Nat /\ ByteBits * Len(content) \in Nat
      BY <1>1, <2>1
    <3> QED
      BY <3>1, <3>2, <3>3
  <2> HIDE DEF m
  <2>4. CoefficientAt(content, m) = content[k][j]
    BY <2>1, <2>2, <2>3 DEF CoefficientAt, Length, BitAt
  <2> QED
    BY <2>4 DEF m, q
<1> QED
  BY <1>3, <1>4

\* The counters, in bits.
LEMMA Progress ==
  ASSUME TypeOK
  PROVE  /\ Absorbed \in Nat /\ Fed \in Nat /\ Absorbed <= Length(contents[1])
         /\ Fed <= Absorbed /\ Absorbed <= Fed + Width
         /\ bit > 0 => Fed + bit = Absorbed
         /\ bit <= 0 => Fed = Absorbed /\ Absorbed = ByteBits * (next - 1)
         /\ Returned => Fed = Length(contents[1])
         /\ \A r \in Runs : Register(r) \in Words
<1> DEFINE n == Len(contents[1])
<1>1. /\ Width \in Nat \ {0} /\ ByteBits \in Nat \ {0} /\ ByteBits <= Width
      /\ n \in Nat /\ Length(contents[1]) = ByteBits * n
  BY Sizes DEF Length
<1>2. /\ next \in 1 .. n + 1 /\ bit \in -1 .. ByteBits
      /\ bit > 0 => next <= n
      /\ bit = -1 => next > n
  BY DEF TypeOK
<1> HIDE DEF n
<1>3. \A x, y \in Nat : x <= y => ByteBits * x <= ByteBits * y /\ ByteBits * x \in Nat
  BY <1>1
<1>4. CASE bit > 0
  <2>1. Absorbed = ByteBits * next /\ Fed = ByteBits * next - bit
    <3>1. next - 1 + 1 = next
      BY <1>2
    <3> QED
      BY <1>4, <3>1 DEF Absorbed, Fed
  <2>2. next \in Nat /\ 1 <= next /\ next <= n /\ bit \in Nat /\ bit <= ByteBits
    BY <1>1, <1>2, <1>4
  <2>3. ByteBits * 1 <= ByteBits * next /\ ByteBits * next <= ByteBits * n
        /\ ByteBits * next \in Nat /\ ByteBits * n \in Nat /\ ByteBits * 1 = ByteBits
    BY <1>1, <1>3, <2>2
  <2>4. \A x, y \in Nat : ByteBits <= x /\ x <= y =>
          /\ x - bit \in Nat /\ x - bit <= x /\ x <= x - bit + Width
          /\ x - bit + bit = x
    BY <1>1, <2>2
  <2> DEFINE a == ByteBits * next
  <2>5. a \in Nat /\ ByteBits <= a /\ a <= ByteBits * n /\ Absorbed = a /\ Fed = a - bit
    BY <2>1, <2>3
  <2> HIDE DEF a
  <2>6. /\ Absorbed \in Nat /\ Fed \in Nat /\ Absorbed <= Length(contents[1])
        /\ Fed <= Absorbed /\ Absorbed <= Fed + Width /\ Fed + bit = Absorbed
    BY <1>1, <2>3, <2>4, <2>5
  <2>7. \A r \in Runs : Register(r) \in Words
    BY <1>4 DEF Register, Returned, TypeOK
  <2> QED
    BY <1>2, <1>4, <2>6, <2>7 DEF Returned
<1>5. CASE bit <= 0
  <2>1. Absorbed = ByteBits * (next - 1) /\ Fed = Absorbed
    <3>1. ~(bit > 0) /\ next - 1 + 0 = next - 1
      BY <1>2, <1>5
    <3>2. Absorbed = ByteBits * (next - 1)
      BY <3>1 DEF Absorbed
    <3> HIDE DEF n
    <3>3. next - 1 \in Nat
      BY <1>1, <1>2
    <3>4. Absorbed \in Nat
      BY <1>3, <3>2, <3>3
    <3>5. Fed = Absorbed - 0
      BY <3>1 DEF Fed
    <3> QED
      BY <3>2, <3>4, <3>5
  <2>2. next - 1 \in Nat /\ next - 1 <= n /\ (Returned => next - 1 = n)
    BY <1>1, <1>2 DEF Returned
  <2>3. Absorbed \in Nat /\ Absorbed <= ByteBits * n /\ (Returned => Absorbed = ByteBits * n)
    BY <1>1, <1>3, <2>1, <2>2
  <2>4. \A r \in Runs : Register(r) \in Words
    <3>1. \E byte : byte \in Bytes
      <4>1. [i \in 0 .. ByteBits - 1 |-> 0] \in Bytes
        BY DEF Bytes
      <4> QED
        BY <4>1
    <3>2. \A r \in Runs : crc[r] \in Words
      BY DEF TypeOK
    <3> QED
      BY <3>1, <3>2, WordsClosed DEF Register
  <2>5. Absorbed <= Absorbed + Width
    BY <1>1, <2>3
  <2> QED
    BY <1>1, <1>2, <1>5, <2>1, <2>3, <2>4, <2>5
<1> QED
  BY <1>2, <1>4, <1>5

\* A place of what is left holds a bit; places already divided hold none.
LEMMA RestBits ==
  ASSUME TypeOK, NEW r \in Runs
  PROVE  /\ \A m \in Nat : Rest(r, m) \in {0, 1}
         /\ \A m \in Nat : m < Fed => Rest(r, m) = 0
         /\ Fed < Absorbed => Rest(r, Fed) = Register(r)[0]
<1>1. /\ Width \in Nat \ {0} /\ ByteBits \in Nat \ {0} /\ contents[r] \in Seq(Bytes)
      /\ Fed \in Nat /\ Absorbed \in Nat /\ Fed <= Absorbed /\ Register(r) \in Words
  BY Sizes, Progress
<1>2. \A m \in Nat : CoefficientAt(contents[r], m) \in {0, 1}
  BY <1>1, BitPlaces
<1>3. \A i \in Bits : Register(r)[i] \in {0, 1}
  BY <1>1 DEF Words
<1>4. \A x, y \in {0, 1} : (x + y) % 2 \in {0, 1} /\ (0 + y) % 2 = y
  OBVIOUS
<1>5. ASSUME NEW m \in Nat
      PROVE  Rest(r, m) \in {0, 1}
  <2>1. (IF m < Absorbed THEN 0 ELSE CoefficientAt(contents[r], m)) \in {0, 1}
    BY <1>2
  <2>2. (IF m - Fed \in Bits THEN Register(r)[m - Fed] ELSE 0) \in {0, 1}
    BY <1>3
  <2> QED
    BY <1>4, <2>1, <2>2 DEF Rest
<1>6. ASSUME NEW m \in Nat, m < Fed
      PROVE  Rest(r, m) = 0
  <2>1. m < Absorbed /\ m - Fed \notin Bits
    BY <1>1, <1>6 DEF Bits
  <2> QED
    BY <1>4, <2>1 DEF Rest
<1>7. ASSUME Fed < Absorbed
      PROVE  Rest(r, Fed) = Register(r)[0]
  <2>1. Fed - Fed = 0 /\ 0 \in Bits
    BY <1>1 DEF Bits
  <2>2. Register(r)[0] \in {0, 1}
    BY <1>3, <2>1
  <2> QED
    BY <1>4, <1>7, <2>1, <2>2 DEF Rest
<1> QED
  BY <1>5, <1>6, <1>7

\* Adding a byte to the checksum, and complementing it, leave what is left to
\* divide as it was (crc ^= byte, !crc).
LEMMA RestStays ==
  ASSUME TypeOK, TakeByte \/ Return \/ UNCHANGED vars
  PROVE  /\ contents' = contents /\ Fed' = Fed
         /\ \A r \in Runs, m \in Nat : Rest(r, m)' = Rest(r, m)
<1>1. /\ Width \in Nat \ {0} /\ ByteBits \in Nat \ {0} /\ ByteBits <= Width
      /\ Fed \in Nat /\ Absorbed \in Nat /\ Len(contents[1]) \in Nat
      /\ next \in Nat \ {0}
  BY Sizes, Progress DEF TypeOK
<1>2. CASE TakeByte
  <2>1. /\ bit = 0 /\ next <= Len(contents[1]) /\ contents' = contents /\ next' = next
        /\ bit' = ByteBits
        /\ \A r \in Runs : crc'[r] = Xor(crc[r], Widened(contents[r][next]))
    BY <1>2 DEF TakeByte
  <2>2. Fed = Absorbed /\ Absorbed = ByteBits * (next - 1)
    BY <2>1, Progress
  <2>3. Absorbed' = Absorbed + ByteBits /\ Fed' = Fed
    <3>1. Absorbed' = ByteBits * (next - 1 + 1) /\ Fed' = Absorbed' - ByteBits
      BY <1>1, <2>1 DEF Absorbed, Fed
    <3>2. \A x \in Nat : ByteBits * (x + 1) = ByteBits * x + ByteBits
      BY <1>1
    <3>3. next - 1 \in Nat
      BY <1>1
    <3> QED
      BY <1>1, <2>2, <3>1, <3>2, <3>3
  <2>4. ASSUME NEW r \in Runs, NEW m \in Nat
        PROVE  Rest(r, m)' = Rest(r, m)
    <3> DEFINE k == m - Fed
               byte == contents[r][next]
               c == CoefficientAt(contents[r], m)
    <3>1. Register(r) = crc[r] /\ Register(r)' = Xor(crc[r], Widened(byte)) /\ crc[r] \in Words
      BY <1>1, <2>1 DEF Register, Returned, TypeOK
    <3>2. contents[r] \in Seq(Bytes) /\ next \in 1 .. Len(contents[r])
      BY <1>1, <2>1, Sizes
    <3>3. c \in {0, 1} /\ \A j \in 0 .. ByteBits - 1 :
                            CoefficientAt(contents[r], Absorbed + j) = byte[j]
      BY <1>1, <2>2, <3>2, BitPlaces
    <3>4. /\ Rest(r, m) = ((IF m < Absorbed THEN 0 ELSE c)
                             + (IF k \in Bits THEN crc[r][k] ELSE 0)) % 2
          /\ Rest(r, m)' = ((IF m < Absorbed + ByteBits THEN 0 ELSE c)
                              + (IF k \in Bits THEN Xor(crc[r], Widened(byte))[k] ELSE 0)) % 2
      <4>1. contents' = contents /\ Absorbed' = Absorbed + ByteBits /\ m - Fed' = k
        BY <2>1, <2>3
      <4>2. Rest(r, m)' = ((IF m < Absorbed' THEN 0 ELSE CoefficientAt(contents'[r], m))
                             + (IF m - Fed' \in Bits THEN Register(r)'[m - Fed'] ELSE 0)) % 2
        BY DEF Rest
      <4>3. Rest(r, m) = ((IF m < Absorbed THEN 0 ELSE c)
                            + (IF k \in Bits THEN crc[r][k] ELSE 0)) % 2
        BY <3>1 DEF Rest
      <4> QED
        BY <3>1, <4>1, <4>2, <4>3
    <3>5. k \in Int /\ m = Absorbed + k
      BY <1>1, <2>2
    <3> HIDE DEF k, c, byte
    <3>6. CASE k < 0
      <4>1. k \notin Bits /\ m < Absorbed /\ m < Absorbed + ByteBits
        BY <1>1, <3>5, <3>6 DEF Bits
      <4> QED
        BY <3>4, <4>1
    <3>7. CASE k \in 0 .. ByteBits - 1
      <4>1. k \in Bits /\ ~(m < Absorbed) /\ m < Absorbed + ByteBits
        BY <1>1, <3>5, <3>7 DEF Bits
      <4>2. c = byte[k]
        BY <3>3, <3>5, <3>7 DEF c
      <4>3. Xor(crc[r], Widened(byte))[k] = (crc[r][k] + byte[k]) % 2
        BY <1>1, <3>7, <4>1 DEF Xor, Widened
      <4>4. crc[r][k] \in {0, 1}
        BY <3>1, <4>1 DEF Words
      <4> QED
        BY <3>3, <3>4, <4>1, <4>2, <4>3, <4>4
    <3>8. CASE ByteBits <= k
      <4>1. ~(m < Absorbed) /\ ~(m < Absorbed + ByteBits)
        BY <1>1, <3>5, <3>8
      <4>2. k \in Bits => Xor(crc[r], Widened(byte))[k] = crc[r][k]
        <5> SUFFICES ASSUME k \in Bits
                     PROVE  Xor(crc[r], Widened(byte))[k] = crc[r][k]
          OBVIOUS
        <5>1. Widened(byte)[k] = 0
          BY <1>1, <3>5, <3>8 DEF Widened
        <5>2. crc[r][k] \in {0, 1}
          BY <3>1 DEF Words
        <5> QED
          BY <5>1, <5>2 DEF Xor
      <4> QED
        BY <3>4, <4>1, <4>2
    <3> QED
      BY <1>1, <3>5, <3>6, <3>7, <3>8
  <2> QED
    BY <2>1, <2>3, <2>4
<1>3. CASE Return
  <2>1. /\ bit = 0 /\ bit' = -1 /\ contents' = contents /\ next' = next
        /\ \A r \in Runs : crc'[r] = Complement(crc[r])
    BY <1>3 DEF Return
  <2>2. Absorbed' = Absorbed /\ Fed' = Fed
    BY <2>1 DEF Absorbed, Fed
  <2>3. ASSUME NEW r \in Runs
        PROVE  Register(r)' = Register(r)
    <3>1. crc[r] \in Words /\ Register(r) = crc[r] /\ Register(r)' = Complement(Complement(crc[r]))
      BY <2>1 DEF Register, Returned, TypeOK
    <3>2. Complement(crc[r]) \in Words /\ Complement(Complement(crc[r])) \in Words
      BY <3>1 DEF Complement, Words
    <3>3. \A i \in Bits : Complement(Complement(crc[r]))[i] = crc[r][i]
      BY <3>1 DEF Complement, Words
    <3> QED
      BY <3>1, <3>2, <3>3, SameBits
  <2> QED
    BY <2>1, <2>2, <2>3 DEF Rest
<1>4. CASE UNCHANGED vars
  BY <1>4 DEF vars, Absorbed, Fed, Rest, Register, Returned
<1> QED
  BY <1>2, <1>3, <1>4

\* What an iteration subtracts: the generator, put at the first place that is
\* not yet divided, if the checksum has a bit there.
Subtracted(r, m) ==
  IF crc[r][0] = 1 /\ m - Fed \in 0 .. Width /\ Generator(m - Fed) = 1 THEN 1 ELSE 0

\* One iteration is one step of the division (the inner loop of crc32).
LEMMA RestShifts ==
  ASSUME TypeOK, ShiftBit
  PROVE  /\ contents' = contents /\ Fed' = Fed + 1
         /\ \A r \in Runs : crc[r][0] \in {0, 1} /\ Rest(r, Fed) = crc[r][0]
         /\ \A r \in Runs, m \in Nat : Rest(r, m)' = (Rest(r, m) + Subtracted(r, m)) % 2
<1>1. /\ Width \in Nat \ {0} /\ ByteBits \in Nat \ {0} /\ Fed \in Nat /\ Absorbed \in Nat
      /\ next \in Nat \ {0} /\ Poly \in Words
  BY Sizes, Progress, CrcAssumption DEF TypeOK
<1>2. /\ bit \in 1 .. ByteBits /\ bit' = bit - 1 /\ contents' = contents
      /\ next' = IF bit = 1 THEN next + 1 ELSE next
      /\ \A r \in Runs : crc'[r] = Step(crc[r])
  BY DEF ShiftBit
<1>3. Fed + bit = Absorbed /\ Fed < Absorbed
  BY <1>1, <1>2, Progress
<1>4. Absorbed' = Absorbed /\ Fed' = Fed + 1
  <2>1. Absorbed = ByteBits * (next - 1 + 1)
    BY <1>1, <1>2 DEF Absorbed
  <2>2. CASE bit = 1
    <3>1. next' = next + 1 /\ ~(bit' > 0)
      BY <1>1, <1>2, <2>2
    <3>2. Absorbed' = ByteBits * (next' - 1 + 0) /\ Fed' = Absorbed' - 0
      BY <3>1 DEF Absorbed, Fed
    <3>3. next' - 1 + 0 = next - 1 + 1
      BY <1>1, <3>1
    <3>4. Absorbed' = Absorbed
      BY <2>1, <3>2, <3>3
    <3> QED
      BY <1>1, <1>3, <2>2, <3>2, <3>4
  <2>3. CASE bit # 1
    <3>1. next' = next /\ bit' > 0 /\ bit' = bit - 1
      BY <1>1, <1>2, <2>3
    <3>2. Absorbed' = ByteBits * (next - 1 + 1) /\ Fed' = Absorbed' - (bit - 1)
      BY <3>1 DEF Absorbed, Fed
    <3> QED
      BY <1>1, <1>2, <1>3, <2>1, <3>2
  <2> QED
    BY <2>2, <2>3
<1>5. ASSUME NEW r \in Runs
      PROVE  /\ crc[r] \in Words /\ crc[r][0] \in {0, 1} /\ Rest(r, Fed) = crc[r][0]
             /\ Register(r) = crc[r] /\ Register(r)' = Step(crc[r])
  <2>1. Register(r) = crc[r] /\ Register(r)' = crc'[r] /\ crc[r] \in Words
    BY <1>1, <1>2 DEF Register, Returned, TypeOK
  <2>2. crc[r][0] \in {0, 1}
    BY <1>1, <2>1 DEF Words, Bits
  <2> QED
    BY <1>2, <1>3, <2>1, <2>2, RestBits
<1>6. ASSUME NEW r \in Runs, NEW i \in Bits
      PROVE  Step(crc[r])[i]
               = ((IF i + 1 \in Bits THEN crc[r][i + 1] ELSE 0)
                    + (IF crc[r][0] = 1 THEN Poly[i] ELSE 0)) % 2
  <2> DEFINE s == IF i + 1 \in Bits THEN crc[r][i + 1] ELSE 0
  <2>1. s \in {0, 1} /\ Poly[i] \in {0, 1}
    BY <1>1, <1>5 DEF Words
  <2>2. Shifted(crc[r])[i] = s
    BY <1>1 DEF Shifted, Bits
  <2> HIDE DEF s
  <2>3. CASE crc[r][0] = 1
    <3>1. Step(crc[r])[i] = (s + Poly[i]) % 2
      BY <2>2, <2>3 DEF Step, Xor
    <3> QED
      BY <2>3, <3>1 DEF s
  <2>4. CASE crc[r][0] # 1
    <3>1. Step(crc[r])[i] = s /\ (s + 0) % 2 = s
      BY <2>1, <2>2, <2>4 DEF Step
    <3> QED
      BY <2>4, <3>1 DEF s
  <2> QED
    BY <2>3, <2>4
<1>7. ASSUME NEW r \in Runs, NEW m \in Nat
      PROVE  Rest(r, m)' = (Rest(r, m) + Subtracted(r, m)) % 2
  <2> DEFINE k == m - Fed
             d == IF m < Absorbed THEN 0 ELSE CoefficientAt(contents[r], m)
             c == crc[r]
  <2>1. d \in {0, 1} /\ c \in Words /\ c[0] \in {0, 1} /\ k \in Int /\ m = Fed + k
    <3>1. CoefficientAt(contents[r], m) \in {0, 1}
      BY <1>1, Sizes, BitPlaces
    <3> QED
      BY <1>1, <1>5, <3>1
  <2>2. m - Fed' = k - 1
    BY <1>1, <1>4
  <2>3. /\ Rest(r, m) = (d + (IF k \in Bits THEN c[k] ELSE 0)) % 2
        /\ Rest(r, m)' = (d + (IF k - 1 \in Bits THEN Step(c)[k - 1] ELSE 0)) % 2
        /\ Subtracted(r, m) = IF c[0] = 1 /\ k \in 0 .. Width /\ Generator(k) = 1 THEN 1 ELSE 0
    <3>1. contents' = contents /\ Absorbed' = Absorbed
      BY <1>2, <1>4
    <3> QED
      BY <1>5, <2>2, <3>1 DEF Rest, Subtracted
  <2> HIDE DEF k, d, c
  <2>4. CASE k < 0 \/ k > Width
    <3>1. k \notin Bits /\ k - 1 \notin Bits /\ k \notin 0 .. Width
      BY <1>1, <2>1, <2>4 DEF Bits
    <3> QED
      BY <2>1, <2>3, <3>1
  <2>5. CASE k = 0
    <3>1. /\ k \in Bits /\ k - 1 \notin Bits /\ k \in 0 .. Width /\ Generator(k) = 1
          /\ c[k] = c[0]
      BY <1>1, <2>5 DEF Bits, Generator
    <3>2. d = 0
      <4>1. m < Absorbed
        BY <1>1, <1>3, <2>1, <2>5
      <4> QED
        BY <4>1 DEF d
    <3> QED
      BY <2>1, <2>3, <3>1, <3>2
  <2>6. CASE k \in 1 .. Width
    <3> DEFINE i == k - 1
               s == IF k \in Bits THEN c[k] ELSE 0
               g == IF c[0] = 1 THEN Poly[i] ELSE 0
    <3>1. i \in Bits /\ i + 1 = k /\ k \in 0 .. Width /\ Generator(k) = Poly[i]
      BY <1>1, <2>6 DEF Bits, Generator
    <3>2. Poly[i] \in {0, 1} /\ s \in {0, 1} /\ g \in {0, 1}
      BY <1>1, <2>1, <3>1 DEF Words
    <3>3. Step(c)[i] = (s + g) % 2
      BY <1>6, <3>1 DEF c
    <3>4. Rest(r, m) = (d + s) % 2 /\ Rest(r, m)' = (d + Step(c)[i]) % 2
      BY <2>3, <3>1
    <3>5. Subtracted(r, m) = g
      BY <2>3, <3>1, <3>2
    <3> HIDE DEF i, s, g
    <3>6. \A x, y, z \in {0, 1} : (x + ((y + z) % 2)) % 2 = (((x + y) % 2) + z) % 2
      OBVIOUS
    <3> QED
      BY <2>1, <3>2, <3>3, <3>4, <3>5, <3>6
  <2> QED
    BY <1>1, <2>1, <2>4, <2>5, <2>6
<1> QED
  BY <1>2, <1>4, <1>5, <1>7

-----------------------------------------------------------------------------
(* What is returned is the remainder                                       *)

\* One more term of a quotient adds the generator, put at its place.
LEMMA ProductExtended ==
  ASSUME NEW n \in Nat, NEW q \in [0 .. n - 1 -> {0, 1}], NEW d \in {0, 1}, NEW m \in Nat,
         NEW p, p = [i \in 0 .. n |-> IF i = n THEN d ELSE q[i]]
  PROVE  /\ Product(q, m) \in {0, 1}
         /\ Product(p, m)
              = (Product(q, m)
                   + (IF d = 1 /\ m - n \in 0 .. Width /\ Generator(m - n) = 1
                      THEN 1 ELSE 0)) % 2
<1> DEFINE Here(i) == m - i \in 0 .. Width /\ Generator(m - i) = 1
           old == {i \in 0 .. n - 1 : q[i] = 1 /\ Here(i)}
           new == {i \in 0 .. n : p[i] = 1 /\ Here(i)}
<1>1. Product(q, m) = Cardinality(old) % 2
  <2>1. {i \in DOMAIN q : q[i] = 1 /\ m - i \in 0 .. Width /\ Generator(m - i) = 1} = old
    OBVIOUS
  <2> QED
    BY <2>1 DEF Product
<1>2. Product(p, m) = Cardinality(new) % 2
  <2>1. {i \in DOMAIN p : p[i] = 1 /\ m - i \in 0 .. Width /\ Generator(m - i) = 1} = new
    OBVIOUS
  <2> QED
    BY <2>1 DEF Product
<1>3. IsFiniteSet(old) /\ n \notin old
  <2>1. IsFiniteSet(0 .. n - 1) /\ old \in SUBSET (0 .. n - 1)
    BY FS_Interval
  <2>2. IsFiniteSet(old)
    BY <2>1, FS_Subset
  <2> QED
    BY <2>2
<1>4. Cardinality(old) \in Nat
  BY <1>3, FS_CardinalityType
<1>5. p[n] = d /\ \A i \in 0 .. n - 1 : p[i] = q[i]
  OBVIOUS
<1>6. new = IF d = 1 /\ Here(n) THEN old \cup {n} ELSE old
  <2>1. \A i : i \in 0 .. n <=> i \in 0 .. n - 1 \/ i = n
    OBVIOUS
  <2> HIDE DEF Here
  <2> QED
    BY <1>5, <2>1
<1>7. Cardinality(old \cup {n}) = Cardinality(old) + 1
  BY <1>3, FS_AddElement
<1> HIDE DEF old, new, Here
<1>8. \A x \in Nat : x % 2 \in {0, 1} /\ ((x % 2) + 0) % 2 = x % 2 /\ ((x % 2) + 1) % 2 = (x + 1) % 2
  OBVIOUS
<1>9. CASE d = 1 /\ Here(n)
  <2>1. Cardinality(new) = Cardinality(old) + 1
    BY <1>6, <1>7, <1>9
  <2> QED
    BY <1>1, <1>2, <1>4, <1>8, <1>9, <2>1 DEF Here
<1>10. CASE ~(d = 1 /\ Here(n))
  <2>1. Cardinality(new) = Cardinality(old)
    BY <1>6, <1>10
  <2> QED
    BY <1>1, <1>2, <1>4, <1>8, <1>10, <2>1 DEF Here
<1> QED
  BY <1>9, <1>10

\* The quotient so far, with what is left, makes up the dividend.
DividedInv ==
  \A r \in Runs :
    \E q \in [0 .. Fed - 1 -> {0, 1}] :
      \A m \in Places :
        Product(q, m) = (Dividend(contents[r], m) + Rest(r, m)) % 2

\* At the start everything is left.
LEMMA RestAtStart ==
  ASSUME TypeOK, Init
  PROVE  /\ Fed = 0 /\ Absorbed = 0
         /\ \A r \in Runs, m \in Nat :
              Rest(r, m) = (CoefficientAt(contents[r], m) + (IF m < Width THEN 1 ELSE 0)) % 2
<1>1. next = 1 /\ bit = 0 /\ \A r \in Runs : crc[r] = [i \in Bits |-> 1]
  BY DEF Init
<1>2. Width \in Nat /\ ByteBits \in Nat
  BY Sizes
<1>3. Absorbed = 0 /\ Fed = 0
  <2>1. ~(bit > 0) /\ next - 1 + 0 = 0 /\ ByteBits * 0 = 0
    BY <1>1, <1>2
  <2>2. Absorbed = ByteBits * (next - 1 + 0) /\ Fed = Absorbed - 0
    BY <2>1 DEF Absorbed, Fed
  <2> QED
    BY <2>1, <2>2
<1>4. ASSUME NEW r \in Runs, NEW m \in Nat
      PROVE  Rest(r, m) = (CoefficientAt(contents[r], m) + (IF m < Width THEN 1 ELSE 0)) % 2
  <2>1. ~(m < Absorbed) /\ m - Fed = m /\ (m \in Bits <=> m < Width)
    BY <1>2, <1>3 DEF Bits
  <2>2. Register(r) = [i \in Bits |-> 1]
    BY <1>1 DEF Register, Returned
  <2> QED
    BY <2>1, <2>2 DEF Rest
<1> QED
  BY <1>3, <1>4

\* At the start the quotient is empty and the dividend is left.
LEMMA DividedStart == TypeOK /\ Init => DividedInv
<1> SUFFICES ASSUME TypeOK, Init, NEW r \in Runs
             PROVE  \E q \in [0 .. Fed - 1 -> {0, 1}] :
                      \A m \in Places :
                        Product(q, m) = (Dividend(contents[r], m) + Rest(r, m)) % 2
  BY DEF DividedInv
<1> DEFINE q == [i \in 0 .. -1 |-> 0]
<1>1. Fed = 0 /\ q \in [0 .. Fed - 1 -> {0, 1}]
  BY RestAtStart
<1>2. ASSUME NEW m \in Places
      PROVE  Product(q, m) = (Dividend(contents[r], m) + Rest(r, m)) % 2
  <2>1. m \in Nat
    BY Sizes DEF Places
  <2>2. Product(q, m) = 0
    <3>1. {i \in DOMAIN q : q[i] = 1 /\ m - i \in 0 .. Width /\ Generator(m - i) = 1} = {}
      OBVIOUS
    <3> QED
      BY <3>1, FS_EmptySet DEF Product
  <2>3. Rest(r, m) = Dividend(contents[r], m)
    BY <2>1, RestAtStart DEF Dividend, CoefficientAt
  <2>4. Rest(r, m) \in {0, 1}
    BY <2>1, RestBits
  <2> HIDE DEF q
  <2> QED
    BY <2>2, <2>3, <2>4
<1> HIDE DEF q
<1> QED
  BY <1>1, <1>2

\* Each iteration adds the bit it drops to the quotient (the inner loop of
\* crc32); nothing else changes what is left.
LEMMA DividedStep == TypeOK /\ DividedInv /\ [Next]_vars => DividedInv'
<1> SUFFICES ASSUME TypeOK, DividedInv, [Next]_vars, NEW r \in Runs
             PROVE  (\E q \in [0 .. Fed - 1 -> {0, 1}] :
                       \A m \in Places :
                         Product(q, m) = (Dividend(contents[r], m) + Rest(r, m)) % 2)'
  BY DEF DividedInv
<1>1. PICK q \in [0 .. Fed - 1 -> {0, 1}] :
        \A m \in Places : Product(q, m) = (Dividend(contents[r], m) + Rest(r, m)) % 2
  BY DEF DividedInv
<1>2. \A m \in Places : m \in Nat
  BY Sizes DEF Places
<1>3. CASE TakeByte \/ Return \/ UNCHANGED vars
  <2>1. contents' = contents /\ Fed' = Fed /\ \A m \in Nat : Rest(r, m)' = Rest(r, m)
    BY <1>3, RestStays
  <2>2. Places' = Places
    BY <2>1 DEF Places
  <2>3. /\ q \in [0 .. Fed' - 1 -> {0, 1}]
        /\ \A m \in Places' : Product(q, m) = (Dividend(contents'[r], m) + Rest(r, m)') % 2
    BY <1>1, <1>2, <2>1, <2>2
  <2> QED
    BY <2>3
<1>4. CASE ShiftBit
  <2> DEFINE d == crc[r][0]
             p == [i \in 0 .. Fed |-> IF i = Fed THEN d ELSE q[i]]
  <2>1. /\ contents' = contents /\ Fed' = Fed + 1 /\ d \in {0, 1} /\ Fed \in Nat
        /\ \A m \in Nat : Rest(r, m)' = (Rest(r, m) + Subtracted(r, m)) % 2
    BY <1>4, RestShifts, Progress
  <2>2. Places' = Places
    BY <2>1 DEF Places
  <2>3. p \in [0 .. Fed' - 1 -> {0, 1}]
    <3>1. Fed' - 1 = Fed /\ \A i \in 0 .. Fed : i = Fed \/ i \in 0 .. Fed - 1
      BY <2>1
    <3> HIDE DEF d
    <3>2. \A i \in 0 .. Fed : (IF i = Fed THEN d ELSE q[i]) \in {0, 1}
      BY <2>1, <3>1
    <3> QED
      BY <3>1, <3>2
  <2>4. ASSUME NEW m \in Places
        PROVE  Product(p, m) = (Dividend(contents[r], m) + Rest(r, m)') % 2
    <3> DEFINE a == Dividend(contents[r], m)
               b == Rest(r, m)
               s == Subtracted(r, m)
    <3>1. m \in Nat /\ b \in {0, 1}
      BY <1>2, RestBits
    <3>2. a \in {0, 1}
      <4>1. CoefficientAt(contents[r], m) \in {0, 1}
        BY <3>1, Sizes, BitPlaces
      <4> QED
        BY <4>1 DEF Dividend, CoefficientAt
    <3>3. Product(p, m) = (Product(q, m) + s) % 2
      BY <2>1, <3>1, ProductExtended DEF Subtracted
    <3>4. s \in {0, 1} /\ Product(q, m) = (a + b) % 2 /\ Rest(r, m)' = (b + s) % 2
      BY <1>1, <2>1, <3>1 DEF Subtracted
    <3> HIDE DEF a, b, s, p
    <3>5. (((a + b) % 2) + s) % 2 = (a + ((b + s) % 2)) % 2
      BY <3>1, <3>2, <3>4
    <3>6. Product(p, m) = (a + Rest(r, m)') % 2
      BY <3>3, <3>4, <3>5
    <3> QED
      BY <3>6 DEF a
  <2> HIDE DEF p
  <2>5. /\ p \in [0 .. Fed' - 1 -> {0, 1}]
        /\ \A m \in Places' : Product(p, m) = (Dividend(contents'[r], m) + Rest(r, m)') % 2
    BY <2>1, <2>2, <2>3, <2>4
  <2> QED
    BY <2>5
<1> QED
  BY <1>3, <1>4 DEF Next

\* What crc32 returns is the remainder of the division, for every width, every
\* polynomial and contents of every length: the quotient is the sequence of
\* bits the inner loop has dropped (crc32).
THEOREM ReturnsRemainder == Spec => []IsRemainder
<1>1. TypeOK /\ DividedInv => IsRemainder
  <2> SUFFICES ASSUME TypeOK, DividedInv, Returned, NEW r \in Runs
               PROVE  LET n == Length(contents[r])
                      IN \E quotient \in [0 .. n - 1 -> {0, 1}] :
                           \A k \in 0 .. n + Width - 1 :
                             Product(quotient, k)
                               = (Dividend(contents[r], k)
                                    + (IF k < n THEN 0 ELSE 1 - crc[r][k - n])) % 2
    BY DEF IsRemainder
  <2> DEFINE n == Length(contents[r])
  <2>1. /\ n = Length(contents[1]) /\ n \in Nat /\ Width \in Nat \ {0}
        /\ Fed = n /\ Absorbed = n
    <3>1. Fed = Length(contents[1]) /\ (bit <= 0 => Fed = Absorbed) /\ bit = -1
      BY Progress DEF Returned
    <3>2. /\ n = Length(contents[1]) /\ Length(contents[1]) \in Nat
          /\ Width \in Nat \ {0}
      BY Sizes
    <3> HIDE DEF n
    <3> QED
      BY <3>1, <3>2
  <2>2. PICK q \in [0 .. Fed - 1 -> {0, 1}] :
          \A m \in Places : Product(q, m) = (Dividend(contents[r], m) + Rest(r, m)) % 2
    BY DEF DividedInv
  <2>3. Places = 0 .. n + Width - 1
    BY <2>1 DEF Places
  <2>4. ASSUME NEW k \in 0 .. n + Width - 1
        PROVE  Rest(r, k) = IF k < n THEN 0 ELSE 1 - crc[r][k - n]
    <3>1. CASE k < n
      BY <2>1, <3>1, RestBits
    <3>2. CASE ~(k < n)
      <4> DEFINE i == k - n
      <4>1. i \in Bits /\ k - Fed = i /\ ~(k < Absorbed)
        BY <2>1, <3>2 DEF Bits
      <4>2. CoefficientAt(contents[r], k) = 0
        BY <3>2 DEF CoefficientAt
      <4>3. Register(r)[i] = 1 - crc[r][i]
        BY <4>1 DEF Register, Complement
      <4>4. crc[r][i] \in {0, 1}
        BY <4>1 DEF TypeOK, Words
      <4> HIDE DEF n, i
      <4>5. Rest(r, k) = (0 + (1 - crc[r][i])) % 2
        BY <4>1, <4>2, <4>3 DEF Rest
      <4>6. Rest(r, k) = 1 - crc[r][i]
        BY <4>4, <4>5
      <4> QED
        BY <3>2, <4>6 DEF i
    <3> QED
      BY <3>1, <3>2
  <2> HIDE DEF n
  <2>5. /\ q \in [0 .. n - 1 -> {0, 1}]
        /\ \A k \in 0 .. n + Width - 1 :
             Product(q, k) = (Dividend(contents[r], k)
                                + (IF k < n THEN 0 ELSE 1 - crc[r][k - n])) % 2
    BY <2>1, <2>2, <2>3, <2>4
  <2> QED
    BY <2>5 DEF n
<1> QED
  BY <1>1, DividedStart, DividedStep, TypeCorrect, PTL DEF Spec

-----------------------------------------------------------------------------
(* Bursts                                                                  *)

\* The places at which the contents differ, and those at which what is left to
\* divide differs.
Changed == {k \in 0 .. Length(contents[1]) - 1 : BitAt(contents[1], k) # BitAt(contents[2], k)}
Apart == {m \in Places : Rest(1, m) # Rest(2, m)}

\* A burst: a change confined to Width bits in a row.
IsBurst == Changed # {} /\ \A j, k \in Changed : k - j < Width

\* A burst never cancels: it is still to come, or lies within the checksum.
BurstInv ==
  IsBurst =>
    /\ Apart # {}
    /\ Apart = Changed \/ \A m \in Apart : m < Fed + Width

\* At the start what is left differs where the contents do.
LEMMA BurstStart == TypeOK /\ Init => BurstInv
<1> SUFFICES ASSUME TypeOK, Init, IsBurst
             PROVE  Apart # {} /\ Apart = Changed
  BY DEF BurstInv
<1>1. /\ Width \in Nat \ {0} /\ ByteBits \in Nat \ {0} /\ Length(contents[1]) \in Nat
      /\ Length(contents[2]) = Length(contents[1])
      /\ contents[1] \in Seq(Bytes) /\ contents[2] \in Seq(Bytes)
  BY Sizes DEF Runs
<1>2. ASSUME NEW m \in Nat
      PROVE  Rest(1, m) # Rest(2, m)
               <=> CoefficientAt(contents[1], m) # CoefficientAt(contents[2], m)
  <2> DEFINE a == CoefficientAt(contents[1], m)
             b == CoefficientAt(contents[2], m)
             o == IF m < Width THEN 1 ELSE 0
  <2>1. Rest(1, m) = (a + o) % 2 /\ Rest(2, m) = (b + o) % 2
    BY RestAtStart DEF Runs
  <2>2. a \in {0, 1} /\ b \in {0, 1} /\ o \in {0, 1}
    BY <1>1, BitPlaces
  <2> HIDE DEF a, b, o
  <2>3. (a + o) % 2 # (b + o) % 2 <=> a # b
    BY <2>2
  <2> QED
    BY <2>1, <2>3 DEF a, b
<1>3. \A m \in Nat : CoefficientAt(contents[1], m) # CoefficientAt(contents[2], m)
                       <=> m \in Changed
  BY <1>1 DEF CoefficientAt, Changed
<1>4. Apart = Changed
  <2>1. Changed \subseteq Places /\ Places \subseteq Nat
    BY <1>1 DEF Changed, Places
  <2> QED
    BY <1>2, <1>3, <2>1 DEF Apart
<1> QED
  BY <1>4 DEF IsBurst

\* An iteration moves the difference, and where it drops one it puts one at
\* the highest bit of the checksum, which Poly sets (the inner loop of crc32).
LEMMA BurstShifts ==
  ASSUME TypeOK, BurstInv, IsBurst, ShiftBit
  PROVE  Apart' # {} /\ (Apart' = Changed \/ \A m \in Apart' : m < Fed + 1 + Width)
<1>1. /\ Width \in Nat \ {0} /\ Fed \in Nat /\ Places \subseteq Nat
      /\ Fed < Length(contents[1]) /\ Length(contents[1]) \in Nat
  <2>1. bit > 0
    BY DEF ShiftBit
  <2>2. /\ Width \in Nat \ {0} /\ Length(contents[1]) \in Nat /\ Fed \in Nat
        /\ Fed + bit = Absorbed /\ Absorbed <= Length(contents[1]) /\ bit \in Int
    BY <2>1, Sizes, Progress DEF TypeOK
  <2> QED
    BY <2>1, <2>2 DEF Places
<1>2. /\ contents' = contents /\ Places' = Places
      /\ \A r \in Runs, m \in Nat : Rest(r, m)' = (Rest(r, m) + Subtracted(r, m)) % 2
      /\ \A r \in Runs : crc[r][0] \in {0, 1} /\ Rest(r, Fed) = crc[r][0]
  BY RestShifts DEF Places
<1>3. Apart' = {m \in Places : Rest(1, m)' # Rest(2, m)'}
  BY <1>2 DEF Apart
<1>4. \A r \in Runs, m \in Nat : Rest(r, m) \in {0, 1} /\ (m < Fed => Rest(r, m) = 0)
  BY RestBits
<1>5. Apart # {} /\ (Apart = Changed \/ \A m \in Apart : m < Fed + Width)
  BY DEF BurstInv
<1>6. 1 \in Runs /\ 2 \in Runs
  BY DEF Runs
<1>7. CASE crc[1][0] = crc[2][0]
  <2>1. ASSUME NEW m \in Nat
        PROVE  Rest(1, m)' # Rest(2, m)' <=> Rest(1, m) # Rest(2, m)
    <3> DEFINE a == Rest(1, m)
               b == Rest(2, m)
               s == Subtracted(1, m)
    <3>1. Subtracted(2, m) = s /\ s \in {0, 1}
      BY <1>7 DEF Subtracted
    <3>2. /\ Rest(1, m)' = (a + s) % 2 /\ Rest(2, m)' = (b + s) % 2
          /\ a \in {0, 1} /\ b \in {0, 1}
      BY <1>2, <1>4, <1>6, <3>1
    <3> HIDE DEF a, b, s
    <3>3. (a + s) % 2 # (b + s) % 2 <=> a # b
      BY <3>1, <3>2
    <3> QED
      BY <3>2, <3>3 DEF a, b
  <2>2. Apart' = Apart
    BY <1>1, <1>3, <2>1 DEF Apart
  <2>3. \A m \in Apart : m \in Nat /\ (m < Fed + Width => m < Fed + 1 + Width)
    BY <1>1 DEF Apart
  <2> QED
    BY <1>5, <2>2, <2>3
<1>8. CASE crc[1][0] # crc[2][0]
  <2>1. Fed \in Places /\ Fed + Width \in Places
    BY <1>1 DEF Places
  <2>2. Fed \in Apart
    BY <1>2, <1>6, <1>8, <2>1 DEF Apart
  <2>3. ASSUME NEW m \in Apart
        PROVE  m \in Nat /\ m < Fed + Width
    <3>1. m \in Nat
      BY <1>1 DEF Apart
    <3>2. CASE Apart = Changed
      <4>1. m - Fed < Width
        BY <2>2, <3>2 DEF IsBurst
      <4> QED
        BY <1>1, <3>1, <4>1
    <3> QED
      BY <1>5, <3>1, <3>2
  <2>4. ASSUME NEW m \in Nat, Fed + Width < m
        PROVE  Rest(1, m)' = Rest(1, m) /\ Rest(2, m)' = Rest(2, m)
    <3>1. m - Fed \notin 0 .. Width
      BY <1>1, <2>4
    <3>2. Subtracted(1, m) = 0 /\ Subtracted(2, m) = 0
      BY <3>1 DEF Subtracted
    <3>3. \A x \in {0, 1} : (x + 0) % 2 = x
      OBVIOUS
    <3> QED
      BY <1>2, <1>4, <1>6, <3>2, <3>3
  <2>5. ASSUME NEW m \in Apart'
        PROVE  m < Fed + 1 + Width
    <3>1. m \in Nat /\ m \in Places /\ Rest(1, m)' # Rest(2, m)'
      BY <1>1, <1>3
    <3>2. SUFFICES ASSUME Fed + Width < m PROVE FALSE
      BY <1>1, <3>1
    <3>3. m \in Apart
      BY <2>4, <3>1, <3>2 DEF Apart
    <3> QED
      BY <1>1, <2>3, <3>2, <3>3
  <2>6. Fed + Width \in Apart'
    <3> PICK m \in Nat : m = Fed + Width
      BY <1>1
    <3>1. m \in Nat /\ m - Fed = Width /\ Width \in 0 .. Width
      BY <1>1
    <3>2. Generator(Width) = 1
      BY <1>1, CrcAssumption DEF Generator
    <3>3. Subtracted(1, m) # Subtracted(2, m)
      BY <1>2, <1>6, <1>8, <3>1, <3>2 DEF Subtracted
    <3>4. Rest(1, m) = Rest(2, m)
      <4>1. m \notin Apart
        BY <1>1, <2>3
      <4> QED
        BY <2>1, <4>1 DEF Apart
    <3>5. \A r \in Runs : Subtracted(r, m) \in {0, 1}
      BY DEF Subtracted
    <3>6. /\ Rest(1, m)' = (Rest(1, m) + Subtracted(1, m)) % 2
          /\ Rest(2, m)' = (Rest(1, m) + Subtracted(2, m)) % 2
          /\ Rest(1, m) \in {0, 1}
      BY <1>2, <1>4, <1>6, <3>1, <3>4
    <3>7. \A x, s, t \in {0, 1} : s # t => (x + s) % 2 # (x + t) % 2
      OBVIOUS
    <3>8. Rest(1, m)' # Rest(2, m)'
      BY <1>6, <3>3, <3>5, <3>6, <3>7
    <3> QED
      BY <1>3, <2>1, <3>8
  <2> QED
    BY <2>5, <2>6
<1> QED
  BY <1>7, <1>8

\* No step of the loops loses a burst (crc32).
LEMMA BurstStep == TypeOK /\ BurstInv /\ [Next]_vars => BurstInv'
<1> SUFFICES ASSUME TypeOK, BurstInv, [Next]_vars, IsBurst'
             PROVE  (Apart # {} /\ (Apart = Changed \/ \A m \in Apart : m < Fed + Width))'
  BY DEF BurstInv
<1>1. Width \in Nat /\ Fed \in Nat /\ Places \subseteq Nat
  BY Sizes, Progress DEF Places
<1>2. CASE TakeByte \/ Return \/ UNCHANGED vars
  <2>1. contents' = contents /\ Fed' = Fed /\ \A r \in Runs, m \in Nat : Rest(r, m)' = Rest(r, m)
    BY <1>2, RestStays
  <2>2. Places' = Places /\ Changed' = Changed /\ IsBurst
    BY <2>1 DEF Places, Changed, IsBurst
  <2>3. Apart' = Apart
    BY <1>1, <2>1, <2>2 DEF Apart, Runs
  <2> QED
    BY <2>1, <2>2, <2>3 DEF BurstInv
<1>3. CASE ShiftBit
  <2>1. contents' = contents /\ Fed' = Fed + 1
    BY <1>3, RestShifts
  <2>2. Changed' = Changed /\ IsBurst
    BY <2>1 DEF Changed, IsBurst
  <2>3. Apart' # {} /\ (Apart' = Changed \/ \A m \in Apart' : m < Fed + 1 + Width)
    BY <1>3, <2>2, BurstShifts
  <2> QED
    BY <2>1, <2>2, <2>3
<1> QED
  BY <1>2, <1>3 DEF Next

\* A change confined to as many bits in a row as the checksum has changes the
\* checksum, wherever it lies and across as many bytes as it may (crc32).
THEOREM BurstsAreDetected == Spec => []BurstsDetected
<1>1. TypeOK /\ BurstInv => BurstsDetected
  <2> SUFFICES ASSUME TypeOK, BurstInv, Returned, IsBurst, crc[1] = crc[2]
               PROVE  FALSE
    BY DEF BurstsDetected, IsBurst, Changed
  <2>1. \E m : m \in Apart
    BY DEF BurstInv
  <2> PICK m : m \in Apart
    BY <2>1
  <2>2. m \in Nat /\ m \in Places /\ Rest(1, m) # Rest(2, m)
    <3>1. m \in Places /\ Rest(1, m) # Rest(2, m)
      BY DEF Apart
    <3> QED
      BY <3>1, Sizes DEF Places
  <2>3. /\ Absorbed = Length(contents[1]) /\ Length(contents[1]) \in Nat
        /\ Length(contents[2]) = Length(contents[1])
    <3>1. bit = -1 /\ Fed = Length(contents[1]) /\ (bit <= 0 => Fed = Absorbed)
      BY Progress DEF Returned
    <3> QED
      BY <3>1, Sizes DEF Runs
  <2>4. Register(1) = Register(2)
    BY DEF Register
  <2>5. m < Absorbed \/ CoefficientAt(contents[1], m) = CoefficientAt(contents[2], m)
    BY <2>2, <2>3 DEF CoefficientAt
  <2> QED
    BY <2>2, <2>4, <2>5 DEF Rest
<1> QED
  BY <1>1, BurstStart, BurstStep, TypeCorrect, PTL DEF Spec
=============================================================================
