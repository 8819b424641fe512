---------------------------- MODULE ByteZipProofs ---------------------------
(***************************************************************************)
(* What the functions of zip.rs and of the two bindings guarantee byte by  *)
(* byte, of any archive whatever: every call returns a sequence of bytes,  *)
(* what a host program hashes is covered once, and absence is told from    *)
(* error.                                                                  *)
(***************************************************************************)
EXTENDS ByteZip, FiniteSetTheorems, SequenceTheorems, WellFoundedInduction, TLAPS

-----------------------------------------------------------------------------
(* Least and greatest elements, ranks: as for archives of cells            *)

LEMMA LeastNatural ==
  ASSUME NEW S, S \subseteq Nat, S # {}
  PROVE  \E x \in S : \A y \in S : x <= y
<1> DEFINE R == OpToRel(<, Nat)
<1>1. IsWellFoundedOn(R, Nat)
  BY NatLessThanWellFounded
<1> HIDE DEF R
<1>2. PICK x \in S : \A y \in S : <<y, x>> \notin R
  BY <1>1, WFMin
<1>3. \A y \in S : y < x => <<y, x>> \in R
  BY DEF R, OpToRel
<1>4. ASSUME NEW y \in S
      PROVE  x <= y
  <2>1. x \in Nat /\ y \in Nat
    OBVIOUS
  <2>2. ~(y < x)
    BY <1>2, <1>3
  <2> QED
    BY <2>1, <2>2
<1> QED
  BY <1>4

\* Min is the least element of a non-empty set of naturals.
LEMMA MinIsLeast ==
  ASSUME NEW S, S \subseteq Nat, S # {}
  PROVE  Min(S) \in S /\ \A y \in S : Min(S) <= y
<1>1. \E x \in S : \A y \in S : x <= y
  BY LeastNatural
<1> QED
  BY <1>1 DEF Min

\* A non-empty set of numbers up to n has a greatest element, Max.
LEMMA MaxIsGreatest ==
  ASSUME NEW n \in Nat, NEW S, S \subseteq 0 .. n, S # {}
  PROVE  Max(S) \in S /\ \A y \in S : y <= Max(S)
<1> DEFINE T == {n - x : x \in S}
<1>1. T \subseteq Nat /\ T # {}
  <2>1. \A x \in S : x \in 0 .. n
    OBVIOUS
  <2>2. \A x \in 0 .. n : n - x \in Nat
    OBVIOUS
  <2>3. T # {}
    OBVIOUS
  <2> QED
    BY <2>1, <2>2, <2>3
<1>2. \A y \in S : n - y \in T
  OBVIOUS
<1>3. \A t \in T : \E x \in S : t = n - x
  OBVIOUS
<1> HIDE DEF T
<1>4. PICK t \in T : \A u \in T : t <= u
  BY <1>1, LeastNatural
<1>5. PICK x \in S : t = n - x
  BY <1>3
<1>6. \A y \in S : x >= y
  BY <1>2, <1>4, <1>5
<1>7. \E z \in S : \A y \in S : z >= y
  BY <1>6
<1> QED
  BY <1>7 DEF Max


\* R is a strict total order of S.
StrictOrder(R, S) ==
  /\ \A a \in S : <<a, a>> \notin R
  /\ \A a, b, c \in S : <<a, b>> \in R /\ <<b, c>> \in R => <<a, c>> \in R
  /\ \A a, b \in S : a # b => <<a, b>> \in R \/ <<b, a>> \in R

Below(R, S, h) == {g \in S : <<g, h>> \in R}

\* A rank is less than the number of elements, and grows along the order.
LEMMA RanksGrow ==
  ASSUME NEW S, IsFiniteSet(S), NEW R, StrictOrder(R, S)
  PROVE  /\ \A h \in S : Cardinality(Below(R, S, h)) \in 0 .. Cardinality(S) - 1
         /\ \A a, b \in S :
              <<a, b>> \in R => Cardinality(Below(R, S, a)) < Cardinality(Below(R, S, b))
<1> DEFINE n == Cardinality(S)
<1>1. n \in Nat
  BY FS_CardinalityType
<1>2. ASSUME NEW h \in S
      PROVE  /\ IsFiniteSet(Below(R, S, h))
             /\ Cardinality(Below(R, S, h)) \in 0 .. n - 1
  <2>1. Below(R, S, h) \in SUBSET (S \ {h})
    BY DEF Below, StrictOrder
  <2>2. IsFiniteSet(S \ {h}) /\ Cardinality(S \ {h}) = n - 1
    BY FS_RemoveElement
  <2>3. /\ IsFiniteSet(Below(R, S, h))
        /\ Cardinality(Below(R, S, h)) <= n - 1
    BY <2>1, <2>2, FS_Subset
  <2>4. Cardinality(Below(R, S, h)) \in Nat
    BY <2>3, FS_CardinalityType
  <2> QED
    BY <1>1, <2>3, <2>4
<1>3. ASSUME NEW a \in S, NEW b \in S, <<a, b>> \in R
      PROVE  Cardinality(Below(R, S, a)) < Cardinality(Below(R, S, b))
  <2>1. Below(R, S, a) \in SUBSET Below(R, S, b)
    BY <1>3 DEF Below, StrictOrder
  <2>2. a \in Below(R, S, b) /\ a \notin Below(R, S, a)
    BY <1>3 DEF Below, StrictOrder
  <2>3. IsFiniteSet(Below(R, S, b))
    BY <1>2
  <2>4. /\ Cardinality(Below(R, S, a)) <= Cardinality(Below(R, S, b))
        /\ Cardinality(Below(R, S, a)) # Cardinality(Below(R, S, b))
    BY <2>1, <2>2, <2>3, FS_Subset
  <2>5. Cardinality(Below(R, S, a)) \in Nat /\ Cardinality(Below(R, S, b)) \in Nat
    BY <1>1, <1>2
  <2> QED
    BY <2>4, <2>5
<1> QED
  BY <1>2, <1>3

\* In a finite strictly ordered set every rank is taken.
LEMMA EveryRankIsTaken ==
  ASSUME NEW S, IsFiniteSet(S), NEW R, StrictOrder(R, S),
         NEW k \in 1 .. Cardinality(S)
  PROVE  \E h \in S : Cardinality(Below(R, S, h)) = k - 1
<1> DEFINE n == Cardinality(S)
           rank == [h \in S |-> Cardinality(Below(R, S, h))]
<1>1. n \in Nat
  BY FS_CardinalityType
<1>2. rank \in [S -> 0 .. n - 1]
  BY RanksGrow
<1>3. ASSUME NEW a \in S, NEW b \in S, <<a, b>> \in R
      PROVE  rank[a] # rank[b]
  BY <1>1, <1>2, <1>3, RanksGrow
<1>4. rank \in Injection(S, 0 .. n - 1)
  <2>1. \A a, b \in S : rank[a] = rank[b] => a = b
    BY <1>3 DEF StrictOrder
  <2> QED
    BY <1>2, <2>1 DEF Injection, IsInjective
<1>5. IsFiniteSet(0 .. n - 1) /\ Cardinality(0 .. n - 1) = n
  <2>1. n - 1 \in Int /\ (0 > n - 1 => n = 0)
    BY <1>1
  <2>2. /\ IsFiniteSet(0 .. n - 1)
        /\ Cardinality(0 .. n - 1) = IF 0 > n - 1 THEN 0 ELSE n - 1 - 0 + 1
    BY <2>1, FS_Interval
  <2> QED
    BY <1>1, <2>1, <2>2
<1>6. rank \in Surjection(S, 0 .. n - 1)
  BY <1>4, <1>5, FS_Injection
<1>7. k - 1 \in 0 .. n - 1
  BY <1>1
<1>8. \E h \in S : rank[h] = k - 1
  BY <1>6, <1>7 DEF Surjection
<1> QED
  BY <1>8


-----------------------------------------------------------------------------
(* Functions defined step by step                                          *)

\* A set of numbers up to n that has 0, and k with k - 1, has all of them.
LEMMA AllUpTo ==
  ASSUME NEW n \in Nat, NEW S, 0 \in S, \A k \in 1 .. n : k - 1 \in S => k \in S
  PROVE  \A k \in 0 .. n : k \in S
<1> DEFINE bad == (0 .. n) \ S
<1>1. SUFFICES ASSUME NEW i \in 0 .. n, i \notin S
               PROVE  FALSE
  OBVIOUS
<1>2. PICK k \in bad : \A j \in bad : k <= j
  <2>1. bad \subseteq Nat /\ bad # {}
    BY <1>1
  <2> QED
    BY <2>1, LeastNatural
<1>3. k # 0 /\ k \in 0 .. n /\ k \notin S
  BY <1>2
<1>4. k \in 1 .. n /\ k - 1 \in 0 .. n /\ ~(k <= k - 1)
  BY <1>3
<1>5. k - 1 \in S
  BY <1>2, <1>4
<1> QED
  BY <1>3, <1>4, <1>5

\* A first value in S and steps within S.
StepsWithin(n, S, base, step) ==
  n \in Nat /\ base \in S /\ step \in [(1 .. n) \X S -> S]

\* f has, from 0 to n, the values that the steps lead to.
Upto(n, base, step, f) ==
  \A k \in 0 .. n : f[k] = IF k = 0 THEN base ELSE step[<<k, f[k - 1]>>]

\* A first value and steps determine a function on 0 .. n.
LEMMA Iterated ==
  ASSUME NEW n, NEW S, NEW base, NEW step, StepsWithin(n, S, base, step)
  PROVE  \E f \in [0 .. n -> S] : Upto(n, base, step, f)
<1> USE DEF StepsWithin
<1> DEFINE T == {m \in 0 .. n : \E f \in [0 .. n -> S] : Upto(m, base, step, f)}
<1>1. 0 \in T
  <2> DEFINE f == [k \in 0 .. n |-> base]
  <2>1. f \in [0 .. n -> S] /\ f[0] = base
    OBVIOUS
  <2>2. Upto(0, base, step, f) /\ 0 \in 0 .. n
    BY <2>1 DEF Upto
  <2> HIDE DEF f
  <2>3. \E g \in [0 .. n -> S] : Upto(0, base, step, g)
    BY <2>1, <2>2
  <2> QED
    BY <2>2, <2>3
<1>2. ASSUME NEW m \in 1 .. n, m - 1 \in T
      PROVE  m \in T
  <2>1. PICK f \in [0 .. n -> S] : Upto(m - 1, base, step, f)
    BY <1>2
  <2> DEFINE next == step[<<m, f[m - 1]>>]
             g == [f EXCEPT ![m] = next]
  <2>2. f[m - 1] \in S /\ next \in S
    OBVIOUS
  <2>3. g \in [0 .. n -> S] /\ g[m] = next /\ \A k \in 0 .. n : k # m => g[k] = f[k]
    BY <2>2
  <2> HIDE DEF g
  <2>4. ASSUME NEW k \in 0 .. m
        PROVE  g[k] = IF k = 0 THEN base ELSE step[<<k, g[k - 1]>>]
    <3>1. CASE k = m
      <4>1. k # 0 /\ k - 1 \in 0 .. n /\ k - 1 # m
        BY <3>1
      <4> QED
        BY <2>3, <3>1, <4>1
    <3>2. CASE k # m
      <4>1. k \in 0 .. m - 1 /\ k \in 0 .. n
        BY <3>2
      <4>2. k # 0 => k - 1 \in 0 .. n /\ k - 1 # m
        BY <4>1
      <4>3. f[k] = IF k = 0 THEN base ELSE step[<<k, f[k - 1]>>]
        BY <2>1, <4>1 DEF Upto
      <4> QED
        BY <2>3, <3>2, <4>1, <4>2, <4>3
    <3> QED
      BY <3>1, <3>2
  <2>5. m \in 0 .. n
    OBVIOUS
  <2>6. Upto(m, base, step, g)
    BY <2>4 DEF Upto
  <2> QED
    BY <2>3, <2>5, <2>6
<1> HIDE DEF T
<1>3. \A k \in 0 .. n : k \in T
  BY <1>1, <1>2, AllUpTo
<1> QED
  BY <1>3 DEF T

-----------------------------------------------------------------------------
(* Sequences of bytes                                                      *)

Octet == 0 .. Base - 1

\* A byte has at least seven values, and the powers of Base are positive.
LEMMA BaseFacts ==
  /\ Base \in Nat /\ Base >= 7
  /\ U16Max \in Nat /\ U32Max \in Nat /\ 46 <= U16Max /\ 46 <= U32Max
  /\ \A i \in {1, 2, 3, 4} : Weight[i] \in Nat /\ Weight[i] > 0
  /\ {EOCD_SIG, CD_HEADER_SIG, LOCAL_HEADER_SIG, DATA_DESCRIPTOR_SIG} \subseteq 0 .. U32Max
<1>1. Base \in Nat /\ 46 <= Base * Base - 1
  BY BaseAssumption DEF U16Max
<1>2. Base >= 7
  <2>1. ASSUME ~(Base >= 7)
        PROVE  FALSE
    <3>1. Base \in {0, 1, 2, 3, 4, 5, 6}
      BY <1>1, <2>1
    <3> QED
      BY <1>1, <3>1
  <2> QED
    BY <2>1
<1>3. \A x, y \in Nat : x > 0 /\ y > 0 => x * y \in Nat /\ x * y > 0
  OBVIOUS
<1>4. Base * Base \in Nat /\ Base * Base > 0
  BY <1>1, <1>2, <1>3
<1>5. Base * Base * Base \in Nat /\ Base * Base * Base > 0
  BY <1>1, <1>2, <1>3, <1>4
<1>6. /\ Weight[1] = 1 /\ Weight[2] = Base
      /\ Weight[3] = Base * Base /\ Weight[4] = Base * Base * Base
  BY DEF Weight
<1>7. \A i \in {1, 2, 3, 4} : Weight[i] \in Nat /\ Weight[i] > 0
  BY <1>1, <1>2, <1>4, <1>5, <1>6
<1>8. U16Max \in Nat /\ 46 <= U16Max
  BY <1>1, <1>4 DEF U16Max
<1>9. U32Max \in Nat /\ 46 <= U32Max
  <2> DEFINE cube == Base * Base * Base
  <2>1. Base * Base <= cube
    <3>1. \A x, y \in Nat : y >= 1 => x <= x * y
      OBVIOUS
    <3> QED
      BY <1>1, <1>2, <1>4, <3>1
  <2>2. cube <= cube * Base
    <3>1. \A x, y \in Nat : y >= 1 => x <= x * y
      OBVIOUS
    <3> QED
      BY <1>1, <1>2, <1>5, <3>1
  <2>3. cube * Base \in Nat
    BY <1>1, <1>2, <1>3, <1>5
  <2>4. U32Max = cube * Base - 1
    BY DEF U32Max
  <2>5. cube \in Nat
    BY <1>5
  <2> HIDE DEF cube
  <2> QED
    BY <1>1, <1>4, <2>1, <2>2, <2>3, <2>4, <2>5
<1>10. {EOCD_SIG, CD_HEADER_SIG, LOCAL_HEADER_SIG, DATA_DESCRIPTOR_SIG} \subseteq 0 .. U32Max
  BY BaseAssumption
<1> QED
  BY <1>1, <1>2, <1>7, <1>8, <1>9, <1>10

\* The numbers that fit a field.
Fits(width) == IF width = 2 THEN 0 .. U16Max ELSE 0 .. U32Max

\* A number that fits its field is written in as many bytes as it is wide.
LEMMA LeType ==
  ASSUME NEW width \in {2, 4}, NEW v \in Fits(width)
  PROVE  Le(v, width) \in Seq(Octet) /\ Len(Le(v, width)) = width
<1>1. \A w, base \in Nat : w > 0 /\ base > 0 => (v \div w) % base \in 0 .. base - 1
  <2>1. v \in Nat
    BY DEF Fits
  <2> QED
    BY <2>1
<1>2. \A w, base \in Nat : w > 0 /\ v < base * w => v \div w \in 0 .. base - 1
  <2>1. v \in Nat
    BY DEF Fits
  <2>2. SUFFICES ASSUME NEW w \in Nat, NEW base \in Nat, w > 0, v < base * w
                 PROVE  v \div w \in 0 .. base - 1
    OBVIOUS
  <2> DEFINE q == v \div w
  <2>3. q \in Nat /\ q * w <= v
    BY <2>1, <2>2
  <2> HIDE DEF q
  <2>4. q < base
    <3>1. SUFFICES ASSUME q >= base
                   PROVE  FALSE
      BY <2>2, <2>3
    <3>2. q * w >= base * w
      BY <2>2, <2>3, <3>1
    <3>3. q * w \in Nat /\ base * w \in Nat
      BY <2>2, <2>3
    <3> QED
      BY <2>1, <2>2, <2>3, <3>2, <3>3
  <2> QED
    BY <2>2, <2>3, <2>4 DEF q
<1>3. v < Base * Weight[width] /\ width \in 1 .. 4 /\ Base \in Nat
  <2>1. CASE width = 2
    <3>1. Weight[2] = Base
      BY DEF Weight
    <3>2. v \in 0 .. Base * Base - 1
      BY <2>1 DEF Fits, U16Max
    <3>3. Base * Base \in Nat
      BY BaseFacts
    <3> HIDE DEF Weight
    <3> QED
      BY <2>1, <3>1, <3>2, <3>3, BaseFacts
  <2>2. CASE width = 4
    <3>1. Weight[4] = Base * Base * Base
      BY DEF Weight
    <3>2. v \in 0 .. Base * Base * Base * Base - 1
      BY <2>2 DEF Fits, U32Max
    <3>3. \A x, y, z \in Nat : x * y * z \in Nat /\ x * x * x * x = x * (x * x * x)
      OBVIOUS
    <3>4. Base * Base * Base * Base = Base * (Base * Base * Base)
      BY <3>3, BaseFacts
    <3>5. Base * (Base * Base * Base) \in Nat
      <4>1. \A x, y \in Nat : x * y \in Nat
        OBVIOUS
      <4> QED
        BY <4>1, BaseFacts
    <3> QED
      BY <2>2, <3>1, <3>2, <3>4, <3>5, BaseFacts
  <2> QED
    BY <2>1, <2>2, BaseFacts
<1>4. ASSUME NEW i \in 1 .. width
      PROVE  Le(v, width)[i] \in Octet
  <2>1. i \in {1, 2, 3, 4}
    OBVIOUS
  <2>2. Weight[i] \in Nat /\ Weight[i] > 0 /\ Base \in Nat /\ Base > 0
    BY <2>1, BaseFacts
  <2>3. CASE i < width
    BY <1>1, <2>2, <2>3 DEF Le, Octet
  <2>4. CASE ~(i < width)
    <3>1. i = width
      BY <2>4
    <3> QED
      BY <1>2, <1>3, <2>2, <3>1 DEF Le, Octet
  <2> QED
    BY <2>3, <2>4
<1>5. Le(v, width) = [i \in 1 .. width |-> Le(v, width)[i]]
  BY DEF Le
<1>6. Le(v, width) \in [1 .. width -> Octet]
  BY <1>4, <1>5
<1> QED
  BY <1>6

\* A number read within a sequence of bytes is a natural number.
LEMMA ReadType ==
  ASSUME NEW b \in Seq(Octet), NEW at \in Nat
  PROVE  /\ at + 2 <= Len(b) => ReadU16(b, at) \in Nat
         /\ at + 4 <= Len(b) => ReadU32(b, at) \in Nat
<1>1. \A i \in 1 .. Len(b) : b[i] \in Nat
  BY BaseFacts, SMTT(20) DEF Octet
<1>2. \A x, y \in Nat : x + y \in Nat /\ x * y \in Nat
  OBVIOUS
<1>3. Base \in Nat /\ Base * Base \in Nat
  BY <1>2, BaseFacts
<1>4. ASSUME NEW p \in Nat, p + 2 <= Len(b)
      PROVE  ReadU16(b, p) \in Nat
  <2>1. p + 1 \in 1 .. Len(b) /\ p + 2 \in 1 .. Len(b)
    BY <1>4
  <2>2. b[p + 1] \in Nat /\ Base * b[p + 2] \in Nat
    BY <1>1, <1>2, <1>3, <2>1
  <2> QED
    BY <1>2, <2>2 DEF ReadU16
<1>5. ASSUME at + 4 <= Len(b)
      PROVE  ReadU32(b, at) \in Nat
  <2>1. at + 2 \in Nat /\ at + 2 <= Len(b) /\ at + 2 + 2 <= Len(b)
    BY <1>5
  <2>2. ReadU16(b, at) \in Nat /\ ReadU16(b, at + 2) \in Nat
    BY <1>4, <2>1
  <2>3. Base * Base * ReadU16(b, at + 2) \in Nat
    BY <1>2, <1>3, <2>2
  <2> QED
    BY <1>2, <2>2, <2>3 DEF ReadU32
<1> QED
  BY <1>4, <1>5

\* A slice within a sequence of bytes is one.
LEMMA BytesType ==
  ASSUME NEW T, NEW b \in Seq(T), NEW from \in Nat, NEW to \in Int, to <= Len(b)
  PROVE  /\ Bytes(b, from, to) \in Seq(T)
         /\ from <= to => Len(Bytes(b, from, to)) = to - from
<1>1. \A i \in from + 1 .. to : b[i] \in T
  OBVIOUS
<1> QED
  BY <1>1, SubSeqProperties DEF Bytes

\* A patch keeps the length.
LEMMA PatchType ==
  ASSUME NEW b \in Seq(Octet), NEW at \in Int, NEW new \in Seq(Octet)
  PROVE  Patch(b, at, new) \in Seq(Octet) /\ Len(Patch(b, at, new)) = Len(b)
<1>1. ASSUME NEW i \in 1 .. Len(b), i - 1 \in at .. at + Len(new) - 1
      PROVE  new[i - at] \in Octet
  <2>1. i - at \in 1 .. Len(new)
    BY <1>1
  <2> QED
    BY <2>1
<1>2. Patch(b, at, new) \in [1 .. Len(b) -> Octet]
  BY <1>1 DEF Patch
<1>3. Len(b) \in Nat
  OBVIOUS
<1> QED
  BY <1>2, <1>3

\* A sequence of sequences is flattened to a sequence.
LEMMA Flattened ==
  ASSUME NEW T, NEW seqs \in Seq(Seq(T))
  PROVE  FlattenSeq(seqs) \in Seq(T)
<1> DEFINE n == Len(seqs)
           Step(f) == [i \in 1 .. n |-> IF i = 1 THEN seqs[i] ELSE f[i - 1] \o seqs[i]]
<1>1. CASE n = 0
  <2>1. seqs = <<>>
    BY <1>1
  <2> QED
    BY <1>1, <2>1 DEF FlattenSeq
<1>2. CASE n # 0
  <2>1. n \in Nat /\ n \in 1 .. n /\ 1 \in 1 .. n
    BY <1>2
  <2>2. \A i \in 1 .. n : seqs[i] \in Seq(T)
    OBVIOUS
  <2>3. \E f : f = Step(f)
    <3> DEFINE step == [p \in (1 .. n) \X Seq(T) |->
                          IF p[1] = 1 THEN seqs[1] ELSE p[2] \o seqs[p[1]]]
    <3>1. step \in [(1 .. n) \X Seq(T) -> Seq(T)]
      BY <2>1, <2>2
    <3> DEFINE base == <<>>
    <3>2. base \in Seq(T)
      OBVIOUS
    <3>3. \A i \in 1 .. n, s \in Seq(T) :
            step[<<i, s>>] = IF i = 1 THEN seqs[1] ELSE s \o seqs[i]
      OBVIOUS
    <3> HIDE DEF base, step, n
    <3>4. StepsWithin(n, Seq(T), base, step)
      BY <2>1, <3>1, <3>2 DEF StepsWithin
    <3>5. PICK f \in [0 .. n -> Seq(T)] : Upto(n, base, step, f)
      BY <3>4, Iterated
    <3> DEFINE g == [i \in 1 .. n |-> f[i]]
    <3>6. ASSUME NEW i \in 1 .. n
          PROVE  g[i] = IF i = 1 THEN seqs[i] ELSE g[i - 1] \o seqs[i]
      <4>1. i \in 0 .. n /\ i # 0 /\ i - 1 \in 0 .. n /\ (i # 1 => i - 1 \in 1 .. n)
        BY <2>1
      <4>2. f[i] = step[<<i, f[i - 1]>>] /\ f[i - 1] \in Seq(T)
        BY <3>5, <4>1 DEF Upto
      <4>3. f[i] = IF i = 1 THEN seqs[1] ELSE f[i - 1] \o seqs[i]
        BY <3>3, <4>2
      <4> QED
        BY <4>1, <4>3
    <3>7. g = Step(g)
      BY <3>6
    <3> QED
      BY <3>7
  <2> DEFINE flatten == CHOOSE f : f = Step(f)
  <2>4. flatten = Step(flatten)
    BY <2>3
  <2>5. FlattenSeq(seqs) = flatten[n]
    BY <1>2 DEF FlattenSeq
  <2> HIDE DEF flatten
  <2>6. \A i \in 1 .. n : flatten[i] = IF i = 1 THEN seqs[i] ELSE flatten[i - 1] \o seqs[i]
    BY <2>4
  <2> DEFINE S == {k \in 0 .. n : k = 0 \/ flatten[k] \in Seq(T)}
  <2>7. ASSUME NEW k \in 1 .. n, k - 1 \in S
        PROVE  k \in S
    <3>1. k # 1 => flatten[k - 1] \in Seq(T)
      BY <2>7
    <3>2. flatten[k] \in Seq(T)
      <4>1. \A s, t \in Seq(T) : s \o t \in Seq(T)
        BY ConcatProperties
      <4> HIDE DEF n, S
      <4> QED
        BY <2>2, <2>6, <3>1, <4>1
    <3> QED
      BY <3>2
  <2>8. 0 \in S
    BY <2>1
  <2> HIDE DEF S
  <2>9. n \in S
    <3>1. \A k \in 0 .. n : k \in S
      BY <2>1, <2>7, <2>8, AllUpTo
    <3> QED
      BY <2>1, <3>1
  <2>10. flatten[n] \in Seq(T)
    BY <1>2, <2>9 DEF S
  <2> QED
    BY <2>5, <2>10
<1> QED
  BY <1>1, <1>2

-----------------------------------------------------------------------------
(* parse_layout                                                            *)

\* The end of the archive is the EOCD record at eocd, of 22 bytes at least.
EndsAt(b, cd, eocd) ==
  /\ b \in Seq(Octet) /\ cd \in Nat /\ eocd \in Nat
  /\ cd <= eocd /\ eocd + 22 <= Len(b)

\* A header the walk accepts: its numbers lie in the archive, its local header
\* before the directory, its name is UTF-8, and the next header not behind the
\* EOCD record.
GoodHeader(b, cd, eocd, h) ==
  /\ HeaderVerdict(b, cd, eocd, h) = "ok"
  /\ h \in Nat /\ h + 46 <= Len(b)
  /\ NameLen(b, h) \in Nat /\ ReadU16(b, h + 30) \in Nat /\ ReadU16(b, h + 32) \in Nat
  /\ ReadU32(b, h + 20) \in Nat
  /\ NameOf(b, h) \notin NonUtf8Names
  /\ LocalOffset(b, h) \in Nat /\ LocalOffset(b, h) < cd
  /\ NextHeader(b, h) \in Nat /\ h + 46 + NameLen(b, h) <= NextHeader(b, h)
  /\ NextHeader(b, h) <= eocd

\* parse_layout lets no other header pass.
LEMMA AcceptedIsGood ==
  ASSUME NEW b, NEW cd, NEW eocd, EndsAt(b, cd, eocd), NEW h \in Nat,
         HeaderVerdict(b, cd, eocd, h) = "ok"
  PROVE  GoodHeader(b, cd, eocd, h)
<1> USE DEF EndsAt
<1>1. h + 46 <= Len(b)
  BY DEF HeaderVerdict, CD_HEADER_FIXED_LEN
<1>2. /\ NameLen(b, h) \in Nat /\ ReadU16(b, h + 30) \in Nat /\ ReadU16(b, h + 32) \in Nat
      /\ ReadU32(b, h + 20) \in Nat /\ LocalOffset(b, h) \in Nat
  <2>1. /\ h + 28 \in Nat /\ h + 30 \in Nat /\ h + 32 \in Nat /\ h + 20 \in Nat
        /\ h + 42 \in Nat /\ Len(b) \in Nat
    OBVIOUS
  <2>2. /\ (h + 28) + 2 <= Len(b) /\ (h + 30) + 2 <= Len(b) /\ (h + 32) + 2 <= Len(b)
        /\ (h + 20) + 4 <= Len(b) /\ (h + 42) + 4 <= Len(b)
    BY <1>1, <2>1
  <2> QED
    BY <2>1, <2>2, ReadType DEF NameLen, LocalOffset
<1>3. /\ NameOf(b, h) \notin NonUtf8Names
      /\ ~(LocalOffset(b, h) >= cd)
      /\ ~(NextHeader(b, h) > eocd)
  BY DEF HeaderVerdict
<1>4. NextHeader(b, h) \in Nat /\ h + 46 + NameLen(b, h) <= NextHeader(b, h)
  BY <1>2, SMTT(20) DEF NextHeader, CD_HEADER_FIXED_LEN
<1> QED
  BY <1>1, <1>2, <1>3, <1>4 DEF GoodHeader

\* Headers each of which starts where the one before it ends, from cd on.
Chain(b, cd, eocd, hs, n) ==
  /\ hs \in Seq(Nat) /\ Len(hs) = n
  /\ \A i \in 1 .. n :
       /\ GoodHeader(b, cd, eocd, hs[i])
       /\ hs[i] = IF i = 1 THEN cd ELSE NextHeader(b, hs[i - 1])

Verdicts == {"ok", "Truncated", "Zip64Unsupported", "NonUtf8Name", "BadOffset"}
WalkState == [verdict : Verdicts, value : Seq(Nat), cursor : Nat]

\* What the walk has after k headers, unless it has failed.
WalkInv(b, cd, eocd, w, k) ==
  /\ w \in WalkState
  /\ w.verdict = "ok" =>
       /\ Chain(b, cd, eocd, w.value, k)
       /\ w.cursor = IF k = 0 THEN cd ELSE NextHeader(b, w.value[k])

\* One iteration of the walk.
Onward(b, cd, eocd, w) == Push(b, w, HeaderVerdict(b, cd, eocd, w.cursor))

\* One iteration keeps a walk one.
LEMMA OnwardType ==
  ASSUME NEW b, NEW cd, NEW eocd, EndsAt(b, cd, eocd), NEW w \in WalkState
  PROVE  Onward(b, cd, eocd, w) \in WalkState
<1> DEFINE v == HeaderVerdict(b, cd, eocd, w.cursor)
<1>1. w.cursor \in Nat /\ w.verdict \in Verdicts /\ w.value \in Seq(Nat)
  BY DEF WalkState
<1>2. v \in Verdicts
  BY DEF HeaderVerdict, Verdicts
<1>3. v = "ok" => NextHeader(b, w.cursor) \in Nat
  BY <1>1, AcceptedIsGood DEF GoodHeader
<1>4. Append(w.value, w.cursor) \in Seq(Nat)
  BY <1>1
<1> HIDE DEF v
<1>5. Push(b, w, v) \in WalkState
  <2>1. CASE w.verdict # "ok"
    BY <2>1 DEF Push
  <2>2. CASE w.verdict = "ok" /\ v # "ok"
    BY <1>2, <2>2 DEF Push, WalkState
  <2>3. CASE w.verdict = "ok" /\ v = "ok"
    BY <1>2, <1>3, <1>4, <2>3 DEF Push, WalkState
  <2> QED
    BY <2>1, <2>2, <2>3
<1> QED
  BY <1>5 DEF Onward, v

\* One iteration adds the header at the cursor.
LEMMA OnwardKeeps ==
  ASSUME NEW b, NEW cd, NEW eocd, EndsAt(b, cd, eocd), NEW k \in Nat \ {0}, NEW w,
         WalkInv(b, cd, eocd, w, k - 1)
  PROVE  WalkInv(b, cd, eocd, Onward(b, cd, eocd, w), k)
<1> DEFINE v == HeaderVerdict(b, cd, eocd, w.cursor)
           u == Onward(b, cd, eocd, w)
<1>1. w \in WalkState /\ w.cursor \in Nat /\ w.value \in Seq(Nat)
  BY DEF WalkInv, WalkState
<1>2. u \in WalkState
  BY <1>1, OnwardType
<1>3. ASSUME u.verdict = "ok"
      PROVE  /\ Chain(b, cd, eocd, u.value, k)
             /\ u.cursor = NextHeader(b, u.value[k])
  <2>1. w.verdict = "ok" /\ v = "ok"
    <3>1. CASE w.verdict # "ok"
      BY <1>3, <3>1 DEF Onward, Push
    <3>2. CASE w.verdict = "ok" /\ v # "ok"
      <4>1. u = [w EXCEPT !.verdict = v]
        BY <3>2 DEF Onward, Push
      <4>2. u.verdict = v
        BY <1>1, <4>1 DEF WalkState
      <4> QED
        BY <1>3, <3>2, <4>2
    <3> QED
      BY <3>1, <3>2
  <2>2. /\ u.value = Append(w.value, w.cursor)
        /\ u.cursor = NextHeader(b, w.cursor)
    BY <2>1 DEF Onward, Push
  <2> HIDE DEF u, v
  <2>3. /\ Chain(b, cd, eocd, w.value, k - 1)
        /\ w.cursor = IF k - 1 = 0 THEN cd ELSE NextHeader(b, w.value[k - 1])
    BY <2>1 DEF WalkInv
  <2>4. Len(w.value) = k - 1
    BY <2>3 DEF Chain
  <2>5. /\ u.value \in Seq(Nat) /\ Len(u.value) = k /\ u.value[k] = w.cursor
        /\ \A i \in 1 .. k - 1 : u.value[i] = w.value[i]
    BY <1>1, <2>2, <2>4, AppendProperties
  <2>6. GoodHeader(b, cd, eocd, w.cursor)
    BY <1>1, <2>1, AcceptedIsGood DEF v
  <2>7. ASSUME NEW i \in 1 .. k
        PROVE  /\ GoodHeader(b, cd, eocd, u.value[i])
               /\ u.value[i] = IF i = 1 THEN cd ELSE NextHeader(b, u.value[i - 1])
    <3>1. CASE i = k
      <4>1. k # 1 => k - 1 \in 1 .. k - 1
        OBVIOUS
      <4> QED
        BY <2>3, <2>5, <2>6, <3>1, <4>1
    <3>2. CASE i # k
      <4>1. i \in 1 .. k - 1 /\ (i # 1 => i - 1 \in 1 .. k - 1)
        BY <3>2
      <4> QED
        BY <2>3, <2>5, <4>1 DEF Chain
    <3> QED
      BY <3>1, <3>2
  <2> QED
    BY <2>2, <2>5, <2>7 DEF Chain
<1> QED
  BY <1>2, <1>3 DEF WalkInv

\* The walk before its first iteration.
WalkStart(cd) == [verdict |-> "ok", value |-> <<>>, cursor |-> cd]

\* f has the walk after each iteration.
Walks(b, cd, eocd, count, f) ==
  \A k \in 0 .. count : f[k] = IF k = 0 THEN WalkStart(cd) ELSE Onward(b, cd, eocd, f[k - 1])

\* The walk is what count iterations lead to.
LEMMA WalkSteps ==
  ASSUME NEW b, NEW cd, NEW eocd, EndsAt(b, cd, eocd), NEW count \in Nat
  PROVE  \E f : Walks(b, cd, eocd, count, f) /\ f[count] = Walk(b, cd, eocd, count)
<1> DEFINE start == WalkStart(cd)
           Step(f) == [k \in 0 .. count |->
                         IF k = 0 THEN start
                         ELSE Push(b, f[k - 1], HeaderVerdict(b, cd, eocd, f[k - 1].cursor))]
           walk == CHOOSE f : f = Step(f)
<1>1. start \in WalkState
  BY DEF WalkState, Verdicts, EndsAt, WalkStart
<1>2. \E f : f = Step(f)
  <2> DEFINE step == [p \in (1 .. count) \X WalkState |-> Onward(b, cd, eocd, p[2])]
  <2>1. step \in [(1 .. count) \X WalkState -> WalkState]
    BY OnwardType
  <2>2. \A k \in 1 .. count, w \in WalkState : step[<<k, w>>] = Onward(b, cd, eocd, w)
    OBVIOUS
  <2> HIDE DEF step, start
  <2>3. StepsWithin(count, WalkState, start, step)
    BY <1>1, <2>1 DEF StepsWithin
  <2>4. PICK f \in [0 .. count -> WalkState] : Upto(count, start, step, f)
    BY <2>3, Iterated
  <2>5. ASSUME NEW k \in 0 .. count
        PROVE  f[k] = IF k = 0 THEN start
                      ELSE Push(b, f[k - 1], HeaderVerdict(b, cd, eocd, f[k - 1].cursor))
    <3>1. k # 0 => k \in 1 .. count /\ k - 1 \in 0 .. count
      OBVIOUS
    <3>2. k # 0 => f[k] = step[<<k, f[k - 1]>>] /\ f[k - 1] \in WalkState
      BY <2>4, <3>1 DEF Upto
    <3>3. k # 0 => f[k] = Onward(b, cd, eocd, f[k - 1])
      BY <2>2, <3>1, <3>2
    <3>4. k = 0 => f[k] = start
      BY <2>4 DEF Upto
    <3> QED
      BY <3>3, <3>4 DEF Onward
  <2>6. f = Step(f)
    BY <2>5
  <2> QED
    BY <2>6
<1>3. walk = Step(walk)
  BY <1>2
<1>4. Walk(b, cd, eocd, count) = walk[count]
  BY DEF Walk, WalkStart
<1> HIDE DEF walk
<1>5. ASSUME NEW k \in 0 .. count
      PROVE  walk[k] = IF k = 0 THEN start ELSE Onward(b, cd, eocd, walk[k - 1])
  BY <1>3 DEF Onward
<1> QED
  BY <1>4, <1>5 DEF Walks

\* The walk that succeeds has met a chain of as many headers as the EOCD says.
LEMMA Walked ==
  ASSUME NEW b, NEW cd, NEW eocd, EndsAt(b, cd, eocd), NEW count \in Nat
  PROVE  WalkInv(b, cd, eocd, Walk(b, cd, eocd, count), count)
<1>1. WalkInv(b, cd, eocd, WalkStart(cd), 0)
  BY DEF WalkState, Verdicts, WalkInv, Chain, EndsAt, WalkStart
<1>2. PICK walk : Walks(b, cd, eocd, count, walk) /\ walk[count] = Walk(b, cd, eocd, count)
  BY WalkSteps
<1> DEFINE S == {k \in 0 .. count : WalkInv(b, cd, eocd, walk[k], k)}
<1>3. 0 \in S
  <2>1. 0 \in 0 .. count /\ walk[0] = WalkStart(cd)
    BY <1>2 DEF Walks
  <2> QED
    BY <1>1, <2>1
<1>4. ASSUME NEW k \in 1 .. count, k - 1 \in S
      PROVE  k \in S
  <2>1. k \in 0 .. count /\ k \in Nat \ {0}
    OBVIOUS
  <2>2. WalkInv(b, cd, eocd, walk[k - 1], k - 1)
    BY <1>4
  <2>3. walk[k] = Onward(b, cd, eocd, walk[k - 1])
    BY <1>2, <2>1 DEF Walks
  <2>4. WalkInv(b, cd, eocd, Onward(b, cd, eocd, walk[k - 1]), k)
    BY <2>1, <2>2, OnwardKeeps
  <2> QED
    BY <2>1, <2>3, <2>4
<1> HIDE DEF S
<1>5. \A k \in 0 .. count : k \in S
  BY <1>3, <1>4, AllUpTo
<1>6. count \in S
  BY <1>5
<1> QED
  BY <1>2, <1>6 DEF S

-----------------------------------------------------------------------------
(* Sorting and filtering                                                   *)

\* The element of S with k - 1 below it.
Ranked(R, S, k) == CHOOSE h \in S : Cardinality(Below(R, S, h)) = k - 1

\* The elements of a finite strictly ordered set, listed by rank: each once, in
\* order.
LEMMA RankedFacts ==
  ASSUME NEW S, IsFiniteSet(S), NEW R, StrictOrder(R, S)
  PROVE  /\ Cardinality(S) \in Nat
         /\ \A k \in 1 .. Cardinality(S) : Ranked(R, S, k) \in S
         /\ \A h \in S : \E k \in 1 .. Cardinality(S) : Ranked(R, S, k) = h
         /\ \A j, k \in 1 .. Cardinality(S) :
              j < k => <<Ranked(R, S, j), Ranked(R, S, k)>> \in R
<1> DEFINE n == Cardinality(S)
           rank(h) == Cardinality(Below(R, S, h))
<1>1. n \in Nat
  BY FS_CardinalityType
<1>2. \A h \in S : rank(h) \in 0 .. n - 1
  BY RanksGrow
<1>3. \A g, h \in S : <<g, h>> \in R => rank(g) < rank(h)
  BY RanksGrow
<1>4. ASSUME NEW k \in 1 .. n
      PROVE  Ranked(R, S, k) \in S /\ rank(Ranked(R, S, k)) = k - 1
  <2>1. \E h \in S : Cardinality(Below(R, S, h)) = k - 1
    BY EveryRankIsTaken
  <2> QED
    BY <2>1 DEF Ranked
<1> HIDE DEF n, rank
<1>5. \A g, h \in S : g # h => <<g, h>> \in R \/ <<h, g>> \in R
  BY DEF StrictOrder
<1>6. ASSUME NEW h \in S
      PROVE  \E k \in 1 .. n : Ranked(R, S, k) = h
  <2> DEFINE k == rank(h) + 1
  <2>1. k \in 1 .. n /\ rank(h) = k - 1
    BY <1>1, <1>2
  <2> HIDE DEF k
  <2>2. Ranked(R, S, k) \in S /\ rank(Ranked(R, S, k)) = rank(h)
    BY <1>4, <2>1
  <2>3. Ranked(R, S, k) = h
    <3>1. ~(rank(Ranked(R, S, k)) < rank(h)) /\ ~(rank(h) < rank(Ranked(R, S, k)))
      BY <1>2, <2>2
    <3> QED
      BY <1>3, <1>5, <2>2, <3>1
  <2> QED
    BY <2>1, <2>3
<1>7. ASSUME NEW j \in 1 .. n, NEW k \in 1 .. n, j < k
      PROVE  <<Ranked(R, S, j), Ranked(R, S, k)>> \in R
  <2>1. /\ Ranked(R, S, j) \in S /\ rank(Ranked(R, S, j)) = j - 1
        /\ Ranked(R, S, k) \in S /\ rank(Ranked(R, S, k)) = k - 1
    BY <1>4
  <2>2. j \in Int /\ k \in Int /\ j - 1 # k - 1 /\ ~(k - 1 < j - 1)
    BY <1>7
  <2>3. /\ Ranked(R, S, j) # Ranked(R, S, k)
        /\ <<Ranked(R, S, k), Ranked(R, S, j)>> \notin R
    BY <1>3, <2>1, <2>2
  <2> QED
    BY <1>5, <2>1, <2>3
<1> QED
  BY <1>1, <1>4, <1>6, <1>7 DEF n

\* The k-th of a set of positions.
Nth(P, k) == CHOOSE i \in P : Cardinality({j \in P : j < i}) = k - 1

\* P is a set of positions in a sequence of length n.
PositionsIn(P, n) == P \subseteq 1 .. n

\* Kept takes the positions in their order, each once.
LEMMA KeptFacts ==
  ASSUME NEW n \in Nat, NEW P, PositionsIn(P, n)
  PROVE  /\ IsFiniteSet(P) /\ Cardinality(P) \in Nat
         /\ \A s : Kept(s, P) = [k \in 1 .. Cardinality(P) |-> s[Nth(P, k)]]
         /\ \A k \in 1 .. Cardinality(P) : Nth(P, k) \in P
         /\ \A i \in P : \E k \in 1 .. Cardinality(P) : Nth(P, k) = i
         /\ \A j, k \in 1 .. Cardinality(P) : j < k => Nth(P, j) < Nth(P, k)
<1> USE DEF PositionsIn
<1> DEFINE R == {p \in P \X P : p[1] < p[2]}
<1>1. IsFiniteSet(P)
  <2>1. IsFiniteSet(1 .. n)
    BY FS_Interval
  <2> QED
    BY <2>1, FS_Subset
<1>2. \A i, j \in P : <<i, j>> \in R <=> i < j
  OBVIOUS
<1>3. \A i \in P : i \in Int
  OBVIOUS
<1>4. \A i \in P : Below(R, P, i) = {j \in P : j < i}
  BY <1>2 DEF Below
<1> HIDE DEF R
<1>5. StrictOrder(R, P)
  BY <1>2, <1>3 DEF StrictOrder
<1>6. \A k : Nth(P, k) = Ranked(R, P, k)
  BY <1>4 DEF Nth, Ranked
<1>7. \A s : Kept(s, P) = [k \in 1 .. Cardinality(P) |-> s[Nth(P, k)]]
  BY DEF Kept, Nth
<1>8. /\ Cardinality(P) \in Nat
      /\ \A k \in 1 .. Cardinality(P) : Ranked(R, P, k) \in P
      /\ \A i \in P : \E k \in 1 .. Cardinality(P) : Ranked(R, P, k) = i
      /\ \A j, k \in 1 .. Cardinality(P) :
           j < k => <<Ranked(R, P, j), Ranked(R, P, k)>> \in R
  BY <1>1, <1>5, RankedFacts
<1>9. /\ \A k \in 1 .. Cardinality(P) : Nth(P, k) \in P
      /\ \A i \in P : \E k \in 1 .. Cardinality(P) : Nth(P, k) = i
  BY <1>6, <1>8
<1>10. \A j, k \in 1 .. Cardinality(P) : j < k => Nth(P, j) < Nth(P, k)
  BY <1>2, <1>6, <1>8
<1> QED
  BY <1>1, <1>7, <1>8, <1>9, <1>10

\* Kept yields a sequence of elements of the one it filters.
LEMMA KeptType ==
  ASSUME NEW T, NEW s \in Seq(T), NEW P, PositionsIn(P, Len(s))
  PROVE  /\ Kept(s, P) \in Seq(T) /\ Len(Kept(s, P)) = Cardinality(P)
         /\ \A k \in 1 .. Cardinality(P) : Kept(s, P)[k] = s[Nth(P, k)]
<1>1. Len(s) \in Nat
  OBVIOUS
<1>2. /\ Cardinality(P) \in Nat
      /\ Kept(s, P) = [k \in 1 .. Cardinality(P) |-> s[Nth(P, k)]]
      /\ \A k \in 1 .. Cardinality(P) : Nth(P, k) \in P
  BY <1>1, KeptFacts
<1>3. Kept(s, P) \in [1 .. Cardinality(P) -> T]
  <2>1. \A i \in P : s[i] \in T
    BY DEF PositionsIn
  <2> QED
    BY <1>2, <2>1
<1> QED
  BY <1>2, <1>3

\* entries lists the headers hs, each once, by the offset of their local headers.
Lists(b, hs, entries) ==
  LET n == Len(hs)
  IN \E at \in [1 .. n -> 1 .. n] :
       /\ entries = [k \in 1 .. n |-> hs[at[k]]]
       /\ \A i \in 1 .. n : \E k \in 1 .. n : at[k] = i
       /\ \A j, k \in 1 .. n : j < k =>
            LocalOffset(b, entries[j]) <= LocalOffset(b, entries[k])

\* The sort by offset loses no header and adds none.
LEMMA Sorted ==
  ASSUME NEW b, NEW hs \in Seq(Nat), \A i \in 1 .. Len(hs) : LocalOffset(b, hs[i]) \in Nat
  PROVE  Lists(b, hs, ByOffset(b, hs))
<1> DEFINE n == Len(hs)
           o(i) == LocalOffset(b, hs[i])
           Before(i, j) == o(i) < o(j) \/ (o(i) = o(j) /\ i < j)
           S == 1 .. n
           R == {p \in S \X S : Before(p[1], p[2])}
           at == [k \in 1 .. n |-> Ranked(R, S, k)]
           e == ByOffset(b, hs)
<1>1. n \in Nat /\ DOMAIN hs = S
  OBVIOUS
<1>2. IsFiniteSet(S) /\ Cardinality(S) = n
  <2>1. /\ IsFiniteSet(1 .. n)
        /\ Cardinality(1 .. n) = IF 1 > n THEN 0 ELSE n - 1 + 1
    BY <1>1, FS_Interval
  <2> QED
    BY <1>1, <2>1
<1>3. \A i, j \in S : <<i, j>> \in R <=> Before(i, j)
  OBVIOUS
<1>4. \A i \in S : Below(R, S, i) = {j \in S : Before(j, i)}
  BY <1>3 DEF Below
<1>5. \A i \in S : i \in Int /\ o(i) \in Nat
  OBVIOUS
<1> HIDE DEF S, R, o
<1>6. StrictOrder(R, S)
  BY <1>3, <1>5, SMTT(20) DEF StrictOrder
<1>7. /\ \A k \in 1 .. n : Ranked(R, S, k) \in S
      /\ \A i \in S : \E k \in 1 .. n : Ranked(R, S, k) = i
      /\ \A j, k \in 1 .. n : j < k => <<Ranked(R, S, j), Ranked(R, S, k)>> \in R
  BY <1>2, <1>6, RankedFacts
<1>8. e = [k \in 1 .. n |-> hs[at[k]]]
  <2>1. \A k : Ranked(R, S, k) =
                 CHOOSE i \in S : Cardinality({j \in S : Before(j, i)}) = k - 1
    BY <1>4 DEF Ranked
  <2>2. e = [k \in S |-> hs[CHOOSE i \in S :
                              Cardinality({j \in S : Before(j, i)}) = k - 1]]
    BY <1>1 DEF ByOffset, o
  <2> QED
    BY <2>1, <2>2 DEF S
<1>9. at \in [1 .. n -> 1 .. n]
  BY <1>7 DEF S
<1>10. \A i \in 1 .. n : \E k \in 1 .. n : at[k] = i
  BY <1>7 DEF S
<1>11. ASSUME NEW j \in 1 .. n, NEW k \in 1 .. n, j < k
       PROVE  LocalOffset(b, e[j]) <= LocalOffset(b, e[k])
  <2>1. at[j] \in S /\ at[k] \in S /\ Before(at[j], at[k])
    BY <1>3, <1>7, <1>11
  <2>2. o(at[j]) <= o(at[k])
    BY <1>5, <2>1
  <2> QED
    BY <1>8, <2>2 DEF o
<1> QED
  BY <1>8, <1>9, <1>10, <1>11 DEF Lists

-----------------------------------------------------------------------------
(* The tables of fields                                                    *)

\* A table of fields whose widths are numbers.
IsTable(table) ==
  Len(table) \in Nat /\ \A k \in 1 .. Len(table) : table[k][2] \in Nat

\* The width of the first k fields is that of the first k - 1 and of the k-th.
LEMMA WidthSum ==
  ASSUME NEW table, IsTable(table)
  PROVE  /\ WidthOf(table, 0) = 0
         /\ \A k \in 1 .. Len(table) :
              WidthOf(table, k) = WidthOf(table, k - 1) + table[k][2]
<1> DEFINE n == Len(table)
           zero == 0
           Step(f) == [k \in 0 .. n |-> IF k = 0 THEN 0 ELSE f[k - 1] + table[k][2]]
           width == CHOOSE f : f = Step(f)
<1>1. n \in Nat /\ \A k \in 1 .. n : table[k][2] \in Nat
  BY DEF IsTable
<1>2. \E f : f = Step(f)
  <2> DEFINE step == [p \in (1 .. n) \X Nat |-> p[2] + table[p[1]][2]]
  <2>1. step \in [(1 .. n) \X Nat -> Nat] /\ zero \in Nat
    BY <1>1
  <2>2. \A k \in 1 .. n, w \in Nat : step[<<k, w>>] = w + table[k][2]
    OBVIOUS
  <2> HIDE DEF step, n
  <2>3. StepsWithin(n, Nat, zero, step)
    BY <1>1, <2>1 DEF StepsWithin
  <2>4. PICK f \in [0 .. n -> Nat] : Upto(n, zero, step, f)
    BY <2>3, Iterated
  <2>5. ASSUME NEW k \in 0 .. n
        PROVE  f[k] = IF k = 0 THEN 0 ELSE f[k - 1] + table[k][2]
    <3>1. k # 0 => k \in 1 .. n /\ k - 1 \in 0 .. n
      BY <1>1
    <3>2. f[k] = IF k = 0 THEN 0 ELSE step[<<k, f[k - 1]>>]
      BY <2>4 DEF Upto
    <3> QED
      BY <2>2, <3>1, <3>2
  <2>6. f = Step(f)
    BY <2>5
  <2> QED
    BY <2>6
<1>3. width = Step(width)
  BY <1>2
<1>4. \A k : WidthOf(table, k) = width[k]
  BY DEF WidthOf
<1> HIDE DEF width
<1>5. \A k \in 0 .. n : width[k] = IF k = 0 THEN 0 ELSE width[k - 1] + table[k][2]
  BY <1>3
<1>6. 0 \in 0 .. n /\ \A k \in 1 .. n : k \in 0 .. n /\ k # 0
  BY <1>1
<1> QED
  BY <1>4, <1>5, <1>6

\* The place of a field in its table.
LEMMA PlaceOf ==
  ASSUME NEW table, NEW field, NEW k \in DOMAIN table, table[k][1] = field,
         \A j \in DOMAIN table : table[j][1] = field => j = k
  PROVE  IndexOf(table, field) = k /\ field \in FieldsOf(table)
BY DEF IndexOf, FieldsOf

\* Where the fields of a local header lie that are read by the tables.
LEMMA LocalFields ==
  /\ Start.local.name = 26 /\ Start.local.extra = 28 /\ Width.local.name = 2
  /\ Width.local.extra = 2 /\ Size.local = 30
<1> DEFINE table == Format.local
<1>1. Len(table) = 11 /\ DOMAIN table = 1 .. 11
  BY DEF Format
<1>2. /\ table[1] = <<"sig", 4>> /\ table[2] = <<"needed", 2>> /\ table[3] = <<"flags", 2>>
      /\ table[4] = <<"method", 2>> /\ table[5] = <<"time", 2>> /\ table[6] = <<"date", 2>>
      /\ table[7] = <<"crc", 4>> /\ table[8] = <<"csize", 4>> /\ table[9] = <<"usize", 4>>
      /\ table[10] = <<"name", 2>> /\ table[11] = <<"extra", 2>>
  BY DEF Format
<1>3. /\ "local" \in DOMAIN Format
      /\ Size.local = WidthOf(table, 11)
      /\ \A f \in FieldsOf(table) :
           /\ Start.local[f] = WidthOf(table, IndexOf(table, f) - 1)
           /\ Width.local[f] = table[IndexOf(table, f)][2]
  <2>1. "local" \in DOMAIN Format
    BY DEF Format
  <2>2. Format["local"] = table
    OBVIOUS
  <2> HIDE DEF table
  <2> QED
    BY <1>1, <2>1, <2>2 DEF Start, Width, Size
<1> HIDE DEF table
<1>4. \A k \in 1 .. 11 : k \in {1, 2, 3, 4, 5, 6, 7, 8, 9, 10, 11}
  OBVIOUS
<1>5. /\ table[1][1] = "sig" /\ table[2][1] = "needed" /\ table[3][1] = "flags"
      /\ table[4][1] = "method" /\ table[5][1] = "time" /\ table[6][1] = "date"
      /\ table[7][1] = "crc" /\ table[8][1] = "csize" /\ table[9][1] = "usize"
      /\ table[10][1] = "name" /\ table[11][1] = "extra"
  BY <1>2
<1>6. /\ table[1][2] = 4 /\ table[2][2] = 2 /\ table[3][2] = 2 /\ table[4][2] = 2
      /\ table[5][2] = 2 /\ table[6][2] = 2 /\ table[7][2] = 4 /\ table[8][2] = 4
      /\ table[9][2] = 4 /\ table[10][2] = 2 /\ table[11][2] = 2
  BY <1>2
<1>7. /\ WidthOf(table, 0) = 0
      /\ \A k \in 1 .. 11 : WidthOf(table, k) = WidthOf(table, k - 1) + table[k][2]
  <2>1. IsTable(table)
    BY <1>1, <1>4, <1>6 DEF IsTable
  <2> QED
    BY <1>1, <2>1, WidthSum
<1>8. /\ WidthOf(table, 1) = WidthOf(table, 0) + 4
      /\ WidthOf(table, 2) = WidthOf(table, 1) + 2
      /\ WidthOf(table, 3) = WidthOf(table, 2) + 2
      /\ WidthOf(table, 4) = WidthOf(table, 3) + 2
      /\ WidthOf(table, 5) = WidthOf(table, 4) + 2
      /\ WidthOf(table, 6) = WidthOf(table, 5) + 2
      /\ WidthOf(table, 7) = WidthOf(table, 6) + 4
      /\ WidthOf(table, 8) = WidthOf(table, 7) + 4
      /\ WidthOf(table, 9) = WidthOf(table, 8) + 4
      /\ WidthOf(table, 10) = WidthOf(table, 9) + 2
      /\ WidthOf(table, 11) = WidthOf(table, 10) + 2
  <2>1. WidthOf(table, 1) = WidthOf(table, 0) + 4
    <3>1. 1 \in 1 .. 11 /\ 1 - 1 = 0
      OBVIOUS
    <3> QED
      BY <1>6, <1>7, <3>1
  <2>2. WidthOf(table, 2) = WidthOf(table, 1) + 2
    <3>1. 2 \in 1 .. 11 /\ 2 - 1 = 1
      OBVIOUS
    <3> QED
      BY <1>6, <1>7, <3>1
  <2>3. WidthOf(table, 3) = WidthOf(table, 2) + 2
    <3>1. 3 \in 1 .. 11 /\ 3 - 1 = 2
      OBVIOUS
    <3> QED
      BY <1>6, <1>7, <3>1
  <2>4. WidthOf(table, 4) = WidthOf(table, 3) + 2
    <3>1. 4 \in 1 .. 11 /\ 4 - 1 = 3
      OBVIOUS
    <3> QED
      BY <1>6, <1>7, <3>1
  <2>5. WidthOf(table, 5) = WidthOf(table, 4) + 2
    <3>1. 5 \in 1 .. 11 /\ 5 - 1 = 4
      OBVIOUS
    <3> QED
      BY <1>6, <1>7, <3>1
  <2>6. WidthOf(table, 6) = WidthOf(table, 5) + 2
    <3>1. 6 \in 1 .. 11 /\ 6 - 1 = 5
      OBVIOUS
    <3> QED
      BY <1>6, <1>7, <3>1
  <2>7. WidthOf(table, 7) = WidthOf(table, 6) + 4
    <3>1. 7 \in 1 .. 11 /\ 7 - 1 = 6
      OBVIOUS
    <3> QED
      BY <1>6, <1>7, <3>1
  <2>8. WidthOf(table, 8) = WidthOf(table, 7) + 4
    <3>1. 8 \in 1 .. 11 /\ 8 - 1 = 7
      OBVIOUS
    <3> QED
      BY <1>6, <1>7, <3>1
  <2>9. WidthOf(table, 9) = WidthOf(table, 8) + 4
    <3>1. 9 \in 1 .. 11 /\ 9 - 1 = 8
      OBVIOUS
    <3> QED
      BY <1>6, <1>7, <3>1
  <2>10. WidthOf(table, 10) = WidthOf(table, 9) + 2
    <3>1. 10 \in 1 .. 11 /\ 10 - 1 = 9
      OBVIOUS
    <3> QED
      BY <1>6, <1>7, <3>1
  <2>11. WidthOf(table, 11) = WidthOf(table, 10) + 2
    <3>1. 11 \in 1 .. 11 /\ 11 - 1 = 10
      OBVIOUS
    <3> QED
      BY <1>6, <1>7, <3>1
  <2> QED
    BY <2>1, <2>2, <2>3, <2>4, <2>5, <2>6, <2>7, <2>8, <2>9, <2>10, <2>11
<1>9. /\ WidthOf(table, 9) = 26 /\ WidthOf(table, 10) = 28 /\ WidthOf(table, 11) = 30
  BY <1>7, <1>8
<1>10. IndexOf(table, "name") = 10 /\ "name" \in FieldsOf(table)
  <2>1. 10 \in DOMAIN table /\ table[10][1] = "name"
    BY <1>1, <1>5
  <2>2. \A j \in DOMAIN table : table[j][1] = "name" => j = 10
    BY <1>1, <1>4, <1>5
  <2> QED
    BY <2>1, <2>2, PlaceOf
<1>11. IndexOf(table, "extra") = 11 /\ "extra" \in FieldsOf(table)
  <2>1. 11 \in DOMAIN table /\ table[11][1] = "extra"
    BY <1>1, <1>5
  <2>2. \A j \in DOMAIN table : table[j][1] = "extra" => j = 11
    BY <1>1, <1>4, <1>5
  <2> QED
    BY <2>1, <2>2, PlaceOf
<1> QED
  BY <1>3, <1>6, <1>9, <1>10, <1>11

\* Where the fields of a directory header lie that are read by the tables.
LEMMA CentralFields ==
  /\ Start.central.flags = 8 /\ Start.central.crc = 16 /\ Start.central.csize = 20
  /\ Start.central.name = 28 /\ Start.central.extra = 30 /\ Start.central.comment = 32
  /\ Start.central.offset = 42 /\ Width.central.flags = 2 /\ Width.central.crc = 4
  /\ Width.central.csize = 4 /\ Width.central.name = 2 /\ Width.central.extra = 2
  /\ Width.central.comment = 2 /\ Width.central.offset = 4 /\ Size.central = 46
<1> DEFINE table == Format.central
<1>1. Len(table) = 17 /\ DOMAIN table = 1 .. 17
  BY DEF Format
<1>2. /\ table[1] = <<"sig", 4>> /\ table[2] = <<"made", 2>> /\ table[3] = <<"needed", 2>>
      /\ table[4] = <<"flags", 2>> /\ table[5] = <<"method", 2>> /\ table[6] = <<"time", 2>>
      /\ table[7] = <<"date", 2>> /\ table[8] = <<"crc", 4>> /\ table[9] = <<"csize", 4>>
      /\ table[10] = <<"usize", 4>> /\ table[11] = <<"name", 2>> /\ table[12] = <<"extra", 2>>
      /\ table[13] = <<"comment", 2>> /\ table[14] = <<"disk", 2>> /\ table[15] = <<"internal", 2>>
      /\ table[16] = <<"external", 4>> /\ table[17] = <<"offset", 4>>
  BY DEF Format
<1>3. /\ "central" \in DOMAIN Format
      /\ Size.central = WidthOf(table, 17)
      /\ \A f \in FieldsOf(table) :
           /\ Start.central[f] = WidthOf(table, IndexOf(table, f) - 1)
           /\ Width.central[f] = table[IndexOf(table, f)][2]
  <2>1. "central" \in DOMAIN Format
    BY DEF Format
  <2>2. Format["central"] = table
    OBVIOUS
  <2> HIDE DEF table
  <2> QED
    BY <1>1, <2>1, <2>2 DEF Start, Width, Size
<1> HIDE DEF table
<1>4. \A k \in 1 .. 17 : k \in {1, 2, 3, 4, 5, 6, 7, 8, 9, 10, 11, 12, 13, 14, 15, 16, 17}
  OBVIOUS
<1>5. /\ table[1][1] = "sig" /\ table[2][1] = "made" /\ table[3][1] = "needed"
      /\ table[4][1] = "flags" /\ table[5][1] = "method" /\ table[6][1] = "time"
      /\ table[7][1] = "date" /\ table[8][1] = "crc" /\ table[9][1] = "csize"
      /\ table[10][1] = "usize" /\ table[11][1] = "name" /\ table[12][1] = "extra"
      /\ table[13][1] = "comment" /\ table[14][1] = "disk" /\ table[15][1] = "internal"
      /\ table[16][1] = "external" /\ table[17][1] = "offset"
  BY <1>2
<1>6. /\ table[1][2] = 4 /\ table[2][2] = 2 /\ table[3][2] = 2 /\ table[4][2] = 2
      /\ table[5][2] = 2 /\ table[6][2] = 2 /\ table[7][2] = 2 /\ table[8][2] = 4
      /\ table[9][2] = 4 /\ table[10][2] = 4 /\ table[11][2] = 2 /\ table[12][2] = 2
      /\ table[13][2] = 2 /\ table[14][2] = 2 /\ table[15][2] = 2 /\ table[16][2] = 4
      /\ table[17][2] = 4
  BY <1>2
<1>7. /\ WidthOf(table, 0) = 0
      /\ \A k \in 1 .. 17 : WidthOf(table, k) = WidthOf(table, k - 1) + table[k][2]
  <2>1. IsTable(table)
    BY <1>1, <1>4, <1>6 DEF IsTable
  <2> QED
    BY <1>1, <2>1, WidthSum
<1>8. /\ WidthOf(table, 1) = WidthOf(table, 0) + 4
      /\ WidthOf(table, 2) = WidthOf(table, 1) + 2
      /\ WidthOf(table, 3) = WidthOf(table, 2) + 2
      /\ WidthOf(table, 4) = WidthOf(table, 3) + 2
      /\ WidthOf(table, 5) = WidthOf(table, 4) + 2
      /\ WidthOf(table, 6) = WidthOf(table, 5) + 2
      /\ WidthOf(table, 7) = WidthOf(table, 6) + 2
      /\ WidthOf(table, 8) = WidthOf(table, 7) + 4
      /\ WidthOf(table, 9) = WidthOf(table, 8) + 4
      /\ WidthOf(table, 10) = WidthOf(table, 9) + 4
      /\ WidthOf(table, 11) = WidthOf(table, 10) + 2
      /\ WidthOf(table, 12) = WidthOf(table, 11) + 2
      /\ WidthOf(table, 13) = WidthOf(table, 12) + 2
      /\ WidthOf(table, 14) = WidthOf(table, 13) + 2
      /\ WidthOf(table, 15) = WidthOf(table, 14) + 2
      /\ WidthOf(table, 16) = WidthOf(table, 15) + 4
      /\ WidthOf(table, 17) = WidthOf(table, 16) + 4
  <2>1. WidthOf(table, 1) = WidthOf(table, 0) + 4
    <3>1. 1 \in 1 .. 17 /\ 1 - 1 = 0
      OBVIOUS
    <3> QED
      BY <1>6, <1>7, <3>1
  <2>2. WidthOf(table, 2) = WidthOf(table, 1) + 2
    <3>1. 2 \in 1 .. 17 /\ 2 - 1 = 1
      OBVIOUS
    <3> QED
      BY <1>6, <1>7, <3>1
  <2>3. WidthOf(table, 3) = WidthOf(table, 2) + 2
    <3>1. 3 \in 1 .. 17 /\ 3 - 1 = 2
      OBVIOUS
    <3> QED
      BY <1>6, <1>7, <3>1
  <2>4. WidthOf(table, 4) = WidthOf(table, 3) + 2
    <3>1. 4 \in 1 .. 17 /\ 4 - 1 = 3
      OBVIOUS
    <3> QED
      BY <1>6, <1>7, <3>1
  <2>5. WidthOf(table, 5) = WidthOf(table, 4) + 2
    <3>1. 5 \in 1 .. 17 /\ 5 - 1 = 4
      OBVIOUS
    <3> QED
      BY <1>6, <1>7, <3>1
  <2>6. WidthOf(table, 6) = WidthOf(table, 5) + 2
    <3>1. 6 \in 1 .. 17 /\ 6 - 1 = 5
      OBVIOUS
    <3> QED
      BY <1>6, <1>7, <3>1
  <2>7. WidthOf(table, 7) = WidthOf(table, 6) + 2
    <3>1. 7 \in 1 .. 17 /\ 7 - 1 = 6
      OBVIOUS
    <3> QED
      BY <1>6, <1>7, <3>1
  <2>8. WidthOf(table, 8) = WidthOf(table, 7) + 4
    <3>1. 8 \in 1 .. 17 /\ 8 - 1 = 7
      OBVIOUS
    <3> QED
      BY <1>6, <1>7, <3>1
  <2>9. WidthOf(table, 9) = WidthOf(table, 8) + 4
    <3>1. 9 \in 1 .. 17 /\ 9 - 1 = 8
      OBVIOUS
    <3> QED
      BY <1>6, <1>7, <3>1
  <2>10. WidthOf(table, 10) = WidthOf(table, 9) + 4
    <3>1. 10 \in 1 .. 17 /\ 10 - 1 = 9
      OBVIOUS
    <3> QED
      BY <1>6, <1>7, <3>1
  <2>11. WidthOf(table, 11) = WidthOf(table, 10) + 2
    <3>1. 11 \in 1 .. 17 /\ 11 - 1 = 10
      OBVIOUS
    <3> QED
      BY <1>6, <1>7, <3>1
  <2>12. WidthOf(table, 12) = WidthOf(table, 11) + 2
    <3>1. 12 \in 1 .. 17 /\ 12 - 1 = 11
      OBVIOUS
    <3> QED
      BY <1>6, <1>7, <3>1
  <2>13. WidthOf(table, 13) = WidthOf(table, 12) + 2
    <3>1. 13 \in 1 .. 17 /\ 13 - 1 = 12
      OBVIOUS
    <3> QED
      BY <1>6, <1>7, <3>1
  <2>14. WidthOf(table, 14) = WidthOf(table, 13) + 2
    <3>1. 14 \in 1 .. 17 /\ 14 - 1 = 13
      OBVIOUS
    <3> QED
      BY <1>6, <1>7, <3>1
  <2>15. WidthOf(table, 15) = WidthOf(table, 14) + 2
    <3>1. 15 \in 1 .. 17 /\ 15 - 1 = 14
      OBVIOUS
    <3> QED
      BY <1>6, <1>7, <3>1
  <2>16. WidthOf(table, 16) = WidthOf(table, 15) + 4
    <3>1. 16 \in 1 .. 17 /\ 16 - 1 = 15
      OBVIOUS
    <3> QED
      BY <1>6, <1>7, <3>1
  <2>17. WidthOf(table, 17) = WidthOf(table, 16) + 4
    <3>1. 17 \in 1 .. 17 /\ 17 - 1 = 16
      OBVIOUS
    <3> QED
      BY <1>6, <1>7, <3>1
  <2> QED
    BY <2>1, <2>2, <2>3, <2>4, <2>5, <2>6, <2>7, <2>8, <2>9, <2>10, <2>11, <2>12, <2>13, <2>14, <2>15, <2>16, <2>17
<1>9. /\ WidthOf(table, 3) = 8 /\ WidthOf(table, 7) = 16 /\ WidthOf(table, 8) = 20
      /\ WidthOf(table, 10) = 28 /\ WidthOf(table, 11) = 30 /\ WidthOf(table, 12) = 32
      /\ WidthOf(table, 16) = 42 /\ WidthOf(table, 17) = 46
  BY <1>7, <1>8
<1>10. IndexOf(table, "flags") = 4 /\ "flags" \in FieldsOf(table)
  <2>1. 4 \in DOMAIN table /\ table[4][1] = "flags"
    BY <1>1, <1>5
  <2>2. \A j \in DOMAIN table : table[j][1] = "flags" => j = 4
    BY <1>1, <1>4, <1>5
  <2> QED
    BY <2>1, <2>2, PlaceOf
<1>11. IndexOf(table, "crc") = 8 /\ "crc" \in FieldsOf(table)
  <2>1. 8 \in DOMAIN table /\ table[8][1] = "crc"
    BY <1>1, <1>5
  <2>2. \A j \in DOMAIN table : table[j][1] = "crc" => j = 8
    BY <1>1, <1>4, <1>5
  <2> QED
    BY <2>1, <2>2, PlaceOf
<1>12. IndexOf(table, "csize") = 9 /\ "csize" \in FieldsOf(table)
  <2>1. 9 \in DOMAIN table /\ table[9][1] = "csize"
    BY <1>1, <1>5
  <2>2. \A j \in DOMAIN table : table[j][1] = "csize" => j = 9
    BY <1>1, <1>4, <1>5
  <2> QED
    BY <2>1, <2>2, PlaceOf
<1>13. IndexOf(table, "name") = 11 /\ "name" \in FieldsOf(table)
  <2>1. 11 \in DOMAIN table /\ table[11][1] = "name"
    BY <1>1, <1>5
  <2>2. \A j \in DOMAIN table : table[j][1] = "name" => j = 11
    BY <1>1, <1>4, <1>5
  <2> QED
    BY <2>1, <2>2, PlaceOf
<1>14. IndexOf(table, "extra") = 12 /\ "extra" \in FieldsOf(table)
  <2>1. 12 \in DOMAIN table /\ table[12][1] = "extra"
    BY <1>1, <1>5
  <2>2. \A j \in DOMAIN table : table[j][1] = "extra" => j = 12
    BY <1>1, <1>4, <1>5
  <2> QED
    BY <2>1, <2>2, PlaceOf
<1>15. IndexOf(table, "comment") = 13 /\ "comment" \in FieldsOf(table)
  <2>1. 13 \in DOMAIN table /\ table[13][1] = "comment"
    BY <1>1, <1>5
  <2>2. \A j \in DOMAIN table : table[j][1] = "comment" => j = 13
    BY <1>1, <1>4, <1>5
  <2> QED
    BY <2>1, <2>2, PlaceOf
<1>16. IndexOf(table, "offset") = 17 /\ "offset" \in FieldsOf(table)
  <2>1. 17 \in DOMAIN table /\ table[17][1] = "offset"
    BY <1>1, <1>5
  <2>2. \A j \in DOMAIN table : table[j][1] = "offset" => j = 17
    BY <1>1, <1>4, <1>5
  <2> QED
    BY <2>1, <2>2, PlaceOf
<1> QED
  BY <1>3, <1>6, <1>9, <1>10, <1>11, <1>12, <1>13, <1>14, <1>15, <1>16

\* Where the fields of the EOCD record lie that are read by the tables.
LEMMA EocdFields ==
  /\ Start.eocd.count = 10 /\ Start.eocd.cdoffset = 16 /\ Width.eocd.count = 2
  /\ Width.eocd.cdoffset = 4 /\ Size.eocd = 22
  /\ Start.eocd.sig = 0 /\ Width.eocd.sig = 4
  /\ Start.eocd.comment = 20 /\ Width.eocd.comment = 2
<1> DEFINE table == Format.eocd
<1>1. Len(table) = 8 /\ DOMAIN table = 1 .. 8
  BY DEF Format
<1>2. /\ table[1] = <<"sig", 4>> /\ table[2] = <<"disk", 2>> /\ table[3] = <<"cddisk", 2>>
      /\ table[4] = <<"here", 2>> /\ table[5] = <<"count", 2>> /\ table[6] = <<"cdsize", 4>>
      /\ table[7] = <<"cdoffset", 4>> /\ table[8] = <<"comment", 2>>
  BY DEF Format
<1>3. /\ "eocd" \in DOMAIN Format
      /\ Size.eocd = WidthOf(table, 8)
      /\ \A f \in FieldsOf(table) :
           /\ Start.eocd[f] = WidthOf(table, IndexOf(table, f) - 1)
           /\ Width.eocd[f] = table[IndexOf(table, f)][2]
  <2>1. "eocd" \in DOMAIN Format
    BY DEF Format
  <2>2. Format["eocd"] = table
    OBVIOUS
  <2> HIDE DEF table
  <2> QED
    BY <1>1, <2>1, <2>2 DEF Start, Width, Size
<1> HIDE DEF table
<1>4. \A k \in 1 .. 8 : k \in {1, 2, 3, 4, 5, 6, 7, 8}
  OBVIOUS
<1>5. /\ table[1][1] = "sig" /\ table[2][1] = "disk" /\ table[3][1] = "cddisk"
      /\ table[4][1] = "here" /\ table[5][1] = "count" /\ table[6][1] = "cdsize"
      /\ table[7][1] = "cdoffset" /\ table[8][1] = "comment"
  BY <1>2
<1>6. /\ table[1][2] = 4 /\ table[2][2] = 2 /\ table[3][2] = 2 /\ table[4][2] = 2
      /\ table[5][2] = 2 /\ table[6][2] = 4 /\ table[7][2] = 4 /\ table[8][2] = 2
  BY <1>2
<1>7. /\ WidthOf(table, 0) = 0
      /\ \A k \in 1 .. 8 : WidthOf(table, k) = WidthOf(table, k - 1) + table[k][2]
  <2>1. IsTable(table)
    BY <1>1, <1>4, <1>6 DEF IsTable
  <2> QED
    BY <1>1, <2>1, WidthSum
<1>8. /\ WidthOf(table, 1) = WidthOf(table, 0) + 4
      /\ WidthOf(table, 2) = WidthOf(table, 1) + 2
      /\ WidthOf(table, 3) = WidthOf(table, 2) + 2
      /\ WidthOf(table, 4) = WidthOf(table, 3) + 2
      /\ WidthOf(table, 5) = WidthOf(table, 4) + 2
      /\ WidthOf(table, 6) = WidthOf(table, 5) + 4
      /\ WidthOf(table, 7) = WidthOf(table, 6) + 4
      /\ WidthOf(table, 8) = WidthOf(table, 7) + 2
  <2>1. WidthOf(table, 1) = WidthOf(table, 0) + 4
    <3>1. 1 \in 1 .. 8 /\ 1 - 1 = 0
      OBVIOUS
    <3> QED
      BY <1>6, <1>7, <3>1
  <2>2. WidthOf(table, 2) = WidthOf(table, 1) + 2
    <3>1. 2 \in 1 .. 8 /\ 2 - 1 = 1
      OBVIOUS
    <3> QED
      BY <1>6, <1>7, <3>1
  <2>3. WidthOf(table, 3) = WidthOf(table, 2) + 2
    <3>1. 3 \in 1 .. 8 /\ 3 - 1 = 2
      OBVIOUS
    <3> QED
      BY <1>6, <1>7, <3>1
  <2>4. WidthOf(table, 4) = WidthOf(table, 3) + 2
    <3>1. 4 \in 1 .. 8 /\ 4 - 1 = 3
      OBVIOUS
    <3> QED
      BY <1>6, <1>7, <3>1
  <2>5. WidthOf(table, 5) = WidthOf(table, 4) + 2
    <3>1. 5 \in 1 .. 8 /\ 5 - 1 = 4
      OBVIOUS
    <3> QED
      BY <1>6, <1>7, <3>1
  <2>6. WidthOf(table, 6) = WidthOf(table, 5) + 4
    <3>1. 6 \in 1 .. 8 /\ 6 - 1 = 5
      OBVIOUS
    <3> QED
      BY <1>6, <1>7, <3>1
  <2>7. WidthOf(table, 7) = WidthOf(table, 6) + 4
    <3>1. 7 \in 1 .. 8 /\ 7 - 1 = 6
      OBVIOUS
    <3> QED
      BY <1>6, <1>7, <3>1
  <2>8. WidthOf(table, 8) = WidthOf(table, 7) + 2
    <3>1. 8 \in 1 .. 8 /\ 8 - 1 = 7
      OBVIOUS
    <3> QED
      BY <1>6, <1>7, <3>1
  <2> QED
    BY <2>1, <2>2, <2>3, <2>4, <2>5, <2>6, <2>7, <2>8
<1>9. /\ WidthOf(table, 4) = 10 /\ WidthOf(table, 6) = 16 /\ WidthOf(table, 7) = 20
      /\ WidthOf(table, 8) = 22
  BY <1>7, <1>8
<1>10. IndexOf(table, "count") = 5 /\ "count" \in FieldsOf(table)
  <2>1. 5 \in DOMAIN table /\ table[5][1] = "count"
    BY <1>1, <1>5
  <2>2. \A j \in DOMAIN table : table[j][1] = "count" => j = 5
    BY <1>1, <1>4, <1>5
  <2> QED
    BY <2>1, <2>2, PlaceOf
<1>11. IndexOf(table, "cdoffset") = 7 /\ "cdoffset" \in FieldsOf(table)
  <2>1. 7 \in DOMAIN table /\ table[7][1] = "cdoffset"
    BY <1>1, <1>5
  <2>2. \A j \in DOMAIN table : table[j][1] = "cdoffset" => j = 7
    BY <1>1, <1>4, <1>5
  <2> QED
    BY <2>1, <2>2, PlaceOf
<1>12. IndexOf(table, "sig") = 1 /\ "sig" \in FieldsOf(table)
  <2>1. 1 \in DOMAIN table /\ table[1][1] = "sig"
    BY <1>1, <1>5
  <2>2. \A j \in DOMAIN table : table[j][1] = "sig" => j = 1
    BY <1>1, <1>4, <1>5
  <2> QED
    BY <2>1, <2>2, PlaceOf
<1>13. IndexOf(table, "comment") = 8 /\ "comment" \in FieldsOf(table)
  <2>1. 8 \in DOMAIN table /\ table[8][1] = "comment"
    BY <1>1, <1>5
  <2>2. \A j \in DOMAIN table : table[j][1] = "comment" => j = 8
    BY <1>1, <1>4, <1>5
  <2> QED
    BY <2>1, <2>2, PlaceOf
<1>14. Start.eocd.sig = 0 /\ Width.eocd.sig = 4
  BY <1>3, <1>6, <1>7, <1>12
<1>15. Start.eocd.comment = 20 /\ Width.eocd.comment = 2
  BY <1>3, <1>6, <1>9, <1>13
<1> QED
  BY <1>3, <1>6, <1>9, <1>10, <1>11, <1>14, <1>15

-----------------------------------------------------------------------------
(* What a layout is                                                        *)

CountOf(b) == ReadU16(b, Max(EocdOffsets(b)) + 10)

\* l is a layout of b: the directory starts and ends where the last EOCD record
\* says, has the headers hs, and lists them by offset.
Laid(b, l, hs) ==
  /\ EocdOffsets(b) # {} /\ l.eocd = Max(EocdOffsets(b))
  /\ l.cdStart = ReadU32(b, l.eocd + 16)
  /\ EndsAt(b, l.cdStart, l.eocd)
  /\ CountOf(b) \in Nat
  /\ Chain(b, l.cdStart, l.eocd, hs, CountOf(b))
  /\ l.entries = ByOffset(b, hs) /\ Lists(b, hs, l.entries)

\* The EOCD record lies within the archive.
LEMMA EocdInside ==
  ASSUME NEW b \in Seq(Octet), EocdOffsets(b) # {}
  PROVE  /\ Max(EocdOffsets(b)) \in Nat
         /\ Max(EocdOffsets(b)) + 22 <= Len(b)
<1>1. Len(b) \in Nat
  OBVIOUS
<1>2. EocdOffsets(b) \subseteq 0 .. Len(b) - 22
  BY DEF EocdOffsets, EOCD_MIN_LEN
<1>3. EocdOffsets(b) \subseteq 0 .. Len(b)
  BY <1>1, <1>2
<1>4. Max(EocdOffsets(b)) \in EocdOffsets(b)
  BY <1>1, <1>3, MaxIsGreatest
<1> QED
  BY <1>1, <1>2, <1>4

\* What parse_layout returns is a layout, or one of its five errors.
LEMMA LayoutFacts ==
  ASSUME NEW b \in Seq(Octet)
  PROVE  /\ Layout(b).verdict \in Verdicts \cup {"NoEocd"}
         /\ Layout(b).verdict = "ok" => \E hs : Laid(b, Layout(b).value, hs)
<1>1. CASE EocdOffsets(b) = {}
  BY <1>1 DEF Layout, Err
<1>2. CASE EocdOffsets(b) # {}
  <2> DEFINE eocd  == Max(EocdOffsets(b))
             count == ReadU16(b, eocd + 10)
             cd    == ReadU32(b, eocd + 16)
             walk  == Walk(b, cd, eocd, count)
  <2>1. eocd \in Nat /\ eocd + 22 <= Len(b) /\ Len(b) \in Nat
    BY <1>2, EocdInside
  <2>2. count \in Nat /\ cd \in Nat
    <3>1. /\ eocd + 10 \in Nat /\ (eocd + 10) + 2 <= Len(b)
          /\ eocd + 16 \in Nat /\ (eocd + 16) + 4 <= Len(b)
      BY <2>1
    <3> HIDE DEF eocd
    <3> QED
      BY <3>1, ReadType
  <2>3. Layout(b) = LayoutAt(b, eocd, count, cd)
    BY <1>2 DEF Layout
  <2>4. CASE \/ count = U16Max \/ U32Max \in {ReadU32(b, eocd + 12), cd}
             \/ cd > eocd
    <3>1. Layout(b).verdict \in {"Zip64Unsupported", "BadOffset"}
      BY <2>3, <2>4 DEF LayoutAt, Err
    <3> QED
      BY <3>1 DEF Verdicts
  <2>5. CASE ~(\/ count = U16Max \/ U32Max \in {ReadU32(b, eocd + 12), cd}
               \/ cd > eocd)
    <3>1. EndsAt(b, cd, eocd)
      BY <2>1, <2>2, <2>5 DEF EndsAt
    <3>2. Layout(b) =
            IF walk.verdict = "ok"
            THEN Ok([entries |-> ByOffset(b, walk.value), cdStart |-> cd, eocd |-> eocd])
            ELSE walk
      BY <2>3, <2>5 DEF LayoutAt, Try
    <3> HIDE DEF walk
    <3>3. WalkInv(b, cd, eocd, walk, count)
      BY <2>2, <3>1, Walked DEF walk
    <3>4. walk.verdict \in Verdicts
      BY <3>3 DEF WalkInv, WalkState
    <3>5. Layout(b).verdict = walk.verdict
      BY <3>2 DEF Ok
    <3>6. ASSUME walk.verdict = "ok"
          PROVE  Laid(b, Layout(b).value, walk.value)
      <4> DEFINE l == Layout(b).value
                 hs == walk.value
      <4>1. l.entries = ByOffset(b, hs) /\ l.cdStart = cd /\ l.eocd = eocd
        BY <3>2, <3>6 DEF Ok
      <4>2. Chain(b, cd, eocd, hs, count)
        BY <3>3, <3>6 DEF WalkInv
      <4>3. hs \in Seq(Nat) /\ \A i \in 1 .. Len(hs) : LocalOffset(b, hs[i]) \in Nat
        BY <4>2 DEF Chain, GoodHeader
      <4> HIDE DEF hs
      <4>4. Lists(b, hs, ByOffset(b, hs))
        BY <4>3, Sorted
      <4> HIDE DEF l
      <4>5. CountOf(b) = count
        BY DEF CountOf
      <4> HIDE DEF count
      <4> QED
        BY <1>2, <2>2, <3>1, <4>1, <4>2, <4>4, <4>5 DEF Laid, hs, l
    <3> QED
      BY <3>4, <3>5, <3>6
  <2> QED
    BY <2>4, <2>5
<1> QED
  BY <1>1, <1>2

\* The entries of a layout are good headers, in the order of their offsets.
LEMMA EntryFacts ==
  ASSUME NEW b, NEW l, NEW hs, Laid(b, l, hs)
  PROVE  /\ l.entries \in Seq(Nat) /\ Len(l.entries) = Len(hs)
         /\ DOMAIN l.entries = 1 .. Len(l.entries)
         /\ \A i \in 1 .. Len(l.entries) : GoodHeader(b, l.cdStart, l.eocd, l.entries[i])
         /\ \A i, j \in 1 .. Len(l.entries) :
              i < j => LocalOffset(b, l.entries[i]) <= LocalOffset(b, l.entries[j])
         /\ ToSet(l.entries) = ToSet(hs)
<1> DEFINE n == Len(hs)
<1>1. /\ hs \in Seq(Nat)
      /\ \A i \in 1 .. n : GoodHeader(b, l.cdStart, l.eocd, hs[i])
  BY DEF Laid, Chain
<1>2. n \in Nat /\ DOMAIN hs = 1 .. n /\ \A i \in 1 .. n : hs[i] \in Nat
  BY <1>1
<1>3. PICK at \in [1 .. n -> 1 .. n] :
        /\ l.entries = [k \in 1 .. n |-> hs[at[k]]]
        /\ \A i \in 1 .. n : \E k \in 1 .. n : at[k] = i
        /\ \A j, k \in 1 .. n : j < k =>
             LocalOffset(b, l.entries[j]) <= LocalOffset(b, l.entries[k])
  BY DEF Laid, Lists
<1> HIDE DEF n
<1>4. l.entries \in [1 .. n -> Nat] /\ \A k \in 1 .. n : l.entries[k] = hs[at[k]]
  BY <1>2, <1>3
<1>5. l.entries \in Seq(Nat) /\ Len(l.entries) = n /\ DOMAIN l.entries = 1 .. n
  BY <1>2, <1>4
<1>6. \A k \in 1 .. n : GoodHeader(b, l.cdStart, l.eocd, l.entries[k])
  BY <1>1, <1>3, <1>4 DEF n
<1>7. ToSet(l.entries) = ToSet(hs)
  <2>1. ASSUME NEW i \in 1 .. n
        PROVE  \E k \in 1 .. n : l.entries[k] = hs[i]
    <3>1. PICK k \in 1 .. n : at[k] = i
      BY <1>3
    <3> QED
      BY <1>4, <3>1
  <2>2. ASSUME NEW k \in 1 .. n
        PROVE  \E i \in 1 .. n : l.entries[k] = hs[i]
    BY <1>3, <1>4
  <2>3. ASSUME NEW x
        PROVE  x \in ToSet(l.entries) <=> x \in ToSet(hs)
    <3>1. x \in ToSet(l.entries) <=> \E k \in 1 .. n : x = l.entries[k]
      BY <1>5 DEF ToSet
    <3>2. x \in ToSet(hs) <=> \E i \in 1 .. n : x = hs[i]
      BY <1>2 DEF ToSet
    <3> QED
      BY <2>1, <2>2, <3>1, <3>2
  <2> QED
    BY <2>3
<1> QED
  BY <1>3, <1>5, <1>6, <1>7 DEF n

-----------------------------------------------------------------------------
(* The code and the tables read the same                                   *)

\* The code reads the fields where the tables of the format have them.
LEMMA TableReads ==
  ASSUME NEW b, NEW p
  PROVE  /\ Get(b, p, "eocd", "count") = ReadU16(b, p + 10)
         /\ Get(b, p, "eocd", "cdoffset") = ReadU32(b, p + 16)
         /\ Get(b, p, "eocd", "sig") = ReadU32(b, p + 0)
         /\ Get(b, p, "eocd", "comment") = ReadU16(b, p + 20)
         /\ Get(b, p, "central", "flags") = ReadU16(b, p + 8)
         /\ Get(b, p, "central", "csize") = ReadU32(b, p + 20)
         /\ Get(b, p, "central", "name") = NameLen(b, p)
         /\ Get(b, p, "central", "extra") = ReadU16(b, p + 30)
         /\ Get(b, p, "central", "comment") = ReadU16(b, p + 32)
         /\ Get(b, p, "central", "offset") = LocalOffset(b, p)
         /\ Get(b, p, "local", "name") = ReadU16(b, p + 26)
         /\ Get(b, p, "local", "extra") = ReadU16(b, p + 28)
<1>1. /\ Get(b, p, "eocd", "count") = ReadU16(b, p + 10)
      /\ Get(b, p, "eocd", "cdoffset") = ReadU32(b, p + 16)
      /\ Get(b, p, "eocd", "sig") = ReadU32(b, p + 0)
      /\ Get(b, p, "eocd", "comment") = ReadU16(b, p + 20)
  BY EocdFields DEF Get
<1>2. /\ Get(b, p, "central", "flags") = ReadU16(b, p + 8)
      /\ Get(b, p, "central", "csize") = ReadU32(b, p + 20)
      /\ Get(b, p, "central", "name") = NameLen(b, p)
      /\ Get(b, p, "central", "extra") = ReadU16(b, p + 30)
      /\ Get(b, p, "central", "comment") = ReadU16(b, p + 32)
      /\ Get(b, p, "central", "offset") = LocalOffset(b, p)
  BY CentralFields DEF Get, NameLen, LocalOffset
<1>3. /\ Get(b, p, "local", "name") = ReadU16(b, p + 26)
      /\ Get(b, p, "local", "extra") = ReadU16(b, p + 28)
  BY LocalFields DEF Get
<1> QED
  BY <1>1, <1>2, <1>3

\* The code looks for the record at the end where the tables have it.
LEMMA RecordsAre ==
  ASSUME NEW b \in Seq(Octet)
  PROVE  RecordsOf(b) = EocdOffsets(b)
<1>1. ASSUME NEW p \in 0 .. Len(b) - 22
      PROVE  /\ Get(b, p, "eocd", "sig") = ReadU32(b, p)
             /\ Get(b, p, "eocd", "comment") = ReadU16(b, p + 20)
  <2>1. p + 0 = p
    OBVIOUS
  <2> QED
    BY <2>1, TableReads
<1>2. Size.eocd = 22 /\ EOCD_MIN_LEN = 22
  BY EocdFields DEF EOCD_MIN_LEN
<1> QED
  BY <1>1, <1>2 DEF RecordsOf, EocdOffsets

\* So do the name and the size of a header that parse_layout accepts.
LEMMA HeaderReads ==
  ASSUME NEW b, NEW cd, NEW eocd, NEW h, GoodHeader(b, cd, eocd, h)
  PROVE  /\ NameIn(b, h) = NameOf(b, h)
         /\ LocalOf(b, h) = LocalOffset(b, h)
         /\ h + HeaderSize(b, h) = NextHeader(b, h)
<1>1. NameIn(b, h) = NameOf(b, h) /\ LocalOf(b, h) = LocalOffset(b, h)
  BY TableReads, CentralFields DEF NameIn, NameOf, LocalOf, CD_HEADER_FIXED_LEN
<1>2. HeaderSize(b, h) = 46 + NameLen(b, h) + ReadU16(b, h + 30) + ReadU16(b, h + 32)
  BY TableReads, CentralFields DEF HeaderSize
<1>3. \A x, y, z \in Nat : h + (46 + x + y + z) = h + 46 + x + y + z
  BY DEF GoodHeader
<1> QED
  BY <1>1, <1>2, <1>3 DEF GoodHeader, NextHeader, CD_HEADER_FIXED_LEN

\* The headers the tables lead to are those of the layout.
LEMMA HeadersAre ==
  ASSUME NEW b, NEW l, NEW hs, Laid(b, l, hs)
  PROVE  HeadersOf(b) = hs /\ CdStartOf(b) = l.cdStart
<1> DEFINE n == CountOf(b)
           After(s) == Append(s, IF s = <<>> THEN CdStartOf(b)
                                 ELSE Last(s) + HeaderSize(b, Last(s)))
           Step(f) == [k \in 0 .. n |-> IF k = 0 THEN <<>> ELSE After(f[k - 1])]
           first == [k \in 0 .. n |-> SubSeq(hs, 1, k)]
           headers == CHOOSE f : f = Step(f)
<1>1. n \in Nat /\ hs \in Seq(Nat) /\ Len(hs) = n
  BY DEF Laid, Chain
<1>2. CdStartOf(b) = l.cdStart /\ Get(b, EocdOf(b), "eocd", "count") = n
  <2>1. EocdOf(b) = Max(EocdOffsets(b))
    BY RecordsAre DEF EocdOf, Laid, EndsAt
  <2> QED
    BY <2>1, TableReads DEF CdStartOf, Laid, CountOf
<1>3. HeadersOf(b) = headers[n]
  BY <1>2 DEF HeadersOf
<1>4. ASSUME NEW k \in 1 .. n
      PROVE  After(SubSeq(hs, 1, k - 1)) = SubSeq(hs, 1, k)
  <2> DEFINE s == SubSeq(hs, 1, k - 1)
  <2>1. /\ s \in Seq(Nat) /\ Len(s) = k - 1
        /\ \A i \in 1 .. k - 1 : s[i] = hs[i]
    <3>1. \A i \in 1 .. k - 1 : hs[i] \in Nat
      BY <1>1
    <3> QED
      BY <1>1, <3>1, SubSeqProperties
  <2>2. SubSeq(hs, 1, k) = s \o <<hs[k]>>
    <3>1. 1 \in 1 .. Len(hs) /\ k \in 1 .. Len(hs)
      BY <1>1
    <3> QED
      BY <1>1, <3>1, SubSeqRecursiveSecond
  <2> HIDE DEF s
  <2>3. hs[k] \in Nat /\ s \o <<hs[k]>> = Append(s, hs[k])
    BY <1>1, <2>1
  <2>4. hs[k] = IF s = <<>> THEN CdStartOf(b) ELSE Last(s) + HeaderSize(b, Last(s))
    <3>1. CASE k = 1
      <4>1. s = <<>>
        BY <2>1, <3>1
      <4>2. hs[1] = l.cdStart
        BY <3>1, <1>1 DEF Laid, Chain
      <4> QED
        BY <1>2, <3>1, <4>1, <4>2
    <3>2. CASE k # 1
      <4>1. k - 1 \in 1 .. k - 1 /\ k - 1 \in 1 .. n
        BY <1>1, <3>2
      <4>2. s # <<>> /\ Last(s) = hs[k - 1]
        <5>1. s[k - 1] = hs[k - 1] /\ Len(s) = k - 1
          BY <2>1, <4>1
        <5>2. Len(s) # 0
          BY <3>2, <5>1
        <5> QED
          BY <5>1, <5>2 DEF Last
      <4>3. GoodHeader(b, l.cdStart, l.eocd, hs[k - 1]) /\ hs[k] = NextHeader(b, hs[k - 1])
        BY <3>2, <4>1 DEF Laid, Chain
      <4>4. hs[k - 1] + HeaderSize(b, hs[k - 1]) = NextHeader(b, hs[k - 1])
        BY <4>3, HeaderReads
      <4> QED
        BY <4>2, <4>3, <4>4
    <3> QED
      BY <3>1, <3>2
  <2> QED
    BY <2>2, <2>3, <2>4 DEF s
<1>5. SubSeq(hs, 1, 0) = <<>>
  BY SubSeqEmpty
<1> HIDE DEF After, n
<1>6. \E f : f = Step(f)
  <2>1. ASSUME NEW k \in 0 .. n
        PROVE  first[k] = IF k = 0 THEN <<>> ELSE After(first[k - 1])
    <3>1. k # 0 => k \in 1 .. n /\ k - 1 \in 0 .. n
      BY <1>1
    <3> QED
      BY <1>4, <1>5, <3>1
  <2>2. first = Step(first)
    BY <2>1
  <2> QED
    BY <2>2
<1>7. headers = Step(headers)
  BY <1>6
<1> HIDE DEF headers
<1>8. \A k \in 0 .. n : headers[k] = IF k = 0 THEN <<>> ELSE After(headers[k - 1])
  BY <1>7
<1> DEFINE S == {k \in 0 .. n : headers[k] = SubSeq(hs, 1, k)}
<1>9. 0 \in S
  <2>1. \A k \in 0 .. n : k = 0 => headers[k] = <<>>
    BY <1>8
  <2>2. 0 \in 0 .. n
    BY <1>1
  <2>3. headers[0] = <<>>
    BY <2>1, <2>2
  <2> QED
    BY <1>5, <2>2, <2>3
<1>10. ASSUME NEW k \in 1 .. n, k - 1 \in S
       PROVE  k \in S
  <2>1. k \in 0 .. n /\ k # 0
    BY <1>1
  <2>2. headers[k] = After(SubSeq(hs, 1, k - 1))
    BY <1>8, <1>10, <2>1
  <2> QED
    BY <1>4, <2>1, <2>2
<1> HIDE DEF S
<1>11. n \in S
  <2>1. \A k \in 0 .. n : k \in S
    BY <1>1, <1>9, <1>10, AllUpTo
  <2> QED
    BY <1>1, <2>1
<1>12. SubSeq(hs, 1, n) = hs
  BY <1>1, SubSeqFull
<1> QED
  BY <1>2, <1>3, <1>11, <1>12 DEF S

-----------------------------------------------------------------------------
(* Reading a manifest, and its absence                                     *)

\* Position is that of the first entry with the name, or 0.
LEMMA PositionFacts ==
  ASSUME NEW b, NEW l, NEW name, l.entries \in Seq(Nat)
  PROVE  /\ Position(b, l, name) \in 0 .. Len(l.entries)
         /\ Position(b, l, name) = 0 =>
              \A i \in 1 .. Len(l.entries) : NameOf(b, l.entries[i]) # name
         /\ Position(b, l, name) # 0 =>
              /\ NameOf(b, l.entries[Position(b, l, name)]) = name
              /\ \A i \in 1 .. Len(l.entries) :
                   NameOf(b, l.entries[i]) = name => Position(b, l, name) <= i
<1> DEFINE n == Len(l.entries)
           found == {i \in 1 .. n : NameOf(b, l.entries[i]) = name}
<1>1. n \in Nat /\ DOMAIN l.entries = 1 .. n
  OBVIOUS
<1>2. Position(b, l, name) = IF found = {} THEN 0 ELSE Min(found)
  BY <1>1 DEF Position
<1>3. CASE found = {}
  BY <1>1, <1>2, <1>3
<1>4. CASE found # {}
  <2>1. found \subseteq Nat /\ \A i \in found : i \in 1 .. n /\ NameOf(b, l.entries[i]) = name
    OBVIOUS
  <2>2. \A i \in 1 .. n : NameOf(b, l.entries[i]) = name => i \in found
    OBVIOUS
  <2> HIDE DEF found
  <2>3. Min(found) \in found /\ \A i \in found : Min(found) <= i
    BY <1>4, <2>1, MinIsLeast
  <2> DEFINE p == Min(found)
  <2>4. /\ Position(b, l, name) = p /\ p \in 1 .. n /\ NameOf(b, l.entries[p]) = name
        /\ \A i \in 1 .. n : NameOf(b, l.entries[i]) = name => p <= i
    BY <1>2, <1>4, <2>1, <2>2, <2>3
  <2> HIDE DEF p
  <2>5. p \in 0 .. n /\ p # 0
    BY <1>1, <2>4
  <2> QED
    BY <2>4, <2>5
<1> QED
  BY <1>3, <1>4

\* The names in an archive, as the tables and as the code read them.
NamesIn(b) == {NameIn(b, h) : h \in ToSet(HeadersOf(b))}
NamesOf(b, l) == {NameOf(b, l.entries[i]) : i \in 1 .. Len(l.entries)}

\* The names the tables lead to are those of the entries.
LEMMA NamesAre ==
  ASSUME NEW b, NEW l, NEW hs, Laid(b, l, hs)
  PROVE  NamesIn(b) = NamesOf(b, l)
<1>1. /\ DOMAIN l.entries = 1 .. Len(l.entries)
      /\ \A i \in 1 .. Len(l.entries) : GoodHeader(b, l.cdStart, l.eocd, l.entries[i])
      /\ ToSet(HeadersOf(b)) = ToSet(l.entries)
  BY EntryFacts, HeadersAre
<1>2. ToSet(l.entries) = {l.entries[i] : i \in 1 .. Len(l.entries)}
  BY <1>1 DEF ToSet
<1>3. \A i \in 1 .. Len(l.entries) : NameIn(b, l.entries[i]) = NameOf(b, l.entries[i])
  BY <1>1, HeaderReads
<1> QED
  BY <1>1, <1>2, <1>3 DEF NamesIn, NamesOf

\* Whether an archive has no manifest, as the tables tell it.
Absent(b) ==
  /\ Layout(b).verdict = "ok"
  /\ ZIP_MANIFEST_PATH \notin NamesIn(b)

\* An archive that can be read and has no header of a manifest is one whose
\* layout has no position for it.
LEMMA AbsentFacts ==
  ASSUME NEW b \in Seq(Octet), Layout(b).verdict = "ok"
  PROVE  Absent(b) <=> Position(b, Layout(b).value, ZIP_MANIFEST_PATH) = 0
<1> DEFINE l == Layout(b).value
<1>1. PICK hs : Laid(b, l, hs)
  BY LayoutFacts
<1> HIDE DEF l
<1>2. l.entries \in Seq(Nat)
  BY <1>1, EntryFacts
<1>3. Absent(b) <=> \A i \in 1 .. Len(l.entries) : NameOf(b, l.entries[i]) # ZIP_MANIFEST_PATH
  <2>1. NamesIn(b) = NamesOf(b, l)
    BY <1>1, NamesAre
  <2> QED
    BY <2>1 DEF Absent, NamesOf
<1>4. /\ Position(b, l, ZIP_MANIFEST_PATH) \in 0 .. Len(l.entries)
      /\ Position(b, l, ZIP_MANIFEST_PATH) = 0 =>
           \A i \in 1 .. Len(l.entries) : NameOf(b, l.entries[i]) # ZIP_MANIFEST_PATH
      /\ Position(b, l, ZIP_MANIFEST_PATH) # 0 =>
           NameOf(b, l.entries[Position(b, l, ZIP_MANIFEST_PATH)]) = ZIP_MANIFEST_PATH
  BY <1>2, PositionFacts
<1>5. Position(b, l, ZIP_MANIFEST_PATH) # 0 =>
        Position(b, l, ZIP_MANIFEST_PATH) \in 1 .. Len(l.entries)
  BY <1>2, <1>4
<1> QED
  BY <1>3, <1>4, <1>5 DEF l

\* A manifest is absent, read, or not to be read for another reason.
LEMMA ReadFacts ==
  ASSUME NEW b \in Seq(Octet)
  PROVE  ReadManifestEntry(b, ZIP_MANIFEST_PATH).verdict = "none" <=> Absent(b)
<1> DEFINE read == ReadManifestEntry(b, ZIP_MANIFEST_PATH)
           l == Layout(b).value
           i == Position(b, l, ZIP_MANIFEST_PATH)
           range == ManifestRange(b, l, i)
<1>1. CASE Layout(b).verdict # "ok"
  <2>1. read = Layout(b)
    BY <1>1 DEF ReadManifestEntry, Try
  <2>2. Layout(b).verdict # "none"
    BY LayoutFacts DEF Verdicts
  <2> QED
    BY <1>1, <2>1, <2>2 DEF Absent
<1>2. CASE Layout(b).verdict = "ok"
  <2>1. read = IF i = 0 THEN Err("none")
               ELSE IF range.verdict = "ok" THEN Ok(Bytes(b, range.value.start, range.value.end))
               ELSE range
    BY <1>2 DEF ReadManifestEntry, Try
  <2>2. range.verdict # "none"
    BY DEF ManifestRange, ContentRange, Err, Ok
  <2> HIDE DEF read, range, i, l
  <2>3. read.verdict = "none" <=> i = 0
    BY <2>1, <2>2 DEF Err, Ok
  <2>4. Absent(b) <=> i = 0
    BY <1>2, AbsentFacts DEF i, l
  <2> QED
    BY <2>3, <2>4 DEF read
<1> QED
  BY <1>1, <1>2

\* The directory is one range of exactly the archives that have no manifest.
LEMMA RangeFacts ==
  ASSUME NEW b \in Seq(Octet)
  PROVE  CentralDirectoryRange(b).verdict = "ok" <=> Absent(b)
<1> DEFINE l == Layout(b).value
           i == Position(b, l, ZIP_MANIFEST_PATH)
           spans == CentralDirectoryRanges(b)
<1>1. CASE Layout(b).verdict # "ok"
  <2>1. spans = Layout(b)
    BY <1>1 DEF CentralDirectoryRanges, Try
  <2>2. CentralDirectoryRange(b) = spans
    BY <1>1, <2>1 DEF CentralDirectoryRange, Try
  <2> QED
    BY <1>1, <2>1, <2>2 DEF Absent
<1>2. CASE Layout(b).verdict = "ok"
  <2>1. spans = Ok(IF i = 0 THEN <<Span(l.cdStart, Len(b))>>
                   ELSE DirectorySpans(b, l, CrcInDirectory(l.entries[i])))
    BY <1>2 DEF CentralDirectoryRanges, Try
  <2>2. spans.verdict = "ok" /\ (Len(spans.value) = 1 <=> i = 0)
    BY <2>1 DEF Ok, DirectorySpans
  <2>3. CentralDirectoryRange(b) =
          IF Len(spans.value) # 1 THEN Err("NonContiguousCentralDirectoryHash")
          ELSE Ok(spans.value[1])
    BY <2>2 DEF CentralDirectoryRange, Try
  <2> HIDE DEF spans, i, l
  <2>4. CentralDirectoryRange(b).verdict = "ok" <=> i = 0
    BY <2>2, <2>3 DEF Err, Ok
  <2> QED
    BY <1>2, <2>4, AbsentFacts DEF i, l
<1> QED
  BY <1>1, <1>2

\* Of every sequence of bytes a host is told the absence of a manifest, and
\* nothing else, as None; and what it is told elsewhere agrees
\* (read_manifest, verify, central_directory_range).
LEMMA AbsenceOfBytes ==
  ASSUME doc \in Seq(Octet)
  PROVE  AbsenceIsNoError
<1> DEFINE names == NamesIn(doc)
           read == ReadManifestEntry(doc, ZIP_MANIFEST_PATH)
<1>1. Layout(doc).verdict = "ok" => names \cap NonUtf8Names = {}
  <2>1. SUFFICES ASSUME Layout(doc).verdict = "ok"
                 PROVE  names \cap NonUtf8Names = {}
    OBVIOUS
  <2> DEFINE l == Layout(doc).value
  <2>2. PICK hs : Laid(doc, l, hs)
    BY <2>1, LayoutFacts
  <2> HIDE DEF l
  <2>3. names = NamesOf(doc, l)
    BY <2>2, NamesAre
  <2>4. \A i \in 1 .. Len(l.entries) : NameOf(doc, l.entries[i]) \notin NonUtf8Names
    BY <2>2, EntryFacts DEF GoodHeader
  <2> QED
    BY <2>3, <2>4 DEF NamesOf
<1>2. read.verdict = "none" <=> Absent(doc)
  BY ReadFacts
<1>3. HostRead(doc) = IF read.verdict = "none" THEN Answer("None", <<>>)
                      ELSE IF read.verdict = "ok" THEN Answer("value", read.value)
                      ELSE Answer("exception", <<>>)
  BY DEF HostRead, Host
<1>4. \A host \in Hosts :
        HostDirectoryRange(host, doc).kind = "value" <=> Absent(doc)
  <2>1. SUFFICES ASSUME NEW host \in Hosts
                 PROVE  HostDirectoryRange(host, doc).kind = "value" <=> Absent(doc)
    OBVIOUS
  <2>2. HostDirectoryRange(host, doc).kind = "value"
          <=> CentralDirectoryRange(doc).verdict = "ok"
    BY DEF HostDirectoryRange, Host, Answer
  <2> QED
    BY <2>2, RangeFacts
<1>5. /\ HostVerify(doc).has_manifest = (read.verdict = "ok")
      /\ HostVerify(doc).manifest_len = Len(read.value)
      /\ HostVerify(doc).is_valid_zip = (read.verdict \in {"ok", "none"})
  BY DEF HostVerify
<1>6. read.verdict = "ok" => Layout(doc).verdict = "ok"
  BY DEF ReadManifestEntry, Try
<1> HIDE DEF read
<1>7. /\ HostRead(doc).kind = "None" <=> Absent(doc)
      /\ HostVerify(doc).has_manifest = (HostRead(doc).kind = "value")
  BY <1>2, <1>3, <1>5 DEF Answer
<1>8. HostVerify(doc).has_manifest =>
        HostVerify(doc).manifest_len = Len(HostRead(doc).value)
  <2>1. CASE read.verdict = "ok"
    <3>1. HostRead(doc) = Answer("value", read.value)
      BY <1>3, <2>1
    <3>2. HostRead(doc).value = read.value
      BY <3>1 DEF Answer
    <3> QED
      BY <1>5, <3>2
  <2>2. CASE read.verdict # "ok"
    <3>1. HostVerify(doc).has_manifest = FALSE
      BY <1>5, <2>2
    <3> QED
      BY <3>1
  <2> QED
    BY <2>1, <2>2
<1>9. (HostRead(doc).kind = "None") = Absent(doc)
  BY <1>7 DEF Absent
<1>10. \A host \in Hosts : (HostDirectoryRange(host, doc).kind = "value") = Absent(doc)
  BY <1>4 DEF Absent
<1>11. /\ Absent(doc) \/ HostVerify(doc).has_manifest => HostVerify(doc).is_valid_zip
       /\ HostVerify(doc).is_valid_zip => Layout(doc).verdict = "ok"
  BY <1>2, <1>5, <1>6 DEF Absent
<1> QED
  BY <1>1, <1>7, <1>8, <1>9, <1>10, <1>11 DEF AbsenceIsNoError, Absent, NamesIn

-----------------------------------------------------------------------------
(* Ranges of entries                                                       *)

\* An entry of a layout: its header is good, and the bytes up to its boundary
\* are before the directory.
LEMMA BoundaryFacts ==
  ASSUME NEW b, NEW l, NEW hs, Laid(b, l, hs), NEW i \in 1 .. Len(l.entries)
  PROVE  /\ EntryBoundary(b, l, i) \in Nat /\ EntryBoundary(b, l, i) <= l.cdStart
         /\ LocalOffset(b, l.entries[i]) \in Nat
         /\ l.cdStart \in Nat /\ l.cdStart <= Len(b) /\ Len(b) \in Nat
<1> DEFINE n == Len(l.entries)
<1>1. /\ n \in Nat
      /\ \A j \in 1 .. n : GoodHeader(b, l.cdStart, l.eocd, l.entries[j])
  BY EntryFacts
<1>2. \A j \in 1 .. n :
        LocalOffset(b, l.entries[j]) \in Nat /\ LocalOffset(b, l.entries[j]) < l.cdStart
  BY <1>1 DEF GoodHeader
<1>3. l.cdStart \in Nat /\ l.cdStart <= Len(b) /\ Len(b) \in Nat
  BY DEF Laid, EndsAt
<1>4. i < n => i + 1 \in 1 .. n
  BY <1>1
<1> QED
  BY <1>2, <1>3, <1>4 DEF EntryBoundary

\* The content of an entry lies between its local header and its boundary.
LEMMA ContentFacts ==
  ASSUME NEW b, NEW l, NEW hs, Laid(b, l, hs), NEW i \in 1 .. Len(l.entries),
         ContentRange(b, l, i).verdict = "ok"
  PROVE  LET h     == l.entries[i]
             lh    == LocalOffset(b, h)
             range == ContentRange(b, l, i).value
         IN /\ range.start \in Nat /\ range.end \in Nat
            /\ lh + 30 <= range.start /\ range.start <= range.end
            /\ range.end <= EntryBoundary(b, l, i)
            /\ range.end = lh + 30 + ReadU16(b, lh + 26) + ReadU16(b, lh + 28)
                             + ReadU32(b, h + 20)
<1> DEFINE h     == l.entries[i]
           lh    == LocalOffset(b, h)
           x     == ReadU16(b, lh + 26)
           y     == ReadU16(b, lh + 28)
           z     == ReadU32(b, h + 20)
           start == lh + 30 + x + y
           end   == start + z
           boundary == EntryBoundary(b, l, i)
<1>1. /\ lh + 30 <= Len(b) /\ ~(end > boundary)
      /\ ContentRange(b, l, i).value = Span(start, end)
  <2>1. ContentRange(b, l, i) =
          IF ReadU32(b, lh) # LOCAL_HEADER_SIG THEN Err("Truncated")
          ELSE IF ReadU16(b, lh + 6) # ReadU16(b, h + 8) THEN Err("BadOffset")
          ELSE IF lh + 30 > Len(b) THEN Err("Truncated")
          ELSE IF end > boundary THEN Err("BadOffset")
          ELSE IF end > Len(b) THEN Err("Truncated")
          ELSE Ok(Span(start, end))
    BY DEF ContentRange, LOCAL_HEADER_FIXED_LEN
  <2>2. \A error : Err(error).verdict = error
    BY DEF Err
  <2>3. Ok(Span(start, end)).value = Span(start, end)
    BY DEF Ok
  <2>4. lh + 30 \in Nat /\ Len(b) \in Nat
    BY BoundaryFacts
  <2> HIDE DEF lh, start, end, boundary
  <2> QED
    BY <2>1, <2>2, <2>3, <2>4
<1>2. b \in Seq(Octet) /\ lh \in Nat /\ Len(b) \in Nat /\ EntryBoundary(b, l, i) \in Nat
  BY BoundaryFacts DEF Laid, EndsAt
<1>3. z \in Nat
  BY EntryFacts DEF GoodHeader
<1>4. x \in Nat /\ y \in Nat
  <2>1. /\ lh + 26 \in Nat /\ (lh + 26) + 2 <= Len(b)
        /\ lh + 28 \in Nat /\ (lh + 28) + 2 <= Len(b)
    BY <1>1, <1>2
  <2> QED
    BY <1>2, <2>1, ReadType
<1> HIDE DEF x, y, z, lh
<1>5. start \in Nat /\ end \in Nat /\ lh + 30 <= start /\ start <= end
  BY <1>2, <1>3, <1>4
<1>6. end <= EntryBoundary(b, l, i)
  BY <1>1, <1>2, <1>5 DEF boundary
<1> QED
  BY <1>1, <1>5, <1>6 DEF Span, x, y, z, lh

\* The binding range of an entry starts with its local header, holds its
\* content and ends before its boundary.
LEMMA BindingFacts ==
  ASSUME NEW b, NEW l, NEW hs, Laid(b, l, hs), NEW i \in 1 .. Len(l.entries),
         BindingRange(b, l, i).verdict = "ok"
  PROVE  LET h    == l.entries[i]
             lh   == LocalOffset(b, h)
             end  == ContentRange(b, l, i).value.end
             sig  == ReadU32(b, end) = DATA_DESCRIPTOR_SIG
             last == BindingRange(b, l, i).value.end
         IN /\ ContentRange(b, l, i).verdict = "ok"
            /\ BindingRange(b, l, i).value.start = lh
            /\ lh \in Nat /\ last \in Nat /\ lh + 30 <= last
            /\ last <= EntryBoundary(b, l, i)
            /\ last = end + (IF (ReadU16(b, h + 8) \div 8) % 2 = 1
                             THEN IF sig THEN 16 ELSE 12 ELSE 0)
<1> DEFINE h    == l.entries[i]
           lh   == LocalOffset(b, h)
           end  == ContentRange(b, l, i).value.end
           sig  == ReadU32(b, end) = DATA_DESCRIPTOR_SIG
           sums == end + (IF sig THEN 4 ELSE 0)
           bit  == (ReadU16(b, h + 8) \div 8) % 2 = 1
           last == BindingRange(b, l, i).value.end
<1>1. ContentRange(b, l, i).verdict = "ok"
  BY DEF BindingRange, Try
<1>2. BindingRange(b, l, i) = Bound(b, l, i, end)
  BY <1>1 DEF BindingRange, Try
<1>3. /\ end \in Nat /\ lh + 30 <= end /\ end <= EntryBoundary(b, l, i)
      /\ lh \in Nat /\ EntryBoundary(b, l, i) \in Nat
  <2> DEFINE start == ContentRange(b, l, i).value.start
  <2>1. /\ start \in Nat /\ end \in Nat /\ lh + 30 <= start /\ start <= end
        /\ end <= EntryBoundary(b, l, i)
    BY <1>1, ContentFacts
  <2>2. lh \in Nat /\ EntryBoundary(b, l, i) \in Nat
    BY BoundaryFacts
  <2> HIDE DEF start, end, lh
  <2> QED
    BY <2>1, <2>2
<1>4. Bound(b, l, i, end) =
        IF bit
        THEN IF sums + 12 > EntryBoundary(b, l, i) \/ ~SumsAt(b, sums, h)
             THEN Err("MalformedDataDescriptor") ELSE Ok(Span(lh, sums + 12))
        ELSE IF SumsAt(b, lh + 14, h) THEN Ok(Span(lh, end)) ELSE Err("BadOffset")
  BY DEF Bound
<1> HIDE DEF end, bit, lh, sig
<1>5. CASE bit
  <2>1. /\ ~(sums + 12 > EntryBoundary(b, l, i))
        /\ BindingRange(b, l, i).value = Span(lh, sums + 12)
    BY <1>2, <1>4, <1>5 DEF Err, Ok
  <2>2. sums + 12 = end + (IF sig THEN 16 ELSE 12) /\ sums + 12 \in Nat
    BY <1>3
  <2>3. last = sums + 12 /\ BindingRange(b, l, i).value.start = lh
    BY <2>1 DEF Span
  <2>4. last = end + (IF sig THEN 16 ELSE 12) /\ last \in Nat
    BY <2>2, <2>3
  <2>5. lh + 30 <= last /\ last <= EntryBoundary(b, l, i)
    BY <1>3, <2>1, <2>2, <2>3
  <2> QED
    BY <1>1, <1>3, <1>5, <2>3, <2>4, <2>5 DEF bit, lh, sig, end
<1>6. CASE ~bit
  <2>1. BindingRange(b, l, i).value = Span(lh, end)
    BY <1>2, <1>4, <1>6 DEF Err, Ok
  <2>2. last = end /\ BindingRange(b, l, i).value.start = lh
    BY <2>1 DEF Span
  <2>3. end = end + 0
    BY <1>3
  <2> QED
    BY <1>1, <1>3, <1>6, <2>2, <2>3 DEF bit, lh, sig, end
<1> QED
  BY <1>5, <1>6

-----------------------------------------------------------------------------
(* What the editors write                                                  *)

\* The records the crate writes are bytes, if their numbers fit their fields.
LEMMA RecordType ==
  /\ \A name \in Seq(Octet), crc, size \in 0 .. U32Max :
       Len(name) \in 0 .. U16Max => WriteLocalHeader(name, crc, size) \in Seq(Octet)
  /\ \A name \in Seq(Octet), crc, size, off \in 0 .. U32Max :
       Len(name) \in 0 .. U16Max => WriteCdHeader(name, crc, size, off) \in Seq(Octet)
  /\ \A count \in 0 .. U16Max, size, off \in 0 .. U32Max :
       WriteEocd(count, size, off) \in Seq(Octet)
<1> DEFINE S == Seq(Octet)
           Word == 0 .. U16Max
           Quad == 0 .. U32Max
<1>1. (\A v \in Word : Le(v, 2) \in S) /\ \A v \in Quad : Le(v, 4) \in S
  <2>1. Fits(2) = Word /\ Fits(4) = Quad /\ 2 \in {2, 4} /\ 4 \in {2, 4}
    BY DEF Fits
  <2> HIDE DEF S, Word, Quad
  <2>2. ASSUME NEW v \in Word
        PROVE  Le(v, 2) \in S
    BY <2>1, LeType DEF S
  <2>3. ASSUME NEW v \in Quad
        PROVE  Le(v, 4) \in S
    BY <2>1, LeType DEF S
  <2> QED
    BY <2>2, <2>3
<1>2. /\ EOCD_SIG \in Quad /\ CD_HEADER_SIG \in Quad /\ LOCAL_HEADER_SIG \in Quad
      /\ 0 \in Word /\ 20 \in Word /\ 0 \in Quad
  BY BaseFacts
<1>3. \A s \in Seq(S) : FlattenSeq(s) \in S
  BY Flattened
<1> HIDE DEF Word, Quad
<1>4. ASSUME NEW name \in S, NEW crc \in Quad, NEW size \in Quad, NEW off \in Quad,
             Len(name) \in Word
      PROVE  /\ WriteLocalHeader(name, crc, size) \in S
             /\ WriteCdHeader(name, crc, size, off) \in S
  <2> HIDE DEF S
  <2>1. <<Le(LOCAL_HEADER_SIG, 4), Le(20, 2), Le(0, 2), Le(0, 2), Le(0, 2),
          Le(0, 2), Le(crc, 4), Le(size, 4), Le(size, 4), Le(Len(name), 2),
          Le(0, 2), name>> \in Seq(S)
    BY <1>1, <1>2, <1>4
  <2>2. <<Le(CD_HEADER_SIG, 4), Le(20, 2), Le(20, 2), Le(0, 2), Le(0, 2),
          Le(0, 2), Le(0, 2), Le(crc, 4), Le(size, 4), Le(size, 4),
          Le(Len(name), 2), Le(0, 2), Le(0, 2), Le(0, 2), Le(0, 2), Le(0, 4),
          Le(off, 4), name>> \in Seq(S)
    BY <1>1, <1>2, <1>4
  <2> QED
    BY <1>3, <2>1, <2>2 DEF WriteLocalHeader, WriteCdHeader
<1>5. ASSUME NEW count \in Word, NEW size \in Quad, NEW off \in Quad
      PROVE  WriteEocd(count, size, off) \in S
  <2> HIDE DEF S
  <2>1. <<Le(EOCD_SIG, 4), Le(0, 2), Le(0, 2), Le(count, 2), Le(count, 2),
          Le(size, 4), Le(off, 4), Le(0, 2)>> \in Seq(S)
    BY <1>1, <1>2
  <2> QED
    BY <1>3, <2>1 DEF WriteEocd
<1>6. \A name \in S, crc, size \in Quad :
        Len(name) \in Word => WriteLocalHeader(name, crc, size) \in S
  BY <1>4
<1>7. \A name \in S, crc, size, off \in Quad :
        Len(name) \in Word => WriteCdHeader(name, crc, size, off) \in S
  BY <1>4
<1>8. \A count \in Word, size, off \in Quad : WriteEocd(count, size, off) \in S
  BY <1>5
<1> QED
  BY <1>6, <1>7, <1>8 DEF S, Word, Quad

\* An archive that is finished is bytes; what its EOCD cannot hold is an error.
LEMMA FinishedType ==
  ASSUME NEW data \in Seq(Octet), NEW dir \in Seq(Octet), NEW count \in Nat,
         Len(data) <= U32Max, Finished(data, dir, count).verdict = "ok"
  PROVE  Finished(data, dir, count).value \in Seq(Octet)
<1>1. /\ Len(dir) <= U32Max /\ count <= U16Max
      /\ Finished(data, dir, count).value = data \o dir \o WriteEocd(count, Len(dir), Len(data))
  <2>1. Len(dir) \in Nat /\ U32Max \in Nat /\ U16Max \in Nat
    BY BaseFacts
  <2> QED
    BY <2>1 DEF Finished, Err, Ok
<1>2. count \in 0 .. U16Max /\ Len(dir) \in 0 .. U32Max /\ Len(data) \in 0 .. U32Max
  BY <1>1, BaseFacts
<1>3. WriteEocd(count, Len(dir), Len(data)) \in Seq(Octet)
  BY <1>2, RecordType
<1> QED
  BY <1>1, <1>3, ConcatProperties

\* insert_zip_entry returns bytes.
LEMMA InsertType ==
  ASSUME NEW b \in Seq(Octet), NEW name \in Seq(Octet), NEW content \in Seq(Octet),
         Crc32(content) \in 0 .. U32Max, InsertZipEntry(b, name, content).verdict = "ok"
  PROVE  InsertZipEntry(b, name, content).value \in Seq(Octet)
<1> DEFINE l     == Layout(b).value
           crc   == Crc32(content)
           result == InsertInto(b, l, name, content, crc)
<1>1. Layout(b).verdict = "ok"
  BY DEF InsertZipEntry, Try
<1>2. InsertZipEntry(b, name, content) = result
  BY <1>1 DEF InsertZipEntry, Try
<1>3. PICK hs : Laid(b, l, hs)
  BY <1>1, LayoutFacts
<1> HIDE DEF l, crc
<1> DEFINE local == WriteLocalHeader(name, crc, Len(content))
           head  == Bytes(b, 0, l.cdStart)
           data  == head \o local \o content
           dir   == Bytes(b, l.cdStart, l.eocd)
                      \o WriteCdHeader(name, crc, Len(content), l.cdStart)
           count == Len(l.entries) + 1
<1>4. /\ Len(name) <= U16Max /\ Len(content) <= U32Max /\ ~(Len(data) > U32Max)
      /\ result = Finished(data, dir, count)
  <2>1. result = IF Len(name) > U16Max \/ Len(content) > U32Max THEN Err("Truncated")
                 ELSE IF Len(data) > U32Max THEN Err("Zip64Unsupported")
                 ELSE Finished(data, dir, count)
    BY DEF InsertInto
  <2>2. result.verdict = "ok"
    BY <1>2
  <2>3. Err("Truncated").verdict # "ok" /\ Err("Zip64Unsupported").verdict # "ok"
    BY DEF Err
  <2>4. Len(name) \in Nat /\ Len(content) \in Nat /\ U16Max \in Nat /\ U32Max \in Nat
    BY BaseFacts
  <2> HIDE DEF data, dir, count, result
  <2> QED
    BY <2>1, <2>2, <2>3, <2>4
<1>5. /\ l.cdStart \in Nat /\ l.eocd \in Nat /\ Len(b) \in Nat
      /\ l.cdStart <= Len(b) /\ l.eocd <= Len(b)
  BY <1>3 DEF Laid, EndsAt
<1>6. /\ head \in Seq(Octet) /\ Len(head) = l.cdStart
      /\ Bytes(b, l.cdStart, l.eocd) \in Seq(Octet)
  <2>1. 0 \in Nat /\ l.cdStart \in Int /\ l.eocd \in Int /\ 0 <= l.cdStart
    BY <1>5
  <2>2. Bytes(b, 0, l.cdStart) \in Seq(Octet) /\ Bytes(b, l.cdStart, l.eocd) \in Seq(Octet)
    BY <1>5, <2>1, BytesType
  <2>3. Len(Bytes(b, 0, l.cdStart)) = l.cdStart - 0
    BY <1>5, <2>1, BytesType
  <2> QED
    BY <1>5, <2>2, <2>3
<1>7. /\ Len(content) \in 0 .. U32Max /\ Len(name) \in 0 .. U16Max
      /\ crc \in 0 .. U32Max /\ count \in Nat
  <2>1. Len(content) \in Nat /\ Len(name) \in Nat
    OBVIOUS
  <2>2. crc \in 0 .. U32Max
    BY DEF crc
  <2>3. count \in Nat
    BY <1>3, EntryFacts
  <2> QED
    BY <1>4, <2>1, <2>2, <2>3, BaseFacts
<1>8. local \in Seq(Octet)
  BY <1>7, RecordType
<1> HIDE DEF head, local
<1>9. \A s, t \in Seq(Octet) : s \o t \in Seq(Octet)
  BY ConcatProperties
<1>10. data \in Seq(Octet) /\ Len(data) = l.cdStart + Len(local) + Len(content)
  <2>1. head \o local \in Seq(Octet) /\ Len(head \o local) = l.cdStart + Len(local)
    <3>1. Len(head \o local) = Len(head) + Len(local)
      BY <1>6, <1>8, ConcatProperties
    <3>2. head \o local \in Seq(Octet)
      BY <1>6, <1>8, <1>9
    <3> QED
      BY <1>6, <3>1, <3>2
  <2> DEFINE first == head \o local
  <2> HIDE DEF first
  <2>2. Len(first \o content) = Len(first) + Len(content)
    BY <2>1, ConcatProperties DEF first
  <2>3. first \o content \in Seq(Octet)
    BY <1>9, <2>1 DEF first
  <2> QED
    BY <2>1, <2>2, <2>3 DEF first
<1> HIDE DEF data
<1>11. Len(data) \in Nat /\ Len(local) \in Nat /\ Len(content) \in Nat
  BY <1>8, <1>10
<1>12. l.cdStart \in 0 .. U32Max /\ Len(data) <= U32Max
  <2>1. ~(Len(data) > U32Max) /\ U32Max \in Nat
    BY <1>4, BaseFacts
  <2>2. Len(data) = l.cdStart + Len(local) + Len(content)
    BY <1>10
  <2> QED
    BY <1>5, <1>11, <2>1, <2>2
<1>13. WriteCdHeader(name, crc, Len(content), l.cdStart) \in Seq(Octet)
  BY <1>7, <1>12, RecordType
<1>14. dir \in Seq(Octet)
  BY <1>6, <1>9, <1>13
<1> HIDE DEF dir, count, result
<1>15. Finished(data, dir, count).verdict = "ok"
  BY <1>2, <1>4
<1> QED
  BY <1>2, <1>4, <1>7, <1>10, <1>12, <1>14, <1>15, FinishedType

\* The entries that are copied, and their ranges, lie within the archive.
Copyable(b, hs, ranges) ==
  /\ b \in Seq(Octet) /\ hs \in Seq(Nat)
  /\ \A k \in 1 .. Len(hs) :
       /\ NextHeader(b, hs[k]) \in Nat /\ NextHeader(b, hs[k]) <= Len(b)
       /\ ranges[k].start \in Nat /\ ranges[k].end \in Nat /\ ranges[k].end <= Len(b)

\* An archive rebuilt from entries of another is bytes.
LEMMA RebuiltType ==
  ASSUME NEW b, NEW hs, NEW ranges, Copyable(b, hs, ranges),
         Rebuilt(b, hs, ranges).verdict = "ok"
  PROVE  Rebuilt(b, hs, ranges).value \in Seq(Octet)
<1> DEFINE n      == Len(hs)
           copies == [k \in DOMAIN hs |-> Bytes(b, ranges[k].start, ranges[k].end)]
           before == [k \in DOMAIN hs |-> Len(FlattenSeq(SubSeq(copies, 1, k - 1)))]
           data   == FlattenSeq(copies)
           header(k) == Relocate(Bytes(b, hs[k], NextHeader(b, hs[k])), before[k])
           headers == [k \in DOMAIN hs |-> header(k)]
           dir    == FlattenSeq(headers)
<1>1. b \in Seq(Octet) /\ n \in Nat /\ DOMAIN hs = 1 .. n /\ \A k \in 1 .. n : hs[k] \in Nat
  BY DEF Copyable
<1>2. /\ \A m \in ToSet(before) \cup {Len(data)} : ~(m > U32Max)
      /\ Rebuilt(b, hs, ranges) = Finished(data, dir, n)
  <2>1. Rebuilt(b, hs, ranges) =
          IF \E m \in ToSet(before) \cup {Len(data)} : m > U32Max
          THEN Err("Zip64Unsupported") ELSE Finished(data, dir, n)
    BY DEF Rebuilt
  <2>2. Err("Zip64Unsupported").verdict # "ok"
    BY DEF Err
  <2> HIDE DEF before, data, dir, n
  <2> QED
    BY <2>1, <2>2
<1>3. ASSUME NEW k \in 1 .. n
      PROVE  /\ Bytes(b, ranges[k].start, ranges[k].end) \in Seq(Octet)
             /\ Bytes(b, hs[k], NextHeader(b, hs[k])) \in Seq(Octet)
  <2>1. /\ ranges[k].start \in Nat /\ ranges[k].end \in Int /\ ranges[k].end <= Len(b)
        /\ hs[k] \in Nat /\ NextHeader(b, hs[k]) \in Int /\ NextHeader(b, hs[k]) <= Len(b)
    BY <1>1 DEF Copyable
  <2> QED
    BY <1>1, <2>1, BytesType
<1>4. copies \in Seq(Seq(Octet)) /\ Len(copies) = n
  <2>1. copies \in [1 .. n -> Seq(Octet)]
    BY <1>1, <1>3
  <2> HIDE DEF copies, n
  <2> QED
    BY <1>1, <2>1
<1> HIDE DEF copies
<1>5. ASSUME NEW k \in 1 .. n
      PROVE  before[k] \in Fits(4)
  <2>1. SubSeq(copies, 1, k - 1) \in Seq(Seq(Octet))
    <3>1. 1 \in Int /\ k - 1 \in Int /\ \A i \in 1 .. k - 1 : copies[i] \in Seq(Octet)
      BY <1>1, <1>4
    <3> QED
      BY <3>1, SubSeqProperties
  <2>2. FlattenSeq(SubSeq(copies, 1, k - 1)) \in Seq(Octet)
    BY <2>1, Flattened
  <2>3. Len(FlattenSeq(SubSeq(copies, 1, k - 1))) \in Nat
    BY <2>2
  <2>4. before[k] \in Nat /\ before[k] \in ToSet(before)
    BY <1>1, <2>3 DEF ToSet
  <2> HIDE DEF before
  <2>5. ~(before[k] > U32Max)
    BY <1>2, <2>4
  <2> QED
    BY <2>4, <2>5, BaseFacts DEF Fits
<1> HIDE DEF before
<1>6. ASSUME NEW k \in 1 .. n
      PROVE  header(k) \in Seq(Octet)
  <2>1. Le(before[k], 4) \in Seq(Octet)
    BY <1>5, LeType
  <2> QED
    BY <1>3, <2>1, PatchType DEF Relocate
<1>7. headers \in Seq(Seq(Octet))
  <2>1. headers \in [1 .. n -> Seq(Octet)]
    BY <1>1, <1>6
  <2> HIDE DEF headers, n
  <2> QED
    BY <1>1, <2>1
<1> HIDE DEF headers
<1>8. data \in Seq(Octet) /\ dir \in Seq(Octet)
  BY <1>4, <1>7, Flattened
<1> HIDE DEF data, dir, n
<1>9. Len(data) <= U32Max
  <2>1. Len(data) \in Nat /\ ~(Len(data) > U32Max)
    BY <1>2, <1>8
  <2> QED
    BY <2>1, BaseFacts
<1> QED
  BY <1>1, <1>2, <1>8, <1>9, FinishedType

\* collect succeeds if every result does, with their values.
LEMMA CollectFacts ==
  ASSUME NEW n \in Nat, NEW results, DOMAIN results = 1 .. n,
         Collect(results).verdict = "ok"
  PROVE  /\ \A i \in 1 .. n : results[i].verdict = "ok"
         /\ Collect(results).value = [i \in 1 .. n |-> results[i].value]
<1> DEFINE bad == {i \in 1 .. n : results[i].verdict # "ok"}
<1>1. Collect(results) = IF bad = {} THEN Ok([i \in 1 .. n |-> results[i].value])
                         ELSE results[Min(bad)]
  BY DEF Collect
<1>2. bad = {}
  <2>1. SUFFICES ASSUME bad # {}
                 PROVE  FALSE
    OBVIOUS
  <2>2. bad \subseteq Nat
    OBVIOUS
  <2>3. \A i \in bad : results[i].verdict # "ok"
    OBVIOUS
  <2> HIDE DEF bad
  <2>4. Min(bad) \in bad
    BY <2>1, <2>2, MinIsLeast
  <2> QED
    BY <1>1, <2>1, <2>3, <2>4
<1>3. \A i \in 1 .. n : results[i].verdict = "ok"
  BY <1>2
<1> HIDE DEF bad
<1>4. Collect(results).value = [i \in 1 .. n |-> results[i].value]
  BY <1>1, <1>2 DEF Ok
<1> QED
  BY <1>3, <1>4

\* remove_zip_entry returns bytes.
LEMMA RemoveType ==
  ASSUME NEW b \in Seq(Octet), NEW name, RemoveZipEntry(b, name).verdict = "ok"
  PROVE  RemoveZipEntry(b, name).value \in Seq(Octet)
<1> DEFINE l == Layout(b).value
           n == Len(l.entries)
           results == [i \in DOMAIN l.entries |-> BindingRange(b, l, i)]
           ranges == Collect(results).value
           others == {i \in DOMAIN l.entries : NameOf(b, l.entries[i]) # name}
<1>1. Layout(b).verdict = "ok"
  BY DEF RemoveZipEntry, Try
<1>2. RemoveZipEntry(b, name) =
        IF Position(b, l, name) = 0 THEN Ok(b)
        ELSE IF Collect(results).verdict = "ok" THEN RemoveFrom(b, l, name, ranges)
        ELSE Collect(results)
  BY <1>1 DEF RemoveZipEntry, Try
<1>3. PICK hs : Laid(b, l, hs)
  BY <1>1, LayoutFacts
<1> HIDE DEF l
<1>4. /\ n \in Nat /\ DOMAIN l.entries = 1 .. n /\ l.entries \in Seq(Nat)
      /\ \A i \in 1 .. n : GoodHeader(b, l.cdStart, l.eocd, l.entries[i])
  BY <1>3, EntryFacts
<1>5. CASE Position(b, l, name) = 0
  BY <1>2, <1>5 DEF Ok
<1>6. CASE Position(b, l, name) # 0
  <2>1. /\ Collect(results).verdict = "ok"
        /\ RemoveZipEntry(b, name) = RemoveFrom(b, l, name, ranges)
    <3> HIDE DEF results, ranges
    <3> QED
      BY <1>2, <1>6
  <2>2. /\ \A i \in 1 .. n : BindingRange(b, l, i).verdict = "ok"
        /\ ranges = [i \in 1 .. n |-> BindingRange(b, l, i).value]
    <3>1. DOMAIN results = 1 .. n /\ \A i \in 1 .. n : results[i] = BindingRange(b, l, i)
      BY <1>4
    <3> HIDE DEF results, n
    <3>2. /\ \A i \in 1 .. n : results[i].verdict = "ok"
          /\ ranges = [i \in 1 .. n |-> results[i].value]
      BY <1>4, <2>1, <3>1, CollectFacts
    <3> QED
      BY <3>1, <3>2
  <2> HIDE DEF ranges, results
  <2>3. l.eocd \in Nat /\ l.eocd <= Len(b) /\ Len(b) \in Nat
    BY <1>3 DEF Laid, EndsAt
  <2>4. ASSUME NEW i \in 1 .. n
        PROVE  /\ NextHeader(b, l.entries[i]) \in Nat /\ NextHeader(b, l.entries[i]) <= Len(b)
               /\ ranges[i].start \in Nat /\ ranges[i].end \in Nat /\ ranges[i].end <= Len(b)
    <3>1. NextHeader(b, l.entries[i]) \in Nat /\ NextHeader(b, l.entries[i]) <= l.eocd
      BY <1>4 DEF GoodHeader
    <3>2. /\ ranges[i].start \in Nat /\ ranges[i].end \in Nat
          /\ ranges[i].end <= EntryBoundary(b, l, i)
      BY <1>3, <2>2, BindingFacts
    <3>3. EntryBoundary(b, l, i) \in Nat /\ EntryBoundary(b, l, i) <= Len(b)
      <4>1. /\ EntryBoundary(b, l, i) \in Nat /\ EntryBoundary(b, l, i) <= l.cdStart
            /\ l.cdStart \in Nat /\ l.cdStart <= Len(b)
        BY <1>3, BoundaryFacts
      <4> QED
        BY <2>3, <4>1
    <3> QED
      BY <2>3, <3>1, <3>2, <3>3
  <2>5. PositionsIn(others, n)
    BY <1>4 DEF PositionsIn
  <2> HIDE DEF others
  <2>6. /\ Cardinality(others) \in Nat
        /\ Kept(ranges, others) = [k \in 1 .. Cardinality(others) |-> ranges[Nth(others, k)]]
        /\ \A k \in 1 .. Cardinality(others) : Nth(others, k) \in others
    <3>1. n \in Nat
      BY <1>4
    <3> HIDE DEF n
    <3>2. /\ Cardinality(others) \in Nat
          /\ \A k \in 1 .. Cardinality(others) : Nth(others, k) \in others
          /\ \A s : Kept(s, others) = [k \in 1 .. Cardinality(others) |-> s[Nth(others, k)]]
      BY <2>5, <3>1, KeptFacts
    <3> QED
      BY <3>2
  <2>7. /\ Kept(l.entries, others) \in Seq(Nat)
        /\ Len(Kept(l.entries, others)) = Cardinality(others)
        /\ \A k \in 1 .. Cardinality(others) :
             Kept(l.entries, others)[k] = l.entries[Nth(others, k)]
    <3> DEFINE s == l.entries
               T == Nat
    <3>1. s \in Seq(T) /\ PositionsIn(others, Len(s))
      BY <1>4, <2>5
    <3> HIDE DEF s, T
    <3>2. /\ Kept(s, others) \in Seq(T) /\ Len(Kept(s, others)) = Cardinality(others)
          /\ \A k \in 1 .. Cardinality(others) : Kept(s, others)[k] = s[Nth(others, k)]
      BY <3>1, KeptType
    <3> QED
      BY <3>2 DEF s, T
  <2>8. Copyable(b, Kept(l.entries, others), Kept(ranges, others))
    <3>1. ASSUME NEW k \in 1 .. Cardinality(others)
          PROVE  LET h == Kept(l.entries, others)[k]
                     r == Kept(ranges, others)[k]
                 IN /\ NextHeader(b, h) \in Nat /\ NextHeader(b, h) <= Len(b)
                    /\ r.start \in Nat /\ r.end \in Nat /\ r.end <= Len(b)
      <4>1. Nth(others, k) \in 1 .. n
        BY <2>5, <2>6 DEF PositionsIn
      <4>2. /\ Kept(l.entries, others)[k] = l.entries[Nth(others, k)]
            /\ Kept(ranges, others)[k] = ranges[Nth(others, k)]
        BY <2>6, <2>7
      <4> QED
        BY <2>4, <4>1, <4>2
    <3> QED
      BY <2>7, <3>1 DEF Copyable
  <2>9. RemoveFrom(b, l, name, ranges) = Rebuilt(b, Kept(l.entries, others), Kept(ranges, others))
    BY DEF RemoveFrom, others
  <2> QED
    BY <2>1, <2>8, <2>9, RebuiltType
<1> QED
  BY <1>5, <1>6

\* fill_manifest returns bytes.
LEMMA FillType ==
  ASSUME NEW b \in Seq(Octet), NEW name, NEW content \in Seq(Octet),
         Crc32(content) \in 0 .. U32Max, FillZipEntry(b, name, content).verdict = "ok"
  PROVE  FillZipEntry(b, name, content).value \in Seq(Octet)
<1> DEFINE l == Layout(b).value
           i == Position(b, l, name)
           h == l.entries[i]
           range == ManifestRange(b, l, i)
           filled == FillRange(b, h, range.value, content)
<1>1. Layout(b).verdict = "ok"
  BY DEF FillZipEntry, Try
<1>2. FillZipEntry(b, name, content) =
        IF i = 0 THEN Err("Truncated")
        ELSE IF range.verdict = "ok" THEN filled ELSE range
  BY <1>1 DEF FillZipEntry, Try
<1>3. PICK hs : Laid(b, l, hs)
  BY <1>1, LayoutFacts
<1>4. i # 0 /\ range.verdict = "ok" /\ FillZipEntry(b, name, content) = filled
  <2>1. Err("Truncated").verdict = "Truncated"
    BY DEF Err
  <2> HIDE DEF i, range, filled
  <2> QED
    BY <1>2, <2>1
<1> HIDE DEF l
<1>5. i \in 1 .. Len(l.entries)
  <2>1. l.entries \in Seq(Nat) /\ Len(l.entries) \in Nat
    BY <1>3, EntryFacts
  <2>2. i \in 0 .. Len(l.entries)
    BY <2>1, PositionFacts
  <2> QED
    BY <1>4, <2>1, <2>2
<1> HIDE DEF i
<1>6. range = ContentRange(b, l, i)
  BY <1>4 DEF ManifestRange, Err
<1>7. range.value.start \in Nat
  BY <1>3, <1>4, <1>5, <1>6, ContentFacts
<1>8. h \in Nat /\ LocalOffset(b, h) \in Nat
  BY <1>3, <1>5, EntryFacts DEF GoodHeader
<1> HIDE DEF range, h
<1> DEFINE start   == range.value.start
           content1 == Patch(b, start, content)
           at      == LocalOffset(content1, h) + 14
<1>9. filled.value = PatchCrc(content1, h, Crc32(content))
  BY <1>4 DEF FillRange, Err, Ok
<1>10. content1 \in Seq(Octet) /\ Len(content1) = Len(b)
  BY <1>7, PatchType
<1>11. LocalOffset(content1, h) \in Nat
  <2>1. h + 42 \in Nat /\ (h + 42) + 4 <= Len(b)
    <3>1. h + 46 <= Len(b)
      BY <1>3, <1>5, EntryFacts DEF GoodHeader, h
    <3> QED
      BY <1>8, <3>1
  <2> QED
    BY <1>10, <2>1, ReadType DEF LocalOffset
<1> HIDE DEF content1
<1>12. Le(Crc32(content), 4) \in Seq(Octet)
  <2>1. Crc32(content) \in Fits(4)
    BY DEF Fits
  <2> QED
    BY <2>1, LeType
<1>13. LocalOffset(content1, h) + 14 \in Int /\ h + 16 \in Int
  BY <1>8, <1>11
<1>14. PatchCrc(content1, h, Crc32(content)) \in Seq(Octet)
  BY <1>10, <1>12, <1>13, PatchType DEF PatchCrc
<1> QED
  BY <1>4, <1>9, <1>14

-----------------------------------------------------------------------------
(* Every call returns bytes                                                *)

\* Whatever sequence of bytes a caller starts from, what embed_manifest,
\* fill_manifest and remove_manifest return is a sequence of bytes: no slice they
\* copy reaches outside the document, and no number they write is too large for
\* its field, because the calls that would write one fail (the conversions of
\* insert_zip_entry and remove_zip_entry).
THEOREM BytesAreBytes == Spec => []ByteTypeOK
<1>1. Init => ByteTypeOK
  BY ByteAssumption DEF Init, ByteTypeOK
<1>2. ByteTypeOK /\ [Next]_vars => ByteTypeOK'
  <2> SUFFICES ASSUME ByteTypeOK, [Next]_vars
               PROVE  ByteTypeOK'
    OBVIOUS
  <2>1. doc \in Seq(Octet)
    BY DEF ByteTypeOK, Octet
  <2>2. ASSUME NEW store \in Stores
        PROVE  store \in Seq(Octet) /\ Crc32(store) \in 0 .. U32Max
    BY ByteAssumption DEF Octet
  <2>3. ASSUME NEW op \in {"embed", "fill", "remove"}, NEW store, NEW result,
               Call(op, store, result), result.verdict = "ok" => result.value \in Seq(Octet)
        PROVE  ByteTypeOK'
    BY <2>1, <2>3 DEF Call, ByteTypeOK, Octet
  <2>4. CASE \E store \in Stores : Embed(store)
    <3>1. PICK store \in Stores : Embed(store)
      BY <2>4
    <3> DEFINE removed == RemoveZipEntry(doc, ZIP_MANIFEST_PATH)
               inserted == InsertZipEntry(removed.value, ZIP_MANIFEST_PATH, store)
               result == EmbedManifest(doc, store)
    <3>2. result = IF removed.verdict = "ok" THEN inserted ELSE removed
      BY DEF EmbedManifest, Try
    <3>3. removed.verdict = "ok" => removed.value \in Seq(Octet)
      BY <2>1, RemoveType
    <3> HIDE DEF removed
    <3>4. ZIP_MANIFEST_PATH \in Seq(Octet)
      BY ByteAssumption DEF Octet
    <3>5. removed.verdict = "ok" /\ inserted.verdict = "ok" => inserted.value \in Seq(Octet)
      BY <2>2, <3>3, <3>4, InsertType
    <3> HIDE DEF inserted
    <3>6. result.verdict = "ok" => result.value \in Seq(Octet)
      BY <3>2, <3>5
    <3>7. Call("embed", store, result)
      BY <3>1 DEF Embed
    <3> HIDE DEF result
    <3> QED
      BY <2>3, <3>6, <3>7
  <2>5. CASE \E store \in Stores : Fill(store)
    <3>1. PICK store \in Stores : Fill(store)
      BY <2>5
    <3> DEFINE result == FillZipEntry(doc, ZIP_MANIFEST_PATH, store)
    <3>2. result.verdict = "ok" => result.value \in Seq(Octet)
      BY <2>1, <2>2, FillType
    <3>3. Call("fill", store, result)
      BY <3>1 DEF Fill
    <3> HIDE DEF result
    <3> QED
      BY <2>3, <3>2, <3>3
  <2>6. CASE Clear
    <3> DEFINE result == RemoveZipEntry(doc, ZIP_MANIFEST_PATH)
    <3>1. result.verdict = "ok" => result.value \in Seq(Octet)
      BY <2>1, RemoveType
    <3>2. Call("remove", <<>>, result)
      BY <2>6 DEF Clear
    <3> HIDE DEF result
    <3> QED
      BY <2>3, <3>1, <3>2
  <2>7. CASE UNCHANGED vars
    BY <2>7 DEF vars, ByteTypeOK
  <2> QED
    BY <2>4, <2>5, <2>6, <2>7 DEF Next
<1> QED
  BY <1>1, <1>2, PTL DEF Spec

\* In every reachable document absence is no error (read_manifest, verify,
\* central_directory_range).
THEOREM AbsenceIsNeverAnError == Spec => []AbsenceIsNoError
<1>1. ByteTypeOK => AbsenceIsNoError
  BY AbsenceOfBytes DEF ByteTypeOK, Octet
<1> QED
  BY <1>1, BytesAreBytes, PTL

-----------------------------------------------------------------------------
(* What a host program hashes                                              *)

\* Every header lies in the directory.
LEMMA HeadersInDirectory ==
  ASSUME NEW b, NEW l, NEW hs, Laid(b, l, hs), NEW i \in 1 .. Len(l.entries)
  PROVE  /\ l.entries[i] \in Nat /\ l.cdStart <= l.entries[i]
         /\ l.entries[i] + 46 <= l.eocd
<1> DEFINE n == Len(hs)
           S == {k \in 0 .. n : k = 0 \/ l.cdStart <= hs[k]}
<1>1. /\ n \in Nat /\ l.cdStart \in Nat /\ l.eocd \in Nat /\ hs \in Seq(Nat)
      /\ \A k \in 1 .. n :
           /\ GoodHeader(b, l.cdStart, l.eocd, hs[k])
           /\ hs[k] = IF k = 1 THEN l.cdStart ELSE NextHeader(b, hs[k - 1])
  BY DEF Laid, Chain, EndsAt
<1>2. \A k \in 1 .. n : hs[k] \in Nat /\ hs[k] <= NextHeader(b, hs[k])
  <2>1. \A k \in 1 .. n : /\ hs[k] \in Nat /\ NameLen(b, hs[k]) \in Nat
                          /\ NextHeader(b, hs[k]) \in Nat
                          /\ hs[k] + 46 + NameLen(b, hs[k]) <= NextHeader(b, hs[k])
    BY <1>1 DEF GoodHeader
  <2>2. \A x, y, z \in Nat : x + 46 + y <= z => x <= z
    OBVIOUS
  <2> QED
    BY <2>1, <2>2
<1>3. 0 \in S
  BY <1>1
<1>4. ASSUME NEW k \in 1 .. n, k - 1 \in S
      PROVE  k \in S
  <2>1. CASE k = 1
    BY <1>1, <2>1
  <2>2. CASE k # 1
    <3>1. k - 1 \in 1 .. n /\ l.cdStart <= hs[k - 1]
      BY <1>1, <1>4, <2>2
    <3>2. hs[k] = NextHeader(b, hs[k - 1]) /\ NextHeader(b, hs[k - 1]) \in Nat
      BY <1>1, <1>2, <2>2, <3>1
    <3>3. hs[k - 1] \in Nat /\ hs[k - 1] <= NextHeader(b, hs[k - 1])
      BY <1>2, <3>1
    <3>4. \A x, y, z \in Nat : x <= y /\ y <= z => x <= z
      OBVIOUS
    <3>5. l.cdStart <= hs[k]
      BY <1>1, <3>1, <3>2, <3>3, <3>4
    <3> QED
      BY <3>5
  <2> QED
    BY <2>1, <2>2
<1> HIDE DEF S
<1>5. \A k \in 0 .. n : k \in S
  BY <1>1, <1>3, <1>4, AllUpTo
<1>6. \A k \in 1 .. n : l.cdStart <= hs[k]
  BY <1>1, <1>5 DEF S
<1>7. /\ GoodHeader(b, l.cdStart, l.eocd, l.entries[i])
      /\ DOMAIN l.entries = 1 .. Len(l.entries)
      /\ ToSet(l.entries) = ToSet(hs)
  BY EntryFacts
<1>8. PICK k \in 1 .. n : l.entries[i] = hs[k]
  <2>1. l.entries[i] \in ToSet(hs)
    BY <1>7 DEF ToSet
  <2>2. DOMAIN hs = 1 .. n
    BY <1>1
  <2> QED
    BY <2>1, <2>2 DEF ToSet
<1>9. l.entries[i] + 46 <= l.eocd
  <2>1. /\ l.entries[i] \in Nat /\ NameLen(b, l.entries[i]) \in Nat
        /\ NextHeader(b, l.entries[i]) \in Nat /\ NextHeader(b, l.entries[i]) <= l.eocd
        /\ l.entries[i] + 46 + NameLen(b, l.entries[i]) <= NextHeader(b, l.entries[i])
    BY <1>7 DEF GoodHeader
  <2>2. \A x, y, z, e \in Nat : x + 46 + y <= z /\ z <= e => x + 46 <= e
    OBVIOUS
  <2> QED
    BY <1>1, <2>1, <2>2
<1> QED
  BY <1>2, <1>6, <1>8, <1>9

\* Every entry can be bound.
AllBound(b, l) == \A i \in 1 .. Len(l.entries) : BindingRange(b, l, i).verdict = "ok"

From(b, l, i) == LocalOffset(b, l.entries[i])
To(b, l, i) == BindingRange(b, l, i).value.end

\* The binding ranges follow one another and end before the directory.
LEMMA Disjoint ==
  ASSUME NEW b, NEW l, NEW hs, Laid(b, l, hs), AllBound(b, l)
  PROVE  /\ Len(l.entries) \in Nat /\ l.cdStart \in Nat
         /\ \A i \in 1 .. Len(l.entries) :
              /\ From(b, l, i) \in Nat /\ To(b, l, i) \in Nat
              /\ EntryBoundary(b, l, i) \in Nat
              /\ From(b, l, i) < To(b, l, i) /\ To(b, l, i) <= EntryBoundary(b, l, i)
              /\ EntryBoundary(b, l, i) <= l.cdStart
              /\ BindingRange(b, l, i).value.start = From(b, l, i)
         /\ \A i, j \in 1 .. Len(l.entries) :
              i < j => To(b, l, i) <= From(b, l, j) /\ EntryBoundary(b, l, i) <= From(b, l, j)
<1> DEFINE n == Len(l.entries)
<1>1. /\ n \in Nat
      /\ \A i, j \in 1 .. n : i < j => From(b, l, i) <= From(b, l, j)
  BY EntryFacts DEF From
<1>2. l.cdStart \in Nat
  BY DEF Laid, EndsAt
<1>3. ASSUME NEW i \in 1 .. n
      PROVE  /\ From(b, l, i) \in Nat /\ To(b, l, i) \in Nat
             /\ EntryBoundary(b, l, i) \in Nat
             /\ From(b, l, i) < To(b, l, i) /\ To(b, l, i) <= EntryBoundary(b, l, i)
             /\ EntryBoundary(b, l, i) <= l.cdStart
             /\ BindingRange(b, l, i).value.start = From(b, l, i)
  <2>1. BindingRange(b, l, i).verdict = "ok"
    BY DEF AllBound
  <2>2. /\ From(b, l, i) \in Nat /\ To(b, l, i) \in Nat
        /\ From(b, l, i) + 30 <= To(b, l, i) /\ To(b, l, i) <= EntryBoundary(b, l, i)
        /\ BindingRange(b, l, i).value.start = From(b, l, i)
    BY <2>1, BindingFacts DEF From, To
  <2>3. EntryBoundary(b, l, i) \in Nat /\ EntryBoundary(b, l, i) <= l.cdStart
    BY BoundaryFacts
  <2> QED
    BY <2>2, <2>3
<1>4. ASSUME NEW i \in 1 .. n, NEW j \in 1 .. n, i < j
      PROVE  EntryBoundary(b, l, i) <= From(b, l, j)
  <2>1. i < n /\ i + 1 \in 1 .. n /\ (i + 1 = j \/ i + 1 < j)
    BY <1>1, <1>4
  <2>2. EntryBoundary(b, l, i) = From(b, l, i + 1)
    BY <2>1 DEF EntryBoundary, From
  <2>3. From(b, l, i + 1) \in Nat
    BY <1>3, <2>1
  <2> QED
    BY <1>1, <2>1, <2>2, <2>3
<1>5. ASSUME NEW i \in 1 .. n, NEW j \in 1 .. n, i < j
      PROVE  To(b, l, i) <= From(b, l, j)
  BY <1>3, <1>4, <1>5
<1> QED
  BY <1>1, <1>2, <1>3, <1>4, <1>5

\* The next local header the tables lead to is the boundary of the entry.
LEMMA NextIsBoundary ==
  ASSUME NEW b, NEW l, NEW hs, Laid(b, l, hs), AllBound(b, l),
         NEW i \in 1 .. Len(l.entries)
  PROVE  NextOf(b, l.entries[i]) = EntryBoundary(b, l, i)
<1> DEFINE n == Len(l.entries)
           h == l.entries[i]
           later == {LocalOf(b, g) : g \in {g \in ToSet(HeadersOf(b)) :
                                              LocalOf(b, g) > LocalOf(b, h)}}
           S == later \cup {l.cdStart}
           next == EntryBoundary(b, l, i)
<1>1. /\ n \in Nat /\ DOMAIN l.entries = 1 .. n
      /\ \A j \in 1 .. n : GoodHeader(b, l.cdStart, l.eocd, l.entries[j])
      /\ ToSet(HeadersOf(b)) = ToSet(l.entries) /\ CdStartOf(b) = l.cdStart
  BY EntryFacts, HeadersAre
<1>2. \A j \in 1 .. n : LocalOf(b, l.entries[j]) = From(b, l, j)
  BY <1>1, HeaderReads DEF From
<1>3. /\ l.cdStart \in Nat /\ next \in Nat /\ next <= l.cdStart
      /\ \A j \in 1 .. n : From(b, l, j) \in Nat
      /\ From(b, l, i) < next
  <2>1. /\ From(b, l, i) \in Nat /\ To(b, l, i) \in Nat /\ next \in Nat /\ next <= l.cdStart
        /\ From(b, l, i) < To(b, l, i) /\ To(b, l, i) <= next
    BY Disjoint
  <2>2. l.cdStart \in Nat /\ \A j \in 1 .. n : From(b, l, j) \in Nat
    BY Disjoint
  <2> HIDE DEF next
  <2> QED
    BY <2>1, <2>2
<1>4. \A x : x \in later <=> \E j \in 1 .. n : x = From(b, l, j) /\ From(b, l, j) > From(b, l, i)
  <2>1. \A x : x \in later <=> \E g \in ToSet(l.entries) :
                                 x = LocalOf(b, g) /\ LocalOf(b, g) > LocalOf(b, h)
    BY <1>1
  <2>2. \A g : g \in ToSet(l.entries) <=> \E j \in 1 .. n : g = l.entries[j]
    BY <1>1 DEF ToSet
  <2> HIDE DEF later
  <2> QED
    BY <1>2, <2>1, <2>2
<1>5. NextOf(b, h) = Min(S)
  BY <1>1 DEF NextOf
<1> HIDE DEF later
<1>6. ASSUME NEW x \in later
      PROVE  x \in Nat /\ next <= x
  <2>1. PICK j \in 1 .. n : x = From(b, l, j) /\ From(b, l, j) > From(b, l, i)
    BY <1>4
  <2>2. i < j
    <3>1. CASE j < i
      <4>1. To(b, l, j) <= From(b, l, i) /\ From(b, l, j) < To(b, l, j) /\ To(b, l, j) \in Nat
        BY <3>1, Disjoint
      <4> QED
        BY <1>3, <2>1, <4>1
    <3>2. CASE j = i
      BY <1>3, <2>1, <3>2
    <3> QED
      BY <3>1, <3>2
  <2>3. next <= From(b, l, j)
    BY <2>2, Disjoint
  <2> QED
    BY <1>3, <2>1, <2>3
<1>7. next \in S
  <2>1. CASE i < n
    <3>1. i + 1 \in 1 .. n /\ next = From(b, l, i + 1)
      BY <1>1, <2>1 DEF EntryBoundary, From
    <3> HIDE DEF next
    <3>2. From(b, l, i + 1) > From(b, l, i)
      BY <1>3, <3>1
    <3> QED
      BY <1>4, <3>1, <3>2
  <2>2. CASE ~(i < n)
    BY <2>2 DEF EntryBoundary
  <2> QED
    BY <2>1, <2>2
<1> HIDE DEF next
<1>8. S \subseteq Nat /\ S # {}
  BY <1>3, <1>6
<1>9. Min(S) \in S /\ \A x \in S : Min(S) <= x
  BY <1>8, MinIsLeast
<1>10. \A x \in S : next <= x
  BY <1>3, <1>6
<1>11. Min(S) \in Nat /\ next <= Min(S) /\ Min(S) <= next
  BY <1>7, <1>8, <1>9, <1>10
<1>12. Min(S) = next
  BY <1>3, <1>11
<1> QED
  BY <1>5, <1>12 DEF next

\* An entry that can be bound ends, by the tables, where its binding range does.
LEMMA EndsAre ==
  ASSUME NEW b, NEW l, NEW hs, Laid(b, l, hs), AllBound(b, l),
         NEW i \in 1 .. Len(l.entries)
  PROVE  /\ LocalOf(b, l.entries[i]) = From(b, l, i)
         /\ EntryEnd(b, l.entries[i]) = To(b, l, i)
<1> DEFINE h    == l.entries[i]
           lh   == LocalOffset(b, h)
           end  == ContentRange(b, l, i).value.end
           sig  == ReadU32(b, end) = DATA_DESCRIPTOR_SIG
           f    == ReadU16(b, h + 8)
           next == EntryBoundary(b, l, i)
           to   == To(b, l, i)
           x    == ReadU16(b, lh + 26)
           y    == ReadU16(b, lh + 28)
           z    == ReadU32(b, h + 20)
<1>1. GoodHeader(b, l.cdStart, l.eocd, h) /\ BindingRange(b, l, i).verdict = "ok"
  BY EntryFacts DEF AllBound
<1>2. LocalOf(b, h) = lh
  BY <1>1, HeaderReads
<1>3. /\ ContentRange(b, l, i).verdict = "ok"
      /\ to \in Nat /\ to <= next
      /\ to = end + (IF (f \div 8) % 2 = 1 THEN IF sig THEN 16 ELSE 12 ELSE 0)
  BY <1>1, BindingFacts DEF To
<1>4. end \in Nat /\ end = lh + 30 + x + y + z
  BY <1>3, ContentFacts
<1>5. /\ lh \in Nat /\ next \in Nat /\ l.cdStart <= Len(b)
      /\ l.cdStart \in Nat /\ Len(b) \in Nat /\ b \in Seq(Octet) /\ h \in Nat
      /\ h + 46 <= Len(b) /\ z \in Nat /\ f \in Nat
  <2>1. /\ lh \in Nat /\ next \in Nat /\ l.cdStart <= Len(b)
        /\ l.cdStart \in Nat /\ Len(b) \in Nat
    BY BoundaryFacts
  <2>2. b \in Seq(Octet)
    BY DEF Laid, EndsAt
  <2>3. h \in Nat /\ h + 46 <= Len(b) /\ z \in Nat
    BY <1>1 DEF GoodHeader
  <2>4. h + 8 \in Nat /\ (h + 8) + 2 <= Len(b)
    <3>1. \A u, v \in Nat : u + 46 <= v => u + 8 \in Nat /\ (u + 8) + 2 <= v
      OBVIOUS
    <3> HIDE DEF h, z
    <3> QED
      BY <2>1, <2>3, <3>1
  <2>5. f \in Nat
    BY <2>2, <2>4, ReadType
  <2> QED
    BY <2>1, <2>2, <2>3, <2>5
<1>6. x \in Nat /\ y \in Nat
  <2>1. lh + 30 <= Len(b)
    <3>1. /\ ContentRange(b, l, i).value.start \in Nat
          /\ lh + 30 <= ContentRange(b, l, i).value.start
          /\ ContentRange(b, l, i).value.start <= end /\ end <= next
      BY <1>3, ContentFacts
    <3>2. next <= l.cdStart
      BY BoundaryFacts
    <3>3. \A u, s, e, m, d, w \in Nat :
            u + 30 <= s /\ s <= e /\ e <= m /\ m <= d /\ d <= w => u + 30 <= w
      OBVIOUS
    <3> DEFINE start == ContentRange(b, l, i).value.start
    <3>4. start \in Nat /\ end \in Nat /\ lh + 30 <= start /\ start <= end /\ end <= next
      BY <1>4, <3>1
    <3> HIDE DEF end, next, lh, start
    <3> QED
      BY <1>5, <3>2, <3>3, <3>4
  <2>2. /\ lh + 26 \in Nat /\ (lh + 26) + 2 <= Len(b)
        /\ lh + 28 \in Nat /\ (lh + 28) + 2 <= Len(b)
    <3> HIDE DEF lh, next, h, z, f
    <3> QED
      BY <1>5, <2>1
  <2> QED
    BY <1>5, <2>2, ReadType
<1>7. DataEnd(b, h) = lh + (30 + x) + y + z
  BY <1>2, TableReads, LocalFields DEF DataEnd, LocalSize
<1>8. DataEnd(b, h) = end
  <2> HIDE DEF lh, end, x, y, z
  <2> QED
    BY <1>4, <1>5, <1>6, <1>7
<1>9. NextOf(b, h) = next
  BY NextIsBoundary
<1>10. WordsOf(b, h) = IF (f \div 8) % 2 = 0 THEN 0
                       ELSE IF sig /\ end + 16 <= next THEN 4 ELSE 3
  BY <1>8, <1>9, TableReads DEF WordsOf
<1>11. EntryEnd(b, h) = end + 4 * WordsOf(b, h)
  BY <1>8 DEF EntryEnd
<1> DEFINE bit == (f \div 8) % 2
           words == WordsOf(b, h)
<1> HIDE DEF end, next, sig, f, to, h, x, y, z, lh
<1>12. bit \in {0, 1}
  BY <1>5
<1>13. EntryEnd(b, h) = to
  <2>1. /\ to = end + (IF bit = 1 THEN IF sig THEN 16 ELSE 12 ELSE 0)
        /\ words = IF bit = 0 THEN 0 ELSE IF sig /\ end + 16 <= next THEN 4 ELSE 3
    BY <1>3, <1>10
  <2> HIDE DEF bit, words
  <2>2. CASE bit = 0
    <3>1. to = end + 0 /\ words = 0
      BY <2>1, <2>2
    <3> QED
      BY <1>4, <1>11, <3>1 DEF words
  <2>3. CASE bit = 1 /\ sig
    <3>1. to = end + 16 /\ end + 16 <= next
      BY <1>3, <2>1, <2>3
    <3>2. words = 4
      BY <2>1, <2>3, <3>1
    <3> QED
      BY <1>4, <1>11, <3>1, <3>2 DEF words
  <2>4. CASE bit = 1 /\ ~sig
    <3>1. to = end + 12 /\ words = 3
      BY <2>1, <2>4
    <3> QED
      BY <1>4, <1>11, <3>1 DEF words
  <2> QED
    BY <1>12, <2>2, <2>3, <2>4
<1> QED
  BY <1>2, <1>13 DEF From, to, h, lh

\* The positions of the members, all entries but those of the manifest.
Members(b, l) == {i \in 1 .. Len(l.entries) : NameOf(b, l.entries[i]) # ZIP_MANIFEST_PATH}

\* A number that fits in 32 bits is itself as u32.
LEMMA AsU32Is ==
  ASSUME NEW n \in Nat, n <= U32Max
  PROVE  AsU32(n) = n
<1>1. U32Max \in Int
  BY BaseFacts DEF U32Max
<1>2. \A x \in Nat, m \in Int : x <= m => x % (m + 1) = x
  OBVIOUS
<1> HIDE DEF U32Max
<1> QED
  BY <1>1, <1>2 DEF AsU32

\* A host program is given the range the crate has.
LEMMA SliceFacts ==
  ASSUME NEW host \in Hosts, NEW b, Addressable(host, b), Len(b) \in Nat,
         NEW range, range.start \in Nat, range.end \in Nat,
         range.start <= range.end, range.end <= Len(b)
  PROVE  /\ Slice(host, range).start = range.start
         /\ Slice(host, range).length = range.end - range.start
<1> DEFINE length == range.end - range.start
<1>1. length \in Nat /\ length <= Len(b)
  OBVIOUS
<1>2. CASE host = "python"
  BY <1>2 DEF Slice
<1>3. CASE host = "js"
  <2>1. U32Max \in Int /\ Len(b) <= U32Max
    BY <1>3, BaseFacts DEF Addressable, U32Max
  <2> HIDE DEF U32Max, length
  <2>2. length <= U32Max /\ range.start <= U32Max
    BY <1>1, <2>1
  <2>3. AsU32(range.start) = range.start /\ AsU32(length) = length
    BY <1>1, <2>2, AsU32Is
  <2>4. Slice(host, range) = [start |-> AsU32(range.start), length |-> AsU32(length)]
    BY <1>3 DEF Slice, length
  <2> QED
    BY <2>3, <2>4 DEF length
<1> QED
  BY <1>2, <1>3 DEF Hosts

\* A collection is hashed only of an archive all of whose entries can be bound,
\* and its members are the binding ranges of all but the manifest's.
LEMMA MemberFacts ==
  ASSUME NEW b \in Seq(Octet), CollectionMembers(b).verdict = "ok"
  PROVE  LET l == Layout(b).value
         IN /\ Layout(b).verdict = "ok" /\ AllBound(b, l)
            /\ Cardinality(Members(b, l)) \in Nat
            /\ DOMAIN CollectionMembers(b).value = 1 .. Cardinality(Members(b, l))
            /\ \A k \in 1 .. Cardinality(Members(b, l)) :
                 CollectionMembers(b).value[k].content
                   = BindingRange(b, l, Nth(Members(b, l), k)).value
<1> DEFINE l == Layout(b).value
           n == Len(l.entries)
           member(i) == MemberRange(b, l, i)
           results == [i \in DOMAIN l.entries |-> member(i)]
           collected == Collect(results)
           ms == collected.value
           all == CollectionMembers(b)
           P == Members(b, l)
<1>1. Layout(b).verdict = "ok"
  BY DEF CollectionMembers, Try
<1>2. all = IF collected.verdict = "ok"
            THEN Ok(Kept(ms, {i \in DOMAIN ms : ms[i].name # ZIP_MANIFEST_PATH}))
            ELSE collected
  BY <1>1 DEF CollectionMembers, Try
<1>3. PICK hs : Laid(b, l, hs)
  BY <1>1, LayoutFacts
<1> HIDE DEF l
<1>4. n \in Nat /\ DOMAIN l.entries = 1 .. n
  BY <1>3, EntryFacts
<1> HIDE DEF all, n
<1>5. collected.verdict = "ok"
      /\ all = Ok(Kept(ms, {i \in DOMAIN ms : ms[i].name # ZIP_MANIFEST_PATH}))
  <2> HIDE DEF collected
  <2>1. all.verdict = "ok"
    BY DEF all
  <2> QED
    BY <1>2, <2>1
<1>6. DOMAIN results = 1 .. n /\ \A i \in 1 .. n : results[i] = member(i)
  BY <1>4
<1> HIDE DEF results, member
<1>7. /\ \A i \in 1 .. n : results[i].verdict = "ok"
      /\ ms = [i \in 1 .. n |-> results[i].value]
  BY <1>4, <1>5, <1>6, CollectFacts
<1> HIDE DEF collected, ms
<1>8. ASSUME NEW i \in 1 .. n
      PROVE  /\ BindingRange(b, l, i).verdict = "ok"
             /\ ms[i].name = NameOf(b, l.entries[i])
             /\ ms[i].content = BindingRange(b, l, i).value
  <2>1. member(i).verdict = "ok" /\ ms[i] = member(i).value
    BY <1>6, <1>7
  <2>2. member(i) = IF NameOf(b, l.entries[i]) \in DotNames THEN Err("InvalidMemberPath")
                    ELSE IF BindingRange(b, l, i).verdict = "ok"
                    THEN Ok([name |-> NameOf(b, l.entries[i]),
                             content |-> BindingRange(b, l, i).value])
                    ELSE BindingRange(b, l, i)
    BY DEF member, MemberRange, Try
  <2>3. Err("InvalidMemberPath").verdict # "ok"
    BY DEF Err
  <2>4. /\ BindingRange(b, l, i).verdict = "ok"
        /\ member(i) = Ok([name |-> NameOf(b, l.entries[i]),
                           content |-> BindingRange(b, l, i).value])
    BY <2>1, <2>2, <2>3
  <2>5. member(i).value = [name |-> NameOf(b, l.entries[i]),
                           content |-> BindingRange(b, l, i).value]
    BY <2>4 DEF Ok
  <2> QED
    BY <2>1, <2>4, <2>5
<1>9. {i \in DOMAIN ms : ms[i].name # ZIP_MANIFEST_PATH} = P
  <2>1. DOMAIN ms = 1 .. n
    BY <1>7
  <2>2. P = {i \in 1 .. n : NameOf(b, l.entries[i]) # ZIP_MANIFEST_PATH}
    BY DEF Members, n
  <2> QED
    BY <1>8, <2>1, <2>2
<1>10. all.value = Kept(ms, P)
  BY <1>5, <1>9 DEF Ok
<1>11. PositionsIn(P, n)
  BY DEF PositionsIn, Members, n
<1> HIDE DEF P
<1>12. /\ Cardinality(P) \in Nat
       /\ Kept(ms, P) = [k \in 1 .. Cardinality(P) |-> ms[Nth(P, k)]]
       /\ \A k \in 1 .. Cardinality(P) : Nth(P, k) \in 1 .. n
  <2>1. /\ Cardinality(P) \in Nat
        /\ Kept(ms, P) = [k \in 1 .. Cardinality(P) |-> ms[Nth(P, k)]]
        /\ \A k \in 1 .. Cardinality(P) : Nth(P, k) \in P
    BY <1>4, <1>11, KeptFacts
  <2> QED
    BY <1>11, <2>1 DEF PositionsIn
<1>13. \A k \in 1 .. Cardinality(P) :
         all.value[k].content = BindingRange(b, l, Nth(P, k)).value
  BY <1>8, <1>10, <1>12
<1>14. AllBound(b, l)
  BY <1>8 DEF AllBound, n
<1>15. DOMAIN all.value = 1 .. Cardinality(P)
  BY <1>10, <1>12
<1> QED
  BY <1>1, <1>12, <1>13, <1>14, <1>15 DEF l, P, all

\* The manifest is read from the first of its headers in archive order, where
\* the layout has it.
LEMMA ManifestFirst ==
  ASSUME NEW b, NEW l, NEW hs, Laid(b, l, hs)
  PROVE  LET i == Position(b, l, ZIP_MANIFEST_PATH)
         IN /\ i = 0 => ManifestHeaders(b) = <<>>
            /\ i # 0 => /\ i \in 1 .. Len(l.entries)
                        /\ ManifestHeaders(b) # <<>>
                        /\ ManifestHeaders(b)[1] = l.entries[i]
<1> DEFINE n == Len(l.entries)
           P == {k \in 1 .. n : NameOf(b, l.entries[k]) = ZIP_MANIFEST_PATH}
           i == Position(b, l, ZIP_MANIFEST_PATH)
           kept == ManifestHeaders(b)
<1>1. /\ l.entries \in Seq(Nat) /\ n \in Nat /\ DOMAIN l.entries = 1 .. n
      /\ \A k \in 1 .. n : NameIn(b, l.entries[k]) = NameOf(b, l.entries[k])
      /\ ByOffset(b, HeadersOf(b)) = l.entries
  <2>1. /\ l.entries \in Seq(Nat) /\ DOMAIN l.entries = 1 .. n
        /\ \A k \in 1 .. n : GoodHeader(b, l.cdStart, l.eocd, l.entries[k])
    BY EntryFacts
  <2>2. ByOffset(b, HeadersOf(b)) = l.entries
    BY HeadersAre DEF Laid
  <2> QED
    BY <2>1, <2>2, HeaderReads
<1>2. kept = Kept(l.entries, P)
  <2>1. kept = Kept(l.entries, {k \in DOMAIN l.entries :
                                  NameIn(b, l.entries[k]) = ZIP_MANIFEST_PATH})
    BY <1>1 DEF ManifestHeaders
  <2>2. {k \in DOMAIN l.entries : NameIn(b, l.entries[k]) = ZIP_MANIFEST_PATH} = P
    BY <1>1
  <2> QED
    BY <2>1, <2>2
<1>3. /\ i \in 0 .. n
      /\ i = 0 => \A k \in 1 .. n : NameOf(b, l.entries[k]) # ZIP_MANIFEST_PATH
      /\ i # 0 => /\ NameOf(b, l.entries[i]) = ZIP_MANIFEST_PATH
                  /\ \A k \in 1 .. n : NameOf(b, l.entries[k]) = ZIP_MANIFEST_PATH => i <= k
  BY <1>1, PositionFacts
<1> HIDE DEF i, kept
<1>4. i # 0 => i \in P /\ \A k \in P : i <= k
  BY <1>1, <1>3
<1>5. i = 0 => P = {}
  BY <1>3
<1>6. PositionsIn(P, n)
  BY DEF PositionsIn
<1>7. P \subseteq Nat
  BY <1>1
<1> HIDE DEF P, n
<1>8. /\ IsFiniteSet(P) /\ Cardinality(P) \in Nat
      /\ kept = [k \in 1 .. Cardinality(P) |-> l.entries[Nth(P, k)]]
      /\ \A k \in 1 .. Cardinality(P) : Nth(P, k) \in P
      /\ \A j \in P : \E k \in 1 .. Cardinality(P) : Nth(P, k) = j
      /\ \A j, k \in 1 .. Cardinality(P) : j < k => Nth(P, j) < Nth(P, k)
  <2>1. /\ IsFiniteSet(P) /\ Cardinality(P) \in Nat
        /\ \A s : Kept(s, P) = [k \in 1 .. Cardinality(P) |-> s[Nth(P, k)]]
        /\ \A k \in 1 .. Cardinality(P) : Nth(P, k) \in P
        /\ \A j \in P : \E k \in 1 .. Cardinality(P) : Nth(P, k) = j
        /\ \A j, k \in 1 .. Cardinality(P) : j < k => Nth(P, j) < Nth(P, k)
    BY <1>1, <1>6, KeptFacts
  <2> QED
    BY <1>2, <2>1
<1>9. CASE i = 0
  <2>1. Cardinality(P) = 0
    BY <1>5, <1>9, FS_EmptySet
  <2>2. kept = <<>>
    BY <1>8, <2>1
  <2> QED
    BY <1>9, <2>2 DEF i, kept
<1>10. CASE i # 0
  <2>1. PICK k \in 1 .. Cardinality(P) : Nth(P, k) = i
    BY <1>4, <1>8, <1>10
  <2>2. 1 \in 1 .. Cardinality(P)
    BY <1>8, <2>1
  <2>3. Nth(P, 1) \in P /\ i <= Nth(P, 1)
    BY <1>4, <1>8, <1>10, <2>2
  <2>4. k = 1
    <3>1. CASE k # 1
      <4>1. 1 < k
        BY <1>8, <2>1, <3>1
      <4>2. Nth(P, 1) < i
        BY <1>8, <2>1, <2>2, <4>1
      <4>3. Nth(P, 1) \in Nat /\ i \in Nat
        <5>1. \A x \in P : x \in Nat
          BY <1>7
        <5>2. i \in Nat
          BY <1>1, <1>3
        <5> QED
          BY <2>3, <5>1, <5>2
      <4> QED
        BY <2>3, <4>2, <4>3
    <3> QED
      BY <3>1
  <2>5. kept # <<>> /\ kept[1] = l.entries[i]
    BY <1>8, <2>1, <2>2, <2>4
  <2>6. i \in 1 .. n
    BY <1>3, <1>10
  <2> QED
    BY <1>10, <2>5, <2>6 DEF i, n, kept
<1> QED
  BY <1>9, <1>10

\* The directory is hashed as one range, or as the two before and after the CRC
\* in the header of the manifest.
LEMMA SpanFacts ==
  ASSUME NEW b, Layout(b).verdict = "ok"
  PROVE  LET l == Layout(b).value
             i == Position(b, l, ZIP_MANIFEST_PATH)
         IN /\ CentralDirectoryRanges(b).verdict = "ok"
            /\ CentralDirectoryRanges(b).value =
                 IF i = 0 THEN <<Span(l.cdStart, Len(b))>>
                 ELSE <<Span(l.cdStart, l.entries[i] + 16),
                        Span(l.entries[i] + 16 + 4, Len(b))>>
<1> QED
  BY DEF CentralDirectoryRanges, Try, Ok, DirectorySpans, CrcInDirectory

\* A set with no two elements has one or none.
LEMMA OneOrNone ==
  ASSUME NEW S, \A x, y \in S : x = y
  PROVE  Cardinality(S) = IF S = {} THEN 0 ELSE 1
<1>1. CASE S = {}
  BY <1>1, FS_EmptySet
<1>2. CASE S # {}
  <2>1. PICK x \in S : TRUE
    BY <1>2
  <2>2. S = {x}
    BY <2>1
  <2>3. Cardinality({x}) = 1
    BY FS_Singleton
  <2> QED
    BY <1>2, <2>2, <2>3
<1> QED
  BY <1>1, <1>2

\* Where the CRC lies in the header the manifest is read from.
CrcOf(b, l) == l.entries[Position(b, l, ZIP_MANIFEST_PATH)] + 16

\* A byte of the directory or the EOCD that is to be hashed.
InDirectory(b, l, p) ==
  /\ l.cdStart <= p
  /\ Position(b, l, ZIP_MANIFEST_PATH) = 0 \/ p < CrcOf(b, l) \/ CrcOf(b, l) + 4 <= p

\* The CRC of the manifest lies in the directory.
LEMMA CrcInside ==
  ASSUME NEW b, NEW l, NEW hs, Laid(b, l, hs), Position(b, l, ZIP_MANIFEST_PATH) # 0
  PROVE  /\ CrcOf(b, l) \in Nat /\ l.cdStart \in Nat /\ Len(b) \in Nat
         /\ l.cdStart <= CrcOf(b, l) /\ CrcOf(b, l) + 4 <= Len(b)
<1> DEFINE i == Position(b, l, ZIP_MANIFEST_PATH)
           h == l.entries[i]
<1>1. i \in 1 .. Len(l.entries)
  BY ManifestFirst
<1>2. h \in Nat /\ l.cdStart <= h /\ h + 46 <= l.eocd
  BY <1>1, HeadersInDirectory
<1>3. /\ l.cdStart \in Nat /\ l.eocd \in Nat /\ l.eocd + 22 <= Len(b)
      /\ b \in Seq(Octet)
  BY DEF Laid, EndsAt
<1>4. Len(b) \in Nat
  BY <1>3
<1>5. CrcOf(b, l) = h + 16
  BY DEF CrcOf
<1> HIDE DEF h
<1> QED
  BY <1>2, <1>3, <1>4, <1>5

\* What is to be hashed, in terms of the layout: what the tables of the format
\* say of entries and headers is what parse_layout found.
LEMMA ToBeHashedIs ==
  ASSUME NEW b, NEW l, NEW hs, Laid(b, l, hs), AllBound(b, l),
         NEW p \in Nat, p < Len(b)
  PROVE  p \in ToBeHashed(b) <=>
           \/ \E i \in Members(b, l) : From(b, l, i) <= p /\ p < To(b, l, i)
           \/ InDirectory(b, l, p)
<1> DEFINE n     == Len(l.entries)
           pos   == Position(b, l, ZIP_MANIFEST_PATH)
           crc   == CrcOf(b, l)
           dir   == CdStartOf(b) .. Len(b) - 1
           ours  == {h \in ToSet(HeadersOf(b)) : NameIn(b, h) # ZIP_MANIFEST_PATH}
           cover(h) == LocalOf(b, h) .. EntryEnd(b, h) - 1
           bytes == UNION {cover(h) : h \in ours}
           left  == IF ManifestHeaders(b) = <<>> THEN {}
                    ELSE LET at == ManifestHeaders(b)[1] + Start.central.crc IN at .. at + 3
<1>1. ToBeHashed(b) = (dir \ left) \cup bytes
  BY DEF ToBeHashed
<1>2. /\ CdStartOf(b) = l.cdStart /\ ToSet(HeadersOf(b)) = ToSet(l.entries)
      /\ DOMAIN l.entries = 1 .. n
      /\ \A i \in 1 .. n : NameIn(b, l.entries[i]) = NameOf(b, l.entries[i])
  <2>1. /\ DOMAIN l.entries = 1 .. n
        /\ \A i \in 1 .. n : GoodHeader(b, l.cdStart, l.eocd, l.entries[i])
        /\ ToSet(l.entries) = ToSet(hs)
    BY EntryFacts
  <2>2. HeadersOf(b) = hs /\ CdStartOf(b) = l.cdStart
    BY HeadersAre
  <2> QED
    BY <2>1, <2>2, HeaderReads
<1>3. l.cdStart \in Nat /\ Len(b) \in Nat
  <2>1. l.cdStart \in Nat /\ b \in Seq(Octet)
    BY DEF Laid, EndsAt
  <2> QED
    BY <2>1
<1>4. \A i \in 1 .. n : From(b, l, i) \in Nat /\ To(b, l, i) \in Nat
  BY Disjoint
<1>5. \A h : h \in ours <=> \E i \in Members(b, l) : h = l.entries[i]
  <2>1. \A h : h \in ToSet(l.entries) <=> \E i \in 1 .. n : h = l.entries[i]
    BY <1>2 DEF ToSet
  <2>2. \A h : h \in ours <=> h \in ToSet(l.entries) /\ NameIn(b, h) # ZIP_MANIFEST_PATH
    BY <1>2
  <2>3. \A i : i \in Members(b, l) <=>
                 i \in 1 .. n /\ NameOf(b, l.entries[i]) # ZIP_MANIFEST_PATH
    BY DEF Members
  <2> HIDE DEF ours, n
  <2> QED
    BY <1>2, <2>1, <2>2, <2>3
<1>6. p \in bytes <=> \E h \in ours : p \in cover(h)
  OBVIOUS
<1>7. ASSUME NEW i \in Members(b, l)
      PROVE  p \in cover(l.entries[i]) <=> From(b, l, i) <= p /\ p < To(b, l, i)
  <2>1. i \in 1 .. n
    BY DEF Members
  <2>2. LocalOf(b, l.entries[i]) = From(b, l, i) /\ EntryEnd(b, l.entries[i]) = To(b, l, i)
    BY <2>1, EndsAre
  <2>3. From(b, l, i) \in Nat /\ To(b, l, i) \in Nat
    BY <1>4, <2>1
  <2>4. \A x, y \in Nat : p \in x .. y - 1 <=> x <= p /\ p < y
    OBVIOUS
  <2> QED
    BY <2>2, <2>3, <2>4
<1> HIDE DEF ours, cover, bytes
<1>8. p \in bytes <=> \E i \in Members(b, l) : From(b, l, i) <= p /\ p < To(b, l, i)
  BY <1>5, <1>6, <1>7
<1>9. p \in dir <=> l.cdStart <= p
  <2>1. dir = l.cdStart .. Len(b) - 1
    BY <1>2
  <2> HIDE DEF dir
  <2> QED
    BY <1>3, <2>1
<1>10. p \in left <=> pos # 0 /\ ~(p < crc \/ crc + 4 <= p)
  <2>1. CASE pos = 0
    <3>1. ManifestHeaders(b) = <<>>
      BY <2>1, ManifestFirst
    <3>2. left = {}
      BY <3>1
    <3> QED
      BY <2>1, <3>2
  <2>2. CASE pos # 0
    <3>1. ManifestHeaders(b) # <<>> /\ ManifestHeaders(b)[1] = l.entries[pos]
      BY <2>2, ManifestFirst
    <3>2. left = crc .. crc + 3
      BY <3>1, CentralFields DEF CrcOf
    <3>3. crc \in Nat
      BY <2>2, CrcInside
    <3> HIDE DEF left, crc, pos
    <3> QED
      BY <2>2, <3>2, <3>3
  <2> QED
    BY <2>1, <2>2
<1> HIDE DEF dir, left, crc
<1> QED
  BY <1>1, <1>8, <1>9, <1>10 DEF InDirectory, crc, pos

\* The slices a host program is given, members first.
SlicesOf(host, b) == HostMembers(host, b).value \o HostDirectoryRanges(host, b).value

\* Slice k covers the bytes from lo[k] up to hi[k], and the slices follow one
\* another.
Cuts(slices, n, lo, hi) ==
  /\ n \in Nat /\ DOMAIN slices = 1 .. n
  /\ lo \in [1 .. n -> Nat] /\ hi \in [1 .. n -> Nat]
  /\ \A k \in 1 .. n : /\ lo[k] <= hi[k]
                       /\ slices[k].start = lo[k] /\ slices[k].length = hi[k] - lo[k]
  /\ \A j, k \in 1 .. n : j < k => hi[j] <= lo[k]

\* The number of slices that cover a byte is one or none.
LEMMA CutsCover ==
  ASSUME NEW slices, NEW n, NEW lo, NEW hi, Cuts(slices, n, lo, hi), NEW p \in Nat
  PROVE  Cardinality({k \in DOMAIN slices :
                        p \in slices[k].start .. slices[k].start + slices[k].length - 1})
           = IF \E k \in 1 .. n : lo[k] <= p /\ p < hi[k] THEN 1 ELSE 0
<1> DEFINE hits == {k \in DOMAIN slices :
                      p \in slices[k].start .. slices[k].start + slices[k].length - 1}
<1>1. /\ n \in Nat /\ DOMAIN slices = 1 .. n
      /\ \A k \in 1 .. n : /\ lo[k] \in Nat /\ hi[k] \in Nat
                           /\ slices[k].start = lo[k]
                           /\ slices[k].length = hi[k] - lo[k]
      /\ \A j, k \in 1 .. n : j < k => hi[j] <= lo[k]
  BY DEF Cuts
<1>2. ASSUME NEW k \in 1 .. n
      PROVE  p \in slices[k].start .. slices[k].start + slices[k].length - 1
               <=> lo[k] <= p /\ p < hi[k]
  <2>1. \A x, y \in Nat : p \in x .. x + (y - x) - 1 <=> x <= p /\ p < y
    OBVIOUS
  <2> QED
    BY <1>1, <2>1
<1>3. \A k : k \in hits <=> k \in 1 .. n /\ lo[k] <= p /\ p < hi[k]
  BY <1>1, <1>2
<1> HIDE DEF hits
<1>4. \A j, k \in hits : j = k
  <2>1. SUFFICES ASSUME NEW j \in hits, NEW k \in hits, j < k
                 PROVE  FALSE
    <3>1. \A j, k \in hits : j \in Int /\ k \in Int
      BY <1>1, <1>3
    <3>2. \A j, k \in Int : j < k \/ k < j \/ j = k
      OBVIOUS
    <3> QED
      BY <3>1, <3>2
  <2>2. /\ j \in 1 .. n /\ k \in 1 .. n /\ p < hi[j] /\ lo[k] <= p
    BY <1>3
  <2>3. hi[j] <= lo[k] /\ hi[j] \in Nat /\ lo[k] \in Nat
    BY <1>1, <2>1, <2>2
  <2> QED
    BY <2>2, <2>3
<1>5. Cardinality(hits) = IF hits = {} THEN 0 ELSE 1
  BY <1>4, OneOrNone
<1>6. hits = {} <=> ~(\E k \in 1 .. n : lo[k] <= p /\ p < hi[k])
  BY <1>3
<1> QED
  BY <1>5, <1>6 DEF hits

\* The number of members, of spans of the directory, and of slices.
MemberCount(b, l) == Cardinality(Members(b, l))
SpanCount(b, l) == IF Position(b, l, ZIP_MANIFEST_PATH) = 0 THEN 1 ELSE 2
SliceCount(b, l) == MemberCount(b, l) + SpanCount(b, l)

\* Where each slice begins and ends.
Lows(b, l) ==
  [k \in 1 .. SliceCount(b, l) |->
     IF k <= MemberCount(b, l) THEN From(b, l, Nth(Members(b, l), k))
     ELSE IF k = MemberCount(b, l) + 1 THEN l.cdStart
     ELSE CrcOf(b, l) + 4]
Highs(b, l) ==
  [k \in 1 .. SliceCount(b, l) |->
     IF k <= MemberCount(b, l) THEN To(b, l, Nth(Members(b, l), k))
     ELSE IF k = MemberCount(b, l) + 1 /\ SpanCount(b, l) = 2 THEN CrcOf(b, l)
     ELSE Len(b)]

\* The range that is sliced at k.
RangeAt(b, l, k) == Span(Lows(b, l)[k], Highs(b, l)[k])

\* The members in their order, and the bounds of their ranges.
LEMMA MembersAscend ==
  ASSUME NEW b, NEW l, NEW hs, Laid(b, l, hs), AllBound(b, l)
  PROVE  /\ MemberCount(b, l) \in Nat
         /\ \A k \in 1 .. MemberCount(b, l) :
              LET i == Nth(Members(b, l), k)
              IN /\ i \in Members(b, l)
                 /\ From(b, l, i) \in Nat /\ To(b, l, i) \in Nat
                 /\ From(b, l, i) < To(b, l, i) /\ To(b, l, i) <= l.cdStart
                 /\ BindingRange(b, l, i).value.start = From(b, l, i)
         /\ \A i \in Members(b, l) :
              \E k \in 1 .. MemberCount(b, l) : Nth(Members(b, l), k) = i
         /\ \A j, k \in 1 .. MemberCount(b, l) :
              j < k => To(b, l, Nth(Members(b, l), j)) <= From(b, l, Nth(Members(b, l), k))
<1> DEFINE n == Len(l.entries)
           P == Members(b, l)
           m == MemberCount(b, l)
<1>1. /\ n \in Nat /\ l.cdStart \in Nat
      /\ \A i \in 1 .. n :
           /\ From(b, l, i) \in Nat /\ To(b, l, i) \in Nat
           /\ EntryBoundary(b, l, i) \in Nat
           /\ From(b, l, i) < To(b, l, i) /\ To(b, l, i) <= EntryBoundary(b, l, i)
           /\ EntryBoundary(b, l, i) <= l.cdStart
           /\ BindingRange(b, l, i).value.start = From(b, l, i)
      /\ \A i, j \in 1 .. n : i < j => To(b, l, i) <= From(b, l, j)
  BY Disjoint
<1>2. PositionsIn(P, n) /\ P \subseteq 1 .. n
  BY DEF PositionsIn, Members
<1>3. m = Cardinality(P)
  BY DEF MemberCount
<1> HIDE DEF n, P, m
<1>4. /\ m \in Nat
      /\ \A k \in 1 .. m : Nth(P, k) \in P
      /\ \A i \in P : \E k \in 1 .. m : Nth(P, k) = i
      /\ \A j, k \in 1 .. m : j < k => Nth(P, j) < Nth(P, k)
  BY <1>1, <1>2, <1>3, KeptFacts
<1>5. \A i \in 1 .. n : To(b, l, i) <= l.cdStart
  <2>1. \A x, y, z \in Nat : x <= y /\ y <= z => x <= z
    OBVIOUS
  <2> QED
    BY <1>1, <2>1
<1>6. \A k \in 1 .. m : Nth(P, k) \in 1 .. n
  BY <1>2, <1>4
<1>7. \A j, k \in 1 .. m : j < k => To(b, l, Nth(P, j)) <= From(b, l, Nth(P, k))
  BY <1>1, <1>4, <1>6
<1>8. \A k \in 1 .. m :
        /\ From(b, l, Nth(P, k)) \in Nat /\ To(b, l, Nth(P, k)) \in Nat
        /\ From(b, l, Nth(P, k)) < To(b, l, Nth(P, k))
        /\ To(b, l, Nth(P, k)) <= l.cdStart
        /\ BindingRange(b, l, Nth(P, k)).value.start = From(b, l, Nth(P, k))
  BY <1>1, <1>5, <1>6
<1> QED
  BY <1>4, <1>7, <1>8 DEF P, m

\* s is a sequence of length n.
Listed(s, n) == n \in Nat /\ s = [k \in 1 .. n |-> s[k]]

\* One sequence after another.
Join(s, t) == s \o t

\* The elements of two sequences joined.
LEMMA Joined ==
  ASSUME NEW s, NEW m, NEW t, NEW n, Listed(s, m), Listed(t, n)
  PROVE  /\ DOMAIN Join(s, t) = 1 .. m + n
         /\ \A k \in 1 .. m : Join(s, t)[k] = s[k]
         /\ \A k \in 1 .. n : Join(s, t)[m + k] = t[k]
<1> USE DEF Join
<1> DEFINE T == {s[k] : k \in 1 .. m} \cup {t[k] : k \in 1 .. n}
<1>1. m \in Nat /\ n \in Nat
  BY DEF Listed
<1>2. s \in Seq(T) /\ Len(s) = m
  <2>1. s \in [1 .. m -> T]
    BY DEF Listed
  <2> HIDE DEF T
  <2> QED
    BY <1>1, <2>1
<1>3. t \in Seq(T) /\ Len(t) = n
  <2>1. t \in [1 .. n -> T]
    BY DEF Listed
  <2> HIDE DEF T
  <2> QED
    BY <1>1, <2>1
<1> HIDE DEF T
<1>4. /\ s \o t \in Seq(T) /\ Len(s \o t) = m + n
      /\ \A i \in 1 .. m + n : (s \o t)[i] = IF i <= m THEN s[i] ELSE t[i - m]
  BY <1>2, <1>3, ConcatProperties
<1>5. DOMAIN (s \o t) = 1 .. m + n
  BY <1>4
<1>6. \A k \in 1 .. m : (s \o t)[k] = s[k]
  <2>1. \A k \in 1 .. m : k \in 1 .. m + n /\ k <= m
    BY <1>1
  <2> QED
    BY <1>4, <2>1
<1>7. \A k \in 1 .. n : (s \o t)[m + k] = t[k]
  <2>1. \A k \in 1 .. n : m + k \in 1 .. m + n /\ ~(m + k <= m) /\ (m + k) - m = k
    BY <1>1
  <2> QED
    BY <1>4, <2>1
<1> QED
  BY <1>5, <1>6, <1>7

\* The bounds of the slices are offsets, and follow one another up to the end of
\* the archive.
LEMMA BoundsAscend ==
  ASSUME NEW b, NEW l, NEW hs, Laid(b, l, hs), AllBound(b, l)
  PROVE  LET n == SliceCount(b, l)
         IN /\ n \in Nat
            /\ Lows(b, l) \in [1 .. n -> Nat] /\ Highs(b, l) \in [1 .. n -> Nat]
            /\ \A k \in 1 .. n : /\ Lows(b, l)[k] <= Highs(b, l)[k]
                                 /\ Highs(b, l)[k] <= Len(b)
            /\ \A j, k \in 1 .. n : j < k => Highs(b, l)[j] <= Lows(b, l)[k]
<1> DEFINE m    == MemberCount(b, l)
           s    == SpanCount(b, l)
           n    == SliceCount(b, l)
           crc  == CrcOf(b, l)
           cd   == l.cdStart
           end  == Len(b)
           at(k) == Nth(Members(b, l), k)
           a(k) == From(b, l, at(k))
           z(k) == To(b, l, at(k))
           lo   == Lows(b, l)
           hi   == Highs(b, l)
<1>1. /\ m \in Nat
      /\ \A k \in 1 .. m : a(k) \in Nat /\ z(k) \in Nat /\ a(k) < z(k) /\ z(k) <= cd
      /\ \A j, k \in 1 .. m : j < k => z(j) <= a(k)
  BY MembersAscend
<1>2. cd \in Nat /\ end \in Nat /\ cd <= end
  <2>1. cd \in Nat /\ l.eocd \in Nat /\ cd <= l.eocd /\ l.eocd + 22 <= end /\ b \in Seq(Octet)
    BY DEF Laid, EndsAt
  <2>2. end \in Nat
    BY <2>1
  <2> HIDE DEF cd, end
  <2> QED
    BY <2>1, <2>2
<1>3. s \in {1, 2}
  BY DEF SpanCount
<1>4. s = 2 => crc \in Nat /\ cd <= crc /\ crc + 4 <= end
  BY CrcInside DEF SpanCount
<1>5. n = m + s
  BY DEF SliceCount
<1>6. /\ lo = [k \in 1 .. n |-> IF k <= m THEN a(k) ELSE IF k = m + 1 THEN cd ELSE crc + 4]
      /\ hi = [k \in 1 .. n |-> IF k <= m THEN z(k)
                                ELSE IF k = m + 1 /\ s = 2 THEN crc ELSE end]
  BY DEF Lows, Highs
<1> HIDE DEF m, s, n, crc, cd, end, a, z, lo, hi
<1>7. n \in Nat
  BY <1>1, <1>3, <1>5
<1>8. \A k \in 1 .. n : \/ k \in 1 .. m
                        \/ ~(k <= m) /\ k = m + 1
                        \/ ~(k <= m) /\ k # m + 1 /\ k = m + 2 /\ s = 2
  BY <1>1, <1>3, <1>5
<1>9. \A k \in 1 .. n :
        /\ k \in 1 .. m => lo[k] = a(k) /\ hi[k] = z(k)
        /\ k = m + 1 => lo[k] = cd /\ hi[k] = IF s = 2 THEN crc ELSE end
        /\ k = m + 2 => lo[k] = crc + 4 /\ hi[k] = end
  <2>1. ASSUME NEW k \in 1 .. n
        PROVE  /\ k \in 1 .. m => lo[k] = a(k) /\ hi[k] = z(k)
               /\ k = m + 1 => lo[k] = cd /\ hi[k] = IF s = 2 THEN crc ELSE end
               /\ k = m + 2 => lo[k] = crc + 4 /\ hi[k] = end
    <3>1. /\ lo[k] = IF k <= m THEN a(k) ELSE IF k = m + 1 THEN cd ELSE crc + 4
          /\ hi[k] = IF k <= m THEN z(k) ELSE IF k = m + 1 /\ s = 2 THEN crc ELSE end
      BY <1>6
    <3>2. /\ k \in 1 .. m => k <= m
          /\ k = m + 1 => ~(k <= m)
          /\ k = m + 2 => ~(k <= m) /\ k # m + 1
      BY <1>1
    <3> QED
      BY <3>1, <3>2
  <2> QED
    BY <2>1
<1>10. ASSUME NEW k \in 1 .. n
       PROVE  lo[k] \in Nat /\ hi[k] \in Nat /\ lo[k] <= hi[k] /\ hi[k] <= end
  <2>1. CASE k \in 1 .. m
    <3>1. lo[k] = a(k) /\ hi[k] = z(k)
      BY <1>9, <2>1
    <3>2. a(k) \in Nat /\ z(k) \in Nat /\ a(k) < z(k) /\ z(k) <= cd
      BY <1>1, <2>1
    <3> QED
      BY <1>2, <3>1, <3>2
  <2>2. CASE k = m + 1
    <3>1. lo[k] = cd /\ hi[k] = IF s = 2 THEN crc ELSE end
      BY <1>9, <2>2
    <3> QED
      BY <1>2, <1>4, <3>1
  <2>3. CASE k = m + 2 /\ s = 2
    <3>1. lo[k] = crc + 4 /\ hi[k] = end
      BY <1>9, <2>3
    <3> QED
      BY <1>2, <1>4, <2>3, <3>1
  <2> QED
    BY <1>8, <2>1, <2>2, <2>3
<1>11. ASSUME NEW j \in 1 .. n, NEW k \in 1 .. n, j < k
       PROVE  hi[j] <= lo[k]
  <2>1. CASE j \in 1 .. m /\ k \in 1 .. m
    <3>1. hi[j] = z(j) /\ lo[k] = a(k)
      BY <1>9, <2>1
    <3> QED
      BY <1>1, <1>11, <2>1, <3>1
  <2>2. CASE j \in 1 .. m /\ ~(k \in 1 .. m)
    <3>1. hi[j] = z(j) /\ z(j) \in Nat /\ z(j) <= cd
      BY <1>1, <1>9, <2>2
    <3>2. CASE k = m + 1
      <4>1. lo[k] = cd
        BY <1>9, <3>2
      <4> QED
        BY <3>1, <4>1
    <3>3. CASE k = m + 2 /\ s = 2
      <4>1. lo[k] = crc + 4
        BY <1>9, <3>3
      <4> QED
        BY <1>2, <1>4, <3>1, <3>3, <4>1
    <3> QED
      BY <1>8, <2>2, <3>2, <3>3
  <2>3. CASE ~(j \in 1 .. m)
    <3>1. j = m + 1 /\ k = m + 2 /\ s = 2
      BY <1>1, <1>8, <1>11, <2>3
    <3>2. hi[j] = crc /\ lo[k] = crc + 4
      BY <1>9, <3>1
    <3> QED
      BY <1>4, <3>1, <3>2
  <2> QED
    BY <2>1, <2>2, <2>3
<1>12. lo \in [1 .. n -> Nat] /\ hi \in [1 .. n -> Nat]
  <2>1. DOMAIN lo = 1 .. n /\ DOMAIN hi = 1 .. n
    BY <1>6
  <2>2. lo = [k \in 1 .. n |-> lo[k]] /\ hi = [k \in 1 .. n |-> hi[k]]
    BY <1>6
  <2> QED
    BY <1>10, <2>2
<1> QED
  BY <1>7, <1>10, <1>11, <1>12 DEF n, lo, hi, end

\* A host program that is given the members of a collection is given slices
\* between those bounds.
LEMMA SlicesCut ==
  ASSUME NEW b \in Seq(Octet), NEW host \in Hosts, Addressable(host, b),
         HostMembers(host, b).kind = "value"
  PROVE  LET l == Layout(b).value
         IN /\ Layout(b).verdict = "ok" /\ AllBound(b, l)
            /\ Cuts(SlicesOf(host, b), SliceCount(b, l), Lows(b, l), Highs(b, l))
<1> DEFINE l     == Layout(b).value
           m     == MemberCount(b, l)
           s     == SpanCount(b, l)
           n     == SliceCount(b, l)
           lo    == Lows(b, l)
           hi    == Highs(b, l)
           members == CollectionMembers(b)
           spans == CentralDirectoryRanges(b)
           at(k) == Nth(Members(b, l), k)
           first == HostMembers(host, b).value
           rest  == HostDirectoryRanges(host, b).value
<1>1. /\ members.verdict = "ok"
      /\ first = [k \in DOMAIN members.value |-> Slice(host, members.value[k].content)]
  <2>1. HostMembers(host, b) =
          IF members.verdict = "ok"
          THEN Answer("value", [k \in DOMAIN members.value |->
                                  Slice(host, members.value[k].content)])
          ELSE Answer("exception", <<>>)
    BY DEF HostMembers, Host
  <2> HIDE DEF members
  <2>2. Answer("exception", <<>>).kind # "value"
    BY DEF Answer
  <2>3. HostMembers(host, b) =
          Answer("value", [k \in DOMAIN members.value |->
                             Slice(host, members.value[k].content)])
        /\ members.verdict = "ok"
    BY <2>1, <2>2
  <2> QED
    BY <2>3 DEF Answer
<1>2. /\ Layout(b).verdict = "ok" /\ AllBound(b, l)
      /\ DOMAIN members.value = 1 .. m
      /\ \A k \in 1 .. m : members.value[k].content = BindingRange(b, l, at(k)).value
  BY <1>1, MemberFacts DEF MemberCount
<1>3. PICK hs : Laid(b, l, hs)
  BY <1>2, LayoutFacts
<1>4. /\ spans.verdict = "ok"
      /\ spans.value = IF s = 1 THEN <<Span(l.cdStart, Len(b))>>
                       ELSE <<Span(l.cdStart, CrcOf(b, l)), Span(CrcOf(b, l) + 4, Len(b))>>
  <2>1. /\ spans.verdict = "ok"
        /\ spans.value = IF Position(b, l, ZIP_MANIFEST_PATH) = 0
                         THEN <<Span(l.cdStart, Len(b))>>
                         ELSE <<Span(l.cdStart, CrcOf(b, l)),
                                Span(CrcOf(b, l) + 4, Len(b))>>
    BY <1>2, SpanFacts DEF CrcOf
  <2>2. s = 1 <=> Position(b, l, ZIP_MANIFEST_PATH) = 0
    BY DEF SpanCount
  <2> HIDE DEF spans, s
  <2> QED
    BY <2>1, <2>2
<1>5. rest = [k \in DOMAIN spans.value |-> Slice(host, spans.value[k])]
  BY <1>4 DEF HostDirectoryRanges, Host, Answer
<1> HIDE DEF l, members, spans, first, rest
<1>6. /\ n \in Nat /\ lo \in [1 .. n -> Nat] /\ hi \in [1 .. n -> Nat]
      /\ \A k \in 1 .. n : lo[k] <= hi[k] /\ hi[k] <= Len(b)
      /\ \A j, k \in 1 .. n : j < k => hi[j] <= lo[k]
  BY <1>2, <1>3, BoundsAscend
<1>7. /\ m \in Nat
      /\ \A k \in 1 .. m : /\ BindingRange(b, l, at(k)).value.start = From(b, l, at(k))
                           /\ BindingRange(b, l, at(k)).value.end = To(b, l, at(k))
  <2>1. /\ m \in Nat
        /\ \A k \in 1 .. m : BindingRange(b, l, at(k)).value.start = From(b, l, at(k))
    BY <1>2, <1>3, MembersAscend
  <2> QED
    BY <2>1 DEF To
<1>8. s \in {1, 2} /\ n = m + s
  BY DEF SpanCount, SliceCount
<1>9. /\ \A k \in 1 .. m : lo[k] = From(b, l, at(k)) /\ hi[k] = To(b, l, at(k))
      /\ lo[m + 1] = l.cdStart /\ hi[m + 1] = IF s = 2 THEN CrcOf(b, l) ELSE Len(b)
      /\ s = 2 => lo[m + 2] = CrcOf(b, l) + 4 /\ hi[m + 2] = Len(b)
  <2>1. /\ lo = [k \in 1 .. n |-> IF k <= m THEN From(b, l, at(k))
                                  ELSE IF k = m + 1 THEN l.cdStart ELSE CrcOf(b, l) + 4]
        /\ hi = [k \in 1 .. n |-> IF k <= m THEN To(b, l, at(k))
                                  ELSE IF k = m + 1 /\ s = 2 THEN CrcOf(b, l) ELSE Len(b)]
    BY DEF Lows, Highs
  <2> HIDE DEF lo, hi, m, n, s, at
  <2>2. /\ \A k \in 1 .. m : k \in 1 .. n /\ k <= m
        /\ m + 1 \in 1 .. n /\ ~(m + 1 <= m)
        /\ s = 2 => m + 2 \in 1 .. n /\ ~(m + 2 <= m) /\ m + 2 # m + 1
    BY <1>7, <1>8
  <2> QED
    BY <2>1, <2>2
<1> HIDE DEF lo, hi, m, n, s, at
<1>10. ASSUME NEW k \in 1 .. n, NEW range, range.start = lo[k], range.end = hi[k]
       PROVE  /\ Slice(host, range).start = lo[k]
              /\ Slice(host, range).length = hi[k] - lo[k]
  <2>1. lo[k] \in Nat /\ hi[k] \in Nat /\ lo[k] <= hi[k] /\ hi[k] <= Len(b)
    BY <1>6
  <2>2. Len(b) \in Nat
    OBVIOUS
  <2> QED
    BY <1>10, <2>1, <2>2, SliceFacts
<1>11. Listed(first, m)
  BY <1>1, <1>2, <1>7 DEF Listed
<1>12. \A k \in 1 .. m : /\ first[k].start = lo[k]
                         /\ first[k].length = hi[k] - lo[k]
  <2>1. SUFFICES ASSUME NEW k \in 1 .. m
                 PROVE  first[k].start = lo[k] /\ first[k].length = hi[k] - lo[k]
    OBVIOUS
  <2> DEFINE range == BindingRange(b, l, at(k)).value
  <2>2. first[k] = Slice(host, range)
    BY <1>1, <1>2
  <2>3. range.start = lo[k] /\ range.end = hi[k]
    BY <1>7, <1>9
  <2>4. k \in 1 .. n
    BY <1>7, <1>8
  <2> HIDE DEF range
  <2> QED
    BY <1>10, <2>2, <2>3, <2>4
<1>13. /\ DOMAIN spans.value = 1 .. s
       /\ \A k \in 1 .. s : /\ spans.value[k].start = lo[m + k]
                            /\ spans.value[k].end = hi[m + k]
  <2>1. CASE s = 1
    <3>1. spans.value = <<Span(l.cdStart, Len(b))>>
      BY <1>4, <2>1
    <3>2. DOMAIN spans.value = 1 .. 1 /\ spans.value[1] = Span(l.cdStart, Len(b))
      BY <3>1
    <3>3. lo[m + 1] = l.cdStart /\ hi[m + 1] = Len(b)
      BY <1>9, <2>1
    <3>4. spans.value[1].start = lo[m + 1] /\ spans.value[1].end = hi[m + 1]
      BY <3>2, <3>3 DEF Span
    <3>5. \A k \in 1 .. 1 : k = 1
      OBVIOUS
    <3> QED
      BY <2>1, <3>2, <3>4, <3>5
  <2>2. CASE s = 2
    <3>1. spans.value = <<Span(l.cdStart, CrcOf(b, l)), Span(CrcOf(b, l) + 4, Len(b))>>
      BY <1>4, <2>2
    <3>2. /\ DOMAIN spans.value = 1 .. 2
          /\ spans.value[1] = Span(l.cdStart, CrcOf(b, l))
          /\ spans.value[2] = Span(CrcOf(b, l) + 4, Len(b))
      BY <3>1
    <3>3. /\ lo[m + 1] = l.cdStart /\ hi[m + 1] = CrcOf(b, l)
          /\ lo[m + 2] = CrcOf(b, l) + 4 /\ hi[m + 2] = Len(b)
      BY <1>9, <2>2
    <3>4. /\ spans.value[1].start = lo[m + 1] /\ spans.value[1].end = hi[m + 1]
          /\ spans.value[2].start = lo[m + 2] /\ spans.value[2].end = hi[m + 2]
      BY <3>2, <3>3 DEF Span
    <3>5. \A k \in 1 .. 2 : k = 1 \/ k = 2
      OBVIOUS
    <3> QED
      BY <2>2, <3>2, <3>4, <3>5
  <2> QED
    BY <1>8, <2>1, <2>2
<1>14. Listed(rest, s)
  BY <1>5, <1>8, <1>13 DEF Listed
<1>15. \A k \in 1 .. s : /\ rest[k].start = lo[m + k]
                         /\ rest[k].length = hi[m + k] - lo[m + k]
  <2>1. SUFFICES ASSUME NEW k \in 1 .. s
                 PROVE  /\ rest[k].start = lo[m + k]
                        /\ rest[k].length = hi[m + k] - lo[m + k]
    OBVIOUS
  <2> DEFINE range == spans.value[k]
             i == m + k
  <2>2. rest[k] = Slice(host, range)
    BY <1>5, <1>13
  <2>3. range.start = lo[i] /\ range.end = hi[i]
    BY <1>13
  <2>4. i \in 1 .. n
    BY <1>7, <1>8
  <2> HIDE DEF range, i
  <2>5. Slice(host, range).start = lo[i] /\ Slice(host, range).length = hi[i] - lo[i]
    BY <1>10, <2>3, <2>4
  <2> QED
    BY <2>2, <2>5 DEF i
<1> DEFINE slices == Join(first, rest)
<1>16. /\ DOMAIN slices = 1 .. m + s
       /\ \A k \in 1 .. m : slices[k] = first[k]
       /\ \A k \in 1 .. s : slices[m + k] = rest[k]
  BY <1>11, <1>14, Joined
<1> HIDE DEF slices
<1>17. ASSUME NEW k \in 1 .. n
       PROVE  slices[k].start = lo[k] /\ slices[k].length = hi[k] - lo[k]
  <2>1. CASE k \in 1 .. m
    BY <1>12, <1>16, <2>1
  <2>2. CASE ~(k \in 1 .. m)
    <3>1. PICK j \in 1 .. s : k = m + j
      <4>1. k - m \in 1 .. s /\ k = m + (k - m)
        BY <1>7, <1>8, <2>2
      <4> QED
        BY <4>1
    <3> QED
      BY <1>15, <1>16, <3>1
  <2> QED
    BY <2>1, <2>2
<1>18. Cuts(slices, n, lo, hi)
  BY <1>6, <1>8, <1>16, <1>17 DEF Cuts
<1>19. SlicesOf(host, b) = slices
  BY DEF SlicesOf, Join, slices, first, rest
<1> QED
  BY <1>2, <1>18, <1>19 DEF l, n, lo, hi

\* Of every sequence of bytes a host program hashes the bytes to be hashed, each
\* once, and no others (collection_members, central_directory_ranges, their
\* Python and JavaScript conversions).
LEMMA HashedOnceOfBytes ==
  ASSUME doc \in Seq(Octet)
  PROVE  HashedOnce
<1>1. SUFFICES ASSUME NEW host \in Hosts, Addressable(host, doc),
                      HostMembers(host, doc).kind = "value",
                      NEW p \in 0 .. Len(doc) - 1
               PROVE  Cardinality({k \in DOMAIN SlicesOf(host, doc) :
                        p \in SlicesOf(host, doc)[k].start ..
                                SlicesOf(host, doc)[k].start
                                  + SlicesOf(host, doc)[k].length - 1})
                        = IF p \in ToBeHashed(doc) THEN 1 ELSE 0
  BY DEF HashedOnce, SlicesOf
<1> DEFINE l == Layout(doc).value
           n == SliceCount(doc, l)
           m == MemberCount(doc, l)
           s == SpanCount(doc, l)
           lo == Lows(doc, l)
           hi == Highs(doc, l)
           at(k) == Nth(Members(doc, l), k)
           slices == SlicesOf(host, doc)
           crc == CrcOf(doc, l)
<1>2. Len(doc) \in Nat /\ p \in Nat /\ p < Len(doc)
  BY <1>1
<1>3. Layout(doc).verdict = "ok" /\ AllBound(doc, l) /\ Cuts(slices, n, lo, hi)
  BY <1>1, SlicesCut
<1>4. PICK hs : Laid(doc, l, hs)
  BY <1>3, LayoutFacts
<1> HIDE DEF l, slices
<1>5. p \in ToBeHashed(doc) <=>
        \/ \E i \in Members(doc, l) : From(doc, l, i) <= p /\ p < To(doc, l, i)
        \/ InDirectory(doc, l, p)
  BY <1>2, <1>3, <1>4, ToBeHashedIs
<1>6. /\ m \in Nat
      /\ \A k \in 1 .. m : at(k) \in Members(doc, l)
      /\ \A i \in Members(doc, l) : \E k \in 1 .. m : at(k) = i
  BY <1>3, <1>4, MembersAscend
<1>7. s \in {1, 2} /\ n = m + s
  BY DEF SpanCount, SliceCount
<1>8. /\ s = 2 => /\ crc \in Nat /\ l.cdStart <= crc /\ crc + 4 <= Len(doc)
      /\ l.cdStart \in Nat
      /\ s = 1 <=> Position(doc, l, ZIP_MANIFEST_PATH) = 0
  <2>1. l.cdStart \in Nat
    BY <1>4 DEF Laid, EndsAt
  <2> QED
    BY <1>4, <2>1, CrcInside DEF SpanCount
<1>9. /\ lo = [k \in 1 .. n |-> IF k <= m THEN From(doc, l, at(k))
                                ELSE IF k = m + 1 THEN l.cdStart ELSE crc + 4]
      /\ hi = [k \in 1 .. n |-> IF k <= m THEN To(doc, l, at(k))
                                ELSE IF k = m + 1 /\ s = 2 THEN crc ELSE Len(doc)]
  BY DEF Lows, Highs
<1>10. InDirectory(doc, l, p) <=> l.cdStart <= p /\ (s = 1 \/ p < crc \/ crc + 4 <= p)
  BY <1>8 DEF InDirectory
<1> HIDE DEF m, n, s, lo, hi, at, crc
<1>11. /\ \A k \in 1 .. m : k \in 1 .. n /\ k <= m
       /\ m + 1 \in 1 .. n /\ ~(m + 1 <= m)
       /\ s = 2 => m + 2 \in 1 .. n /\ ~(m + 2 <= m) /\ m + 2 # m + 1
       /\ \A k \in 1 .. n : k \in 1 .. m \/ k = m + 1 \/ (k = m + 2 /\ s = 2)
  BY <1>6, <1>7
<1>12. /\ \A k \in 1 .. m : lo[k] = From(doc, l, at(k)) /\ hi[k] = To(doc, l, at(k))
       /\ lo[m + 1] = l.cdStart /\ hi[m + 1] = IF s = 2 THEN crc ELSE Len(doc)
       /\ s = 2 => lo[m + 2] = crc + 4 /\ hi[m + 2] = Len(doc)
  BY <1>9, <1>11
<1> DEFINE covered(k) == lo[k] <= p /\ p < hi[k]
<1>13. (\E k \in 1 .. n : covered(k)) <=>
         \/ \E k \in 1 .. m : covered(k)
         \/ covered(m + 1)
         \/ s = 2 /\ covered(m + 2)
  <2> HIDE DEF covered
  <2> QED
    BY <1>11
<1>14. (\E k \in 1 .. m : covered(k)) <=>
         \E i \in Members(doc, l) : From(doc, l, i) <= p /\ p < To(doc, l, i)
  BY <1>6, <1>12
<1>15. covered(m + 1) \/ (s = 2 /\ covered(m + 2)) <=> InDirectory(doc, l, p)
  <2>1. CASE s = 1
    <3>1. covered(m + 1) <=> l.cdStart <= p
      BY <1>2, <1>12, <2>1
    <3> QED
      BY <1>10, <2>1, <3>1
  <2>2. CASE s = 2
    <3>1. /\ covered(m + 1) <=> l.cdStart <= p /\ p < crc
          /\ covered(m + 2) <=> crc + 4 <= p /\ p < Len(doc)
      BY <1>12, <2>2
    <3>2. crc \in Nat /\ l.cdStart \in Nat /\ l.cdStart <= crc
      BY <1>8, <2>2
    <3> HIDE DEF covered
    <3> QED
      BY <1>2, <1>10, <2>2, <3>1, <3>2
  <2> QED
    BY <1>7, <2>1, <2>2
<1>16. p \in ToBeHashed(doc) <=> \E k \in 1 .. n : covered(k)
  BY <1>5, <1>13, <1>14, <1>15
<1>17. Cardinality({k \in DOMAIN slices :
                      p \in slices[k].start .. slices[k].start + slices[k].length - 1})
         = IF \E k \in 1 .. n : covered(k) THEN 1 ELSE 0
  BY <1>2, <1>3, CutsCover
<1> QED
  BY <1>16, <1>17 DEF slices

\* Whatever calls a host program makes, it hashes every byte that is to be
\* hashed once, and no other (collection_members, central_directory_ranges).
THEOREM EveryByteHashedOnce == Spec => []HashedOnce
<1>1. ByteTypeOK => HashedOnce
  BY HashedOnceOfBytes DEF ByteTypeOK, Octet
<1> QED
  BY <1>1, BytesAreBytes, PTL

-----------------------------------------------------------------------------
(* Archives that read the same                                             *)

\* b and c have the same width bytes from at on.
Same(b, c, at, width) == \A p \in at .. at + width - 1 : c[p + 1] = b[p + 1]

\* The same bytes are the same numbers.
LEMMA SameNumbers ==
  ASSUME NEW b, NEW c, NEW at \in Nat
  PROVE  /\ Same(b, c, at, 2) => ReadU16(c, at) = ReadU16(b, at)
         /\ Same(b, c, at, 4) => ReadU32(c, at) = ReadU32(b, at)
<1>1. \A p \in Nat : c[p + 1] = b[p + 1] /\ c[p + 2] = b[p + 2]
                       => ReadU16(c, p) = ReadU16(b, p)
  BY DEF ReadU16
<1>2. Same(b, c, at, 2) => c[at + 1] = b[at + 1] /\ c[at + 2] = b[at + 2]
  <2>1. at \in at .. at + 2 - 1 /\ at + 1 \in at .. at + 2 - 1 /\ (at + 1) + 1 = at + 2
    OBVIOUS
  <2> QED
    BY <2>1 DEF Same
<1>3. Same(b, c, at, 4) =>
        /\ c[at + 1] = b[at + 1] /\ c[at + 2] = b[at + 2]
        /\ c[(at + 2) + 1] = b[(at + 2) + 1] /\ c[(at + 2) + 2] = b[(at + 2) + 2]
  <2>1. /\ at \in at .. at + 4 - 1 /\ at + 1 \in at .. at + 4 - 1
        /\ at + 2 \in at .. at + 4 - 1 /\ at + 3 \in at .. at + 4 - 1
        /\ (at + 1) + 1 = at + 2 /\ (at + 3) + 1 = (at + 2) + 2
    OBVIOUS
  <2> QED
    BY <2>1 DEF Same
<1>4. Same(b, c, at, 4) => ReadU32(c, at) = ReadU32(b, at)
  <2>1. at + 2 \in Nat
    OBVIOUS
  <2> QED
    BY <1>1, <1>3, <2>1 DEF ReadU32
<1> QED
  BY <1>1, <1>2, <1>4

\* What is the same is so in part.
LEMMA SamePart ==
  ASSUME NEW b, NEW c, NEW at \in Nat, NEW width \in Int, Same(b, c, at, width),
         NEW p \in Nat, NEW w \in Int, at <= p, p + w <= at + width
  PROVE  Same(b, c, p, w)
<1>1. \A q \in p .. p + w - 1 : q \in at .. at + width - 1
  OBVIOUS
<1> QED
  BY <1>1 DEF Same

\* The same bytes, cut out.
LEMMA SameBytes ==
  ASSUME NEW b \in Seq(Octet), NEW c \in Seq(Octet), NEW from \in Nat, NEW to \in Nat,
         to <= Len(b), to <= Len(c), Same(b, c, from, to - from)
  PROVE  Bytes(c, from, to) = Bytes(b, from, to)
<1>1. \A i \in from + 1 .. to : c[i] = b[i]
  <2>1. ASSUME NEW i \in from + 1 .. to
        PROVE  c[i] = b[i]
    <3>1. i - 1 \in from .. from + (to - from) - 1 /\ (i - 1) + 1 = i
      OBVIOUS
    <3> QED
      BY <3>1 DEF Same
  <2> QED
    BY <2>1
<1> DEFINE u == Bytes(b, from, to)
           v == Bytes(c, from, to)
<1>2. /\ u \in Seq(Octet) /\ v \in Seq(Octet)
      /\ Len(u) = Len(v)
      /\ \A k \in 1 .. Len(u) : v[k] = c[from + k] /\ u[k] = b[from + k]
                                  /\ from + k \in from + 1 .. to
  BY <1>1 DEF Bytes
<1> HIDE DEF u, v
<1>3. u = v
  <2>1. \A k \in 1 .. Len(u) : u[k] = v[k]
    BY <1>1, <1>2
  <2> QED
    BY <1>2, <2>1, SeqEqual
<1> QED
  BY <1>3 DEF u, v

\* c has, from the directory on, the bytes of b but for four.
SameButFour(b, c, cd, at) ==
  /\ b \in Seq(Octet) /\ c \in Seq(Octet) /\ Len(c) = Len(b)
  /\ cd \in Nat /\ at \in Nat
  /\ \A p \in cd .. Len(b) - 1 : p < at \/ at + 4 <= p => c[p + 1] = b[p + 1]

\* Away from those four.
LEMMA SameAway ==
  ASSUME NEW b, NEW c, NEW cd, NEW at, SameButFour(b, c, cd, at),
         NEW p \in Nat, NEW w \in Nat, cd <= p, p + w <= Len(b),
         p + w <= at \/ at + 4 <= p
  PROVE  Same(b, c, p, w)
<1>1. Len(b) \in Nat /\ cd \in Nat /\ at \in Nat
  BY DEF SameButFour
<1>2. \A q \in p .. p + w - 1 : q \in cd .. Len(b) - 1 /\ (q < at \/ at + 4 <= q)
  BY <1>1
<1> QED
  BY <1>2 DEF SameButFour, Same

\* A header of which no byte but the CRC has changed reads the same.
LEMMA SameHeader ==
  ASSUME NEW b, NEW c, NEW cd, NEW eocd, NEW g, NEW crc,
         GoodHeader(b, cd, eocd, g), EndsAt(b, cd, eocd),
         SameButFour(b, c, cd, crc), cd <= g,
         crc = g + 16 \/ crc + 4 <= g \/ NextHeader(b, g) <= crc
  PROVE  /\ HeaderVerdict(c, cd, eocd, g) = "ok"
         /\ NextHeader(c, g) = NextHeader(b, g)
         /\ NameOf(c, g) = NameOf(b, g)
         /\ LocalOffset(c, g) = LocalOffset(b, g)
         /\ ReadU16(c, g + 8) = ReadU16(b, g + 8) /\ ReadU16(c, g + 10) = ReadU16(b, g + 10)
         /\ ReadU32(c, g + 20) = ReadU32(b, g + 20)
         /\ ReadU32(c, g + 24) = ReadU32(b, g + 24)
         /\ crc # g + 16 => ReadU32(c, g + 16) = ReadU32(b, g + 16)
<1> DEFINE len  == NameLen(b, g)
           next == NextHeader(b, g)
           n    == Len(b)
<1>1. /\ g \in Nat /\ len \in Nat /\ next \in Nat /\ n \in Nat /\ crc \in Nat /\ cd \in Nat
      /\ g + 46 <= n /\ g + 46 + len <= next /\ next <= eocd /\ eocd + 22 <= n
      /\ eocd \in Nat /\ Len(c) = n
  BY DEF GoodHeader, EndsAt, SameButFour
<1> HIDE DEF len, next, n
<1>2. ASSUME NEW p \in Nat, NEW w \in Nat,
             p + w <= 16 \/ (20 <= p /\ p + w <= 46 + len)
      PROVE  Same(b, c, g + p, w)
  <2>1. g + p \in Nat /\ cd <= g + p /\ (g + p) + w <= n
    BY <1>1, <1>2
  <2>2. (g + p) + w <= crc \/ crc + 4 <= g + p
    BY <1>1, <1>2 DEF next
  <2> QED
    BY <2>1, <2>2, SameAway DEF n
<1>3. /\ Same(b, c, g + 0, 4) /\ Same(b, c, g + 8, 2) /\ Same(b, c, g + 10, 2)
      /\ Same(b, c, g + 20, 4) /\ Same(b, c, g + 24, 4)
      /\ Same(b, c, g + 28, 2) /\ Same(b, c, g + 30, 2) /\ Same(b, c, g + 32, 2)
      /\ Same(b, c, g + 42, 4) /\ Same(b, c, g + 46, len)
  <2>1. /\ 20 + 4 <= 46 + len /\ 24 + 4 <= 46 + len /\ 28 + 2 <= 46 + len
        /\ 30 + 2 <= 46 + len /\ 32 + 2 <= 46 + len /\ 42 + 4 <= 46 + len
    BY <1>1
  <2>2. Same(b, c, g + 0, 4) /\ Same(b, c, g + 8, 2) /\ Same(b, c, g + 10, 2)
    BY <1>2
  <2>3. /\ Same(b, c, g + 20, 4) /\ Same(b, c, g + 24, 4) /\ Same(b, c, g + 28, 2)
        /\ Same(b, c, g + 30, 2) /\ Same(b, c, g + 32, 2) /\ Same(b, c, g + 42, 4)
    BY <1>2, <2>1
  <2>4. Same(b, c, g + 46, len)
    BY <1>1, <1>2
  <2> QED
    BY <2>2, <2>3, <2>4
<1>4. /\ ReadU32(c, g) = ReadU32(b, g)
      /\ ReadU16(c, g + 8) = ReadU16(b, g + 8) /\ ReadU16(c, g + 10) = ReadU16(b, g + 10)
      /\ ReadU32(c, g + 20) = ReadU32(b, g + 20) /\ ReadU32(c, g + 24) = ReadU32(b, g + 24)
      /\ NameLen(c, g) = len
      /\ ReadU16(c, g + 30) = ReadU16(b, g + 30) /\ ReadU16(c, g + 32) = ReadU16(b, g + 32)
      /\ LocalOffset(c, g) = LocalOffset(b, g)
  <2>1. /\ g + 0 = g /\ g \in Nat /\ g + 8 \in Nat /\ g + 10 \in Nat /\ g + 20 \in Nat
        /\ g + 24 \in Nat
        /\ g + 28 \in Nat /\ g + 30 \in Nat /\ g + 32 \in Nat /\ g + 42 \in Nat
    BY <1>1
  <2> QED
    BY <1>3, <2>1, SameNumbers DEF NameLen, LocalOffset, len
<1>5. NameOf(c, g) = NameOf(b, g)
  <2>1. /\ g + 46 \in Nat /\ g + 46 + len \in Nat /\ g + 46 + len <= n
        /\ (g + 46 + len) - (g + 46) = len
    BY <1>1
  <2>2. b \in Seq(Octet) /\ c \in Seq(Octet) /\ Len(c) = Len(b)
    BY DEF SameButFour
  <2>3. Bytes(c, g + 46, g + 46 + len) = Bytes(b, g + 46, g + 46 + len)
    BY <1>3, <2>1, <2>2, SameBytes DEF n
  <2> QED
    BY <1>4, <2>3 DEF NameOf, CD_HEADER_FIXED_LEN, len
<1>6. NextHeader(c, g) = next
  BY <1>4 DEF NextHeader, next, len
<1>7. HeaderVerdict(c, cd, eocd, g) = HeaderVerdict(b, cd, eocd, g)
  BY <1>1, <1>4, <1>5, <1>6 DEF HeaderVerdict, len, next, n
<1>8. crc # g + 16 => ReadU32(c, g + 16) = ReadU32(b, g + 16)
  <2>1. SUFFICES ASSUME crc # g + 16
                 PROVE  ReadU32(c, g + 16) = ReadU32(b, g + 16)
    OBVIOUS
  <2>2. /\ g + 16 \in Nat /\ cd <= g + 16 /\ (g + 16) + 4 <= n
        /\ (g + 16) + 4 <= crc \/ crc + 4 <= g + 16
    BY <1>1, <2>1 DEF next
  <2>3. Same(b, c, g + 16, 4)
    BY <2>2, SameAway DEF n
  <2> QED
    BY <2>2, <2>3, SameNumbers
<1> QED
  BY <1>4, <1>5, <1>6, <1>7, <1>8 DEF GoodHeader, next

\* The headers of a chain follow one another from the start of the directory.
LEMMA ChainAscends ==
  ASSUME NEW b, NEW cd, NEW eocd, NEW hs, NEW n \in Nat, Chain(b, cd, eocd, hs, n),
         cd \in Nat
  PROVE  /\ \A k \in 1 .. n : cd <= hs[k]
         /\ \A j, k \in 1 .. n : j < k => NextHeader(b, hs[j]) <= hs[k]
<1> DEFINE next(k) == NextHeader(b, hs[k])
<1>1. \A k \in 1 .. n : /\ hs[k] \in Nat /\ next(k) \in Nat /\ hs[k] <= next(k)
                        /\ hs[k] = IF k = 1 THEN cd ELSE next(k - 1)
  <2>1. ASSUME NEW k \in 1 .. n
        PROVE  hs[k] \in Nat /\ next(k) \in Nat /\ hs[k] <= next(k)
    <3>1. /\ hs[k] \in Nat /\ NameLen(b, hs[k]) \in Nat /\ next(k) \in Nat
          /\ hs[k] + 46 + NameLen(b, hs[k]) <= next(k)
      BY DEF Chain, GoodHeader
    <3>2. \A x, y, z \in Nat : x + 46 + y <= z => x <= z
      OBVIOUS
    <3> QED
      BY <3>1, <3>2
  <2> QED
    BY <2>1 DEF Chain
<1> HIDE DEF next
<1> DEFINE S == {k \in 0 .. n : k # 0 => /\ cd <= hs[k]
                                         /\ \A j \in 1 .. n : j < k => next(j) <= hs[k]}
<1>2. 0 \in S
  OBVIOUS
<1>3. ASSUME NEW k \in 1 .. n, k - 1 \in S
      PROVE  k \in S
  <2>1. CASE k = 1
    BY <1>1, <2>1
  <2>2. CASE k # 1
    <3>1. k - 1 \in 1 .. n /\ cd <= hs[k - 1] /\ hs[k] = next(k - 1)
      BY <1>1, <1>3, <2>2
    <3>2. hs[k - 1] \in Nat /\ next(k - 1) \in Nat /\ hs[k - 1] <= next(k - 1)
      BY <1>1, <3>1
    <3>3. cd <= hs[k]
      BY <3>1, <3>2
    <3>4. ASSUME NEW j \in 1 .. n, j < k
          PROVE  next(j) <= hs[k]
      <4>1. CASE j = k - 1
        BY <3>1, <3>2, <4>1
      <4>2. CASE j # k - 1
        <5>1. j < k - 1 /\ next(j) <= hs[k - 1] /\ next(j) \in Nat
          BY <1>1, <1>3, <2>2, <3>4, <4>2
        <5> QED
          BY <3>1, <3>2, <5>1
      <4> QED
        BY <4>1, <4>2
    <3> QED
      BY <3>3, <3>4
  <2> QED
    BY <2>1, <2>2
<1> HIDE DEF S
<1>4. \A k \in 0 .. n : k \in S
  BY <1>2, <1>3, AllUpTo
<1>5. \A k \in 1 .. n : k \in 0 .. n /\ k # 0
  OBVIOUS
<1>6. /\ \A k \in 1 .. n : cd <= hs[k]
      /\ \A j, k \in 1 .. n : j < k => next(j) <= hs[k]
  BY <1>4, <1>5 DEF S
<1> QED
  BY <1>6 DEF next

\* Accepted headers, each where the one before it ends.
Accepted(c, cd, eocd, hs) ==
  /\ hs \in Seq(Nat)
  /\ \A i \in 1 .. Len(hs) :
       /\ HeaderVerdict(c, cd, eocd, hs[i]) = "ok"
       /\ hs[i] = IF i = 1 THEN cd ELSE NextHeader(c, hs[i - 1])

\* The walk over such headers meets them.
LEMMA ChainWalked ==
  ASSUME NEW c, NEW cd, NEW eocd, EndsAt(c, cd, eocd), NEW hs, Accepted(c, cd, eocd, hs)
  PROVE  LET walk == Walk(c, cd, eocd, Len(hs))
         IN walk.verdict = "ok" /\ walk.value = hs
<1> DEFINE n == Len(hs)
           next(k) == NextHeader(c, hs[k])
           reached(w, k) == /\ w.verdict = "ok"
                            /\ w.value \in Seq(Nat) /\ Len(w.value) = k
                            /\ \A i \in 1 .. k : w.value[i] = hs[i]
                            /\ w.cursor = IF k = 0 THEN cd ELSE next(k)
<1> USE DEF Accepted
<1>1. n \in Nat
  OBVIOUS
<1>2. PICK f : Walks(c, cd, eocd, n, f) /\ f[n] = Walk(c, cd, eocd, n)
  BY <1>1, WalkSteps
<1> DEFINE S == {k \in 0 .. n : reached(f[k], k)}
<1>3. 0 \in S
  <2>1. 0 \in 0 .. n /\ f[0] = WalkStart(cd)
    BY <1>1, <1>2 DEF Walks
  <2>2. reached(WalkStart(cd), 0)
    BY DEF WalkStart
  <2> HIDE DEF reached
  <2> QED
    BY <2>1, <2>2
<1>4. ASSUME NEW k \in 1 .. n, k - 1 \in S
      PROVE  k \in S
  <2> DEFINE w == f[k - 1]
             u == f[k]
  <2>1. k \in 0 .. n /\ k # 0 /\ k \in Nat /\ k - 1 \in 0 .. n
    BY <1>1
  <2>2. u = Onward(c, cd, eocd, w)
    BY <1>2, <2>1 DEF Walks
  <2>3. reached(w, k - 1)
    BY <1>4
  <2> HIDE DEF w, u
  <2>4. w.cursor = hs[k] /\ HeaderVerdict(c, cd, eocd, hs[k]) = "ok"
    BY <2>1, <2>3
  <2>5. /\ u.verdict = "ok" /\ u.value = Append(w.value, hs[k])
        /\ u.cursor = next(k)
    BY <2>2, <2>3, <2>4 DEF Onward, Push
  <2>6. hs[k] \in Nat
    OBVIOUS
  <2>7. /\ u.value \in Seq(Nat) /\ Len(u.value) = k /\ u.value[k] = hs[k]
        /\ \A i \in 1 .. k - 1 : u.value[i] = w.value[i]
    BY <2>1, <2>3, <2>5, <2>6, AppendProperties
  <2>8. \A i \in 1 .. k : u.value[i] = hs[i]
    <3>1. \A i \in 1 .. k : i = k \/ i \in 1 .. k - 1
      BY <2>1
    <3> QED
      BY <2>3, <2>7, <3>1
  <2>9. reached(u, k)
    BY <2>1, <2>5, <2>7, <2>8
  <2> HIDE DEF reached
  <2> QED
    BY <2>1, <2>9 DEF u
<1> HIDE DEF S
<1>5. \A k \in 0 .. n : k \in S
  BY <1>1, <1>3, <1>4, AllUpTo
<1>6. reached(f[n], n)
  BY <1>1, <1>5 DEF S
<1> DEFINE v == f[n].value
<1>7. v = hs
  <2>1. v \in Seq(Nat) /\ Len(v) = n /\ \A i \in 1 .. n : v[i] = hs[i]
    BY <1>6
  <2> HIDE DEF v
  <2> QED
    BY <2>1, SeqEqual
<1> QED
  BY <1>2, <1>6, <1>7 DEF n, v

\* The order of n headers by the offset of their local headers.
OffsetOrder(b, hs, n) ==
  {p \in (1 .. n) \X (1 .. n) :
     \/ LocalOffset(b, hs[p[1]]) < LocalOffset(b, hs[p[2]])
     \/ LocalOffset(b, hs[p[1]]) = LocalOffset(b, hs[p[2]]) /\ p[1] < p[2]}

\* The sort depends on the bytes in the offsets only.
LEMMA SameOrder ==
  ASSUME NEW b, NEW c, NEW hs, NEW n, DOMAIN hs = 1 .. n,
         \A k \in 1 .. n : LocalOffset(c, hs[k]) = LocalOffset(b, hs[k])
  PROVE  ByOffset(c, hs) = ByOffset(b, hs)
<1>1. ASSUME NEW x
      PROVE  ByOffset(x, hs) =
               [k \in 1 .. n |-> hs[Ranked(OffsetOrder(x, hs, n), 1 .. n, k)]]
  <2> DEFINE o(i) == LocalOffset(x, hs[i])
             before(i, j) == o(i) < o(j) \/ (o(i) = o(j) /\ i < j)
             R == OffsetOrder(x, hs, n)
             S == 1 .. n
  <2>1. \A i, j \in S : <<i, j>> \in R <=> before(i, j)
    BY DEF OffsetOrder
  <2>2. \A i \in S : Below(R, S, i) = {j \in S : before(j, i)}
    BY <2>1 DEF Below
  <2>3. ByOffset(x, hs) =
          [k \in S |-> hs[CHOOSE i \in S : Cardinality({j \in S : before(j, i)}) = k - 1]]
    BY DEF ByOffset
  <2> HIDE DEF o, R, S
  <2>4. \A k : Ranked(R, S, k) =
                 CHOOSE i \in S : Cardinality({j \in S : before(j, i)}) = k - 1
    BY <2>2 DEF Ranked
  <2> QED
    BY <2>3, <2>4 DEF R, S
<1>2. OffsetOrder(c, hs, n) = OffsetOrder(b, hs, n)
  BY DEF OffsetOrder
<1> QED
  BY <1>1, <1>2

\* What LayoutAt lets pass before the walk.
Admitted(b, eocd, cd) ==
  /\ ReadU16(b, eocd + 10) # U16Max /\ ReadU32(b, eocd + 12) # U32Max /\ cd # U32Max
  /\ ~(cd > eocd)

\* A change before the directory or in the CRC of a header leaves the layout.
LEMMA LayoutKept ==
  ASSUME NEW b \in Seq(Octet), Layout(b).verdict = "ok", NEW c, NEW hs,
         Laid(b, Layout(b).value, hs), NEW j \in 1 .. Len(hs),
         SameButFour(b, c, Layout(b).value.cdStart, hs[j] + 16)
  PROVE  /\ Layout(c) = Layout(b)
         /\ \A k \in 1 .. Len(hs) :
              /\ NameOf(c, hs[k]) = NameOf(b, hs[k])
              /\ LocalOffset(c, hs[k]) = LocalOffset(b, hs[k])
              /\ ReadU16(c, hs[k] + 8) = ReadU16(b, hs[k] + 8)
              /\ ReadU16(c, hs[k] + 10) = ReadU16(b, hs[k] + 10)
              /\ ReadU32(c, hs[k] + 20) = ReadU32(b, hs[k] + 20)
              /\ ReadU32(c, hs[k] + 24) = ReadU32(b, hs[k] + 24)
              /\ k # j => ReadU32(c, hs[k] + 16) = ReadU32(b, hs[k] + 16)
<1> DEFINE l    == Layout(b).value
           n    == Len(hs)
           cd   == l.cdStart
           eocd == Max(EocdOffsets(b))
           crc  == hs[j] + 16
<1>1. /\ EocdOffsets(b) # {} /\ l.eocd = eocd /\ cd = ReadU32(b, eocd + 16)
      /\ EndsAt(b, cd, eocd) /\ n = ReadU16(b, eocd + 10) /\ n \in Nat
      /\ Chain(b, cd, eocd, hs, n) /\ l.entries = ByOffset(b, hs)
  BY DEF Laid, CountOf, Chain
<1>2. /\ cd \in Nat /\ eocd \in Nat /\ cd <= eocd /\ eocd + 22 <= Len(b)
      /\ Len(b) \in Nat /\ b \in Seq(Octet)
  BY <1>1 DEF EndsAt
<1>3. SameButFour(b, c, cd, crc)
  OBVIOUS
<1> HIDE DEF l, cd, crc
<1>4. /\ c \in Seq(Octet) /\ Len(c) = Len(b) /\ EndsAt(c, cd, eocd)
  BY <1>2, <1>3 DEF SameButFour, EndsAt
<1>5. \A k \in 1 .. n : GoodHeader(b, cd, eocd, hs[k])
  BY <1>1 DEF Chain
<1>6. crc \in Nat /\ crc + 4 <= eocd
  <2>1. hs[j] \in Nat /\ NameLen(b, hs[j]) \in Nat /\ NextHeader(b, hs[j]) \in Nat
        /\ hs[j] + 46 + NameLen(b, hs[j]) <= NextHeader(b, hs[j])
        /\ NextHeader(b, hs[j]) <= eocd
    BY <1>5 DEF GoodHeader
  <2>2. \A x, y, z, e \in Nat : x + 46 + y <= z /\ z <= e =>
          x + 16 \in Nat /\ (x + 16) + 4 <= e
    OBVIOUS
  <2> HIDE DEF eocd
  <2> QED
    BY <1>2, <2>1, <2>2 DEF crc
<1>7. ASSUME NEW p \in Nat, NEW w \in Nat, eocd <= p, p + w <= Len(b)
      PROVE  Same(b, c, p, w)
  <2>1. cd <= p /\ crc + 4 <= p
    BY <1>2, <1>6, <1>7
  <2> QED
    BY <1>3, <1>7, <2>1, SameAway
<1>8. ASSUME NEW p \in Nat, eocd <= p, p + 22 <= Len(b)
      PROVE  p \in EocdOffsets(c) <=> p \in EocdOffsets(b)
  <2>1. /\ p + 20 \in Nat /\ eocd <= p + 20 /\ p + 4 <= Len(b) /\ (p + 20) + 2 <= Len(b)
    BY <1>2, <1>8
  <2>2. Same(b, c, p, 4) /\ Same(b, c, p + 20, 2)
    BY <1>7, <1>8, <2>1
  <2>3. ReadU32(c, p) = ReadU32(b, p) /\ ReadU16(c, p + 20) = ReadU16(b, p + 20)
    BY <2>1, <2>2, SameNumbers
  <2>4. p \in 0 .. Len(b) - 22
    BY <1>2, <1>8
  <2> QED
    BY <1>4, <2>3, <2>4 DEF EocdOffsets, EOCD_MIN_LEN
<1>9. EocdOffsets(c) # {} /\ Max(EocdOffsets(c)) = eocd
  <2>1. eocd \in EocdOffsets(b) /\ \A p \in EocdOffsets(b) : p <= eocd
    <3>1. EocdOffsets(b) \subseteq 0 .. Len(b)
      BY <1>2 DEF EocdOffsets, EOCD_MIN_LEN
    <3> QED
      BY <1>1, <1>2, <3>1, MaxIsGreatest
  <2>2. EocdOffsets(c) \subseteq 0 .. Len(b) - 22
    BY <1>4 DEF EocdOffsets, EOCD_MIN_LEN
  <2>3. eocd \in EocdOffsets(c)
    BY <1>2, <1>8, <2>1
  <2> DEFINE m == Max(EocdOffsets(c))
  <2>4. m \in EocdOffsets(c) /\ \A p \in EocdOffsets(c) : p <= m
    <3>1. EocdOffsets(c) \subseteq 0 .. Len(b)
      BY <1>2, <2>2
    <3> QED
      BY <1>2, <2>3, <3>1, MaxIsGreatest
  <2> HIDE DEF m, eocd
  <2>5. eocd <= m /\ m \in Nat /\ m + 22 <= Len(b)
    BY <1>2, <2>2, <2>3, <2>4
  <2>6. m <= eocd
    BY <1>8, <2>1, <2>4, <2>5
  <2>7. m = eocd
    BY <1>2, <2>5, <2>6
  <2> QED
    BY <2>3, <2>7 DEF m
<1> HIDE DEF eocd
<1>10. /\ ReadU16(c, eocd + 10) = ReadU16(b, eocd + 10)
       /\ ReadU32(c, eocd + 12) = ReadU32(b, eocd + 12)
       /\ ReadU32(c, eocd + 16) = ReadU32(b, eocd + 16)
  <2>1. /\ eocd + 10 \in Nat /\ eocd + 12 \in Nat /\ eocd + 16 \in Nat
        /\ eocd <= eocd + 10 /\ eocd <= eocd + 12 /\ eocd <= eocd + 16
        /\ (eocd + 10) + 2 <= Len(b) /\ (eocd + 12) + 4 <= Len(b)
        /\ (eocd + 16) + 4 <= Len(b)
    BY <1>2
  <2>2. /\ Same(b, c, eocd + 10, 2) /\ Same(b, c, eocd + 12, 4)
        /\ Same(b, c, eocd + 16, 4)
    BY <1>7, <2>1
  <2> QED
    BY <2>1, <2>2, SameNumbers
<1>11. /\ \A k \in 1 .. n : cd <= hs[k]
       /\ \A i, k \in 1 .. n : i < k => NextHeader(b, hs[i]) <= hs[k]
  BY <1>1, <1>2, ChainAscends
<1>12. ASSUME NEW k \in 1 .. n
       PROVE  /\ HeaderVerdict(c, cd, eocd, hs[k]) = "ok"
              /\ NextHeader(c, hs[k]) = NextHeader(b, hs[k])
              /\ NameOf(c, hs[k]) = NameOf(b, hs[k])
              /\ LocalOffset(c, hs[k]) = LocalOffset(b, hs[k])
              /\ ReadU16(c, hs[k] + 8) = ReadU16(b, hs[k] + 8)
              /\ ReadU16(c, hs[k] + 10) = ReadU16(b, hs[k] + 10)
              /\ ReadU32(c, hs[k] + 20) = ReadU32(b, hs[k] + 20)
              /\ ReadU32(c, hs[k] + 24) = ReadU32(b, hs[k] + 24)
              /\ k # j => ReadU32(c, hs[k] + 16) = ReadU32(b, hs[k] + 16)
  <2> DEFINE g == hs[k]
             h == hs[j]
  <2>1. /\ g \in Nat /\ NextHeader(b, g) \in Nat /\ g + 46 <= NextHeader(b, g)
        /\ h \in Nat /\ NextHeader(b, h) \in Nat /\ h + 46 <= NextHeader(b, h)
    <3>1. \A i \in 1 .. n : /\ hs[i] \in Nat /\ NameLen(b, hs[i]) \in Nat
                            /\ NextHeader(b, hs[i]) \in Nat
                            /\ hs[i] + 46 + NameLen(b, hs[i]) <= NextHeader(b, hs[i])
      BY <1>5 DEF GoodHeader
    <3>2. \A x, y, z \in Nat : x + 46 + y <= z => x + 46 <= z
      OBVIOUS
    <3> QED
      BY <3>1, <3>2
  <2>2. /\ crc = h + 16
        /\ k < j => NextHeader(b, g) <= h
        /\ j < k => NextHeader(b, h) <= g
    BY <1>11 DEF crc
  <2>3. cd <= g /\ GoodHeader(b, cd, eocd, g)
    BY <1>5, <1>11
  <2>4. k < j \/ j < k \/ k = j
    BY <1>1
  <2> DEFINE next == NextHeader(b, g)
             after == NextHeader(b, h)
  <2> HIDE DEF g, h, next, after
  <2>5. crc = g + 16 \/ crc + 4 <= g \/ next <= crc
    <3>1. CASE k < j
      BY <2>1, <2>2, <3>1 DEF next
    <3>2. CASE j < k
      <4>1. after <= g /\ h + 46 <= after /\ after \in Nat
        BY <2>1, <2>2, <3>2 DEF after
      <4> QED
        BY <2>1, <2>2, <4>1
    <3>3. CASE k = j
      BY <2>2, <3>3 DEF g, h
    <3> QED
      BY <2>4, <3>1, <3>2, <3>3
  <2>6. k # j => crc # g + 16
    <3>1. CASE k < j
      BY <2>1, <2>2, <3>1
    <3>2. CASE j < k
      <4>1. after <= g /\ h + 46 <= after /\ after \in Nat
        BY <2>1, <2>2, <3>2 DEF after
      <4> QED
        BY <2>1, <2>2, <4>1
    <3> QED
      BY <2>4, <3>1, <3>2
  <2>7. /\ HeaderVerdict(c, cd, eocd, g) = "ok"
        /\ NextHeader(c, g) = NextHeader(b, g)
        /\ NameOf(c, g) = NameOf(b, g)
        /\ LocalOffset(c, g) = LocalOffset(b, g)
        /\ ReadU16(c, g + 8) = ReadU16(b, g + 8) /\ ReadU16(c, g + 10) = ReadU16(b, g + 10)
        /\ ReadU32(c, g + 20) = ReadU32(b, g + 20)
        /\ ReadU32(c, g + 24) = ReadU32(b, g + 24)
        /\ crc # g + 16 => ReadU32(c, g + 16) = ReadU32(b, g + 16)
    BY <1>1, <1>3, <2>3, <2>5, SameHeader DEF next
  <2> QED
    BY <2>6, <2>7 DEF g
<1>13. hs \in Seq(Nat) /\ \A k \in 1 .. n : hs[k] = IF k = 1 THEN cd
                                                    ELSE NextHeader(c, hs[k - 1])
  <2>1. hs \in Seq(Nat) /\ \A k \in 1 .. n : hs[k] = IF k = 1 THEN cd
                                                     ELSE NextHeader(b, hs[k - 1])
    BY <1>1 DEF Chain
  <2>2. \A k \in 1 .. n : k # 1 => k - 1 \in 1 .. n
    BY <1>1
  <2> QED
    BY <1>12, <2>1, <2>2
<1> DEFINE walk == Walk(c, cd, eocd, n)
<1>14. walk.verdict = "ok" /\ walk.value = hs
  <2>1. Accepted(c, cd, eocd, hs)
    BY <1>12, <1>13 DEF Accepted, n
  <2> QED
    BY <1>4, <2>1, ChainWalked DEF n
<1>15. ByOffset(c, hs) = ByOffset(b, hs)
  <2>1. DOMAIN hs = 1 .. n
    BY <1>13
  <2> QED
    BY <1>12, <2>1, SameOrder
<1>16. Admitted(b, eocd, cd)
  <2>1. Layout(b) = LayoutAt(b, eocd, n, cd)
    BY <1>1 DEF Layout, eocd
  <2>2. CASE n = U16Max \/ U32Max \in {ReadU32(b, eocd + 12), cd} \/ cd > eocd
    <3>1. Layout(b).verdict \in {"Zip64Unsupported", "BadOffset"}
      BY <2>1, <2>2 DEF LayoutAt, Err
    <3> QED
      BY <3>1
  <2> QED
    BY <1>1, <2>2 DEF Admitted
<1>17. Layout(c) = Ok([entries |-> ByOffset(c, hs), cdStart |-> cd, eocd |-> eocd])
  <2>1. Layout(c) = LayoutAt(c, eocd, n, cd)
    BY <1>1, <1>9, <1>10 DEF Layout
  <2>2. LayoutAt(c, eocd, n, cd) =
          IF walk.verdict = "ok"
          THEN Ok([entries |-> ByOffset(c, walk.value), cdStart |-> cd, eocd |-> eocd])
          ELSE walk
    BY <1>1, <1>10, <1>16 DEF LayoutAt, Try, Admitted
  <2> HIDE DEF walk
  <2> QED
    BY <1>14, <2>1, <2>2
<1>18. Layout(b) = Ok([entries |-> ByOffset(b, hs), cdStart |-> cd, eocd |-> eocd])
  <2> DEFINE found == Walk(b, cd, eocd, n)
  <2>1. Layout(b) = LayoutAt(b, eocd, n, cd)
    BY <1>1 DEF Layout, eocd
  <2>2. LayoutAt(b, eocd, n, cd) =
          IF found.verdict = "ok"
          THEN Ok([entries |-> ByOffset(b, found.value), cdStart |-> cd, eocd |-> eocd])
          ELSE found
    BY <1>1, <1>16 DEF LayoutAt, Try, Admitted
  <2>3. found.verdict = "ok" /\ found.value = hs
    <3>1. \A k \in 1 .. n : HeaderVerdict(b, cd, eocd, hs[k]) = "ok"
      BY <1>5 DEF GoodHeader
    <3>2. Accepted(b, cd, eocd, hs)
      BY <1>1, <3>1 DEF Chain, Accepted
    <3> QED
      BY <1>1, <3>2, ChainWalked DEF n
  <2> HIDE DEF found
  <2> QED
    BY <2>1, <2>2, <2>3
<1> QED
  BY <1>12, <1>15, <1>17, <1>18 DEF n

-----------------------------------------------------------------------------
(* fill_manifest                                                           *)

\* The bytes of a patched sequence.
LEMMA PatchedAt ==
  ASSUME NEW b \in Seq(Octet), NEW at \in Int, NEW new, NEW p \in 0 .. Len(b) - 1
  PROVE  Patch(b, at, new)[p + 1] =
           IF p \in at .. at + Len(new) - 1 THEN new[(p + 1) - at] ELSE b[p + 1]
<1>1. p + 1 \in 1 .. Len(b) /\ (p + 1) - 1 = p
  OBVIOUS
<1> QED
  BY <1>1 DEF Patch

FourPatched(b, at, new) ==
  \A p \in 0 .. Len(b) - 1 :
    Patch(b, at, new)[p + 1] = IF p \in at .. at + 3 THEN new[(p + 1) - at] ELSE b[p + 1]

\* A patch of four bytes.
LEMMA PatchedFour ==
  ASSUME NEW b \in Seq(Octet), NEW at \in Nat, NEW new, Len(new) = 4
  PROVE  FourPatched(b, at, new)
<1>1. at + Len(new) - 1 = at + 3
  OBVIOUS
<1>2. ASSUME NEW p \in 0 .. Len(b) - 1
      PROVE  Patch(b, at, new)[p + 1] =
               IF p \in at .. at + Len(new) - 1 THEN new[(p + 1) - at] ELSE b[p + 1]
  <2>1. p + 1 \in 1 .. Len(b) /\ (p + 1) - 1 = p
    OBVIOUS
  <2> QED
    BY <2>1 DEF Patch
<1> QED
  BY <1>1, <1>2 DEF FourPatched

\* c is b with the content of entry i and its two checksums overwritten.
Refilled(b, l, hs, i, content, c) ==
  LET h     == l.entries[i]
      lh    == LocalOffset(b, h)
      range == ContentRange(b, l, i).value
      sum   == Le(Crc32(content), 4)
  IN /\ Laid(b, l, hs) /\ i \in 1 .. Len(l.entries)
     /\ ContentRange(b, l, i).verdict = "ok" /\ StoredInClear(b, h)
     /\ content \in Seq(Octet) /\ Len(content) = range.end - range.start
     /\ c \in Seq(Octet) /\ Len(c) = Len(b)
     /\ \A p \in 0 .. Len(b) - 1 :
          c[p + 1] =
            IF p \in h + 16 .. h + 19 THEN sum[(p + 1) - (h + 16)]
            ELSE IF p \in lh + 14 .. lh + 17 THEN sum[(p + 1) - (lh + 14)]
            ELSE IF p \in range.start .. range.end - 1 THEN content[(p + 1) - range.start]
            ELSE b[p + 1]

\* A fill that succeeds does that, and nothing else.
LEMMA FillRefills ==
  ASSUME NEW b \in Seq(Octet), NEW name, NEW content \in Seq(Octet),
         Crc32(content) \in 0 .. U32Max, FillZipEntry(b, name, content).verdict = "ok"
  PROVE  LET l == Layout(b).value
             i == Position(b, l, name)
         IN /\ Layout(b).verdict = "ok" /\ i # 0
            /\ \E hs : Refilled(b, l, hs, i, content, FillZipEntry(b, name, content).value)
<1> DEFINE l == Layout(b).value
           i == Position(b, l, name)
           h == l.entries[i]
           lh == LocalOffset(b, h)
           range == ManifestRange(b, l, i)
           start == range.value.start
           end   == range.value.end
           sum   == Le(Crc32(content), 4)
           filled == FillRange(b, h, range.value, content)
           fill  == FillZipEntry(b, name, content)
<1>1. Layout(b).verdict = "ok"
  BY DEF FillZipEntry, Try
<1>2. fill = IF i = 0 THEN Err("Truncated")
             ELSE IF range.verdict = "ok" THEN filled ELSE range
  BY <1>1 DEF FillZipEntry, Try
<1>3. PICK hs : Laid(b, l, hs)
  BY <1>1, LayoutFacts
<1>4. i # 0 /\ range.verdict = "ok" /\ fill = filled
  <2>1. Err("Truncated").verdict = "Truncated"
    BY DEF Err
  <2> HIDE DEF i, range, filled
  <2> QED
    BY <1>2, <2>1
<1>5. fill.verdict = "ok"
  OBVIOUS
<1> HIDE DEF l, fill
<1>6. i \in 1 .. Len(l.entries) /\ DOMAIN l.entries = 1 .. Len(l.entries)
  <2>1. l.entries \in Seq(Nat) /\ Len(l.entries) \in Nat /\ DOMAIN l.entries = 1 .. Len(l.entries)
    BY <1>3, EntryFacts
  <2>2. i \in 0 .. Len(l.entries)
    BY <2>1, PositionFacts
  <2> QED
    BY <1>4, <2>1, <2>2
<1> HIDE DEF i
<1>7. range = ContentRange(b, l, i) /\ StoredInClear(b, h)
  BY <1>4 DEF ManifestRange, Err
<1> HIDE DEF range
<1>8. /\ start \in Nat /\ end \in Nat /\ lh + 30 <= start /\ start <= end
      /\ end <= EntryBoundary(b, l, i)
  BY <1>3, <1>4, <1>6, <1>7, ContentFacts
<1>9. /\ EntryBoundary(b, l, i) \in Nat /\ EntryBoundary(b, l, i) <= l.cdStart
      /\ lh \in Nat /\ l.cdStart \in Nat /\ Len(b) \in Nat
  BY <1>3, <1>6, BoundaryFacts
<1>10. h \in Nat /\ l.cdStart <= h /\ h + 46 <= l.eocd
  BY <1>3, <1>6, HeadersInDirectory
<1>11. l.eocd \in Nat /\ l.eocd + 22 <= Len(b)
  BY <1>3 DEF Laid, EndsAt
<1> HIDE DEF start, end, lh, h
<1>12. end <= h /\ h + 46 <= Len(b)
  BY <1>8, <1>9, <1>10, <1>11
<1>13. Len(content) = end - start /\ fill.value = PatchCrc(Patch(b, start, content), h, Crc32(content))
  <2>1. filled = IF Len(content) # end - start THEN Err("Truncated")
                 ELSE Ok(PatchCrc(Patch(b, start, content), h, Crc32(content)))
    BY DEF FillRange, start, end
  <2>2. Err("Truncated").verdict # "ok"
    BY DEF Err
  <2>3. /\ Len(content) = end - start
        /\ filled = Ok(PatchCrc(Patch(b, start, content), h, Crc32(content)))
    <3> HIDE DEF filled
    <3> QED
      BY <1>4, <1>5, <2>1, <2>2
  <2> QED
    BY <1>4, <2>3 DEF Ok
<1> HIDE DEF filled
<1> DEFINE x == Patch(b, start, content)
           y == Patch(x, lh + 14, sum)
           z == Patch(y, h + 16, sum)
<1>14. sum \in Seq(Octet) /\ Len(sum) = 4
  <2>1. Crc32(content) \in Fits(4)
    BY DEF Fits
  <2> QED
    BY <2>1, LeType
<1> HIDE DEF sum
<1>15. x \in Seq(Octet) /\ Len(x) = Len(b)
  BY <1>8, PatchType
<1> HIDE DEF x
<1>16. y \in Seq(Octet) /\ Len(y) = Len(b)
  BY <1>9, <1>14, <1>15, PatchType
<1> HIDE DEF y
<1>17. z \in Seq(Octet) /\ Len(z) = Len(b)
  BY <1>10, <1>14, <1>16, PatchType
<1> HIDE DEF z
<1>18. ASSUME NEW p \in 0 .. Len(b) - 1
       PROVE  /\ x[p + 1] = IF p \in start .. end - 1 THEN content[(p + 1) - start] ELSE b[p + 1]
              /\ y[p + 1] = IF p \in lh + 14 .. lh + 17 THEN sum[(p + 1) - (lh + 14)] ELSE x[p + 1]
              /\ z[p + 1] = IF p \in h + 16 .. h + 19 THEN sum[(p + 1) - (h + 16)] ELSE y[p + 1]
  <2>1. x[p + 1] = IF p \in start .. start + Len(content) - 1 THEN content[(p + 1) - start] ELSE b[p + 1]
    BY <1>8, PatchedAt, SMTT(20) DEF x
  <2>2. start + Len(content) - 1 = end - 1
    BY <1>8, <1>13
  <2>3. y[p + 1] = IF p \in lh + 14 .. (lh + 14) + 3 THEN sum[(p + 1) - (lh + 14)]
                   ELSE x[p + 1]
    <3>1. FourPatched(x, lh + 14, sum)
      BY <1>9, <1>14, <1>15, PatchedFour
    <3> QED
      BY <1>15, <3>1 DEF FourPatched, y
  <2>4. z[p + 1] = IF p \in h + 16 .. (h + 16) + 3 THEN sum[(p + 1) - (h + 16)]
                   ELSE y[p + 1]
    <3>1. FourPatched(y, h + 16, sum)
      BY <1>10, <1>14, <1>16, PatchedFour
    <3> QED
      BY <1>16, <3>1 DEF FourPatched, z
  <2>5. (lh + 14) + 3 = lh + 17 /\ (h + 16) + 3 = h + 19
    BY <1>9, <1>10
  <2> QED
    BY <2>1, <2>2, <2>3, <2>4, <2>5
<1>19. LocalOffset(x, h) = lh
  <2> DEFINE at == h + 42
  <2>1. at \in Nat /\ end <= at /\ at + 4 <= Len(b) /\ at = h + 42
    BY <1>8, <1>10, <1>12
  <2> HIDE DEF at
  <2>2. ASSUME NEW p \in at .. at + 4 - 1
        PROVE  x[p + 1] = b[p + 1]
    <3>1. p \in 0 .. Len(b) - 1 /\ ~(p \in start .. end - 1)
      BY <1>8, <1>9, <2>1
    <3> QED
      BY <1>18, <3>1
  <2>3. Same(b, x, at, 4)
    BY <2>2 DEF Same
  <2> QED
    BY <2>1, <2>3, SameNumbers DEF LocalOffset, lh
<1>20. fill.value = z
  BY <1>13, <1>19 DEF PatchCrc, x, y, z, sum
<1>21. \A p \in 0 .. Len(b) - 1 :
         z[p + 1] =
            IF p \in h + 16 .. h + 19 THEN sum[(p + 1) - (h + 16)]
            ELSE IF p \in lh + 14 .. lh + 17 THEN sum[(p + 1) - (lh + 14)]
            ELSE IF p \in start .. end - 1 THEN content[(p + 1) - start]
            ELSE b[p + 1]
  BY <1>18
<1>22. Refilled(b, l, hs, i, content, z)
  BY <1>3, <1>4, <1>6, <1>7, <1>13, <1>17, <1>21 DEF Refilled, h, lh, start, end, sum
<1> QED
  BY <1>1, <1>4, <1>20, <1>22 DEF l, i, fill

\* What a fill from start to end leaves alone, lh and h being the headers.
Untouched(b, c, lh, start, end, h) ==
  \A p \in 0 .. Len(b) - 1 :
    p < lh + 14 \/ (lh + 18 <= p /\ p < start) \/ (end <= p /\ p < h + 16) \/ h + 20 <= p
      => c[p + 1] = b[p + 1]

\* How local header, content, directory and directory header follow one another.
InOrder(b, lh, start, end, boundary, cd, h) ==
  /\ {lh, start, end, boundary, cd, h, Len(b)} \subseteq Nat
  /\ lh + 30 <= start /\ start <= end /\ end <= boundary /\ boundary <= cd
  /\ cd <= h /\ h + 46 <= Len(b)

\* A fill touches the content and two checksums.
LEMMA RefilledShape ==
  ASSUME NEW b \in Seq(Octet), NEW l, NEW hs, NEW i, NEW content, NEW c,
         Refilled(b, l, hs, i, content, c)
  PROVE  LET h     == l.entries[i]
             lh    == LocalOffset(b, h)
             range == ContentRange(b, l, i).value
         IN /\ InOrder(b, lh, range.start, range.end, EntryBoundary(b, l, i), l.cdStart, h)
            /\ Untouched(b, c, lh, range.start, range.end, h)
            /\ SameButFour(b, c, l.cdStart, h + 16)
<1> DEFINE h == l.entries[i]
           lh == LocalOffset(b, h)
           start == ContentRange(b, l, i).value.start
           end == ContentRange(b, l, i).value.end
           boundary == EntryBoundary(b, l, i)
           cd == l.cdStart
           sum == Le(Crc32(content), 4)
<1>1. /\ Laid(b, l, hs) /\ i \in 1 .. Len(l.entries)
      /\ ContentRange(b, l, i).verdict = "ok"
      /\ c \in Seq(Octet) /\ Len(c) = Len(b)
      /\ \A p \in 0 .. Len(b) - 1 :
          c[p + 1] =
            IF p \in h + 16 .. h + 19 THEN sum[(p + 1) - (h + 16)]
            ELSE IF p \in lh + 14 .. lh + 17 THEN sum[(p + 1) - (lh + 14)]
            ELSE IF p \in start .. end - 1 THEN content[(p + 1) - start]
            ELSE b[p + 1]
  BY DEF Refilled
<1>2. /\ start \in Nat /\ end \in Nat /\ lh + 30 <= start /\ start <= end
      /\ end <= boundary
  BY <1>1, ContentFacts
<1>3. /\ boundary \in Nat /\ boundary <= cd /\ lh \in Nat /\ cd \in Nat /\ Len(b) \in Nat
  BY <1>1, BoundaryFacts
<1>4. h \in Nat /\ cd <= h /\ h + 46 <= l.eocd
  BY <1>1, HeadersInDirectory
<1>5. l.eocd \in Nat /\ l.eocd + 22 <= Len(b)
  BY <1>1 DEF Laid, EndsAt
<1> HIDE DEF h, lh, start, end, boundary, cd, sum
<1>6. h + 46 <= Len(b)
  BY <1>3, <1>4, <1>5
<1>7. InOrder(b, lh, start, end, boundary, cd, h)
  BY <1>2, <1>3, <1>4, <1>6 DEF InOrder
<1>8. ASSUME NEW p \in 0 .. Len(b) - 1,
             p < lh + 14 \/ (lh + 18 <= p /\ p < start)
               \/ (end <= p /\ p < h + 16) \/ h + 20 <= p
      PROVE  c[p + 1] = b[p + 1]
  <2>1. /\ ~(p \in h + 16 .. h + 19) /\ ~(p \in lh + 14 .. lh + 17)
        /\ ~(p \in start .. end - 1)
    BY <1>2, <1>3, <1>4, <1>8
  <2> QED
    BY <1>1, <2>1
<1>9. Untouched(b, c, lh, start, end, h)
  BY <1>8 DEF Untouched
<1>10. ASSUME NEW p \in cd .. Len(b) - 1, p < h + 16 \/ (h + 16) + 4 <= p
       PROVE  c[p + 1] = b[p + 1]
  <2>1. /\ p \in 0 .. Len(b) - 1
        /\ (end <= p /\ p < h + 16) \/ h + 20 <= p
    BY <1>2, <1>3, <1>4, <1>10
  <2> QED
    BY <1>8, <2>1
<1>11. SameButFour(b, c, cd, h + 16)
  BY <1>1, <1>3, <1>4, <1>10 DEF SameButFour
<1> QED
  BY <1>7, <1>9, <1>11 DEF h, lh, start, end, boundary, cd

\* The bytes of a part that a fill leaves alone.
LEMMA UntouchedPart ==
  ASSUME NEW b, NEW c, NEW lh, NEW start, NEW end, NEW boundary, NEW cd, NEW h,
         InOrder(b, lh, start, end, boundary, cd, h), Untouched(b, c, lh, start, end, h),
         NEW p \in Nat, NEW w \in Nat, p + w <= Len(b),
         \/ p + w <= lh + 14
         \/ lh + 18 <= p /\ p + w <= start
         \/ end <= p /\ p + w <= h + 16
         \/ h + 20 <= p
  PROVE  Same(b, c, p, w)
<1>1. ASSUME NEW q \in p .. p + w - 1
      PROVE  c[q + 1] = b[q + 1]
  <2>1. /\ lh \in Nat /\ start \in Nat /\ end \in Nat /\ h \in Nat /\ Len(b) \in Nat
    BY DEF InOrder
  <2>2. /\ q \in 0 .. Len(b) - 1
        /\ q < lh + 14 \/ (lh + 18 <= q /\ q < start) \/ (end <= q /\ q < h + 16)
             \/ h + 20 <= q
    BY <2>1
  <2> QED
    BY <2>2 DEF Untouched
<1> QED
  BY <1>1 DEF Same

\* Every header reads the same, but for the checksum in that of entry i.
SameEntries(b, c, l, i) ==
  \A k \in 1 .. Len(l.entries) :
    LET g == l.entries[k]
    IN /\ NameOf(c, g) = NameOf(b, g)
       /\ LocalOffset(c, g) = LocalOffset(b, g)
       /\ ReadU16(c, g + 8) = ReadU16(b, g + 8)
       /\ ReadU16(c, g + 10) = ReadU16(b, g + 10)
       /\ ReadU32(c, g + 20) = ReadU32(b, g + 20)
       /\ ReadU32(c, g + 24) = ReadU32(b, g + 24)
       /\ g # l.entries[i] => ReadU32(c, g + 16) = ReadU32(b, g + 16)

\* The archive has the layout it had, and every entry its name, its place, its
\* flags, its method and its sizes.
LEMMA RefilledLayout ==
  ASSUME NEW b \in Seq(Octet), Layout(b).verdict = "ok", NEW hs, NEW i, NEW content,
         NEW c, Refilled(b, Layout(b).value, hs, i, content, c)
  PROVE  /\ Layout(c) = Layout(b)
         /\ SameEntries(b, c, Layout(b).value, i)
<1> DEFINE l == Layout(b).value
           h == l.entries[i]
<1>1. Laid(b, l, hs) /\ i \in 1 .. Len(l.entries)
  BY DEF Refilled
<1>2. SameButFour(b, c, l.cdStart, h + 16)
  BY RefilledShape
<1>3. /\ DOMAIN l.entries = 1 .. Len(l.entries)
      /\ ToSet(l.entries) = ToSet(hs)
  BY <1>1, EntryFacts
<1>4. DOMAIN hs = 1 .. Len(hs)
  BY <1>1 DEF Laid, Chain
<1>5. \A k \in 1 .. Len(l.entries) : \E m \in 1 .. Len(hs) : l.entries[k] = hs[m]
  <2> HIDE DEF l
  <2>1. \A k \in 1 .. Len(l.entries) : l.entries[k] \in ToSet(hs)
    BY <1>3 DEF ToSet
  <2> QED
    BY <1>4, <2>1 DEF ToSet
<1>6. PICK j \in 1 .. Len(hs) : h = hs[j]
  BY <1>1, <1>5
<1>7. SameButFour(b, c, l.cdStart, hs[j] + 16)
  BY <1>2, <1>6
<1>8. /\ Layout(c) = Layout(b)
      /\ \A k \in 1 .. Len(hs) :
            /\ NameOf(c, hs[k]) = NameOf(b, hs[k])
            /\ LocalOffset(c, hs[k]) = LocalOffset(b, hs[k])
            /\ ReadU16(c, hs[k] + 8) = ReadU16(b, hs[k] + 8)
            /\ ReadU16(c, hs[k] + 10) = ReadU16(b, hs[k] + 10)
            /\ ReadU32(c, hs[k] + 20) = ReadU32(b, hs[k] + 20)
            /\ ReadU32(c, hs[k] + 24) = ReadU32(b, hs[k] + 24)
            /\ k # j => ReadU32(c, hs[k] + 16) = ReadU32(b, hs[k] + 16)
  BY <1>1, <1>7, LayoutKept
<1> HIDE DEF l, h
<1>9. ASSUME NEW k \in 1 .. Len(l.entries)
      PROVE  LET g == l.entries[k]
             IN /\ NameOf(c, g) = NameOf(b, g)
                /\ LocalOffset(c, g) = LocalOffset(b, g)
                /\ ReadU16(c, g + 8) = ReadU16(b, g + 8)
                /\ ReadU16(c, g + 10) = ReadU16(b, g + 10)
                /\ ReadU32(c, g + 20) = ReadU32(b, g + 20)
                /\ ReadU32(c, g + 24) = ReadU32(b, g + 24)
                /\ g # h => ReadU32(c, g + 16) = ReadU32(b, g + 16)
  <2>1. PICK m \in 1 .. Len(hs) : l.entries[k] = hs[m]
    BY <1>5
  <2>2. hs[m] # h => m # j
    BY <1>6
  <2> QED
    BY <1>8, <2>1, <2>2
<1> QED
  BY <1>8, <1>9 DEF SameEntries, l, h

\* Names in their places are found where they were.
LEMMA SamePosition ==
  ASSUME NEW b, NEW c, NEW l, NEW name, DOMAIN l.entries = 1 .. Len(l.entries),
         \A k \in 1 .. Len(l.entries) : NameOf(c, l.entries[k]) = NameOf(b, l.entries[k])
  PROVE  Position(c, l, name) = Position(b, l, name)
<1>1. {k \in DOMAIN l.entries : NameOf(c, l.entries[k]) = name}
        = {k \in DOMAIN l.entries : NameOf(b, l.entries[k]) = name}
  OBVIOUS
<1> QED
  BY <1>1 DEF Position

\* The content of the entry that is filled lies where it did.
LEMMA RefilledRange ==
  ASSUME NEW b \in Seq(Octet), Layout(b).verdict = "ok", NEW hs, NEW i, NEW content,
         NEW c, Refilled(b, Layout(b).value, hs, i, content, c)
  PROVE  LET l == Layout(b).value
         IN /\ ContentRange(c, l, i) = ContentRange(b, l, i)
            /\ StoredInClear(c, l.entries[i])
<1> DEFINE l == Layout(b).value
           h == l.entries[i]
           lh == LocalOffset(b, h)
           start == ContentRange(b, l, i).value.start
           end == ContentRange(b, l, i).value.end
           boundary == EntryBoundary(b, l, i)
           cd == l.cdStart
<1>1. /\ Laid(b, l, hs) /\ i \in 1 .. Len(l.entries)
      /\ StoredInClear(b, h) /\ Len(c) = Len(b)
  BY DEF Refilled
<1>2. /\ InOrder(b, lh, start, end, boundary, cd, h)
      /\ Untouched(b, c, lh, start, end, h)
  BY RefilledShape
<1>3. \A k \in 1 .. Len(l.entries) :
         LET g == l.entries[k]
         IN /\ LocalOffset(c, g) = LocalOffset(b, g)
            /\ ReadU16(c, g + 8) = ReadU16(b, g + 8)
            /\ ReadU16(c, g + 10) = ReadU16(b, g + 10)
            /\ ReadU32(c, g + 20) = ReadU32(b, g + 20)
  <2>1. SameEntries(b, c, l, i)
    BY RefilledLayout
  <2> HIDE DEF l
  <2> QED
    BY <2>1 DEF SameEntries
<1>4. /\ LocalOffset(c, h) = lh
      /\ ReadU16(c, h + 8) = ReadU16(b, h + 8) /\ ReadU16(c, h + 10) = ReadU16(b, h + 10)
      /\ ReadU32(c, h + 20) = ReadU32(b, h + 20)
  BY <1>1, <1>3
<1>5. EntryBoundary(c, l, i) = boundary
  <2>1. Len(l.entries) \in Nat
    BY <1>1, EntryFacts
  <2> HIDE DEF l
  <2>2. i < Len(l.entries) => i + 1 \in 1 .. Len(l.entries)
    BY <1>1, <2>1
  <2> QED
    BY <1>3, <2>2 DEF EntryBoundary, boundary
<1> HIDE DEF h, lh, start, end, boundary, cd
<1>6. /\ ReadU32(c, lh) = ReadU32(b, lh)
      /\ ReadU16(c, lh + 6) = ReadU16(b, lh + 6)
      /\ ReadU16(c, lh + 26) = ReadU16(b, lh + 26)
      /\ ReadU16(c, lh + 28) = ReadU16(b, lh + 28)
  <2>1. /\ lh \in Nat /\ lh + 4 <= Len(b) /\ lh + 4 <= lh + 14
        /\ lh + 6 \in Nat /\ (lh + 6) + 2 <= Len(b) /\ (lh + 6) + 2 <= lh + 14
        /\ lh + 26 \in Nat /\ (lh + 26) + 2 <= Len(b)
        /\ lh + 18 <= lh + 26 /\ (lh + 26) + 2 <= start
        /\ lh + 28 \in Nat /\ (lh + 28) + 2 <= Len(b)
        /\ lh + 18 <= lh + 28 /\ (lh + 28) + 2 <= start
    <3>1. /\ lh \in Nat /\ start \in Nat /\ Len(b) \in Nat
          /\ lh + 30 <= start /\ start <= Len(b)
      BY <1>2 DEF InOrder
    <3> QED
      BY <3>1
  <2>2. Same(b, c, lh, 4) /\ Same(b, c, lh + 6, 2)
    BY <1>2, <2>1, UntouchedPart
  <2>3. Same(b, c, lh + 26, 2) /\ Same(b, c, lh + 28, 2)
    BY <1>2, <2>1, UntouchedPart
  <2> QED
    BY <2>1, <2>2, <2>3, SameNumbers
<1>7. ContentRange(c, l, i) = ContentRange(b, l, i)
  BY <1>1, <1>4, <1>5, <1>6 DEF ContentRange, h, lh, boundary
<1>8. StoredInClear(c, h)
  BY <1>1, <1>4 DEF StoredInClear
<1> QED
  BY <1>7, <1>8 DEF h

\* It is read back.
LEMMA RefilledContent ==
  ASSUME NEW b \in Seq(Octet), NEW l, NEW hs, NEW i, NEW content, NEW c,
         Refilled(b, l, hs, i, content, c)
  PROVE  LET range == ContentRange(b, l, i).value
         IN Bytes(c, range.start, range.end) = content
<1> DEFINE h == l.entries[i]
           lh == LocalOffset(b, h)
           start == ContentRange(b, l, i).value.start
           end == ContentRange(b, l, i).value.end
           boundary == EntryBoundary(b, l, i)
           cd == l.cdStart
           sum == Le(Crc32(content), 4)
<1>1. /\ content \in Seq(Octet) /\ Len(content) = end - start
      /\ c \in Seq(Octet) /\ Len(c) = Len(b)
      /\ \A p \in 0 .. Len(b) - 1 :
          c[p + 1] =
            IF p \in h + 16 .. h + 19 THEN sum[(p + 1) - (h + 16)]
            ELSE IF p \in lh + 14 .. lh + 17 THEN sum[(p + 1) - (lh + 14)]
            ELSE IF p \in start .. end - 1 THEN content[(p + 1) - start]
            ELSE b[p + 1]
  BY DEF Refilled
<1>2. InOrder(b, lh, start, end, boundary, cd, h)
  BY RefilledShape
<1> HIDE DEF h, lh, start, end, boundary, cd, sum
<1>3. /\ start \in Nat /\ end \in Nat /\ lh \in Nat /\ h \in Nat /\ Len(b) \in Nat
      /\ lh + 30 <= start /\ start <= end /\ end <= h /\ end <= Len(b)
  BY <1>2 DEF InOrder
<1>4. ASSUME NEW k \in 1 .. Len(content)
      PROVE  c[start + k] = content[k]
  <2> DEFINE p == start + k - 1
  <2>1. /\ p \in 0 .. Len(b) - 1 /\ p + 1 = start + k /\ (p + 1) - start = k
        /\ ~(p \in h + 16 .. h + 19) /\ ~(p \in lh + 14 .. lh + 17)
        /\ p \in start .. end - 1
    BY <1>1, <1>3
  <2> HIDE DEF p
  <2> QED
    BY <1>1, <2>1
<1>5. Bytes(c, start, end) \in Seq(Octet) /\ Len(Bytes(c, start, end)) = end - start
  BY <1>1, <1>3, BytesType
<1>6. \A k \in 1 .. Len(content) : Bytes(c, start, end)[k] = c[start + k]
  <2>1. end <= Len(c) /\ c \in Seq(Octet) /\ Len(content) = end - start
    BY <1>1, <1>3
  <2>2. Len(Bytes(c, start, end)) = end - start
    BY <1>5
  <2> QED
    BY <1>3, <2>1, <2>2 DEF Bytes
<1>7. Bytes(c, start, end) = content
  BY <1>1, <1>4, <1>5, <1>6, SeqEqual
<1> QED
  BY <1>7 DEF start, end

\* A reader finds the content that was filled in.
LEMMA RefilledRead ==
  ASSUME NEW b \in Seq(Octet), Layout(b).verdict = "ok", NEW hs, NEW content, NEW c,
         Position(b, Layout(b).value, ZIP_MANIFEST_PATH) # 0,
         Refilled(b, Layout(b).value, hs,
                  Position(b, Layout(b).value, ZIP_MANIFEST_PATH), content, c)
  PROVE  HostRead(c) = Answer("value", content)
<1> DEFINE l == Layout(b).value
           i == Position(b, l, ZIP_MANIFEST_PATH)
           h == l.entries[i]
           range == ContentRange(b, l, i)
<1>1. Laid(b, l, hs) /\ range.verdict = "ok"
  BY DEF Refilled
<1>2. /\ Layout(c) = Layout(b)
      /\ \A k \in 1 .. Len(l.entries) : NameOf(c, l.entries[k]) = NameOf(b, l.entries[k])
  <2>1. Layout(c) = Layout(b) /\ SameEntries(b, c, l, i)
    BY RefilledLayout
  <2> HIDE DEF l, i
  <2> QED
    BY <2>1 DEF SameEntries, l
<1>3. Position(c, l, ZIP_MANIFEST_PATH) = i
  <2>1. DOMAIN l.entries = 1 .. Len(l.entries)
    BY <1>1, EntryFacts
  <2> QED
    BY <1>2, <2>1, SamePosition
<1>4. ContentRange(c, l, i) = range /\ StoredInClear(c, h)
  BY RefilledRange
<1>5. Bytes(c, range.value.start, range.value.end) = content
  BY RefilledContent
<1>6. ManifestRange(c, l, i) = range
  BY <1>4 DEF ManifestRange
<1>7. i # 0
  OBVIOUS
<1> HIDE DEF l, range, i
<1>8. Layout(c).verdict = "ok" /\ Layout(c).value = l
  BY <1>2 DEF l
<1>9. ReadManifestEntry(c, ZIP_MANIFEST_PATH) = Ok(Bytes(c, range.value.start, range.value.end))
  BY <1>1, <1>3, <1>6, <1>7, <1>8 DEF ReadManifestEntry, Try
<1> QED
  BY <1>5, <1>9 DEF HostRead, Host, Ok

\* Entry k has its binding range, and that its bytes.
BoundSame(b, c, l, k) ==
  LET range == BindingRange(b, l, k).value
  IN /\ BindingRange(c, l, k) = BindingRange(b, l, k)
     /\ Bytes(c, range.start, range.end) = Bytes(b, range.start, range.end)

\* An entry other than the one that is filled is bound to the same bytes.
LEMMA RefilledMember ==
  ASSUME NEW b \in Seq(Octet), Layout(b).verdict = "ok", NEW hs, NEW i, NEW content,
         NEW c, Refilled(b, Layout(b).value, hs, i, content, c),
         AllBound(b, Layout(b).value), NEW k \in 1 .. Len(Layout(b).value.entries), k # i
  PROVE  BoundSame(b, c, Layout(b).value, k)
<1> DEFINE l == Layout(b).value
           h == l.entries[i]
           g == l.entries[k]
           lh == LocalOffset(b, h)
           start == ContentRange(b, l, i).value.start
           end == ContentRange(b, l, i).value.end
           boundary == EntryBoundary(b, l, i)
           cd == l.cdStart
           from == From(b, l, k)
           to == To(b, l, k)
           behind == EntryBoundary(b, l, k)
           stop == ContentRange(b, l, k).value.end
           streamed == (ReadU16(b, g + 8) \div 8) % 2 = 1
           sig == ReadU32(b, stop) = DATA_DESCRIPTOR_SIG
<1>1. /\ Laid(b, l, hs) /\ i \in 1 .. Len(l.entries) /\ k \in 1 .. Len(l.entries)
      /\ c \in Seq(Octet) /\ Len(c) = Len(b)
  BY DEF Refilled
<1>2. /\ InOrder(b, lh, start, end, boundary, cd, h)
      /\ Untouched(b, c, lh, start, end, h)
  BY RefilledShape
<1>3. SameEntries(b, c, l, i)
  BY RefilledLayout
<1>4. /\ from \in Nat /\ to \in Nat /\ from < to /\ to <= behind /\ behind <= cd
      /\ behind \in Nat /\ BindingRange(b, l, k).value.start = from
      /\ lh \in Nat /\ boundary \in Nat /\ lh < boundary
      /\ k < i => to <= lh
      /\ i < k => boundary <= from
  <2>1. From(b, l, i) = lh
    BY DEF From
  <2>2. Laid(b, l, hs) /\ AllBound(b, l)
    BY <1>1
  <2> HIDE DEF l, lh, from, to, behind, boundary, cd
  <2>3. /\ \A j \in 1 .. Len(l.entries) :
              /\ From(b, l, j) \in Nat /\ To(b, l, j) \in Nat
              /\ EntryBoundary(b, l, j) \in Nat
              /\ From(b, l, j) < To(b, l, j) /\ To(b, l, j) <= EntryBoundary(b, l, j)
              /\ EntryBoundary(b, l, j) <= l.cdStart
              /\ BindingRange(b, l, j).value.start = From(b, l, j)
        /\ \A j, m \in 1 .. Len(l.entries) :
              j < m => To(b, l, j) <= From(b, l, m) /\ EntryBoundary(b, l, j) <= From(b, l, m)
    BY <2>2, Disjoint
  <2>4. /\ from \in Nat /\ to \in Nat /\ from < to /\ to <= behind /\ behind <= cd
        /\ behind \in Nat /\ BindingRange(b, l, k).value.start = from
    BY <1>1, <2>3 DEF from, to, behind, cd
  <2>5. /\ lh \in Nat /\ boundary \in Nat /\ To(b, l, i) \in Nat
        /\ lh < To(b, l, i) /\ To(b, l, i) <= boundary
    BY <1>1, <2>1, <2>3 DEF boundary
  <2>6. (k < i => to <= lh) /\ (i < k => boundary <= from)
    BY <1>1, <2>1, <2>3 DEF from, to, boundary
  <2> QED
    BY <2>4, <2>5, <2>6
<1>5. /\ ContentRange(b, l, k).verdict = "ok" /\ stop \in Nat /\ from + 30 <= stop
      /\ from + 30 <= to
      /\ to = stop + (IF streamed THEN IF sig THEN 16 ELSE 12 ELSE 0)
      /\ BindingRange(b, l, k).verdict = "ok"
  <2> DEFINE first == ContentRange(b, l, k).value.start
  <2>1. BindingRange(b, l, k).verdict = "ok"
    BY DEF AllBound
  <2>2. /\ ContentRange(b, l, k).verdict = "ok"
        /\ LocalOffset(b, g) + 30 <= to
        /\ to = stop + (IF streamed THEN IF sig THEN 16 ELSE 12 ELSE 0)
    BY <1>1, <2>1, BindingFacts DEF To
  <2>3. /\ first \in Nat /\ stop \in Nat /\ LocalOffset(b, g) + 30 <= first
        /\ first <= stop
    BY <1>1, <2>2, ContentFacts
  <2>4. LocalOffset(b, g) = from
    BY DEF From
  <2> HIDE DEF first, stop, from, to, l, g
  <2>5. from + 30 <= stop
    BY <1>4, <2>3, <2>4
  <2> QED
    BY <2>1, <2>2, <2>3, <2>4, <2>5
<1>6. /\ k < i \/ i < k
      /\ g # h /\ LocalOffset(b, g) = from
  <2>1. LocalOffset(b, g) = from
    BY DEF From
  <2>2. Len(l.entries) \in Nat
    BY <1>1, EntryFacts
  <2> HIDE DEF l, from, to, g, h, boundary, lh
  <2>3. k < i \/ i < k
    BY <1>1, <2>2
  <2>4. from # lh
    BY <1>4, <2>3
  <2> QED
    BY <2>1, <2>3, <2>4 DEF lh
<1>7. /\ LocalOffset(c, g) = from
      /\ ReadU16(c, g + 8) = ReadU16(b, g + 8)
      /\ ReadU32(c, g + 16) = ReadU32(b, g + 16)
      /\ ReadU32(c, g + 20) = ReadU32(b, g + 20)
      /\ ReadU32(c, g + 24) = ReadU32(b, g + 24)
  <2> HIDE DEF l
  <2> QED
    BY <1>1, <1>3, <1>6 DEF SameEntries, g, h
<1>8. EntryBoundary(c, l, k) = behind
  <2>1. Len(l.entries) \in Nat
    BY <1>1, EntryFacts
  <2> HIDE DEF l
  <2>2. k < Len(l.entries) => k + 1 \in 1 .. Len(l.entries)
    BY <1>1, <2>1
  <2> QED
    BY <1>3, <2>2 DEF SameEntries, EntryBoundary, behind
<1> HIDE DEF l, h, g, lh, start, end, boundary, cd, from, to, behind, stop, streamed, sig
<1>9. ASSUME NEW p \in Nat, NEW w \in Nat, from <= p, p + w <= to
      PROVE  Same(b, c, p, w)
  <2>1. /\ start \in Nat /\ end \in Nat /\ cd \in Nat /\ h \in Nat /\ Len(b) \in Nat
        /\ end <= boundary /\ cd <= h /\ h + 46 <= Len(b)
    BY <1>2 DEF InOrder
  <2>2. /\ p + w <= Len(b)
        /\ p + w <= lh + 14 \/ (end <= p /\ p + w <= h + 16)
    BY <1>4, <1>6, <1>9, <2>1
  <2> QED
    BY <1>2, <2>2, UntouchedPart
<1>10. ContentRange(c, l, k) = ContentRange(b, l, k)
  <2>1. /\ from \in Nat /\ from <= from /\ from + 4 <= to
        /\ from + 6 \in Nat /\ from <= from + 6 /\ (from + 6) + 2 <= to
        /\ from + 26 \in Nat /\ from <= from + 26 /\ (from + 26) + 2 <= to
        /\ from + 28 \in Nat /\ from <= from + 28 /\ (from + 28) + 2 <= to
    <3>1. from \in Nat /\ to \in Nat /\ from + 30 <= to
      BY <1>4, <1>5
    <3> QED
      BY <3>1
  <2>2. /\ Same(b, c, from, 4) /\ Same(b, c, from + 6, 2)
        /\ Same(b, c, from + 26, 2) /\ Same(b, c, from + 28, 2)
    BY <1>9, <2>1
  <2>3. /\ ReadU32(c, from) = ReadU32(b, from)
        /\ ReadU16(c, from + 6) = ReadU16(b, from + 6)
        /\ ReadU16(c, from + 26) = ReadU16(b, from + 26)
        /\ ReadU16(c, from + 28) = ReadU16(b, from + 28)
    BY <2>1, <2>2, SameNumbers
  <2> QED
    BY <1>1, <1>6, <1>7, <1>8, <2>3 DEF ContentRange, g, behind
<1>11. ASSUME NEW at \in Nat, from <= at, at + 12 <= to
       PROVE  SumsAt(c, at, g) <=> SumsAt(b, at, g)
  <2>1. /\ at + 4 <= to /\ at + 4 \in Nat /\ from <= at + 4 /\ (at + 4) + 4 <= to
        /\ at + 8 \in Nat /\ from <= at + 8 /\ (at + 8) + 4 <= to
    BY <1>4, <1>11
  <2>2. Same(b, c, at, 4) /\ Same(b, c, at + 4, 4) /\ Same(b, c, at + 8, 4)
    BY <1>9, <1>11, <2>1
  <2>3. /\ ReadU32(c, at) = ReadU32(b, at) /\ ReadU32(c, at + 4) = ReadU32(b, at + 4)
        /\ ReadU32(c, at + 8) = ReadU32(b, at + 8)
    BY <2>1, <2>2, SameNumbers
  <2> QED
    BY <1>7, <2>3 DEF SumsAt
<1>12. Bound(c, l, k, stop) = Bound(b, l, k, stop)
  <2>1. ASSUME NEW x, NEW sum, EntryBoundary(x, l, k) = behind,
               LocalOffset(x, g) = from,
               sum = stop + (IF ReadU32(x, stop) = DATA_DESCRIPTOR_SIG THEN 4 ELSE 0),
               ReadU16(x, g + 8) = ReadU16(b, g + 8)
        PROVE  Bound(x, l, k, stop) =
                 IF streamed
                 THEN IF sum + 12 > behind \/ ~SumsAt(x, sum, g)
                      THEN Err("MalformedDataDescriptor") ELSE Ok(Span(from, sum + 12))
                 ELSE IF SumsAt(x, from + 14, g) THEN Ok(Span(from, stop)) ELSE Err("BadOffset")
    BY <2>1 DEF Bound, streamed, g
  <2>2. CASE streamed
    <3> DEFINE sum == stop + (IF sig THEN 4 ELSE 0)
    <3>1. /\ sum \in Nat /\ from <= sum /\ sum + 12 <= to
          /\ from <= stop /\ stop + 4 <= to
      BY <1>4, <1>5, <2>2
    <3>2. ReadU32(c, stop) = ReadU32(b, stop)
      BY <1>5, <1>9, <3>1, SameNumbers
    <3>3. /\ sum = stop + (IF ReadU32(b, stop) = DATA_DESCRIPTOR_SIG THEN 4 ELSE 0)
          /\ sum = stop + (IF ReadU32(c, stop) = DATA_DESCRIPTOR_SIG THEN 4 ELSE 0)
      BY <3>2 DEF sig
    <3> HIDE DEF sum
    <3>4. Bound(b, l, k, stop) =
            IF sum + 12 > behind \/ ~SumsAt(b, sum, g)
            THEN Err("MalformedDataDescriptor") ELSE Ok(Span(from, sum + 12))
      BY <1>6, <2>1, <2>2, <3>3 DEF behind
    <3>5. Bound(c, l, k, stop) =
            IF sum + 12 > behind \/ ~SumsAt(c, sum, g)
            THEN Err("MalformedDataDescriptor") ELSE Ok(Span(from, sum + 12))
      BY <1>7, <1>8, <2>1, <2>2, <3>3
    <3>6. SumsAt(c, sum, g) <=> SumsAt(b, sum, g)
      BY <1>11, <3>1
    <3> QED
      BY <3>4, <3>5, <3>6
  <2>3. CASE ~streamed
    <3>1. Bound(b, l, k, stop) =
            IF SumsAt(b, from + 14, g) THEN Ok(Span(from, stop)) ELSE Err("BadOffset")
      BY <1>6, <2>1, <2>3 DEF behind
    <3>2. Bound(c, l, k, stop) =
            IF SumsAt(c, from + 14, g) THEN Ok(Span(from, stop)) ELSE Err("BadOffset")
      BY <1>7, <1>8, <2>1, <2>3
    <3>3. from + 14 \in Nat /\ from <= from + 14 /\ (from + 14) + 12 <= to
      <4>1. from \in Nat /\ to \in Nat /\ from + 30 <= to
        BY <1>4, <1>5
      <4> QED
        BY <4>1
    <3>4. SumsAt(c, from + 14, g) <=> SumsAt(b, from + 14, g)
      BY <1>11, <3>3
    <3> QED
      BY <3>1, <3>2, <3>4
  <2> QED
    BY <2>2, <2>3
<1>13. BindingRange(c, l, k) = BindingRange(b, l, k)
  BY <1>5, <1>10, <1>12 DEF BindingRange, Try, stop
<1>14. Bytes(c, from, to) = Bytes(b, from, to)
  <2>1. to <= Len(b)
    <3>1. cd \in Nat /\ h \in Nat /\ Len(b) \in Nat /\ cd <= h /\ h + 46 <= Len(b)
      BY <1>2 DEF InOrder
    <3> QED
      BY <1>4, <3>1
  <2>2. to - from \in Nat /\ from + (to - from) <= to
    BY <1>4
  <2>3. Same(b, c, from, to - from)
    BY <1>4, <1>9, <2>2
  <2> QED
    BY <1>1, <1>4, <2>1, <2>3, SameBytes
<1> QED
  BY <1>4, <1>13, <1>14 DEF BoundSame, l, to, To

\* The directory and what follows keep their bytes, but for one checksum.
LEMMA RefilledDirectory ==
  ASSUME NEW b \in Seq(Octet), Layout(b).verdict = "ok", NEW hs, NEW content, NEW c,
         Position(b, Layout(b).value, ZIP_MANIFEST_PATH) # 0,
         Refilled(b, Layout(b).value, hs,
                  Position(b, Layout(b).value, ZIP_MANIFEST_PATH), content, c)
  PROVE  LET spans == CentralDirectoryRanges(b)
         IN /\ spans.verdict = "ok" /\ CentralDirectoryRanges(c) = spans
            /\ \A k \in DOMAIN spans.value :
                 Bytes(c, spans.value[k].start, spans.value[k].end)
                   = Bytes(b, spans.value[k].start, spans.value[k].end)
<1> DEFINE l == Layout(b).value
           i == Position(b, l, ZIP_MANIFEST_PATH)
           h == l.entries[i]
           cd == l.cdStart
<1>1. Laid(b, l, hs) /\ c \in Seq(Octet) /\ Len(c) = Len(b)
  BY DEF Refilled
<1>2. Layout(c) = Layout(b) /\ SameEntries(b, c, l, i)
  BY RefilledLayout
<1>3. Position(c, l, ZIP_MANIFEST_PATH) = i
  <2>1. DOMAIN l.entries = 1 .. Len(l.entries)
    BY <1>1, EntryFacts
  <2> HIDE DEF l, i
  <2>2. \A k \in 1 .. Len(l.entries) : NameOf(c, l.entries[k]) = NameOf(b, l.entries[k])
    BY <1>2 DEF SameEntries
  <2> QED
    BY <2>1, <2>2, SamePosition DEF i
<1>4. SameButFour(b, c, cd, h + 16)
  BY RefilledShape
<1>5. /\ h + 16 \in Nat /\ cd \in Nat /\ Len(b) \in Nat
      /\ cd <= h + 16 /\ (h + 16) + 4 <= Len(b)
  BY <1>1, CrcInside DEF CrcOf
<1>6. /\ CentralDirectoryRanges(b).verdict = "ok"
      /\ CentralDirectoryRanges(b).value =
           <<Span(cd, h + 16), Span(h + 16 + 4, Len(b))>>
  BY SpanFacts
<1>7. CentralDirectoryRanges(c) = CentralDirectoryRanges(b)
  <2> HIDE DEF i, h
  <2>1. i # 0
    BY DEF i
  <2>2. CentralDirectoryRanges(b) = Ok(DirectorySpans(b, l, CrcInDirectory(h)))
    BY <2>1 DEF CentralDirectoryRanges, Try, i, h
  <2>3. CentralDirectoryRanges(c) = Ok(DirectorySpans(c, l, CrcInDirectory(h)))
    BY <1>2, <1>3, <2>1 DEF CentralDirectoryRanges, Try, h
  <2> QED
    BY <1>1, <2>2, <2>3 DEF DirectorySpans
<1> HIDE DEF l, i, h, cd
<1>8. Bytes(c, cd, h + 16) = Bytes(b, cd, h + 16)
  <2>1. (h + 16) - cd \in Nat /\ cd + ((h + 16) - cd) <= h + 16 /\ h + 16 <= Len(b)
        /\ cd + ((h + 16) - cd) <= Len(b)
    BY <1>5
  <2>2. Same(b, c, cd, (h + 16) - cd)
    BY <1>4, <1>5, <2>1, SameAway
  <2> QED
    BY <1>1, <1>5, <2>1, <2>2, SameBytes
<1>9. Bytes(c, h + 16 + 4, Len(b)) = Bytes(b, h + 16 + 4, Len(b))
  <2> DEFINE crc == h + 16
             after == h + 16 + 4
             width == Len(b) - after
  <2>1. /\ after \in Nat /\ width \in Nat /\ after + width <= Len(b)
        /\ crc + 4 <= after /\ cd <= after
    BY <1>5
  <2>2. SameButFour(b, c, cd, crc)
    BY <1>4
  <2> HIDE DEF crc, after, width
  <2>3. Same(b, c, after, width)
    BY <2>1, <2>2, SameAway
  <2>4. Same(b, c, after, Len(b) - after)
    BY <2>3 DEF width
  <2>5. Len(b) \in Nat /\ Len(b) <= Len(b) /\ Len(b) <= Len(c)
    BY <1>1, <1>5
  <2>6. Bytes(c, after, Len(b)) = Bytes(b, after, Len(b))
    BY <1>1, <2>1, <2>4, <2>5, SameBytes
  <2> QED
    BY <2>6 DEF after
<1>10. \A k \in DOMAIN CentralDirectoryRanges(b).value :
         Bytes(c, CentralDirectoryRanges(b).value[k].start, CentralDirectoryRanges(b).value[k].end)
           = Bytes(b, CentralDirectoryRanges(b).value[k].start,
                      CentralDirectoryRanges(b).value[k].end)
  <2> DEFINE spans == CentralDirectoryRanges(b).value
  <2>1. /\ DOMAIN spans = {1, 2}
        /\ spans[1].start = cd /\ spans[1].end = h + 16
        /\ spans[2].start = h + 16 + 4 /\ spans[2].end = Len(b)
    BY <1>6 DEF Span
  <2> HIDE DEF spans
  <2>2. \A k \in DOMAIN spans : Bytes(c, spans[k].start, spans[k].end)
                                  = Bytes(b, spans[k].start, spans[k].end)
    BY <1>8, <1>9, <2>1
  <2> QED
    BY <2>2 DEF spans
<1> QED
  BY <1>6, <1>7, <1>10

\* The same four bytes in two places are the same number.
LEMMA SameNumberTwice ==
  ASSUME NEW c, NEW at \in Nat, NEW as \in Nat, \A p \in 1 .. 4 : c[at + p] = c[as + p]
  PROVE  ReadU32(c, at) = ReadU32(c, as)
<1>1. /\ c[at + 1] = c[as + 1] /\ c[at + 2] = c[as + 2]
      /\ c[(at + 2) + 1] = c[(as + 2) + 1] /\ c[(at + 2) + 2] = c[(as + 2) + 2]
  <2>1. /\ at + 3 = (at + 2) + 1 /\ at + 4 = (at + 2) + 2
        /\ as + 3 = (as + 2) + 1 /\ as + 4 = (as + 2) + 2
    OBVIOUS
  <2>2. /\ c[at + 1] = c[as + 1] /\ c[at + 2] = c[as + 2]
        /\ c[at + 3] = c[as + 3] /\ c[at + 4] = c[as + 4]
    <3>1. 1 \in 1 .. 4 /\ 2 \in 1 .. 4 /\ 3 \in 1 .. 4 /\ 4 \in 1 .. 4
      OBVIOUS
    <3> QED
      BY <3>1, Zenon
  <2> QED
    BY <2>1, <2>2
<1> QED
  BY <1>1 DEF ReadU32, ReadU16

\* The entry that is filled is bound where it was, unless it is streamed: both
\* of its headers have the new checksum, a data descriptor would keep the old.
LEMMA RefilledSelf ==
  ASSUME NEW b \in Seq(Octet), Layout(b).verdict = "ok", NEW hs, NEW i, NEW content,
         NEW c, Refilled(b, Layout(b).value, hs, i, content, c),
         BindingRange(b, Layout(b).value, i).verdict = "ok",
         (ReadU16(b, Layout(b).value.entries[i] + 8) \div 8) % 2 # 1
  PROVE  BindingRange(c, Layout(b).value, i) = BindingRange(b, Layout(b).value, i)
<1> DEFINE l == Layout(b).value
           h == l.entries[i]
           lh == LocalOffset(b, h)
           start == ContentRange(b, l, i).value.start
           end == ContentRange(b, l, i).value.end
           boundary == EntryBoundary(b, l, i)
           cd == l.cdStart
           sum == Le(Crc32(content), 4)
<1>1. /\ Laid(b, l, hs) /\ i \in 1 .. Len(l.entries) /\ Len(c) = Len(b)
      /\ ContentRange(b, l, i).verdict = "ok"
      /\ \A p \in 0 .. Len(b) - 1 :
          c[p + 1] =
            IF p \in h + 16 .. h + 19 THEN sum[(p + 1) - (h + 16)]
            ELSE IF p \in lh + 14 .. lh + 17 THEN sum[(p + 1) - (lh + 14)]
            ELSE IF p \in start .. end - 1 THEN content[(p + 1) - start]
            ELSE b[p + 1]
  BY DEF Refilled
<1>2. /\ InOrder(b, lh, start, end, boundary, cd, h)
      /\ Untouched(b, c, lh, start, end, h)
  BY RefilledShape
<1>3. SameEntries(b, c, l, i) /\ ContentRange(c, l, i) = ContentRange(b, l, i)
  <2>1. SameEntries(b, c, l, i)
    BY RefilledLayout
  <2>2. /\ ContentRange(c, l, i) = ContentRange(b, l, i)
        /\ StoredInClear(c, l.entries[i])
    BY RefilledRange
  <2> QED
    BY <2>1, <2>2
<1>4. /\ LocalOffset(c, h) = lh
      /\ ReadU16(c, h + 8) = ReadU16(b, h + 8)
      /\ ReadU32(c, h + 20) = ReadU32(b, h + 20)
      /\ ReadU32(c, h + 24) = ReadU32(b, h + 24)
  <2> HIDE DEF l
  <2> QED
    BY <1>1, <1>3 DEF SameEntries, h, lh
<1>5. SumsAt(b, lh + 14, h) /\ Bound(b, l, i, end) = Ok(Span(lh, end))
  <2>1. BindingRange(b, l, i) = Bound(b, l, i, end)
    BY <1>1 DEF BindingRange, Try
  <2>2. Bound(b, l, i, end) =
          IF SumsAt(b, lh + 14, h) THEN Ok(Span(lh, end)) ELSE Err("BadOffset")
    BY DEF Bound
  <2>3. Err("BadOffset").verdict # "ok"
    BY DEF Err
  <2> HIDE DEF l, lh, h, end
  <2> QED
    BY <2>1, <2>2, <2>3 DEF l
<1>6. Bound(c, l, i, end) =
        IF SumsAt(c, lh + 14, h) THEN Ok(Span(lh, end)) ELSE Err("BadOffset")
  BY <1>4 DEF Bound
<1> HIDE DEF l, h, lh, start, end, boundary, cd, sum
<1>7. /\ lh \in Nat /\ start \in Nat /\ h \in Nat /\ Len(b) \in Nat
      /\ lh + 30 <= start /\ start <= h /\ h + 46 <= Len(b)
  BY <1>2 DEF InOrder
<1>8. ReadU32(c, lh + 14) = ReadU32(c, h + 16)
  <2>1. ASSUME NEW p \in 1 .. 4
        PROVE  c[(lh + 14) + p] = sum[p] /\ c[(h + 16) + p] = sum[p]
    <3> DEFINE here == lh + 14 + p - 1
               there == h + 16 + p - 1
    <3>1. /\ here \in 0 .. Len(b) - 1 /\ here + 1 = (lh + 14) + p
          /\ (here + 1) - (lh + 14) = p
          /\ here \in lh + 14 .. lh + 17 /\ ~(here \in h + 16 .. h + 19)
      BY <1>7
    <3>2. /\ there \in 0 .. Len(b) - 1 /\ there + 1 = (h + 16) + p
          /\ (there + 1) - (h + 16) = p /\ there \in h + 16 .. h + 19
      BY <1>7
    <3> HIDE DEF here, there
    <3>3. c[here + 1] = sum[(here + 1) - (lh + 14)]
      BY <1>1, <3>1
    <3>4. c[there + 1] = sum[(there + 1) - (h + 16)]
      BY <1>1, <3>2
    <3> QED
      BY <3>1, <3>2, <3>3, <3>4
  <2>2. lh + 14 \in Nat /\ h + 16 \in Nat
    BY <1>7
  <2> QED
    BY <2>1, <2>2, SameNumberTwice, SMTT(20)
<1>9. /\ ReadU32(c, (lh + 14) + 4) = ReadU32(b, (lh + 14) + 4)
      /\ ReadU32(c, (lh + 14) + 8) = ReadU32(b, (lh + 14) + 8)
  <2>1. /\ (lh + 14) + 4 \in Nat /\ ((lh + 14) + 4) + 4 <= Len(b)
        /\ lh + 18 <= (lh + 14) + 4 /\ ((lh + 14) + 4) + 4 <= start
        /\ (lh + 14) + 8 \in Nat /\ ((lh + 14) + 8) + 4 <= Len(b)
        /\ lh + 18 <= (lh + 14) + 8 /\ ((lh + 14) + 8) + 4 <= start
    BY <1>7, SMTT(20)
  <2>2. Same(b, c, (lh + 14) + 4, 4) /\ Same(b, c, (lh + 14) + 8, 4)
    BY <1>2, <2>1, UntouchedPart
  <2> QED
    BY <2>1, <2>2, SameNumbers
<1>10. SumsAt(c, lh + 14, h)
  BY <1>4, <1>5, <1>8, <1>9 DEF SumsAt
<1>11. Bound(c, l, i, end) = Bound(b, l, i, end)
  BY <1>5, <1>6, <1>10
<1>12. BindingRange(c, l, i) = BindingRange(b, l, i)
  BY <1>1, <1>3, <1>11 DEF BindingRange, Try, end
<1> QED
  BY <1>12 DEF l

\* The members are what they were, unless the manifest is streamed.
LEMMA RefilledMembers ==
  ASSUME NEW b \in Seq(Octet), Layout(b).verdict = "ok", NEW hs, NEW i, NEW content,
         NEW c, Refilled(b, Layout(b).value, hs, i, content, c),
         AllBound(b, Layout(b).value),
         (ReadU16(b, Layout(b).value.entries[i] + 8) \div 8) % 2 # 1
  PROVE  CollectionMembers(c) = CollectionMembers(b)
<1> DEFINE l == Layout(b).value
           Found(x) == [k \in DOMAIN l.entries |-> MemberRange(x, l, k)]
           Rest(members) ==
             Ok(Kept(members, {k \in DOMAIN members : members[k].name # ZIP_MANIFEST_PATH}))
<1>1. Laid(b, l, hs) /\ i \in 1 .. Len(l.entries)
  BY DEF Refilled
<1>2. Layout(c) = Layout(b) /\ SameEntries(b, c, l, i)
  BY RefilledLayout
<1>3. DOMAIN l.entries = 1 .. Len(l.entries)
  BY <1>1, EntryFacts
<1>4. ASSUME NEW k \in 1 .. Len(l.entries)
      PROVE  BindingRange(c, l, k) = BindingRange(b, l, k)
  <2>1. CASE k = i
    <3>1. BindingRange(b, l, i).verdict = "ok"
      BY <1>1 DEF AllBound
    <3>2. BindingRange(c, l, i) = BindingRange(b, l, i)
      BY <3>1, RefilledSelf
    <3> QED
      BY <2>1, <3>2
  <2>2. CASE k # i
    <3>1. BoundSame(b, c, l, k)
      BY <2>2, RefilledMember
    <3> QED
      BY <3>1 DEF BoundSame
  <2> QED
    BY <2>1, <2>2
<1>5. \A k \in 1 .. Len(l.entries) : NameOf(c, l.entries[k]) = NameOf(b, l.entries[k])
  <2> HIDE DEF l
  <2> QED
    BY <1>2 DEF SameEntries
<1>6. \A k \in 1 .. Len(l.entries) : MemberRange(c, l, k) = MemberRange(b, l, k)
  <2> HIDE DEF l
  <2> QED
    BY <1>4, <1>5 DEF MemberRange, Try
<1>7. Found(c) = Found(b)
  <2> HIDE DEF l
  <2> QED
    BY <1>3, <1>6
<1>8. CollectionMembers(b) = Try(Collect(Found(b)), Rest)
  BY DEF CollectionMembers, Try
<1>9. CollectionMembers(c) = Try(Collect(Found(c)), Rest)
  BY <1>2 DEF CollectionMembers, Try
<1> QED
  BY <1>7, <1>8, <1>9

\* A signer hashes between embed_manifest and fill_manifest, so a fill may move
\* nothing and change no byte that was hashed.  After a fill that succeeds the
\* layout is the same, the store is read back, the ranges of the directory are
\* the same and have the same bytes; if the members could be listed, each entry
\* but the one filled is bound where it was to the bytes it had, and the list of
\* members is the same unless the entry filled has a data descriptor, the one
\* place of its checksum that fill_manifest does not know of.
FilledInPlace(b, c, store) ==
  LET l     == Layout(b).value
      i     == Position(b, l, ZIP_MANIFEST_PATH)
      spans == CentralDirectoryRanges(b)
  IN /\ Layout(c) = Layout(b) /\ HostRead(c) = Answer("value", store)
     /\ spans.verdict = "ok" /\ CentralDirectoryRanges(c) = spans
     /\ \A k \in DOMAIN spans.value :
          Bytes(c, spans.value[k].start, spans.value[k].end)
            = Bytes(b, spans.value[k].start, spans.value[k].end)
     /\ CollectionMembers(b).verdict = "ok" =>
          /\ \A k \in 1 .. Len(l.entries) : k # i => BoundSame(b, c, l, k)
          /\ (ReadU16(b, l.entries[i] + 8) \div 8) % 2 # 1 =>
               CollectionMembers(c) = CollectionMembers(b)

FillsKeepPlaces ==
  [][\A store \in Stores :
       Fill(store) /\ call'.verdict = "ok" => FilledInPlace(doc, doc', store)]_vars

\* Of any sequence of bytes.
LEMMA FillOfBytes ==
  ASSUME NEW b \in Seq(Octet), NEW store \in Seq(Octet), Crc32(store) \in 0 .. U32Max,
         FillZipEntry(b, ZIP_MANIFEST_PATH, store).verdict = "ok"
  PROVE  FilledInPlace(b, FillZipEntry(b, ZIP_MANIFEST_PATH, store).value, store)
<1> DEFINE l == Layout(b).value
           i == Position(b, l, ZIP_MANIFEST_PATH)
           c == FillZipEntry(b, ZIP_MANIFEST_PATH, store).value
           spans == CentralDirectoryRanges(b)
<1>1. /\ Layout(b).verdict = "ok" /\ i # 0
      /\ \E hs : Refilled(b, l, hs, i, store, c)
  BY FillRefills
<1>2. PICK hs : Refilled(b, l, hs, i, store, c)
  BY <1>1
<1> HIDE DEF c
<1>3. Layout(c) = Layout(b)
  BY <1>1, <1>2, RefilledLayout
<1>4. HostRead(c) = Answer("value", store)
  BY <1>1, <1>2, RefilledRead
<1>5. /\ spans.verdict = "ok" /\ CentralDirectoryRanges(c) = spans
      /\ \A k \in DOMAIN spans.value :
           Bytes(c, spans.value[k].start, spans.value[k].end)
             = Bytes(b, spans.value[k].start, spans.value[k].end)
  BY <1>1, <1>2, RefilledDirectory
<1>6. ASSUME CollectionMembers(b).verdict = "ok"
      PROVE  /\ \A k \in 1 .. Len(l.entries) : k # i => BoundSame(b, c, l, k)
             /\ (ReadU16(b, l.entries[i] + 8) \div 8) % 2 # 1 =>
                  CollectionMembers(c) = CollectionMembers(b)
  <2>1. AllBound(b, l)
    BY <1>6, MemberFacts
  <2>2. ASSUME NEW k \in 1 .. Len(l.entries), k # i
        PROVE  BoundSame(b, c, l, k)
    BY <1>1, <1>2, <2>1, <2>2, RefilledMember
  <2>3. (ReadU16(b, l.entries[i] + 8) \div 8) % 2 # 1 =>
          CollectionMembers(c) = CollectionMembers(b)
    BY <1>1, <1>2, <2>1, RefilledMembers
  <2> QED
    BY <2>2, <2>3
<1>7. FilledInPlace(b, c, store)
  BY <1>3, <1>4, <1>5, <1>6 DEF FilledInPlace
<1> QED
  BY <1>7 DEF c

\* Whatever the document and the store, fill_manifest moves nothing, is read
\* back, and changes no byte of the directory but the checksum the ranges leave
\* out, nor any byte of a member.
THEOREM FillsLeaveTheRest == Spec => FillsKeepPlaces
<1>1. ByteTypeOK /\ [Next]_vars =>
        [\A store \in Stores :
           Fill(store) /\ call'.verdict = "ok" => FilledInPlace(doc, doc', store)]_vars
  <2> SUFFICES ASSUME ByteTypeOK, NEW store \in Stores, Fill(store), call'.verdict = "ok"
               PROVE  FilledInPlace(doc, doc', store)
    OBVIOUS
  <2> DEFINE result == FillZipEntry(doc, ZIP_MANIFEST_PATH, store)
  <2>1. result.verdict = "ok" /\ doc' = result.value
    <3>1. /\ call' = [op |-> "fill", store |-> store, verdict |-> result.verdict]
          /\ doc' = IF result.verdict = "ok" THEN result.value ELSE doc
      BY DEF Fill, Call
    <3> HIDE DEF result
    <3>2. call'.verdict = result.verdict
      BY <3>1
    <3> QED
      BY <3>1, <3>2
  <2>2. doc \in Seq(Octet) /\ store \in Seq(Octet) /\ Crc32(store) \in 0 .. U32Max
    BY ByteAssumption DEF ByteTypeOK, Octet
  <2> QED
    BY <2>1, <2>2, FillOfBytes
<1> QED
  BY <1>1, BytesAreBytes, PTL DEF Spec, FillsKeepPlaces
=============================================================================
