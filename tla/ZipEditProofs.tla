---------------------------- MODULE ZipEditProofs ---------------------------
(***************************************************************************)
(* What parse_layout and the range operations guarantee of any archive:    *)
(* which entries there are, in which order, and where their ranges lie;    *)
(* and what the operations return: each verdict is a name, each archive    *)
(* written is one, and an in-place fill leaves the layout.                 *)
(***************************************************************************)
EXTENDS ZipEdit, CollectionBinding, FiniteSetTheorems, SequenceTheorems,
        WellFoundedInduction, TLAPS

-----------------------------------------------------------------------------
(* Least and greatest elements                                             *)

\* A non-empty set of naturals has a least element.
LEMMA LeastNatural ==
  ASSUME NEW S, S \subseteq Nat, S # {}
  PROVE  \E x \in S : \A y \in S : x <= y
<1> DEFINE R == OpToRel(<, Nat)
<1>1. IsWellFoundedOn(R, Nat)
  BY NatLessThanWellFounded
<1> HIDE DEF R
<1>2. PICK x \in S : \A y \in S : <<y, x>> \notin R
  BY <1>1, WFMin
<1>3. \A y \in S : y < x => <<y, x>> \in R
  BY DEF R, OpToRel
<1>4. ASSUME NEW y \in S
      PROVE  x <= y
  <2>1. x \in Nat /\ y \in Nat
    OBVIOUS
  <2>2. ~(y < x)
    BY <1>2, <1>3
  <2> QED
    BY <2>1, <2>2
<1> QED
  BY <1>4

\* Min is the least element of a non-empty set of naturals.
LEMMA MinIsLeast ==
  ASSUME NEW S, S \subseteq Nat, S # {}
  PROVE  Min(S) \in S /\ \A y \in S : Min(S) <= y
<1>1. \E x \in S : \A y \in S : x <= y
  BY LeastNatural
<1> QED
  BY <1>1 DEF Min

\* A non-empty set of numbers up to n has a greatest element, Max.
LEMMA MaxIsGreatest ==
  ASSUME NEW n \in Nat, NEW S, S \subseteq 0 .. n, S # {}
  PROVE  Max(S) \in S /\ \A y \in S : y <= Max(S)
<1> DEFINE T == {n - x : x \in S}
<1>1. T \subseteq Nat /\ T # {}
  <2>1. \A x \in S : x \in 0 .. n
    OBVIOUS
  <2>2. \A x \in 0 .. n : n - x \in Nat
    OBVIOUS
  <2>3. T # {}
    OBVIOUS
  <2> QED
    BY <2>1, <2>2, <2>3
<1>2. \A y \in S : n - y \in T
  OBVIOUS
<1>3. \A t \in T : \E x \in S : t = n - x
  OBVIOUS
<1> HIDE DEF T
<1>4. PICK t \in T : \A u \in T : t <= u
  BY <1>1, LeastNatural
<1>5. PICK x \in S : t = n - x
  BY <1>3
<1>6. \A y \in S : x >= y
  BY <1>2, <1>4, <1>5
<1>7. \E z \in S : \A y \in S : z >= y
  BY <1>6
<1> QED
  BY <1>7 DEF Max

-----------------------------------------------------------------------------
(* Ranks in a finite strict order                                          *)

\* R is a strict total order of S.
StrictOrder(R, S) ==
  /\ \A a \in S : <<a, a>> \notin R
  /\ \A a, b, c \in S : <<a, b>> \in R /\ <<b, c>> \in R => <<a, c>> \in R
  /\ \A a, b \in S : a # b => <<a, b>> \in R \/ <<b, a>> \in R

Below(R, S, h) == {g \in S : <<g, h>> \in R}

\* A rank is less than the number of elements, and grows along the order.
LEMMA RanksGrow ==
  ASSUME NEW S, IsFiniteSet(S), NEW R, StrictOrder(R, S)
  PROVE  /\ \A h \in S : Cardinality(Below(R, S, h)) \in 0 .. Cardinality(S) - 1
         /\ \A a, b \in S :
              <<a, b>> \in R => Cardinality(Below(R, S, a)) < Cardinality(Below(R, S, b))
<1> DEFINE n == Cardinality(S)
<1>1. n \in Nat
  BY FS_CardinalityType
<1>2. ASSUME NEW h \in S
      PROVE  /\ IsFiniteSet(Below(R, S, h))
             /\ Cardinality(Below(R, S, h)) \in 0 .. n - 1
  <2>1. Below(R, S, h) \in SUBSET (S \ {h})
    BY DEF Below, StrictOrder
  <2>2. IsFiniteSet(S \ {h}) /\ Cardinality(S \ {h}) = n - 1
    BY FS_RemoveElement
  <2>3. /\ IsFiniteSet(Below(R, S, h))
        /\ Cardinality(Below(R, S, h)) <= n - 1
    BY <2>1, <2>2, FS_Subset
  <2>4. Cardinality(Below(R, S, h)) \in Nat
    BY <2>3, FS_CardinalityType
  <2> QED
    BY <1>1, <2>3, <2>4
<1>3. ASSUME NEW a \in S, NEW b \in S, <<a, b>> \in R
      PROVE  Cardinality(Below(R, S, a)) < Cardinality(Below(R, S, b))
  <2>1. Below(R, S, a) \in SUBSET Below(R, S, b)
    BY <1>3 DEF Below, StrictOrder
  <2>2. a \in Below(R, S, b) /\ a \notin Below(R, S, a)
    BY <1>3 DEF Below, StrictOrder
  <2>3. IsFiniteSet(Below(R, S, b))
    BY <1>2
  <2>4. /\ Cardinality(Below(R, S, a)) <= Cardinality(Below(R, S, b))
        /\ Cardinality(Below(R, S, a)) # Cardinality(Below(R, S, b))
    BY <2>1, <2>2, <2>3, FS_Subset
  <2>5. Cardinality(Below(R, S, a)) \in Nat /\ Cardinality(Below(R, S, b)) \in Nat
    BY <1>1, <1>2
  <2> QED
    BY <2>4, <2>5
<1> QED
  BY <1>2, <1>3

\* In a finite strictly ordered set every rank is taken.
LEMMA EveryRankIsTaken ==
  ASSUME NEW S, IsFiniteSet(S), NEW R, StrictOrder(R, S),
         NEW k \in 1 .. Cardinality(S)
  PROVE  \E h \in S : Cardinality(Below(R, S, h)) = k - 1
<1> DEFINE n == Cardinality(S)
           rank == [h \in S |-> Cardinality(Below(R, S, h))]
<1>1. n \in Nat
  BY FS_CardinalityType
<1>2. rank \in [S -> 0 .. n - 1]
  BY RanksGrow
<1>3. ASSUME NEW a \in S, NEW b \in S, <<a, b>> \in R
      PROVE  rank[a] # rank[b]
  BY <1>1, <1>2, <1>3, RanksGrow
<1>4. rank \in Injection(S, 0 .. n - 1)
  <2>1. \A a, b \in S : rank[a] = rank[b] => a = b
    BY <1>3 DEF StrictOrder
  <2> QED
    BY <1>2, <2>1 DEF Injection, IsInjective
<1>5. IsFiniteSet(0 .. n - 1) /\ Cardinality(0 .. n - 1) = n
  <2>1. n - 1 \in Int /\ (0 > n - 1 => n = 0)
    BY <1>1
  <2>2. /\ IsFiniteSet(0 .. n - 1)
        /\ Cardinality(0 .. n - 1) = IF 0 > n - 1 THEN 0 ELSE n - 1 - 0 + 1
    BY <2>1, FS_Interval
  <2> QED
    BY <1>1, <2>1, <2>2
<1>6. rank \in Surjection(S, 0 .. n - 1)
  BY <1>4, <1>5, FS_Injection
<1>7. k - 1 \in 0 .. n - 1
  BY <1>1
<1>8. \E h \in S : rank[h] = k - 1
  BY <1>6, <1>7 DEF Surjection
<1> QED
  BY <1>8

-----------------------------------------------------------------------------
(* Cells                                                                   *)

\* A field holds a natural number, and four bytes hold what two do.
LEMMA FieldsAreNaturals ==
  /\ U16 \subseteq Nat /\ U32 \subseteq Nat /\ U16 \subseteq U32
  /\ U16Max \in Nat /\ U32Max \in Nat
BY WidthAssumption DEF U16, U32

\* The signature of a cell tells its kind.
LEMMA CellKinds ==
  ASSUME NEW c \in Cells
  PROVE  /\ c.sig = "LOCAL" => c \in LocalHeaders
         /\ c.sig = "CENTRAL" => c \in CdHeaders
         /\ c.sig = "EOCD" => c \in EocdRecords
BY DEF Cells, LocalHeaders, CdHeaders, EocdRecords

\* A structure at an offset of an archive.
LEMMA CellAt ==
  ASSUME NEW b \in Archives, NEW p \in Nat, p < Len(b)
  PROVE  At(b, p) \in Cells
BY DEF Archives, At

\* An archive is a function of the numbers from 1 to its length.
LEMMA ArchiveLength ==
  ASSUME NEW b \in Archives
  PROVE  Len(b) \in Nat /\ DOMAIN b = 1 .. Len(b)
BY DEF Archives

\* The cells between two offsets of an archive are an archive.
LEMMA SliceProperties ==
  ASSUME NEW b \in Archives, NEW from \in Nat, NEW to \in Nat,
         from <= to, to <= Len(b)
  PROVE  /\ Slice(b, from, to) \in Archives
         /\ Len(Slice(b, from, to)) = to - from
         /\ \A i \in 1 .. to - from : Slice(b, from, to)[i] = b[from + i]
<1>1. \A i \in from + 1 .. to : b[i] \in Cells
  BY DEF Archives
<1> QED
  BY <1>1, SubSeqProperties DEF Slice, Archives

\* A cell of a slice is the archive's.
LEMMA SliceAt ==
  ASSUME NEW b \in Archives, NEW from \in Nat, NEW to \in Nat, NEW i \in Nat,
         from + i < to, to <= Len(b)
  PROVE  Slice(b, from, to)[i + 1] = At(b, from + i)
<1>1. from <= to /\ i + 1 \in 1 .. to - from /\ from + (i + 1) = from + i + 1
  OBVIOUS
<1>2. Slice(b, from, to)[i + 1] = b[from + (i + 1)]
  BY <1>1, SliceProperties
<1> QED
  BY <1>1, <1>2 DEF At

\* What was written stays where it was.
LEMMA AppendedAfter ==
  ASSUME NEW b \in Archives, NEW more \in Archives
  PROVE  /\ b \o more \in Archives
         /\ Len(b \o more) = Len(b) + Len(more)
         /\ \A p \in Nat : p < Len(b) => At(b \o more, p) = At(b, p)
         /\ \A from, to \in Nat :
              from <= to /\ to <= Len(b) => Slice(b \o more, from, to) = Slice(b, from, to)
<1>1. /\ b \o more \in Archives
      /\ Len(b \o more) = Len(b) + Len(more)
      /\ Len(b) \in Nat /\ Len(more) \in Nat
      /\ \A i \in 1 .. Len(b) + Len(more) :
           (b \o more)[i] = IF i <= Len(b) THEN b[i] ELSE more[i - Len(b)]
  BY ConcatProperties, ArchiveLength DEF Archives
<1>2. ASSUME NEW p \in Nat, p < Len(b)
      PROVE  At(b \o more, p) = At(b, p)
  BY <1>1, <1>2 DEF At
<1>3. ASSUME NEW from \in Nat, NEW to \in Nat, from <= to, to <= Len(b)
      PROVE  Slice(b \o more, from, to) = Slice(b, from, to)
  <2>1. to <= Len(b \o more)
    BY <1>1, <1>3
  <2>2. /\ Slice(b \o more, from, to) \in Archives
        /\ Len(Slice(b \o more, from, to)) = to - from
        /\ \A i \in 1 .. to - from : Slice(b \o more, from, to)[i] = (b \o more)[from + i]
    BY <1>1, <1>3, <2>1, SliceProperties
  <2>3. /\ Slice(b, from, to) \in Archives
        /\ Len(Slice(b, from, to)) = to - from
        /\ \A i \in 1 .. to - from : Slice(b, from, to)[i] = b[from + i]
    BY <1>3, SliceProperties
  <2>4. \A i \in 1 .. to - from : (b \o more)[from + i] = b[from + i]
    BY <1>1, <1>3
  <2> QED
    <3> DEFINE x == Slice(b \o more, from, to)
               y == Slice(b, from, to)
    <3>1. /\ x \in Seq(Cells) /\ y \in Seq(Cells) /\ Len(x) = to - from /\ Len(y) = to - from
          /\ \A i \in 1 .. to - from : x[i] = y[i]
      BY <2>2, <2>3, <2>4 DEF Archives
    <3> HIDE DEF x, y
    <3>2. Len(x) = Len(y) /\ \A i \in 1 .. Len(x) : x[i] = y[i]
      BY <3>1
    <3>3. x = y
      BY <3>1, <3>2, SeqEqual
    <3> QED
      BY <3>3 DEF x, y
<1> QED
  BY <1>1, <1>2, <1>3

\* What was appended begins where that ended.
LEMMA AppendedCells ==
  ASSUME NEW b \in Archives, NEW more \in Archives
  PROVE  \A p \in Nat : p < Len(more) => At(b \o more, Len(b) + p) = At(more, p)
<1> SUFFICES ASSUME NEW p \in Nat, p < Len(more)
             PROVE  At(b \o more, Len(b) + p) = At(more, p)
  OBVIOUS
<1>1. Len(b) \in Nat /\ Len(more) \in Nat
  BY ArchiveLength
<1>2. /\ Len(b) + p + 1 \in 1 .. Len(b) + Len(more)
      /\ Len(b) + p + 1 > Len(b)
      /\ Len(b) + p + 1 - Len(b) = p + 1
  BY <1>1
<1>3. b \in Seq(Cells) /\ more \in Seq(Cells)
  BY DEF Archives
<1>4. (b \o more)[Len(b) + p + 1] = more[p + 1]
  BY <1>2, <1>3, ConcatProperties
<1> QED
  BY <1>4 DEF At

\* What is appended is found where the archive ended.
LEMMA AppendedAt ==
  ASSUME NEW b \in Archives, NEW more \in Archives
  PROVE  Slice(b \o more, Len(b), Len(b) + Len(more)) = more
<1> DEFINE longer == b \o more
           from   == Len(b)
           to     == Len(b) + Len(more)
<1>1. /\ from \in Nat /\ to \in Nat /\ from <= to /\ Len(more) \in Nat
      /\ to - from = Len(more)
      /\ longer \in Archives /\ Len(longer) = to
      /\ \A i \in 1 .. Len(more) : longer[from + i] = more[i]
  BY ConcatProperties, ArchiveLength DEF Archives
<1> HIDE DEF longer, from, to
<1>2. /\ Slice(longer, from, to) \in Archives
      /\ Len(Slice(longer, from, to)) = Len(more)
      /\ \A i \in 1 .. Len(more) : Slice(longer, from, to)[i] = more[i]
  <2>1. to <= Len(longer)
    BY <1>1
  <2>2. /\ Slice(longer, from, to) \in Archives
        /\ Len(Slice(longer, from, to)) = to - from
        /\ \A i \in 1 .. to - from : Slice(longer, from, to)[i] = longer[from + i]
    BY <1>1, <2>1, SliceProperties
  <2> QED
    BY <1>1, <2>2
<1>3. Slice(longer, from, to) = more
  BY <1>1, <1>2, SeqEqual DEF Archives
<1> QED
  BY <1>3 DEF longer, from, to

\* The slice from end to end is the archive.
LEMMA WholeSlice ==
  ASSUME NEW b \in Archives
  PROVE  Slice(b, 0, Len(b)) = b
<1>1. Len(b) \in Nat /\ 0 \in Nat /\ 0 <= Len(b) /\ Len(b) <= Len(b) /\ Len(b) - 0 = Len(b)
  BY ArchiveLength
<1> DEFINE z == 0
<1>2. z = 0 /\ \A i \in 1 .. Len(b) : z + i = i
  OBVIOUS
<1>3. z \in Nat /\ z <= Len(b) /\ Len(b) - z = Len(b)
  BY <1>1
<1> HIDE DEF z
<1>4. /\ Slice(b, z, Len(b)) \in Archives /\ Len(Slice(b, z, Len(b))) = Len(b)
      /\ \A i \in 1 .. Len(b) : Slice(b, z, Len(b))[i] = b[z + i]
  <2>1. /\ Slice(b, z, Len(b)) \in Archives /\ Len(Slice(b, z, Len(b))) = Len(b) - z
        /\ \A i \in 1 .. Len(b) - z : Slice(b, z, Len(b))[i] = b[z + i]
    BY <1>1, <1>3, SliceProperties
  <2> QED
    BY <1>3, <2>1
<1>5. \A i \in 1 .. Len(b) : Slice(b, z, Len(b))[i] = b[i]
  BY <1>2, <1>4
<1>6. Slice(b, z, Len(b)) = b
  BY <1>4, <1>5, SeqEqual DEF Archives
<1> QED
  BY <1>2, <1>6

\* Two slices that meet are one.
LEMMA SlicesJoin ==
  ASSUME NEW b \in Archives, NEW from \in Nat, NEW mid \in Nat, NEW to \in Nat,
         from <= mid, mid <= to, to <= Len(b)
  PROVE  Slice(b, from, mid) \o Slice(b, mid, to) = Slice(b, from, to)
<1> DEFINE x == Slice(b, from, mid)
           y == Slice(b, mid, to)
           z == Slice(b, from, to)
           n == mid - from
           m == to - mid
<1>1. Len(b) \in Nat /\ mid <= Len(b) /\ from <= to
  BY ArchiveLength
<1>2. x \in Archives /\ Len(x) = n /\ \A i \in 1 .. n : x[i] = b[from + i]
  BY <1>1, SliceProperties
<1>3. y \in Archives /\ Len(y) = m /\ \A i \in 1 .. m : y[i] = b[mid + i]
  BY <1>1, SliceProperties
<1>4. z \in Archives /\ Len(z) = to - from /\ \A i \in 1 .. to - from : z[i] = b[from + i]
  BY <1>1, SliceProperties
<1>5. n \in Nat /\ m \in Nat /\ to - from = n + m /\ mid = from + n
  OBVIOUS
<1> HIDE DEF x, y, z, n, m
<1>6. x \in Seq(Cells) /\ y \in Seq(Cells) /\ z \in Seq(Cells)
  BY <1>2, <1>3, <1>4 DEF Archives
<1>7. /\ x \o y \in Seq(Cells) /\ Len(x \o y) = Len(x) + Len(y)
      /\ \A i \in 1 .. Len(x) + Len(y) :
           (x \o y)[i] = IF i <= Len(x) THEN x[i] ELSE y[i - Len(x)]
  BY <1>6, ConcatProperties
<1>8. ASSUME NEW i \in 1 .. n + m
      PROVE  (x \o y)[i] = z[i]
  <2>1. (x \o y)[i] = IF i <= n THEN x[i] ELSE y[i - n]
    BY <1>2, <1>3, <1>7
  <2>2. z[i] = b[from + i]
    BY <1>4, <1>5
  <2>3. CASE i <= n
    <3>1. i \in 1 .. n
      BY <1>5, <2>3
    <3> QED
      BY <1>2, <2>1, <2>2, <2>3, <3>1
  <2>4. CASE ~(i <= n)
    <3>1. i - n \in 1 .. m /\ mid + (i - n) = from + i
      BY <1>5, <2>4
    <3> QED
      BY <1>3, <2>1, <2>2, <2>4, <3>1
  <2> QED
    BY <2>3, <2>4
<1>9. Len(x \o y) = n + m /\ Len(z) = n + m
  BY <1>2, <1>3, <1>4, <1>5, <1>7
<1>10. x \o y = z
  BY <1>6, <1>7, <1>8, <1>9, SeqEqual
<1> QED
  BY <1>10 DEF x, y, z

-----------------------------------------------------------------------------
(* The size of a directory                                                 *)

\* A byte is one of a cell.
LEMMA ByteIn ==
  ASSUME NEW b, NEW ps
  PROVE  \A x : x \in BytesIn(b, ps) <=>
           \E p \in ps : x = <<p, x[2]>> /\ x[2] \in 1 .. CellSize(b, p)
BY DEF BytesIn

\* A cell has finitely many.
LEMMA CellSizeIsNatural ==
  ASSUME NEW b \in Archives, NEW p \in 0 .. Len(b) - 1
  PROVE  CellSize(b, p) \in Nat
<1>1. p \in Nat /\ p < Len(b)
  BY ArchiveLength
<1>2. At(b, p) \in Cells
  BY <1>1, CellAt
<1>3. At(b, p).sig = "CENTRAL" => At(b, p).len \in Nat
  BY <1>2, CellKinds DEF CdHeaders
<1> QED
  BY <1>3 DEF CellSize

\* So has any set of cells.
LEMMA SizeIsNatural ==
  ASSUME NEW b \in Archives, NEW ps, ps \subseteq 0 .. Len(b) - 1
  PROVE  IsFiniteSet(BytesIn(b, ps)) /\ SizeOf(b, ps) \in Nat
<1> DEFINE parts == {{p} \X (1 .. CellSize(b, p)) : p \in ps}
           f == [p \in ps |-> {p} \X (1 .. CellSize(b, p))]
<1>1. IsFiniteSet(ps)
  <2>1. IsFiniteSet(0 .. Len(b) - 1)
    BY ArchiveLength, FS_Interval
  <2> QED
    BY <2>1, FS_Subset
<1>2. f \in Surjection(ps, parts)
  BY DEF Surjection
<1>3. IsFiniteSet(parts)
  <2> HIDE DEF parts, f
  <2> QED
    BY <1>1, <1>2, FS_Surjection
<1>4. \A S \in parts : IsFiniteSet(S)
  <2> SUFFICES ASSUME NEW p \in ps PROVE IsFiniteSet({p} \X (1 .. CellSize(b, p)))
    OBVIOUS
  <2>1. IsFiniteSet(1 .. CellSize(b, p))
    BY CellSizeIsNatural, FS_Interval
  <2> QED
    BY <2>1, FS_Singleton, FS_Product
<1>5. IsFiniteSet(UNION parts)
  <2> HIDE DEF parts
  <2> QED
    BY <1>3, <1>4, FS_UNION
<1> QED
  BY <1>5, FS_CardinalityType DEF SizeOf, BytesIn

\* More cells have no fewer bytes.
LEMMA SizeGrows ==
  ASSUME NEW b \in Archives, NEW qs, qs \subseteq 0 .. Len(b) - 1, NEW ps, ps \subseteq qs
  PROVE  SizeOf(b, ps) <= SizeOf(b, qs)
<1>1. BytesIn(b, ps) \in SUBSET BytesIn(b, qs)
  BY DEF BytesIn
<1>2. IsFiniteSet(BytesIn(b, qs))
  BY SizeIsNatural
<1> QED
  BY <1>1, <1>2, FS_Subset DEF SizeOf

\* The cells of c at qs have, one for one, the sizes of those of b at ps.
SameSizes(b, ps, c, qs, f) ==
  /\ b \in Archives /\ ps \subseteq 0 .. Len(b) - 1
  /\ f \in Bijection(ps, qs)
  /\ \A p \in ps : CellSize(c, f[p]) = CellSize(b, p)

\* Such cells have as many bytes.
LEMMA SizeMoved ==
  ASSUME NEW b, NEW ps, NEW c, NEW qs, NEW f, SameSizes(b, ps, c, qs, f)
  PROVE  SizeOf(c, qs) = SizeOf(b, ps)
<1> DEFINE S == BytesIn(b, ps)
           T == BytesIn(c, qs)
           g == [x \in S |-> <<f[x[1]], x[2]>>]
<1>1. /\ \A p \in ps : f[p] \in qs
      /\ \A p, q \in ps : f[p] = f[q] => p = q
      /\ \A q \in qs : \E p \in ps : f[p] = q
      /\ \A p \in ps : CellSize(c, f[p]) = CellSize(b, p)
  BY DEF SameSizes, Bijection, Injection, Surjection, IsInjective
<1>2. g \in [S -> T]
  <2> SUFFICES ASSUME NEW x \in S PROVE <<f[x[1]], x[2]>> \in T
    OBVIOUS
  <2>1. PICK p \in ps : x = <<p, x[2]>> /\ x[2] \in 1 .. CellSize(b, p)
    BY ByteIn
  <2> QED
    BY <1>1, <2>1, ByteIn
<1>3. \A x, y \in S : g[x] = g[y] => x = y
  <2> SUFFICES ASSUME NEW x \in S, NEW y \in S, g[x] = g[y] PROVE x = y
    OBVIOUS
  <2>1. PICK p \in ps : x = <<p, x[2]>> /\ x[2] \in 1 .. CellSize(b, p)
    BY ByteIn
  <2>2. PICK q \in ps : y = <<q, y[2]>> /\ y[2] \in 1 .. CellSize(b, q)
    BY ByteIn
  <2>3. f[p] = f[q] /\ x[2] = y[2]
    BY <2>1, <2>2
  <2> QED
    BY <1>1, <2>1, <2>2, <2>3
<1>4. \A y \in T : \E x \in S : g[x] = y
  <2> SUFFICES ASSUME NEW y \in T PROVE \E x \in S : g[x] = y
    OBVIOUS
  <2>1. PICK q \in qs : y = <<q, y[2]>> /\ y[2] \in 1 .. CellSize(c, q)
    BY ByteIn
  <2>2. PICK p \in ps : f[p] = q
    BY <1>1
  <2> DEFINE x == <<p, y[2]>>
  <2>3. x = <<p, x[2]>> /\ x[2] \in 1 .. CellSize(b, p)
    BY <1>1, <2>1, <2>2
  <2>4. x \in S
    BY <2>3, ByteIn
  <2> QED
    BY <2>1, <2>2, <2>4
<1>5. ExistsBijection(S, T)
  <2> HIDE DEF S, T, g
  <2>1. g \in Bijection(S, T)
    BY <1>2, <1>3, <1>4 DEF Bijection, Injection, Surjection, IsInjective
  <2> QED
    BY <2>1 DEF ExistsBijection
<1>6. IsFiniteSet(S)
  BY SizeIsNatural DEF SameSizes
<1> HIDE DEF S, T
<1>7. Cardinality(T) = Cardinality(S)
  BY <1>5, <1>6, FS_Bijection
<1> QED
  BY <1>7 DEF SizeOf, S, T

\* One cell more has its bytes more.
LEMMA SizeExtended ==
  ASSUME NEW b \in Archives, NEW ps, ps \subseteq 0 .. Len(b) - 1,
         NEW p \in 0 .. Len(b) - 1, p \notin ps
  PROVE  SizeOf(b, ps \cup {p}) = SizeOf(b, ps) + CellSize(b, p)
<1> DEFINE S == BytesIn(b, ps)
           T == BytesIn(b, {p})
           n == CellSize(b, p)
           g == [i \in 1 .. n |-> <<p, i>>]
<1>1. n \in Nat
  BY CellSizeIsNatural
<1>2. IsFiniteSet(S) /\ SizeOf(b, ps) \in Nat
  BY SizeIsNatural
<1>3. BytesIn(b, ps \cup {p}) = S \cup T
  BY DEF BytesIn
<1>4. S \cap T = {}
  BY ByteIn
<1>5. IsFiniteSet(T) /\ Cardinality(T) = n
  <2>1. g \in Bijection(1 .. n, T)
    <3>1. T = {<<p, i>> : i \in 1 .. n}
      BY DEF BytesIn
    <3> HIDE DEF T, n
    <3> QED
      BY <3>1 DEF Bijection, Injection, Surjection, IsInjective
  <2>2. IsFiniteSet(1 .. n) /\ Cardinality(1 .. n) = n
    BY <1>1, FS_Interval
  <2>3. ExistsBijection(1 .. n, T)
    BY <2>1 DEF ExistsBijection
  <2> HIDE DEF T, n, g
  <2> QED
    BY <2>2, <2>3, FS_Bijection
<1> HIDE DEF S, T, n
<1>6. Cardinality(S \cup T) = Cardinality(S) + Cardinality(T) - Cardinality(S \cap T)
  BY <1>2, <1>5, FS_Union
<1>7. Cardinality(S \cap T) = 0
  BY <1>4, FS_EmptySet
<1>8. Cardinality(S) = SizeOf(b, ps)
  BY DEF S, SizeOf
<1>9. SizeOf(b, ps \cup {p}) = Cardinality(S \cup T)
  BY <1>3 DEF SizeOf
<1>10. n = CellSize(b, p)
  BY DEF n
<1> QED
  BY <1>1, <1>2, <1>5, <1>6, <1>7, <1>8, <1>9, <1>10

-----------------------------------------------------------------------------
(* parse_layout                                                            *)

\* The record found ends the archive, and no later one does.
LEMMA EocdFound ==
  ASSUME NEW b \in Archives, EocdPositions(b) # {}
  PROVE  /\ EocdOffset(b) \in 0 .. Len(b) - 1
         /\ EocdOffset(b) \in EocdPositions(b)
         /\ At(b, EocdOffset(b)) \in EocdRecords
         /\ CdStart(b) \in Nat
         /\ \A p \in EocdPositions(b) : p <= EocdOffset(b)
<1>1. Len(b) \in Nat
  BY ArchiveLength
<1>2. EocdPositions(b) \subseteq 0 .. Len(b)
  BY <1>1 DEF EocdPositions
<1>3. /\ EocdOffset(b) \in EocdPositions(b)
      /\ \A p \in EocdPositions(b) : p <= EocdOffset(b)
  BY <1>1, <1>2, MaxIsGreatest DEF EocdOffset
<1>4. /\ EocdOffset(b) \in 0 .. Len(b) - 1
      /\ At(b, EocdOffset(b)).sig = "EOCD"
  BY <1>3 DEF EocdPositions, HasSig
<1>5. At(b, EocdOffset(b)) \in EocdRecords
  BY <1>1, <1>4, CellAt, CellKinds
<1> QED
  BY <1>3, <1>4, <1>5, FieldsAreNaturals DEF CdStart, EocdRecords

\* What an archive that parses is known to be.
LEMMA ParsedLayout ==
  ASSUME NEW b \in Archives, Parses(b)
  PROVE  /\ EocdPositions(b) # {}
         /\ CdStart(b) \in Nat /\ EocdOffset(b) \in Nat
         /\ CdStart(b) <= EocdOffset(b) /\ EocdOffset(b) < Len(b)
         /\ \A h \in Entries(b) : HeaderVerdict(b, h) = "ok"
<1>1. EocdPositions(b) # {}
  BY DEF Parses, ParseVerdict
<1>2. /\ EocdOffset(b) \in Nat /\ EocdOffset(b) < Len(b)
      /\ CdStart(b) \in Nat
      /\ At(b, EocdOffset(b)) \in EocdRecords
  BY <1>1, EocdFound, ArchiveLength
<1>3. CdStart(b) <= EocdOffset(b)
  BY <1>1, <1>2 DEF Parses, ParseVerdict
<1> DEFINE bad == {h \in Entries(b) : HeaderVerdict(b, h) # "ok"}
<1>4. bad = {} \/ HeaderVerdict(b, Min(bad)) = "ok"
  BY <1>1, <1>3 DEF Parses, ParseVerdict
<1>5. At(b, EocdOffset(b)).count \in Nat
  BY <1>2, FieldsAreNaturals DEF EocdRecords
<1>6. bad \subseteq Nat
  BY <1>2, <1>5 DEF Entries
<1>7. bad # {} => Min(bad) \in bad
  BY <1>6, MinIsLeast
<1> QED
  BY <1>1, <1>2, <1>3, <1>4, <1>7

\* What the record of such an archive says fits its fields, and the entries are
\* as many as it counts.
LEMMA ParsedRecord ==
  ASSUME NEW b \in Archives, Parses(b)
  PROVE  /\ At(b, EocdOffset(b)) \in EocdRecords
         /\ CdStart(b) \in U32 /\ CdStart(b) \in Nat /\ CdStart(b) <= Len(b)
         /\ At(b, EocdOffset(b)).count \in U16
<1>1. EocdPositions(b) # {}
  BY ParsedLayout
<1>2. At(b, EocdOffset(b)) \in EocdRecords
  BY <1>1, EocdFound
<1>3. CdStart(b) <= Len(b)
  BY ParsedLayout, ArchiveLength
<1> QED
  BY <1>2, <1>3, FieldsAreNaturals DEF CdStart, EocdRecords

\* What each of its entries is known to be.
LEMMA EntryProperties ==
  ASSUME NEW b \in Archives, Parses(b), NEW h \in Entries(b)
  PROVE  /\ h \in Nat /\ CdStart(b) <= h /\ h < EocdOffset(b)
         /\ At(b, h) \in CdHeaders
         /\ At(b, h).offset \in Nat /\ At(b, h).offset < CdStart(b)
         /\ At(b, h).csize \in Nat
<1>1. /\ HeaderVerdict(b, h) = "ok"
      /\ CdStart(b) \in Nat /\ EocdOffset(b) \in Nat
      /\ EocdOffset(b) < Len(b) /\ Len(b) \in Nat
  BY ParsedLayout, ArchiveLength
<1>2. At(b, EocdOffset(b)).count \in Nat
  BY ParsedLayout, EocdFound, FieldsAreNaturals DEF EocdRecords
<1>3. h \in Nat /\ CdStart(b) <= h
  BY <1>1, <1>2 DEF Entries
<1>4. /\ HasSig(b, h, "CENTRAL")
      /\ ~(At(b, h).offset >= CdStart(b))
      /\ ~(h + 1 > EocdOffset(b))
  BY <1>1 DEF HeaderVerdict
<1>5. h < EocdOffset(b)
  BY <1>1, <1>3, <1>4
<1>6. At(b, h) \in CdHeaders
  BY <1>3, <1>4, CellAt, CellKinds DEF HasSig
<1>7. At(b, h).offset \in Nat /\ At(b, h).csize \in Nat
  BY <1>6, FieldsAreNaturals DEF CdHeaders
<1> QED
  BY <1>1, <1>3, <1>4, <1>5, <1>6, <1>7

\* An archive that parses has as many entries as its record says.
LEMMA EntriesFinite ==
  ASSUME NEW b \in Archives, Parses(b)
  PROVE  /\ IsFiniteSet(Entries(b))
         /\ Cardinality(Entries(b)) \in Nat
         /\ Cardinality(Entries(b)) = At(b, EocdOffset(b)).count
<1>1. CdStart(b) \in Nat /\ At(b, EocdOffset(b)).count \in Nat
  BY ParsedLayout, EocdFound, FieldsAreNaturals DEF EocdRecords
<1> DEFINE first == CdStart(b)
           last  == CdStart(b) + At(b, EocdOffset(b)).count - 1
<1>2. first \in Int /\ last \in Int
  BY <1>1
<1>3. /\ IsFiniteSet(first .. last)
      /\ Cardinality(first .. last) =
           IF first > last THEN 0 ELSE last - first + 1
  BY <1>2, FS_Interval
<1> QED
  BY <1>1, <1>3 DEF Entries

\* The headers are cells of the archive.
LEMMA EntriesInside ==
  ASSUME NEW b \in Archives, Parses(b)
  PROVE  Entries(b) \subseteq 0 .. Len(b) - 1
<1>1. EocdOffset(b) \in Nat /\ EocdOffset(b) < Len(b) /\ Len(b) \in Nat
  BY ParsedLayout, ArchiveLength
<1> QED
  BY <1>1, EntryProperties

-----------------------------------------------------------------------------
(* The order of the entries                                                *)

BeforeRel(b) == {p \in Entries(b) \X Entries(b) : Before(b, p[1], p[2])}

\* sort_by_key leaves any set of entries in a strict total order.
LEMMA BeforeOrders ==
  ASSUME NEW b \in Archives, Parses(b), NEW hs, hs \subseteq Entries(b)
  PROVE  /\ StrictOrder(BeforeRel(b), hs)
         /\ IsFiniteSet(hs) /\ Cardinality(hs) \in Nat
         /\ Cardinality(hs) <= Cardinality(Entries(b))
<1>1. \A h \in hs : h \in Entries(b) /\ h \in Nat /\ At(b, h).offset \in Nat
  BY EntryProperties
<1>2. \A h, g \in hs : <<h, g>> \in BeforeRel(b) <=> Before(b, h, g)
  BY <1>1 DEF BeforeRel
<1>3. ASSUME NEW h \in hs
      PROVE  <<h, h>> \notin BeforeRel(b)
  BY <1>1, <1>2 DEF Before
<1>4. ASSUME NEW f \in hs, NEW g \in hs, NEW h \in hs,
             Before(b, f, g), Before(b, g, h)
      PROVE  Before(b, f, h)
  BY <1>1, <1>4 DEF Before
<1>5. ASSUME NEW g \in hs, NEW h \in hs, g # h
      PROVE  Before(b, g, h) \/ Before(b, h, g)
  BY <1>1, <1>5 DEF Before
<1>6. StrictOrder(BeforeRel(b), hs)
  BY <1>2, <1>3, <1>4, <1>5 DEF StrictOrder
<1>7. hs \in SUBSET Entries(b) /\ IsFiniteSet(Entries(b))
  BY EntriesFinite
<1>8. IsFiniteSet(hs) /\ Cardinality(hs) <= Cardinality(Entries(b))
  BY <1>7, FS_Subset
<1> QED
  BY <1>6, <1>8, FS_CardinalityType

\* The entry a search finds is one of those searched, and the first.
LEMMA FirstIsFirst ==
  ASSUME NEW b \in Archives, Parses(b), NEW hs, hs \subseteq Entries(b), hs # {}
  PROVE  /\ FirstOf(b, hs) \in hs
         /\ \A g \in hs \ {FirstOf(b, hs)} : Before(b, FirstOf(b, hs), g)
<1>1. \A h \in hs : h \in Nat /\ At(b, h).offset \in Nat
  BY EntryProperties
<1> DEFINE offsets == {At(b, h).offset : h \in hs}
<1>2. offsets \subseteq Nat /\ offsets # {}
  BY <1>1
<1>3. PICK o \in offsets : \A x \in offsets : o <= x
  BY <1>2, LeastNatural
<1> DEFINE least == {h \in hs : At(b, h).offset = o}
<1>4. least \subseteq Nat /\ least # {}
  BY <1>1
<1>5. PICK h \in least : \A g \in least : h <= g
  BY <1>4, LeastNatural
<1>6. h \in hs /\ At(b, h).offset = o
  BY <1>5
<1>7. ASSUME NEW g \in hs \ {h}
      PROVE  Before(b, h, g)
  <2>1. o <= At(b, g).offset /\ o \in Nat /\ At(b, g).offset \in Nat
    BY <1>1, <1>2, <1>3
  <2>2. CASE At(b, g).offset = o
    <3>1. h <= g /\ h \in Nat /\ g \in Nat /\ h # g
      BY <1>1, <1>5, <1>6, <2>2
    <3> QED
      BY <1>6, <2>2, <3>1 DEF Before
  <2>3. CASE At(b, g).offset # o
    BY <1>6, <2>1, <2>3 DEF Before
  <2> QED
    BY <2>2, <2>3
<1>8. \E x \in hs : \A g \in hs \ {x} : Before(b, x, g)
  BY <1>6, <1>7
<1> QED
  BY <1>8 DEF FirstOf

\* Entries in archive order are numbered without a gap.
LEMMA OrderedEntries ==
  ASSUME NEW b \in Archives, Parses(b), NEW hs, hs \subseteq Entries(b)
  PROVE  /\ InArchiveOrder(b, hs) \in Seq(hs)
         /\ Len(InArchiveOrder(b, hs)) = Cardinality(hs)
<1>1. /\ StrictOrder(BeforeRel(b), hs)
      /\ IsFiniteSet(hs) /\ Cardinality(hs) \in Nat
  BY BeforeOrders
<1>2. ASSUME NEW k \in 1 .. Cardinality(hs)
      PROVE  (CHOOSE h \in hs :
                Cardinality({g \in hs : Before(b, g, h)}) = k - 1) \in hs
  <2>1. PICK h \in hs : Cardinality(Below(BeforeRel(b), hs, h)) = k - 1
    BY <1>1, EveryRankIsTaken
  <2>2. Below(BeforeRel(b), hs, h) = {g \in hs : Before(b, g, h)}
    BY DEF Below, BeforeRel
  <2>3. \E x \in hs : Cardinality({g \in hs : Before(b, g, x)}) = k - 1
    BY <2>1, <2>2
  <2> QED
    BY <2>3
<1>3. InArchiveOrder(b, hs) \in [1 .. Cardinality(hs) -> hs]
  BY <1>2 DEF InArchiveOrder
<1> QED
  BY <1>1, <1>3, SeqDef

\* In archive order an entry comes before another when its number is less, and
\* every entry has a number.
LEMMA ArchiveOrder ==
  ASSUME NEW b \in Archives, Parses(b), NEW hs, hs \subseteq Entries(b)
  PROVE  LET s == InArchiveOrder(b, hs)
             n == Cardinality(hs)
         IN /\ s \in Seq(hs) /\ s \in [1 .. n -> hs] /\ n \in Nat /\ Len(s) = n
            /\ \A j, k \in 1 .. n : j < k <=> Before(b, s[j], s[k])
            /\ \A j, k \in 1 .. n : s[j] = s[k] => j = k
            /\ \A h \in hs : \E k \in 1 .. n : s[k] = h
<1> DEFINE s == InArchiveOrder(b, hs)
           n == Cardinality(hs)
           R == BeforeRel(b)
           rank(h) == Cardinality(Below(R, hs, h))
<1>1. /\ StrictOrder(R, hs)
      /\ IsFiniteSet(hs) /\ n \in Nat
  BY BeforeOrders
<1>2. \A h, g \in hs : <<h, g>> \in R <=> Before(b, h, g)
  BY DEF BeforeRel
<1>3. \A h \in hs : Below(R, hs, h) = {g \in hs : Before(b, g, h)}
  BY <1>2 DEF Below
<1> HIDE DEF R
<1>4. /\ \A h \in hs : rank(h) \in 0 .. n - 1
      /\ \A g, h \in hs : <<g, h>> \in R => rank(g) < rank(h)
  BY <1>1, RanksGrow
<1>5. ASSUME NEW k \in 1 .. n
      PROVE  s[k] \in hs /\ rank(s[k]) = k - 1
  <2>1. PICK h \in hs : rank(h) = k - 1
    BY <1>1, EveryRankIsTaken
  <2>2. s[k] = CHOOSE x \in hs : Cardinality({g \in hs : Before(b, g, x)}) = k - 1
    BY DEF InArchiveOrder
  <2>3. \E x \in hs : Cardinality({g \in hs : Before(b, g, x)}) = k - 1
    BY <1>3, <2>1
  <2>4. s[k] \in hs /\ Cardinality({g \in hs : Before(b, g, s[k])}) = k - 1
    BY <2>2, <2>3
  <2> QED
    BY <1>3, <2>4
<1>6. s \in [1 .. n -> hs]
  BY <1>5 DEF InArchiveOrder
<1>7. s \in Seq(hs) /\ Len(s) = n
  BY OrderedEntries
<1> HIDE DEF s, n, rank
<1>8. ASSUME NEW j \in 1 .. n, NEW k \in 1 .. n
      PROVE  /\ s[j] = s[k] => j = k
             /\ j < k <=> Before(b, s[j], s[k])
  <2>1. /\ s[j] \in hs /\ rank(s[j]) = j - 1
        /\ s[k] \in hs /\ rank(s[k]) = k - 1
    BY <1>5
  <2>2. j \in Nat /\ k \in Nat
    BY <1>1
  <2>3. s[j] = s[k] => j = k
    BY <2>1, <2>2
  <2>4. ASSUME Before(b, s[j], s[k])
        PROVE  j < k
    <3>1. rank(s[j]) < rank(s[k])
      BY <1>2, <1>4, <2>1, <2>4
    <3>2. j - 1 < k - 1
      BY <2>1, <3>1
    <3> QED
      BY <2>2, <3>2
  <2>5. ASSUME Before(b, s[k], s[j])
        PROVE  k < j
    <3>1. rank(s[k]) < rank(s[j])
      BY <1>2, <1>4, <2>1, <2>5
    <3>2. k - 1 < j - 1
      BY <2>1, <3>1
    <3> QED
      BY <2>2, <3>2
  <2>6. s[j] # s[k] => Before(b, s[j], s[k]) \/ Before(b, s[k], s[j])
    BY <1>1, <1>2, <2>1 DEF StrictOrder
  <2> QED
    BY <2>2, <2>3, <2>4, <2>5, <2>6
<1>9. ASSUME NEW h \in hs
      PROVE  \E k \in 1 .. n : s[k] = h
  <2>1. rank(h) \in 0 .. n - 1
    BY <1>4
  <2>2. rank(h) + 1 \in 1 .. n /\ rank(h) \in Nat
    BY <1>1, <2>1
  <2>3. s[rank(h) + 1] \in hs /\ rank(s[rank(h) + 1]) = rank(h)
    BY <1>5, <2>2
  <2>4. s[rank(h) + 1] = h
    <3>1. <<h, s[rank(h) + 1]>> \notin R /\ <<s[rank(h) + 1], h>> \notin R
      BY <1>4, <2>2, <2>3
    <3> QED
      BY <1>1, <2>3, <3>1 DEF StrictOrder
  <2> QED
    BY <2>2, <2>4
<1> QED
  BY <1>1, <1>6, <1>7, <1>8, <1>9 DEF s, n

\* t lists the m entries of hs, each before the next.
ListsInOrder(b, hs, m, t) ==
  /\ m \in Nat /\ t \in [1 .. m -> hs]
  /\ \A j, k \in 1 .. m : j < k => Before(b, t[j], t[k])
  /\ \A h \in hs : \E k \in 1 .. m : t[k] = h

\* Such a list is the sorted one.
LEMMA OrderIsUnique ==
  ASSUME NEW b \in Archives, Parses(b), NEW hs, hs \subseteq Entries(b),
         NEW m, NEW t, ListsInOrder(b, hs, m, t)
  PROVE  m = Cardinality(hs) /\ InArchiveOrder(b, hs) = t
<1> /\ m \in Nat /\ t \in [1 .. m -> hs]
    /\ \A j, k \in 1 .. m : j < k => Before(b, t[j], t[k])
    /\ \A h \in hs : \E k \in 1 .. m : t[k] = h
  BY DEF ListsInOrder
<1> DEFINE s == InArchiveOrder(b, hs)
           n == Cardinality(hs)
<1>1. /\ s \in [1 .. n -> hs] /\ n \in Nat
      /\ \A j, k \in 1 .. n : j < k <=> Before(b, s[j], s[k])
      /\ \A j, k \in 1 .. n : s[j] = s[k] => j = k
      /\ \A h \in hs : \E k \in 1 .. n : s[k] = h
  BY ArchiveOrder
<1> HIDE DEF s, n
<1>2. \A h, g \in hs : ~(Before(b, h, g) /\ Before(b, g, h))
  <2> SUFFICES ASSUME NEW h \in hs, NEW g \in hs
               PROVE  ~(Before(b, h, g) /\ Before(b, g, h))
    OBVIOUS
  <2>1. /\ h \in Nat /\ At(b, h).offset \in Nat
        /\ g \in Nat /\ At(b, g).offset \in Nat
    BY EntryProperties
  <2> QED
    BY <2>1 DEF Before
<1>3. \A j, k \in 1 .. m : t[j] = t[k] => j = k
  <2>1. \A j, k \in 1 .. m : j < k => t[j] # t[k]
    BY <1>2
  <2> QED
    BY <2>1
<1>4. \A k \in Nat : k \in 1 .. m /\ k \in 1 .. n => s[k] = t[k]
  <2> DEFINE bad == {k \in Nat : k \in 1 .. m /\ k \in 1 .. n /\ s[k] # t[k]}
  <2> SUFFICES ASSUME bad # {}
               PROVE  FALSE
    OBVIOUS
  <2>1. PICK k \in bad : \A i \in bad : k <= i
    BY LeastNatural
  <2>2. k \in 1 .. m /\ k \in 1 .. n /\ s[k] # t[k]
    BY <2>1
  <2>3. \A i \in 1 .. k - 1 : s[i] = t[i] /\ i \in 1 .. m /\ i \in 1 .. n
    <3> SUFFICES ASSUME NEW i \in 1 .. k - 1
                 PROVE  s[i] = t[i] /\ i \in 1 .. m /\ i \in 1 .. n
      OBVIOUS
    <3>1. i \in Nat /\ i \in 1 .. m /\ i \in 1 .. n /\ ~(k <= i)
      BY <1>1, <2>2
    <3>2. i \notin bad
      <4> HIDE DEF bad
      <4> QED
        BY <2>1, <3>1
    <3> QED
      BY <3>1, <3>2
  <2> HIDE DEF bad
  <2>4. PICK j \in 1 .. n : s[j] = t[k]
    BY <1>1, <2>2
  <2>5. PICK i \in 1 .. m : t[i] = s[k]
    BY <1>1, <2>2
  <2>6. k < j
    <3>1. ~(j \in 1 .. k - 1)
      BY <1>3, <2>2, <2>3, <2>4
    <3>2. j # k
      BY <2>2, <2>4
    <3> QED
      BY <1>1, <2>2, <3>1, <3>2
  <2>7. k < i
    <3>1. ~(i \in 1 .. k - 1)
      BY <1>1, <2>2, <2>3, <2>5
    <3>2. i # k
      BY <2>2, <2>5
    <3> QED
      BY <2>2, <3>1, <3>2
  <2>8. Before(b, s[k], s[j]) /\ Before(b, t[k], t[i])
    BY <1>1, <2>2, <2>6, <2>7
  <2>9. s[k] \in hs /\ s[j] \in hs
    BY <1>1, <2>2
  <2> QED
    BY <1>2, <2>4, <2>5, <2>8, <2>9
<1>5. n <= m
  <2> SUFFICES ASSUME m < n
               PROVE  FALSE
    BY <1>1
  <2>1. m + 1 \in 1 .. n
    BY <1>1
  <2>2. PICK k \in 1 .. m : t[k] = s[m + 1]
    BY <1>1, <2>1
  <2>3. k \in 1 .. n /\ k # m + 1 /\ s[k] = t[k]
    BY <1>1, <1>4
  <2> QED
    BY <1>1, <2>1, <2>2, <2>3
<1>6. m <= n
  <2> SUFFICES ASSUME n < m
               PROVE  FALSE
    BY <1>1
  <2>1. n + 1 \in 1 .. m
    BY <1>1
  <2>2. PICK k \in 1 .. n : s[k] = t[n + 1]
    BY <1>1, <2>1
  <2>3. k \in 1 .. m /\ k # n + 1 /\ s[k] = t[k]
    BY <1>1, <1>4
  <2> QED
    BY <1>3, <2>1, <2>2, <2>3
<1>7. m = n
  BY <1>1, <1>5, <1>6
<1>8. s = t
  BY <1>1, <1>4, <1>7
<1> QED
  BY <1>7, <1>8 DEF s, n

\* Two archives that compare entries alike list them alike.
LEMMA SameOrder ==
  ASSUME NEW b \in Archives, Parses(b), NEW c \in Archives, Parses(c),
         NEW hs, hs \subseteq Entries(b), hs \subseteq Entries(c),
         \A f, g \in hs : Before(c, f, g) <=> Before(b, f, g)
  PROVE  InArchiveOrder(c, hs) = InArchiveOrder(b, hs)
<1> DEFINE t == InArchiveOrder(b, hs)
           n == Cardinality(hs)
<1>1. /\ t \in [1 .. n -> hs] /\ n \in Nat
      /\ \A j, k \in 1 .. n : j < k <=> Before(b, t[j], t[k])
      /\ \A g \in hs : \E k \in 1 .. n : t[k] = g
  BY ArchiveOrder
<1> HIDE DEF t, n
<1>2. ListsInOrder(c, hs, n, t)
  BY <1>1 DEF ListsInOrder
<1>3. InArchiveOrder(c, hs) = t
  BY <1>2, OrderIsUnique
<1> QED
  BY <1>3 DEF t

-----------------------------------------------------------------------------
(* The ranges                                                              *)

\* An entry's boundary lies between its local header and the directory, and
\* not after any entry that follows it.
LEMMA BoundaryProperties ==
  ASSUME NEW b \in Archives, Parses(b), NEW h \in Entries(b)
  PROVE  /\ EntryBoundary(b, h) \in Nat
         /\ At(b, h).offset <= EntryBoundary(b, h)
         /\ EntryBoundary(b, h) <= CdStart(b)
         /\ \A g \in Entries(b) :
              Before(b, h, g) => EntryBoundary(b, h) <= At(b, g).offset
<1> DEFINE later == {g \in Entries(b) : Before(b, h, g)}
           offsets == {At(b, g).offset : g \in later}
<1>1. \A g \in Entries(b) : At(b, g).offset \in Nat /\ At(b, g).offset < CdStart(b)
  BY EntryProperties
<1>2. CdStart(b) \in Nat
  BY ParsedLayout
<1>3. CASE later = {}
  BY <1>1, <1>2, <1>3 DEF EntryBoundary
<1>4. CASE later # {}
  <2>1. offsets \subseteq Nat /\ offsets # {}
    BY <1>1, <1>4
  <2>2. Min(offsets) \in offsets /\ \A x \in offsets : Min(offsets) <= x
    BY <2>1, MinIsLeast
  <2>3. EntryBoundary(b, h) = Min(offsets)
    BY <1>4 DEF EntryBoundary
  <2>4. PICK g \in later : EntryBoundary(b, h) = At(b, g).offset
    BY <2>2, <2>3
  <2>5. At(b, h).offset <= At(b, g).offset
    BY <1>1, <2>4 DEF Before
  <2> HIDE DEF offsets
  <2>6. \A f \in Entries(b) : Before(b, h, f) => At(b, f).offset \in offsets
    BY DEF offsets
  <2> QED
    BY <1>1, <1>2, <2>2, <2>3, <2>4, <2>5, <2>6
<1> QED
  BY <1>3, <1>4

\* It is the offset of a later entry none is below, or that of the directory.
LEMMA BoundaryIs ==
  ASSUME NEW b \in Archives, Parses(b), NEW h \in Entries(b), NEW m \in Nat,
         \A g \in Entries(b) : Before(b, h, g) => m <= At(b, g).offset,
         \/ \E g \in Entries(b) : Before(b, h, g) /\ At(b, g).offset = m
         \/ m = CdStart(b)
  PROVE  EntryBoundary(b, h) = m
<1> DEFINE later == {g \in Entries(b) : Before(b, h, g)}
           offsets == {At(b, g).offset : g \in later}
<1>1. \A g \in Entries(b) : At(b, g).offset \in Nat /\ At(b, g).offset < CdStart(b)
  BY EntryProperties
<1>2. CdStart(b) \in Nat
  BY ParsedLayout
<1>3. CASE later = {}
  <2>1. \A g \in Entries(b) : ~Before(b, h, g)
    BY <1>3
  <2>2. EntryBoundary(b, h) = CdStart(b)
    BY <1>3 DEF EntryBoundary
  <2> QED
    BY <2>1, <2>2
<1>4. CASE later # {}
  <2>1. \E g \in Entries(b) : Before(b, h, g) /\ At(b, g).offset = m
    BY <1>1, <1>2, <1>4
  <2>2. m \in offsets /\ \A x \in offsets : x \in Nat /\ m <= x
    BY <1>1, <2>1
  <2>3. EntryBoundary(b, h) = Min(offsets)
    BY <1>4 DEF EntryBoundary
  <2> HIDE DEF offsets
  <2>4. offsets \subseteq Nat /\ offsets # {}
    BY <2>2
  <2>5. Min(offsets) \in offsets /\ Min(offsets) <= m
    BY <2>2, <2>4, MinIsLeast
  <2>6. \A x \in Nat : m <= x /\ x <= m => x = m
    OBVIOUS
  <2> QED
    BY <2>2, <2>3, <2>5, <2>6, Zenon
<1> QED
  BY <1>3, <1>4

\* One of the two it always is.
LEMMA BoundaryReached ==
  ASSUME NEW b \in Archives, Parses(b), NEW h \in Entries(b)
  PROVE  \/ \E g \in Entries(b) : Before(b, h, g) /\ At(b, g).offset = EntryBoundary(b, h)
         \/ EntryBoundary(b, h) = CdStart(b)
<1> DEFINE later == {g \in Entries(b) : Before(b, h, g)}
           offsets == {At(b, g).offset : g \in later}
<1>1. CASE later = {}
  BY <1>1 DEF EntryBoundary
<1>2. CASE later # {}
  <2>1. \A g \in Entries(b) : At(b, g).offset \in Nat
    BY EntryProperties
  <2>2. offsets \subseteq Nat /\ offsets # {}
    BY <1>2, <2>1
  <2>3. EntryBoundary(b, h) = Min(offsets)
    BY <1>2 DEF EntryBoundary
  <2>4. Min(offsets) \in offsets
    BY <2>2, MinIsLeast
  <2> QED
    BY <2>3, <2>4
<1> QED
  BY <1>1, <1>2

\* Content that is located lies after its local header and before the
\* boundary.
LEMMA ContentLocated ==
  ASSUME NEW b \in Archives, Parses(b), NEW h \in Entries(b),
         ContentVerdict(b, h) = "ok"
  PROVE  /\ HasSig(b, At(b, h).offset, "LOCAL")
         /\ At(b, At(b, h).offset) \in LocalHeaders
         /\ ContentStart(b, h) \in Nat /\ ContentEnd(b, h) \in Nat
         /\ At(b, h).offset < ContentStart(b, h)
         /\ ContentEnd(b, h) = ContentStart(b, h) + At(b, h).csize
         /\ ContentEnd(b, h) <= EntryBoundary(b, h)
<1> DEFINE lh == At(b, h).offset
<1>1. lh \in Nat /\ At(b, h).csize \in Nat
  BY EntryProperties
<1>2. HasSig(b, lh, "LOCAL") /\ ~(ContentEnd(b, h) > EntryBoundary(b, h))
  BY DEF ContentVerdict
<1>3. At(b, lh) \in LocalHeaders
  BY <1>1, <1>2, CellAt, CellKinds DEF HasSig
<1>4. At(b, lh).extra \in Nat
  BY <1>3, FieldsAreNaturals DEF LocalHeaders
<1>5. EntryBoundary(b, h) \in Nat
  BY BoundaryProperties
<1>6. /\ ContentStart(b, h) \in Nat /\ lh < ContentStart(b, h)
      /\ ContentEnd(b, h) = ContentStart(b, h) + At(b, h).csize
  BY <1>1, <1>4 DEF ContentStart, ContentEnd
<1> QED
  BY <1>1, <1>2, <1>3, <1>5, <1>6

\* The range an entry's hash covers contains its content and ends at or
\* before the boundary.
LEMMA BindingLocated ==
  ASSUME NEW b \in Archives, Parses(b), NEW h \in Entries(b),
         BindingVerdict(b, h) = "ok"
  PROVE  /\ ContentVerdict(b, h) = "ok"
         /\ BindingEnd(b, h) \in Nat
         /\ ContentEnd(b, h) <= BindingEnd(b, h)
         /\ BindingEnd(b, h) <= EntryBoundary(b, h)
<1>1. ContentVerdict(b, h) = "ok"
  BY DEF BindingVerdict
<1>2. /\ ContentEnd(b, h) \in Nat /\ EntryBoundary(b, h) \in Nat
      /\ ContentEnd(b, h) <= EntryBoundary(b, h)
  BY <1>1, ContentLocated, BoundaryProperties
<1>3. DescriptorAt(b, h) \in Nat /\ ContentEnd(b, h) <= DescriptorAt(b, h)
  BY <1>2 DEF DescriptorAt
<1>4. CASE Streamed(b, h)
  <2>1. DescriptorAt(b, h) + 3 <= EntryBoundary(b, h)
    BY <1>1, <1>4 DEF BindingVerdict, HasDescriptor
  <2> QED
    BY <1>1, <1>2, <1>3, <1>4, <2>1 DEF BindingEnd
<1>5. CASE ~Streamed(b, h)
  BY <1>1, <1>2, <1>5 DEF BindingEnd
<1> QED
  BY <1>4, <1>5

\* Two entries in archive order do not share a byte.
LEMMA BoundEntriesApart ==
  ASSUME NEW b \in Archives, Parses(b), NEW h \in Entries(b), NEW g \in Entries(b),
         BindingVerdict(b, h) = "ok", Before(b, h, g)
  PROVE  BindingEnd(b, h) <= At(b, g).offset
<1>1. BindingEnd(b, h) \in Nat /\ BindingEnd(b, h) <= EntryBoundary(b, h)
  BY BindingLocated
<1>2. EntryBoundary(b, h) \in Nat /\ EntryBoundary(b, h) <= At(b, g).offset
  BY BoundaryProperties
<1>3. At(b, g).offset \in Nat
  BY EntryProperties
<1> QED
  BY <1>1, <1>2, <1>3

\* The cells that travel with an entry are an archive of their own.
LEMMA EntryCellsType ==
  ASSUME NEW b \in Archives, Parses(b), NEW h \in Entries(b),
         BindingVerdict(b, h) = "ok"
  PROVE  /\ EntryCells(b, h) \in Archives
         /\ Len(EntryCells(b, h)) = BindingEnd(b, h) - At(b, h).offset
<1>1. At(b, h).offset \in Nat
  BY EntryProperties
<1>2. /\ BindingEnd(b, h) \in Nat /\ ContentEnd(b, h) \in Nat
      /\ At(b, h).offset < ContentEnd(b, h)
      /\ ContentEnd(b, h) <= BindingEnd(b, h)
      /\ BindingEnd(b, h) <= EntryBoundary(b, h)
  <2>1. BindingEnd(b, h) \in Nat /\ ContentVerdict(b, h) = "ok"
        /\ ContentEnd(b, h) <= BindingEnd(b, h)
        /\ BindingEnd(b, h) <= EntryBoundary(b, h)
    BY BindingLocated
  <2>2. /\ ContentEnd(b, h) \in Nat /\ ContentStart(b, h) \in Nat
        /\ At(b, h).offset < ContentStart(b, h)
        /\ ContentEnd(b, h) = ContentStart(b, h) + At(b, h).csize
    BY <2>1, ContentLocated
  <2>3. At(b, h).csize \in Nat
    BY EntryProperties
  <2> QED
    BY <1>1, <2>1, <2>2, <2>3
<1>3. /\ EntryBoundary(b, h) \in Nat /\ EntryBoundary(b, h) <= CdStart(b)
      /\ CdStart(b) \in Nat /\ CdStart(b) <= EocdOffset(b)
      /\ EocdOffset(b) \in Nat /\ EocdOffset(b) < Len(b) /\ Len(b) \in Nat
  BY BoundaryProperties, ParsedLayout, ArchiveLength
<1>4. At(b, h).offset <= BindingEnd(b, h) /\ BindingEnd(b, h) <= Len(b)
  BY <1>1, <1>2, <1>3
<1> QED
  BY <1>1, <1>2, <1>4, SliceProperties DEF EntryCells

-----------------------------------------------------------------------------
(* Verdicts                                                                *)

\* Every verdict is "ok", Ok(None) or an Error, whatever is read.
LEMMA LayoutVerdicts ==
  ASSUME NEW b, NEW h
  PROVE  /\ ParseVerdict(b) \in Verdicts
         /\ ContentVerdict(b, h) \in Verdicts
         /\ BindingVerdict(b, h) \in Verdicts
         /\ ManifestEntryVerdict(b, h) \in Verdicts
<1>1. \A g : HeaderVerdict(b, g) \in Verdicts
  BY DEF HeaderVerdict, Verdicts
<1>2. ParseVerdict(b) \in Verdicts
  BY <1>1 DEF ParseVerdict, Verdicts
<1>3. ContentVerdict(b, h) \in Verdicts
  BY DEF ContentVerdict, Verdicts
<1>4. BindingVerdict(b, h) \in Verdicts
  BY <1>3 DEF BindingVerdict, Verdicts
<1>5. ManifestEntryVerdict(b, h) \in Verdicts
  BY <1>3 DEF ManifestEntryVerdict, Verdicts
<1> QED
  BY <1>2, <1>3, <1>4, <1>5

\* So is the verdict of every call.
LEMMA CallVerdicts ==
  ASSUME NEW b, NEW name, NEW content
  PROVE  /\ InsertVerdict(b, name, content) \in Verdicts
         /\ RemoveVerdict(b, name) \in Verdicts
         /\ ReadVerdict(b, name) \in Verdicts
         /\ FillVerdict(b, name, content) \in Verdicts
<1>1. InsertVerdict(b, name, content) \in Verdicts
  BY LayoutVerdicts DEF InsertVerdict, Verdicts
<1>2. RemoveVerdict(b, name) \in Verdicts
  BY LayoutVerdicts DEF RemoveVerdict, Verdicts
<1>3. ReadVerdict(b, name) \in Verdicts
  BY LayoutVerdicts DEF ReadVerdict, Verdicts
<1>4. FillVerdict(b, name, content) \in Verdicts
  BY <1>3 DEF FillVerdict, Verdicts
<1> QED
  BY <1>1, <1>2, <1>3, <1>4

-----------------------------------------------------------------------------
(* insert_zip_entry                                                        *)

\* The sequence of one cell is an archive.
LEMMA OneCell ==
  ASSUME NEW c \in Cells
  PROVE  <<c>> \in Archives /\ Len(<<c>>) = 1
BY DEF Archives

\* The record both rebuilding operations write is a cell.
LEMMA EocdType ==
  ASSUME NEW count \in U16, NEW size \in U32, NEW offset \in U32
  PROVE  Eocd(count, size, offset) \in EocdRecords /\ EocdRecords \subseteq Cells
<1>1. 0 \in U16
  BY FieldsAreNaturals DEF U16
<1> QED
  BY <1>1 DEF Eocd, EocdRecords, Cells

\* The bytes of the directory insert_zip_entry writes can be counted.
LEMMA InsertedSizeIsNatural ==
  ASSUME NEW b \in Archives, Parses(b), NEW name \in Names
  PROVE  /\ InsertedSize(b, name) \in Nat
         /\ SizeOf(b, CdStart(b) .. EocdOffset(b) - 1) \in Nat
         /\ CdHeaderLen(name) \in Nat
<1>1. /\ CdStart(b) \in Nat /\ EocdOffset(b) \in Nat
      /\ EocdOffset(b) < Len(b) /\ Len(b) \in Nat
  BY ParsedLayout, ArchiveLength
<1>2. CdStart(b) .. EocdOffset(b) - 1 \subseteq 0 .. Len(b) - 1
  BY <1>1
<1>3. SizeOf(b, CdStart(b) .. EocdOffset(b) - 1) \in Nat
  BY <1>2, SizeIsNatural
<1> QED
  BY <1>3, NameAssumption DEF InsertedSize

\* An insert that succeeds found that every number it writes fits its field.
LEMMA InsertAccepts ==
  ASSUME NEW b \in Archives, NEW name \in Names, NEW content \in Payloads,
         InsertVerdict(b, name, content) = "ok"
  PROVE  /\ Parses(b)
         /\ Crc(content) \in U32 /\ Len(content) \in U32
         /\ Cardinality(Entries(b)) + 1 \in U16
         /\ CdStart(b) \in U32
         /\ Len(InsertedData(b, content)) <= U32Max
         /\ InsertedSize(b, name) <= U32Max
<1>1. Crc(content) \in U32 /\ content \in Archives
  BY PayloadAssumption
<1>2. Parses(b) /\ ~(Len(content) > U32Max)
  BY DEF InsertVerdict, Parses
<1>3. ~(Len(InsertedData(b, content)) > U32Max)
  BY <1>2 DEF InsertVerdict
<1>4. ~(InsertedSize(b, name) > U32Max)
  BY <1>2, <1>3 DEF InsertVerdict
<1>5. ~(Cardinality(Entries(b)) + 1 > U16Max)
  BY <1>2, <1>3, <1>4 DEF InsertVerdict
<1>6. CdStart(b) \in Nat /\ CdStart(b) <= Len(b) /\ CdStart(b) \in U32
  BY <1>2, ParsedRecord
<1> DEFINE data == Slice(b, 0, CdStart(b))
           head == LocalHeader(Crc(content), Len(content))
<1>7. data \in Archives /\ Len(content) \in Nat
  BY <1>1, <1>6, SliceProperties, ArchiveLength
<1>8. InsertedData(b, content) = data \o <<head>> \o content
  BY DEF InsertedData
<1> HIDE DEF data, head
<1>9. Len(InsertedData(b, content)) \in Nat
  <2>1. data \in Seq(Cells) /\ content \in Seq(Cells)
    BY <1>1, <1>7 DEF Archives
  <2>2. \A x, y, z : x \in Seq(Cells) /\ y \in Seq(Cells) => Len(x \o <<z>> \o y) \in Nat
    OBVIOUS
  <2> QED
    BY <1>8, <2>1, <2>2
<1>10. InsertedSize(b, name) \in Nat
  BY <1>2, InsertedSizeIsNatural
<1>11. Cardinality(Entries(b)) \in Nat /\ U16Max \in Nat /\ U32Max \in Nat
  BY <1>2, EntriesFinite, FieldsAreNaturals
<1> QED
  BY <1>1, <1>2, <1>3, <1>4, <1>5, <1>6, <1>7, <1>9, <1>10, <1>11 DEF U16, U32

\* The two parts insert_zip_entry puts together are cells.
LEMMA InsertedType ==
  ASSUME NEW b \in Archives, Parses(b), NEW name \in Names, NEW content \in Payloads,
         Len(content) <= U32Max
  PROVE  /\ InsertedData(b, content) \in Archives
         /\ InsertedDirectory(b, name, content) \in Archives
<1>1. content \in Archives /\ Len(content) \in U32 /\ Crc(content) \in U32
  <2>1. content \in Archives /\ Len(content) \in Nat
    BY PayloadAssumption, ArchiveLength
  <2> QED
    BY <2>1, PayloadAssumption, FieldsAreNaturals DEF U32
<1>2. /\ CdStart(b) \in Nat /\ EocdOffset(b) \in Nat /\ Len(b) \in Nat
      /\ CdStart(b) \in U32
      /\ CdStart(b) <= EocdOffset(b) /\ EocdOffset(b) < Len(b)
  BY ParsedLayout, ParsedRecord, ArchiveLength
<1>3. /\ LocalHeader(Crc(content), Len(content)) \in Cells
      /\ CdHeader(name, Crc(content), Len(content), CdStart(b)) \in Cells
  <2>1. 0 \in U16
    BY FieldsAreNaturals DEF U16
  <2>2. LocalHeader(Crc(content), Len(content)) \in LocalHeaders
    BY <1>1, <2>1 DEF LocalHeader, LocalHeaders
  <2>3. CdHeader(name, Crc(content), Len(content), CdStart(b)) \in CdHeaders
    BY <1>1, <1>2, <2>1, NameAssumption DEF CdHeader, CdHeaders
  <2> QED
    BY <2>2, <2>3 DEF Cells
<1>4. InsertedData(b, content) \in Archives
  <2>1. Slice(b, 0, CdStart(b)) \in Archives
    BY <1>2, SliceProperties
  <2> QED
    BY <1>1, <1>3, <2>1, OneCell, ConcatProperties DEF InsertedData, Archives
<1>5. InsertedDirectory(b, name, content) \in Archives
  <2>1. Slice(b, CdStart(b), EocdOffset(b)) \in Archives
    BY <1>2, SliceProperties
  <2> QED
    BY <1>3, <2>1, OneCell, ConcatProperties DEF InsertedDirectory, Archives
<1> QED
  BY <1>4, <1>5

\* insert_zip_entry writes an archive whose fields fit their widths.
LEMMA InsertType ==
  ASSUME NEW b \in Archives, NEW name \in Names, NEW content \in Payloads,
         InsertVerdict(b, name, content) = "ok"
  PROVE  InsertZipEntry(b, name, content) \in Archives
<1>1. /\ Parses(b) /\ Len(content) \in U32
      /\ Cardinality(Entries(b)) + 1 \in U16
      /\ Len(InsertedData(b, content)) <= U32Max
      /\ InsertedSize(b, name) <= U32Max
  BY InsertAccepts
<1>2. Len(content) <= U32Max
  BY <1>1 DEF U32
<1>3. /\ InsertedData(b, content) \in Archives
      /\ InsertedDirectory(b, name, content) \in Archives
  BY <1>1, <1>2, InsertedType
<1> DEFINE eocd == Eocd(Cardinality(Entries(b)) + 1, InsertedSize(b, name),
                        Len(InsertedData(b, content)))
<1>4. <<eocd>> \in Archives
  <2>1. /\ Len(InsertedData(b, content)) \in U32
        /\ InsertedSize(b, name) \in U32
    BY <1>1, <1>3, InsertedSizeIsNatural, ArchiveLength, FieldsAreNaturals DEF U32
  <2> QED
    BY <1>1, <2>1, EocdType, OneCell
<1> HIDE DEF eocd
<1>5. InsertedData(b, content) \o InsertedDirectory(b, name, content) \o <<eocd>>
        \in Archives
  BY <1>3, <1>4, ConcatProperties DEF Archives
<1> QED
  BY <1>5 DEF InsertZipEntry, eocd

-----------------------------------------------------------------------------
(* remove_zip_entry                                                        *)

\* The loop that copies the entries is well defined: after k entries it has
\* what it had after k - 1 and the cells of the k-th.
LEMMA CopiedStep ==
  ASSUME NEW b, NEW kept, Len(kept) \in Nat
  PROVE  \A k \in 0 .. Len(kept) :
           Copied(b, kept)[k] =
             IF k = 0 THEN <<>>
             ELSE Copied(b, kept)[k - 1] \o EntryCells(b, kept[k])
<1> DEFINE Step(f, n) ==
             [k \in 0 .. n |->
                IF k = 0 THEN <<>> ELSE f[k - 1] \o EntryCells(b, kept[k])]
           bad == {n \in Nat : ~\E f : f = Step(f, n)}
<1>1. bad = {}
  <2>1. SUFFICES ASSUME bad # {}
                 PROVE  FALSE
    OBVIOUS
  <2>2. PICK n \in bad : \A m \in bad : n <= m
    BY <2>1, LeastNatural
  <2>3. CASE n = 0
    <3> DEFINE f == [k \in 0 .. 0 |-> <<>>]
    <3>1. f = Step(f, 0)
      OBVIOUS
    <3> QED
      BY <2>2, <2>3, <3>1
  <2>4. CASE n # 0
    <3>1. n - 1 \in Nat /\ n \in Nat /\ n - 1 \notin bad
      <4>1. n \in Nat
        BY <2>2
      <4> HIDE DEF bad
      <4> QED
        BY <2>2, <2>4, <4>1
    <3>2. PICK f : f = Step(f, n - 1)
      BY <3>1
    <3> DEFINE g == [k \in 0 .. n |->
                       IF k = n THEN f[n - 1] \o EntryCells(b, kept[n]) ELSE f[k]]
    <3>3. ASSUME NEW k \in 0 .. n
          PROVE  g[k] = IF k = 0 THEN <<>>
                        ELSE g[k - 1] \o EntryCells(b, kept[k])
      <4>1. CASE k = n
        <5>1. n - 1 \in 0 .. n /\ n - 1 # n
          BY <3>1
        <5> QED
          BY <2>4, <4>1, <5>1
      <4>2. CASE k # n
        <5>1. k \in 0 .. n - 1
          BY <3>1, <4>2
        <5>2. f[k] = IF k = 0 THEN <<>>
                     ELSE f[k - 1] \o EntryCells(b, kept[k])
          BY <3>2, <5>1
        <5>3. k # 0 => k - 1 \in 0 .. n /\ k - 1 # n
          BY <3>1, <5>1
        <5> QED
          BY <4>2, <5>2, <5>3
      <4> QED
        BY <4>1, <4>2
    <3>4. g = Step(g, n)
      BY <3>3
    <3> QED
      BY <2>2, <3>4
  <2> QED
    BY <2>3, <2>4
<1>2. \E f : f = Step(f, Len(kept))
  BY <1>1
<1>3. Copied(b, kept) = CHOOSE f : f = Step(f, Len(kept))
  BY DEF Copied
<1>4. Copied(b, kept) = Step(Copied(b, kept), Len(kept))
  BY <1>2, <1>3
<1>5. ASSUME NEW f, f = Step(f, Len(kept)), NEW k \in 0 .. Len(kept)
      PROVE  f[k] = IF k = 0 THEN <<>> ELSE f[k - 1] \o EntryCells(b, kept[k])
  BY <1>5
<1> QED
  BY <1>4, <1>5

\* What the loop has copied, after any number of entries, is a sequence of
\* cells when each entry's are.
LEMMA CopiedType ==
  ASSUME NEW b, NEW S, NEW kept \in Seq(S),
         \A h \in S : EntryCells(b, h) \in Archives
  PROVE  \A k \in 0 .. Len(kept) : Copied(b, kept)[k] \in Archives
<1> DEFINE bad == {k \in 0 .. Len(kept) : Copied(b, kept)[k] \notin Archives}
<1>1. SUFFICES ASSUME bad # {}
               PROVE  FALSE
  OBVIOUS
<1>2. Len(kept) \in Nat /\ bad \subseteq Nat
  BY LenProperties
<1>3. PICK k \in bad : \A j \in bad : k <= j
  BY <1>1, <1>2, LeastNatural
<1>4. k \in 0 .. Len(kept) /\ Copied(b, kept)[k] \notin Archives
  BY <1>3
<1>5. Copied(b, kept)[k] = IF k = 0 THEN <<>>
                           ELSE Copied(b, kept)[k - 1] \o EntryCells(b, kept[k])
  BY <1>2, <1>4, CopiedStep
<1>6. CASE k = 0
  BY <1>4, <1>5, <1>6, EmptySeq DEF Archives
<1>7. CASE k # 0
  <2>1. k - 1 \in 0 .. Len(kept) /\ k \in 1 .. Len(kept)
    BY <1>2, <1>4, <1>7
  <2>2. Copied(b, kept)[k - 1] \in Archives
    <3>1. k - 1 \notin bad
      <4>1. k \in Nat /\ ~(k <= k - 1)
        BY <1>2, <1>4
      <4> HIDE DEF bad
      <4> QED
        BY <1>3, <4>1
    <3> QED
      BY <2>1, <3>1
  <2>3. EntryCells(b, kept[k]) \in Archives
    BY <2>1, ElementOfSeq
  <2> QED
    BY <1>4, <1>5, <1>7, <2>2, <2>3, ConcatProperties DEF Archives
<1> QED
  BY <1>6, <1>7

\* Each copy stays where it was put, while others are appended.
LEMMA CopiedPieces ==
  ASSUME NEW b, NEW S, NEW kept \in Seq(S),
         \A h \in S : EntryCells(b, h) \in Archives
  PROVE  LET out == Copied(b, kept)
         IN \A m \in 0 .. Len(kept) : \A k \in 1 .. m :
              /\ Len(out[k]) = Len(out[k - 1]) + Len(EntryCells(b, kept[k]))
              /\ Len(out[k]) <= Len(out[m])
              /\ Slice(out[m], Len(out[k - 1]), Len(out[k])) = EntryCells(b, kept[k])
<1> DEFINE out == Copied(b, kept)
           n == Len(kept)
           IsPiece(m, k) ==
             /\ Len(out[k]) = Len(out[k - 1]) + Len(EntryCells(b, kept[k]))
             /\ Len(out[k]) <= Len(out[m])
             /\ Slice(out[m], Len(out[k - 1]), Len(out[k])) = EntryCells(b, kept[k])
           bad == {m \in 0 .. n : \E k \in 1 .. m : ~IsPiece(m, k)}
<1> HIDE DEF IsPiece
<1>1. n \in Nat /\ bad \subseteq Nat
  <2>1. n \in Nat
    BY LenProperties
  <2> HIDE DEF n
  <2> QED
    BY <2>1
<1>2. \A k \in 0 .. n : out[k] \in Archives /\ Len(out[k]) \in Nat
  BY CopiedType, ArchiveLength
<1>3. \A k \in 1 .. n : k \in 0 .. n /\ out[k] = out[k - 1] \o EntryCells(b, kept[k])
  <2>1. \A k \in 0 .. n :
          out[k] = IF k = 0 THEN <<>> ELSE out[k - 1] \o EntryCells(b, kept[k])
    BY <1>1, CopiedStep
  <2>2. \A k \in 1 .. n : k \in 0 .. n /\ k # 0
    BY <1>1
  <2> HIDE DEF n, out
  <2> QED
    BY <2>1, <2>2
<1>4. \A k \in 1 .. n : EntryCells(b, kept[k]) \in Archives
  BY ElementOfSeq
<1> HIDE DEF out, n
<1>5. ASSUME NEW m \in 1 .. n, m - 1 \notin bad, NEW k \in 1 .. m
      PROVE  IsPiece(m, k)
  <2> DEFINE more == EntryCells(b, kept[m])
  <2>1. /\ m \in 0 .. n /\ m - 1 \in 0 .. n /\ k \in 0 .. n /\ k - 1 \in 0 .. n
        /\ k \in 1 .. n /\ m \in Nat /\ k \in Nat
    BY <1>1
  <2>2. /\ out[m] \in Archives /\ out[m - 1] \in Archives
        /\ more \in Archives /\ out[m] = out[m - 1] \o more
        /\ Len(out[m]) \in Nat /\ Len(out[m - 1]) \in Nat /\ Len(more) \in Nat
        /\ Len(out[k]) \in Nat /\ Len(out[k - 1]) \in Nat
    BY <1>2, <1>3, <1>4, <2>1, ArchiveLength
  <2> HIDE DEF more
  <2>3. /\ Len(out[m]) = Len(out[m - 1]) + Len(more)
        /\ \A from, to \in Nat :
             from <= to /\ to <= Len(out[m - 1])
               => Slice(out[m], from, to) = Slice(out[m - 1], from, to)
    BY <2>2, AppendedAfter
  <2>4. CASE k = m
    <3>1. Slice(out[m], Len(out[m - 1]), Len(out[m])) = more
      <4>1. Slice(out[m - 1] \o more, Len(out[m - 1]), Len(out[m - 1]) + Len(more)) = more
        BY <2>2, AppendedAt
      <4> QED
        BY <2>2, <2>3, <4>1
    <3>2. Len(out[m]) <= Len(out[m])
      BY <2>2
    <3> QED
      BY <2>3, <2>4, <3>1, <3>2 DEF more, IsPiece
  <2>5. CASE k # m
    <3>1. k \in 1 .. m - 1
      BY <2>1, <2>5
    <3>2. IsPiece(m - 1, k)
      <4> HIDE DEF IsPiece
      <4> QED
        BY <1>5, <2>1, <3>1
    <3>3. Len(EntryCells(b, kept[k])) \in Nat
      BY <1>4, <2>1, ArchiveLength
    <3>4. /\ Len(out[k - 1]) <= Len(out[k]) /\ Len(out[k]) <= Len(out[m - 1])
          /\ Len(out[k]) <= Len(out[m])
      <4>1. /\ Len(out[k]) = Len(out[k - 1]) + Len(EntryCells(b, kept[k]))
            /\ Len(out[k]) <= Len(out[m - 1])
        BY <3>2 DEF IsPiece
      <4>2. Len(out[m]) = Len(out[m - 1]) + Len(more)
        BY <2>3
      <4>3. \A u, v, w \in Nat : u = v + w => v <= u
        OBVIOUS
      <4>4. \A u, v, w, x \in Nat : u <= w /\ x = w + v => u <= x
        OBVIOUS
      <4>5. Len(out[k - 1]) <= Len(out[k])
        BY <2>2, <3>3, <4>1, <4>3, Zenon
      <4>6. Len(out[k]) <= Len(out[m])
        BY <2>2, <4>1, <4>2, <4>4, Zenon
      <4> QED
        BY <4>1, <4>5, <4>6
    <3>5. Slice(out[m], Len(out[k - 1]), Len(out[k]))
            = Slice(out[m - 1], Len(out[k - 1]), Len(out[k]))
      BY <2>2, <2>3, <3>4
    <3> QED
      BY <3>2, <3>4, <3>5 DEF IsPiece
  <2> QED
    BY <2>4, <2>5
<1>6. bad = {}
  <2> SUFFICES ASSUME bad # {}
               PROVE  FALSE
    OBVIOUS
  <2>1. PICK m \in bad : \A i \in bad : m <= i
    BY <1>1, LeastNatural
  <2>2. m \in 0 .. n /\ m \in Nat /\ ~(m <= m - 1)
    BY <1>1, <2>1
  <2>3. m - 1 \notin bad
    <3> HIDE DEF bad
    <3> QED
      BY <2>1, <2>2
  <2>4. PICK k \in 1 .. m : ~IsPiece(m, k)
    BY <2>1
  <2>5. m \in 1 .. n
    BY <1>1, <2>2, <2>4
  <2> HIDE DEF bad
  <2> QED
    BY <1>5, <2>3, <2>4, <2>5
<1>7. \A m \in 0 .. n : \A k \in 1 .. m : IsPiece(m, k)
  BY <1>6
<1> QED
  BY <1>7 DEF out, n, IsPiece

\* No copy lies further back than what it is a copy of: what remove_zip_entry
\* writes before its directory fits wherever what it read did.
LEMMA CopiedFits ==
  ASSUME NEW b \in Archives, Parses(b), NEW hs, hs \subseteq Entries(b),
         \A h \in hs : BindingVerdict(b, h) = "ok"
  PROVE  LET kept == InArchiveOrder(b, hs)
             out  == Copied(b, kept)
         IN /\ \A k \in 1 .. Len(kept) :
                 /\ Len(out[k - 1]) <= At(b, kept[k]).offset
                 /\ Len(out[k]) <= BindingEnd(b, kept[k])
            /\ Len(out[Len(kept)]) <= CdStart(b)
<1> DEFINE kept == InArchiveOrder(b, hs)
           out  == Copied(b, kept)
           n    == Len(kept)
           Fits(k) == /\ Len(out[k - 1]) <= At(b, kept[k]).offset
                      /\ Len(out[k]) <= BindingEnd(b, kept[k])
           bad  == {k \in 1 .. n : ~Fits(k)}
<1>1. /\ kept \in Seq(hs) /\ n \in Nat
      /\ \A j, k \in 1 .. n : j < k <=> Before(b, kept[j], kept[k])
  BY ArchiveOrder
<1>2. \A h \in hs : EntryCells(b, h) \in Archives
  BY EntryCellsType
<1>3. /\ \A k \in 0 .. n : out[k] \in Archives /\ Len(out[k]) \in Nat
      /\ out[0] = <<>>
  BY <1>1, <1>2, CopiedType, CopiedStep, ArchiveLength
<1>4. \A m \in 0 .. n : \A k \in 1 .. m :
        Len(out[k]) = Len(out[k - 1]) + Len(EntryCells(b, kept[k]))
  BY <1>1, <1>2, CopiedPieces
<1>5. ASSUME NEW k \in 1 .. n
      PROVE  /\ kept[k] \in Entries(b)
             /\ At(b, kept[k]).offset \in Nat /\ BindingEnd(b, kept[k]) \in Nat
             /\ BindingEnd(b, kept[k]) <= CdStart(b)
             /\ Len(out[k]) = Len(out[k - 1])
                                + (BindingEnd(b, kept[k]) - At(b, kept[k]).offset)
             /\ Len(out[k]) \in Nat /\ Len(out[k - 1]) \in Nat
  <2>1. kept[k] \in hs
    BY <1>1, ElementOfSeq
  <2>2. k \in 0 .. n /\ k - 1 \in 0 .. n /\ k \in 1 .. k
    BY <1>1
  <2>3. Len(EntryCells(b, kept[k])) = BindingEnd(b, kept[k]) - At(b, kept[k]).offset
    BY <2>1, EntryCellsType
  <2>4. /\ BindingEnd(b, kept[k]) \in Nat /\ At(b, kept[k]).offset \in Nat
        /\ BindingEnd(b, kept[k]) <= EntryBoundary(b, kept[k])
        /\ EntryBoundary(b, kept[k]) \in Nat /\ EntryBoundary(b, kept[k]) <= CdStart(b)
    BY <2>1, BindingLocated, BoundaryProperties, EntryProperties
  <2>5. CdStart(b) \in Nat
    BY ParsedLayout
  <2>6. Len(out[k]) = Len(out[k - 1]) + Len(EntryCells(b, kept[k]))
    BY <1>4, <2>2
  <2> HIDE DEF kept, out, n
  <2> QED
    BY <1>3, <2>1, <2>2, <2>3, <2>4, <2>5, <2>6
<1>6. Len(<<>>) = 0
  OBVIOUS
<1>7. ASSUME NEW k \in 1 .. n, k = 1 \/ Fits(k - 1)
      PROVE  Fits(k)
  <2>1. Len(out[k - 1]) <= At(b, kept[k]).offset
    <3>1. CASE k = 1
      <4>1. Len(out[k - 1]) = 0
        BY <1>3, <1>6, <3>1
      <4> QED
        BY <1>5, <4>1
    <3>2. CASE k # 1
      <4>1. k - 1 \in 1 .. n /\ k - 1 < k
        BY <1>1, <3>2
      <4>2. Before(b, kept[k - 1], kept[k])
        BY <1>1, <4>1
      <4>3. kept[k - 1] \in hs
        BY <1>1, <4>1, ElementOfSeq
      <4>4. BindingEnd(b, kept[k - 1]) <= At(b, kept[k]).offset
        BY <1>5, <4>1, <4>2, <4>3, BoundEntriesApart
      <4>5. Len(out[k - 1]) <= BindingEnd(b, kept[k - 1])
        BY <1>7, <3>2
      <4>6. BindingEnd(b, kept[k - 1]) \in Nat
        BY <1>5, <4>1
      <4> HIDE DEF kept, out, n
      <4> QED
        BY <1>5, <4>4, <4>5, <4>6
    <3> QED
      BY <3>1, <3>2
  <2> HIDE DEF kept, out, n
  <2> QED
    BY <1>5, <2>1
<1> HIDE DEF kept, out, n
<1>8. bad = {}
  <2> SUFFICES ASSUME bad # {}
               PROVE  FALSE
    OBVIOUS
  <2>1. PICK k \in bad : \A i \in bad : k <= i
    <3>1. bad \subseteq Nat
      BY <1>1
    <3> QED
      BY <3>1, LeastNatural
  <2>2. k \in 1 .. n /\ k \in Nat /\ ~(k <= k - 1)
    BY <1>1, <2>1
  <2>3. k = 1 \/ k - 1 \in (1 .. n) \ bad
    <3> HIDE DEF bad
    <3>1. k - 1 \notin bad
      BY <2>1, <2>2
    <3> QED
      BY <1>1, <2>2, <3>1
  <2>4. k = 1 \/ Fits(k - 1)
    BY <2>3
  <2>5. ~Fits(k)
    BY <2>1
  <2> HIDE DEF bad, Fits
  <2> QED
    BY <1>7, <2>2, <2>4, <2>5
<1>9. \A k \in 1 .. n : Fits(k)
  BY <1>8
<1>10. Len(out[n]) <= CdStart(b)
  <2>1. CASE n = 0
    <3>1. CdStart(b) \in Nat
      BY ParsedLayout
    <3> QED
      BY <1>3, <1>6, <2>1, <3>1
  <2>2. CASE n # 0
    <3>1. n \in 1 .. n
      BY <1>1, <2>2
    <3>2. Fits(n)
      BY <1>9, <3>1
    <3>3. CdStart(b) \in Nat
      BY ParsedLayout
    <3> QED
      BY <1>5, <3>1, <3>2, <3>3
  <2> QED
    BY <2>1, <2>2
<1> QED
  BY <1>9, <1>10 DEF kept, out, n

\* A removal that succeeds on an archive with such an entry found every entry
\* bound, and otherwise returns the archive it was given.
LEMMA RemoveAccepts ==
  ASSUME NEW b \in Archives, NEW name, RemoveVerdict(b, name) = "ok"
  PROVE  /\ Parses(b)
         /\ Named(b, name) # {} =>
              /\ \A h \in Entries(b) : BindingVerdict(b, h) = "ok"
              /\ SizeOf(b, Kept(b, name)) \in U32
<1>1. Parses(b)
  BY DEF RemoveVerdict, Parses
<1> DEFINE refused == {h \in Entries(b) : BindingVerdict(b, h) # "ok"}
<1>2. ASSUME Named(b, name) # {}, refused # {}
      PROVE  FALSE
  <2>1. FirstOf(b, refused) \in refused
    BY <1>1, <1>2, FirstIsFirst
  <2>2. BindingVerdict(b, FirstOf(b, refused)) = "ok"
    BY <1>1, <1>2 DEF RemoveVerdict
  <2> QED
    BY <2>1, <2>2
<1>3. ASSUME Named(b, name) # {}, refused = {}
      PROVE  SizeOf(b, Kept(b, name)) \in U32
  <2>1. SizeOf(b, Kept(b, name)) \in Nat
    BY <1>1, EntriesInside, SizeIsNatural DEF Kept
  <2>2. ~(SizeOf(b, Kept(b, name)) > U32Max)
    BY <1>1, <1>3 DEF RemoveVerdict
  <2> QED
    BY <2>1, <2>2, FieldsAreNaturals DEF U32
<1> QED
  BY <1>1, <1>2, <1>3

\* What a successful removal returns is an archive.
LEMMA RemoveType ==
  ASSUME NEW b \in Archives, NEW name, RemoveVerdict(b, name) = "ok"
  PROVE  RemoveZipEntry(b, name) \in Archives
<1>1. CASE Named(b, name) = {}
  BY <1>1 DEF RemoveZipEntry
<1>2. CASE Named(b, name) # {}
  <2>1. /\ Parses(b) /\ \A h \in Entries(b) : BindingVerdict(b, h) = "ok"
        /\ SizeOf(b, Kept(b, name)) \in U32
    BY <1>2, RemoveAccepts
  <2> DEFINE kept == InArchiveOrder(b, Kept(b, name))
             n    == Len(kept)
             copied == Copied(b, kept)
             dir == [k \in 1 .. n |->
                       [At(b, kept[k]) EXCEPT !.offset = Len(copied[k - 1])]]
             eocd == Eocd(n, SizeOf(b, Kept(b, name)), Len(copied[n]))
  <2>2. Kept(b, name) \subseteq Entries(b)
    BY DEF Kept
  <2>3. kept \in Seq(Kept(b, name)) /\ n \in Nat
    BY <2>1, <2>2, OrderedEntries, LenProperties
  <2>4. \A k \in 0 .. n : copied[k] \in Archives
    <3>1. \A h \in Kept(b, name) : EntryCells(b, h) \in Archives
      BY <2>1, <2>2, EntryCellsType
    <3> QED
      BY <2>3, <3>1, CopiedType
  <2>5. dir \in Archives
    <3>1. ASSUME NEW k \in 1 .. n
          PROVE  [At(b, kept[k]) EXCEPT !.offset = Len(copied[k - 1])] \in Cells
      <4>1. kept[k] \in Entries(b)
        BY <2>2, <2>3, ElementOfSeq
      <4>2. At(b, kept[k]) \in CdHeaders
        BY <2>1, <4>1, EntryProperties
      <4>3. k - 1 \in 0 .. n
        BY <2>3
      <4>4. Len(copied[k - 1]) \in U32
        <5>1. Len(copied[k - 1]) \in Nat
          BY <2>4, <4>3, ArchiveLength
        <5>2. Len(copied[k - 1]) <= At(b, kept[k]).offset
          BY <2>1, <2>2, CopiedFits
        <5>3. At(b, kept[k]).offset \in U32
          BY <4>2 DEF CdHeaders
        <5> HIDE DEF kept, copied, n
        <5> QED
          BY <5>1, <5>2, <5>3, FieldsAreNaturals DEF U32
      <4> HIDE DEF kept, copied, n
      <4>5. [At(b, kept[k]) EXCEPT !.offset = Len(copied[k - 1])] \in CdHeaders
        BY <4>2, <4>4 DEF CdHeaders
      <4> QED
        BY <4>5 DEF Cells
    <3> HIDE DEF kept, copied, n
    <3>2. dir \in [1 .. n -> Cells]
      BY <3>1
    <3> HIDE DEF dir
    <3> QED
      BY <2>3, <3>2, SeqDef DEF Archives
  <2>6. n \in 0 .. n
    BY <2>3
  <2>7. <<eocd>> \in Archives
    <3>1. n \in U16
      <4>1. n = Cardinality(Kept(b, name)) /\ n <= Cardinality(Entries(b))
        BY <2>1, <2>2, OrderedEntries, BeforeOrders
      <4>2. Cardinality(Entries(b)) \in U16
        BY <2>1, EntriesFinite, ParsedLayout, EocdFound DEF EocdRecords
      <4> HIDE DEF kept, n
      <4> QED
        BY <2>3, <4>1, <4>2, FieldsAreNaturals DEF U16
    <3>2. Len(copied[n]) \in U32
      <4>1. Len(copied[n]) \in Nat /\ Len(copied[n]) <= CdStart(b)
        BY <2>1, <2>2, <2>4, <2>6, CopiedFits, ArchiveLength
      <4>2. CdStart(b) \in U32
        BY <2>1, ParsedLayout, EocdFound DEF CdStart, EocdRecords
      <4> HIDE DEF kept, copied, n
      <4> QED
        BY <4>1, <4>2, FieldsAreNaturals DEF U32
    <3> HIDE DEF kept, copied, n
    <3> QED
      BY <2>1, <3>1, <3>2, EocdType, OneCell, FieldsAreNaturals
  <2>8. RemoveZipEntry(b, name) = copied[n] \o dir \o <<eocd>>
    BY <1>2 DEF RemoveZipEntry
  <2> HIDE DEF kept, copied, n, dir, eocd
  <2> QED
    BY <2>4, <2>5, <2>6, <2>7, <2>8, ConcatProperties DEF Archives
<1> QED
  BY <1>1, <1>2

-----------------------------------------------------------------------------
(* fill_manifest                                                           *)

\* A fill that succeeds located the content of the entry it found.
LEMMA FillAccepts ==
  ASSUME NEW b \in Archives, NEW name, NEW content,
         FillVerdict(b, name, content) = "ok"
  PROVE  /\ Parses(b)
         /\ FirstNamed(b, name) \in Named(b, name)
         /\ FirstNamed(b, name) \in Entries(b)
         /\ ContentVerdict(b, FirstNamed(b, name)) = "ok"
         /\ Len(content) = At(b, FirstNamed(b, name)).csize
<1>1. ReadVerdict(b, name) = "ok"
  BY DEF FillVerdict
<1>2. Parses(b) /\ Named(b, name) # {}
  BY <1>1 DEF ReadVerdict, Parses
<1>3. Named(b, name) \subseteq Entries(b)
  BY DEF Named
<1>4. FirstNamed(b, name) \in Named(b, name)
  BY <1>2, <1>3, FirstIsFirst DEF FirstNamed
<1>5. ContentVerdict(b, FirstNamed(b, name)) = "ok"
  BY <1>1, <1>2 DEF ReadVerdict, ManifestEntryVerdict
<1> QED
  BY <1>1, <1>2, <1>3, <1>4, <1>5 DEF FillVerdict

\* The cells a fill writes: the content, and the CRC of the two headers of
\* the entry; the content lies between its local header and the directory.
LEMMA FillCells ==
  ASSUME NEW b \in Archives, NEW name, NEW content \in Payloads,
         FillVerdict(b, name, content) = "ok"
  PROVE  LET h   == FirstNamed(b, name)
             new == FillZipEntry(b, name, content)
         IN /\ new \in Archives /\ Len(new) = Len(b)
            /\ \A p \in CdStart(b) .. Len(b) - 1 :
                 At(new, p) = IF p = h THEN [At(b, p) EXCEPT !.crc = Crc(content)]
                              ELSE At(b, p)
<1> DEFINE h     == FirstNamed(b, name)
           lh    == At(b, h).offset
           start == ContentStart(b, h)
           new   == FillZipEntry(b, name, content)
<1>1. /\ Parses(b) /\ h \in Entries(b)
      /\ ContentVerdict(b, h) = "ok" /\ Len(content) = At(b, h).csize
  BY FillAccepts
<1>2. /\ h \in Nat /\ CdStart(b) <= h /\ h < EocdOffset(b)
      /\ lh \in Nat /\ lh < CdStart(b) /\ At(b, h) \in CdHeaders
  BY <1>1, EntryProperties
<1>3. /\ CdStart(b) \in Nat /\ Len(b) \in Nat
      /\ EocdOffset(b) \in Nat /\ EocdOffset(b) < Len(b)
  BY <1>1, ParsedLayout, ArchiveLength
<1>4. content \in Archives /\ Len(content) \in Nat /\ Crc(content) \in U32
  BY PayloadAssumption, ArchiveLength
<1>5. /\ start \in Nat /\ lh < start /\ At(b, lh) \in LocalHeaders
      /\ start + Len(content) <= CdStart(b)
  <2>1. /\ start \in Nat /\ lh < start /\ At(b, lh) \in LocalHeaders
        /\ ContentEnd(b, h) \in Nat
        /\ ContentEnd(b, h) = start + At(b, h).csize
        /\ ContentEnd(b, h) <= EntryBoundary(b, h)
    BY <1>1, ContentLocated
  <2>2. EntryBoundary(b, h) \in Nat /\ EntryBoundary(b, h) <= CdStart(b)
    BY <1>1, BoundaryProperties
  <2> QED
    BY <1>1, <1>3, <2>1, <2>2
<1> DEFINE cell(i) == IF i - 1 \in start .. start + Len(content) - 1
                      THEN content[i - start]
                      ELSE IF i - 1 \in {lh, h}
                      THEN [b[i] EXCEPT !.crc = Crc(content)]
                      ELSE b[i]
<1>6. new = [i \in 1 .. Len(b) |-> cell(i)]
  BY DEF FillZipEntry
<1>7. ASSUME NEW i \in 1 .. Len(b)
      PROVE  cell(i) \in Cells
  <2>1. CASE i - 1 \in start .. start + Len(content) - 1
    <3>1. i - start \in 1 .. Len(content)
      BY <1>3, <1>4, <1>5, <2>1
    <3>2. content[i - start] \in Cells
      BY <1>4, <3>1, ElementOfSeq DEF Archives
    <3> HIDE DEF start, lh, h
    <3> QED
      BY <2>1, <3>2
  <2>2. CASE i - 1 \notin start .. start + Len(content) - 1 /\ i - 1 = lh
    <3>1. b[i] \in LocalHeaders
      <4>1. i = lh + 1
        BY <1>2, <2>2
      <4> QED
        BY <1>5, <4>1 DEF At
    <3>2. [b[i] EXCEPT !.crc = Crc(content)] \in Cells
      <4>1. [b[i] EXCEPT !.crc = Crc(content)] \in LocalHeaders
        BY <1>4, <3>1 DEF LocalHeaders
      <4> QED
        BY <4>1 DEF Cells
    <3> HIDE DEF start, lh, h
    <3> QED
      BY <2>2, <3>2
  <2>3. CASE i - 1 \notin start .. start + Len(content) - 1 /\ i - 1 = h
    <3>1. b[i] \in CdHeaders
      <4>1. i = h + 1
        BY <1>2, <2>3
      <4> QED
        BY <1>2, <4>1 DEF At
    <3>2. [b[i] EXCEPT !.crc = Crc(content)] \in Cells
      <4>1. [b[i] EXCEPT !.crc = Crc(content)] \in CdHeaders
        BY <1>4, <3>1 DEF CdHeaders
      <4> QED
        BY <4>1 DEF Cells
    <3> HIDE DEF start, lh, h
    <3> QED
      BY <2>3, <3>2
  <2>4. CASE i - 1 \notin (start .. start + Len(content) - 1) \cup {lh, h}
    <3>1. b[i] \in Cells
      BY ElementOfSeq DEF Archives
    <3> HIDE DEF start, lh, h
    <3> QED
      BY <2>4, <3>1
  <2> HIDE DEF start, lh, h, cell
  <2> QED
    BY <2>1, <2>2, <2>3, <2>4
<1>8. new \in Archives /\ Len(new) = Len(b)
  <2> HIDE DEF cell
  <2>1. new \in [1 .. Len(b) -> Cells]
    BY <1>6, <1>7
  <2>2. new \in Archives
    BY <1>3, <2>1, SeqDef DEF Archives
  <2> HIDE DEF new
  <2>3. DOMAIN new = 1 .. Len(b) /\ DOMAIN new = 1 .. Len(new) /\ Len(new) \in Nat
    BY <2>1, <2>2, ArchiveLength
  <2> QED
    BY <1>3, <2>2, <2>3
<1>9. ASSUME NEW p \in CdStart(b) .. Len(b) - 1
      PROVE  At(new, p) = IF p = h THEN [At(b, p) EXCEPT !.crc = Crc(content)]
                          ELSE At(b, p)
  <2>1. /\ p + 1 \in 1 .. Len(b) /\ p + 1 - 1 = p
        /\ p \notin start .. start + Len(content) - 1 /\ p # lh
    BY <1>2, <1>3, <1>4, <1>5
  <2>2. At(new, p) = cell(p + 1)
    BY <1>6, <2>1 DEF At
  <2> HIDE DEF start, lh, h, new
  <2> QED
    BY <2>1, <2>2 DEF At
<1> QED
  BY <1>8, <1>9

\* A fill leaves the layout: the record, the directory and its entries, their
\* order and the entry a search by name finds.  The content may hold what looks
\* like a record; the one that ends the archive still follows it.
LEMMA FillKeepsLayout ==
  ASSUME NEW b \in Archives, NEW name, NEW content \in Payloads,
         FillVerdict(b, name, content) = "ok"
  PROVE  LET new == FillZipEntry(b, name, content)
         IN /\ CdStart(new) = CdStart(b)
            /\ EocdOffset(new) = EocdOffset(b)
            /\ At(new, EocdOffset(new)) = At(b, EocdOffset(b))
            /\ EocdPositions(new) # {}
            /\ Entries(new) = Entries(b)
            /\ \A f, g \in Entries(b) : Before(new, f, g) <=> Before(b, f, g)
            /\ \A n : Named(new, n) = Named(b, n)
            /\ \A n : Named(b, n) # {} => FirstNamed(new, n) = FirstNamed(b, n)
<1> DEFINE h   == FirstNamed(b, name)
           new == FillZipEntry(b, name, content)
<1>1. Parses(b) /\ h \in Entries(b)
  BY FillAccepts
<1>2. /\ h \in Nat /\ CdStart(b) <= h /\ h < EocdOffset(b)
      /\ At(b, h) \in CdHeaders
  BY <1>1, EntryProperties
<1>3. /\ CdStart(b) \in Nat /\ Len(b) \in Nat /\ EocdPositions(b) # {}
      /\ EocdOffset(b) \in Nat /\ EocdOffset(b) < Len(b)
  BY <1>1, ParsedLayout, ArchiveLength
<1>4. /\ new \in Archives /\ Len(new) = Len(b)
      /\ \A p \in CdStart(b) .. Len(b) - 1 :
           At(new, p) = IF p = h THEN [At(b, p) EXCEPT !.crc = Crc(content)]
                        ELSE At(b, p)
  BY FillCells
<1> HIDE DEF h, new
<1>5. \A p \in EocdOffset(b) .. Len(b) - 1 : At(new, p) = At(b, p)
  BY <1>2, <1>3, <1>4
<1>6. EocdOffset(new) = EocdOffset(b) /\ EocdPositions(new) # {}
  <2>1. /\ EocdOffset(b) \in EocdPositions(b)
        /\ \A p \in EocdPositions(b) : p <= EocdOffset(b)
    BY <1>3, EocdFound
  <2>2. \A p \in EocdOffset(b) .. Len(b) - 1 :
          p \in EocdPositions(new) <=> p \in EocdPositions(b)
    BY <1>3, <1>4, <1>5 DEF EocdPositions, HasSig
  <2>3. EocdOffset(b) \in EocdPositions(new)
    BY <1>3, <2>1, <2>2
  <2>4. /\ EocdOffset(new) \in EocdPositions(new)
        /\ EocdOffset(new) \in 0 .. Len(b) - 1
        /\ EocdOffset(b) <= EocdOffset(new)
    BY <1>4, <2>3, EocdFound
  <2>5. EocdOffset(new) \in EocdPositions(b)
    BY <1>3, <2>2, <2>4
  <2> QED
    BY <1>3, <2>1, <2>4, <2>5
<1>7. At(new, EocdOffset(new)) = At(b, EocdOffset(b))
  BY <1>3, <1>5, <1>6
<1>8. CdStart(new) = CdStart(b) /\ Entries(new) = Entries(b)
  BY <1>7 DEF CdStart, Entries
<1>9. \A g \in Entries(b) :
        /\ At(new, g).name = At(b, g).name
        /\ At(new, g).offset = At(b, g).offset
  <2> SUFFICES ASSUME NEW g \in Entries(b)
               PROVE  /\ At(new, g).name = At(b, g).name
                      /\ At(new, g).offset = At(b, g).offset
    OBVIOUS
  <2>1. /\ g \in CdStart(b) .. Len(b) - 1
        /\ At(b, g) \in CdHeaders
    BY <1>1, <1>3, EntryProperties
  <2> QED
    BY <1>4, <2>1 DEF CdHeaders
<1>10. \A n : Named(new, n) = Named(b, n)
  BY <1>8, <1>9 DEF Named
<1>11. \A f, g \in Entries(b) : Before(new, f, g) <=> Before(b, f, g)
  BY <1>9 DEF Before
<1>12. ASSUME NEW n, Named(b, n) # {}
       PROVE  FirstNamed(new, n) = FirstNamed(b, n)
  <2>1. Named(b, n) \subseteq Entries(b)
    BY DEF Named
  <2> DEFINE IsFirst(z, x) == \A g \in Named(b, n) \ {x} : Before(z, x, g)
  <2>2. FirstNamed(b, n) \in Named(b, n) /\ IsFirst(b, FirstNamed(b, n))
    BY <1>1, <1>12, <2>1, FirstIsFirst DEF FirstNamed
  <2>3. \A x \in Named(b, n) : IsFirst(new, x) <=> IsFirst(b, x)
    BY <1>11, <2>1
  <2>4. FirstNamed(new, n) = CHOOSE x \in Named(b, n) : IsFirst(new, x)
    BY <1>10 DEF FirstNamed, FirstOf
  <2>5. FirstNamed(new, n) \in Named(b, n) /\ IsFirst(b, FirstNamed(new, n))
    <3>1. IsFirst(new, FirstNamed(b, n))
      BY <2>2, <2>3
    <3> HIDE DEF IsFirst
    <3> QED
      BY <2>2, <2>3, <2>4, <3>1
  <2>6. \A x, y \in Named(b, n) : ~(Before(b, x, y) /\ Before(b, y, x))
    <3>1. \A x \in Named(b, n) : x \in Nat /\ At(b, x).offset \in Nat
      BY <1>1, <2>1, EntryProperties
    <3> QED
      BY <3>1 DEF Before
  <2> QED
    BY <2>2, <2>5, <2>6
<1> QED
  BY <1>6, <1>7, <1>8, <1>10, <1>11, <1>12 DEF new

\* A fill leaves what the directory hash covers.
LEMMA FillKeepsDirectoryInput ==
  ASSUME NEW b \in Archives, NEW content \in Payloads,
         FillVerdict(b, ManifestPath, content) = "ok"
  PROVE  DirectoryInput(FillZipEntry(b, ManifestPath, content)) = DirectoryInput(b)
<1> DEFINE h   == FirstNamed(b, ManifestPath)
           new == FillZipEntry(b, ManifestPath, content)
           cell(z, p) == IF Named(z, ManifestPath) # {} /\ p = FirstNamed(z, ManifestPath)
                         THEN [At(z, p) EXCEPT !.crc = 0]
                         ELSE At(z, p)
<1>1. Parses(b) /\ h \in Named(b, ManifestPath) /\ h \in Entries(b)
  BY FillAccepts
<1>2. CdStart(b) \in Nat /\ Len(b) \in Nat
  BY <1>1, ParsedLayout, ArchiveLength
<1>3. At(b, h) \in CdHeaders
  BY <1>1, EntryProperties
<1>4. /\ Len(new) = Len(b)
      /\ \A p \in CdStart(b) .. Len(b) - 1 :
           At(new, p) = IF p = h THEN [At(b, p) EXCEPT !.crc = Crc(content)]
                        ELSE At(b, p)
  BY FillCells
<1>5. /\ CdStart(new) = CdStart(b)
      /\ Named(new, ManifestPath) = Named(b, ManifestPath)
      /\ FirstNamed(new, ManifestPath) = h
  BY <1>1, FillKeepsLayout
<1>6. ASSUME NEW p \in CdStart(b) .. Len(b) - 1
      PROVE  cell(new, p) = cell(b, p)
  <2> HIDE DEF h, new
  <2>1. CASE p = h
    <3>1. [At(new, h) EXCEPT !.crc = 0] = [At(b, h) EXCEPT !.crc = 0]
      BY <1>3, <1>4, <2>1 DEF CdHeaders
    <3>2. Named(b, ManifestPath) # {}
      BY <1>1
    <3> QED
      BY <1>5, <2>1, <3>1, <3>2 DEF h
  <2>2. CASE p # h
    BY <1>4, <1>5, <2>2 DEF h
  <2> QED
    BY <2>1, <2>2
<1>7. \A i \in 1 .. Len(b) - CdStart(b) :
        CdStart(b) + i - 1 \in CdStart(b) .. Len(b) - 1
  BY <1>2
<1>8. /\ DirectoryInput(new) = [i \in 1 .. Len(b) - CdStart(b) |->
                                  cell(new, CdStart(b) + i - 1)]
      /\ DirectoryInput(b) = [i \in 1 .. Len(b) - CdStart(b) |->
                                cell(b, CdStart(b) + i - 1)]
  <2>1. DirectoryInput(b) = [i \in 1 .. Len(b) - CdStart(b) |->
                               cell(b, CdStart(b) + i - 1)]
    BY DEF DirectoryInput
  <2>2. DirectoryInput(new) = [i \in 1 .. Len(new) - CdStart(new) |->
                                 cell(new, CdStart(new) + i - 1)]
    BY DEF DirectoryInput
  <2> HIDE DEF new, cell
  <2> QED
    BY <1>4, <1>5, <2>1, <2>2
<1> HIDE DEF new, cell
<1> QED
  BY <1>6, <1>7, <1>8 DEF new
=============================================================================
