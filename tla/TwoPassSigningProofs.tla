------------------------ MODULE TwoPassSigningProofs ------------------------
(***************************************************************************)
(* Theorems about signing in two passes, for every set of placeholders and *)
(* stores and whatever another program does to the document.               *)
(***************************************************************************)
EXTENDS TwoPassSigning, C2paZipProofs

-----------------------------------------------------------------------------
(* What the directory hash determines                                      *)

\* The cells it covers.
DirectoryLength(b) == Len(b) - CdStart(b)

\* y is x, but for the CRC if it is a directory header.
SameButCrc(x, y) ==
  IF x \in CdHeaders THEN y \in CdHeaders /\ y = [x EXCEPT !.crc = y.crc] ELSE y = x

\* Two headers that become the same with another CRC differ in nothing else.
LEMMA CrcLeftOut ==
  ASSUME NEW x \in CdHeaders, NEW z \in CdHeaders, NEW y,
         y = [x EXCEPT !.crc = y.crc], y = [z EXCEPT !.crc = y.crc]
  PROVE  z = [x EXCEPT !.crc = z.crc]
<1>1. /\ y.sig = x.sig /\ y.name = x.name /\ y.flags = x.flags /\ y.method = x.method
      /\ y.csize = x.csize /\ y.usize = x.usize /\ y.offset = x.offset
  BY DEF CdHeaders
<1>2. /\ y.sig = z.sig /\ y.name = z.name /\ y.flags = z.flags /\ y.method = z.method
      /\ y.csize = z.csize /\ y.usize = z.usize /\ y.offset = z.offset
  BY DEF CdHeaders
<1>3. /\ z.sig = x.sig /\ z.name = x.name /\ z.flags = x.flags /\ z.method = x.method
      /\ z.csize = x.csize /\ z.usize = x.usize /\ z.offset = x.offset
  BY <1>1, <1>2
<1> QED
  BY <1>3 DEF CdHeaders

\* A covered cell, as it is hashed: only the header the manifest is found by
\* has its CRC left out.
LEMMA HashedCell ==
  ASSUME NEW b \in Archives, Parses(b), NEW q \in 0 .. DirectoryLength(b) - 1
  PROVE  LET x == At(b, CdStart(b) + q)
             y == DirectoryInput(b)[q + 1]
         IN /\ x \in Cells /\ SameButCrc(x, y)
            /\ CdStart(b) + q \notin Named(b, ManifestPath) => y = x
<1> DEFINE p == CdStart(b) + q
           x == At(b, p)
           h == FirstNamed(b, ManifestPath)
           y == IF Named(b, ManifestPath) # {} /\ p = h THEN [x EXCEPT !.crc = 0] ELSE x
<1>1. /\ CdStart(b) \in Nat /\ Len(b) \in Nat /\ CdStart(b) <= Len(b)
  BY ParsedRecord, ArchiveLength
<1>2. /\ q + 1 \in 1 .. Len(b) - CdStart(b) /\ CdStart(b) + (q + 1) - 1 = p
      /\ p \in Nat /\ p < Len(b)
  BY <1>1 DEF DirectoryLength
<1>3. x \in Cells
  BY <1>2, CellAt
<1>4. DirectoryInput(b)[q + 1] = y
  <2> DEFINE i == q + 1
  <2>1. CdStart(b) + i - 1 = p
    BY <1>2
  <2>2. i \in 1 .. Len(b) - CdStart(b)
    BY <1>2
  <2> HIDE DEF i
  <2>3. DirectoryInput(b)[i]
          = IF Named(b, ManifestPath) # {} /\ CdStart(b) + i - 1 = h
            THEN [At(b, CdStart(b) + i - 1) EXCEPT !.crc = 0]
            ELSE At(b, CdStart(b) + i - 1)
    BY <2>2 DEF DirectoryInput
  <2> HIDE DEF p, h
  <2> QED
    BY <2>1, <2>3 DEF i
<1>5. Named(b, ManifestPath) # {} => h \in Named(b, ManifestPath) /\ At(b, h) \in CdHeaders
  <2>1. Named(b, ManifestPath) \subseteq Entries(b)
    BY DEF Named
  <2>2. Named(b, ManifestPath) # {} => h \in Named(b, ManifestPath)
    BY <2>1, FirstIsFirst DEF FirstNamed
  <2> QED
    BY <2>1, <2>2, EntryProperties
<1>6. ASSUME NEW e \in CdHeaders
      PROVE  SameButCrc(e, e) /\ SameButCrc(e, [e EXCEPT !.crc = 0])
  <2>1. e = [e EXCEPT !.crc = e.crc] /\ 0 \in U32
    BY WidthAssumption DEF CdHeaders, U32
  <2>2. [e EXCEPT !.crc = 0] \in CdHeaders
    BY <2>1 DEF CdHeaders
  <2>3. [e EXCEPT !.crc = 0].crc = 0
    BY DEF CdHeaders
  <2> QED
    BY <2>1, <2>2, <2>3 DEF SameButCrc
<1> HIDE DEF p, h
<1>7. SameButCrc(x, y)
  <2>1. CASE Named(b, ManifestPath) # {} /\ p = h
    BY <1>5, <1>6, <2>1
  <2>2. CASE ~(Named(b, ManifestPath) # {} /\ p = h)
    BY <1>6, <2>2 DEF SameButCrc
  <2> QED
    BY <2>1, <2>2
<1>8. p \notin Named(b, ManifestPath) => y = x
  BY <1>5
<1> QED
  BY <1>3, <1>4, <1>7, <1>8 DEF p

\* Two archives of which the directory hash is the same.
SameDirectory(b, c) ==
  /\ b \in Archives /\ Parses(b) /\ c \in Archives /\ Parses(c)
  /\ DirectoryInput(b) = DirectoryInput(c)

\* They have the same cells from their directories on, but for CRCs.
LEMMA SameDirectoryCells ==
  ASSUME NEW b, NEW c, SameDirectory(b, c)
  PROVE  /\ DirectoryLength(b) \in Nat /\ DirectoryLength(c) = DirectoryLength(b)
         /\ \A q \in 0 .. DirectoryLength(b) - 1 :
              SameButCrc(At(b, CdStart(b) + q), At(c, CdStart(c) + q))
<1>1. /\ b \in Archives /\ Parses(b) /\ c \in Archives /\ Parses(c)
      /\ DirectoryInput(b) = DirectoryInput(c)
  BY DEF SameDirectory
<1>2. ASSUME NEW z \in Archives, Parses(z)
      PROVE  DirectoryLength(z) \in Nat /\ Len(DirectoryInput(z)) = DirectoryLength(z)
  <2>1. /\ CdStart(z) \in Nat /\ Len(z) \in Nat /\ CdStart(z) <= Len(z)
    BY <1>2, ParsedRecord, ArchiveLength
  <2>2. DirectoryLength(z) \in Nat
    BY <2>1 DEF DirectoryLength
  <2> QED
    BY <2>2 DEF DirectoryInput, DirectoryLength
<1>3. DirectoryLength(b) \in Nat /\ DirectoryLength(c) = DirectoryLength(b)
  BY <1>1, <1>2
<1>4. ASSUME NEW q \in 0 .. DirectoryLength(b) - 1
      PROVE  SameButCrc(At(b, CdStart(b) + q), At(c, CdStart(c) + q))
  <2> DEFINE x == At(b, CdStart(b) + q)
             z == At(c, CdStart(c) + q)
             y == DirectoryInput(b)[q + 1]
  <2>1. x \in Cells /\ SameButCrc(x, y)
    BY <1>1, HashedCell
  <2>2. q \in 0 .. DirectoryLength(c) - 1
    BY <1>3
  <2>3. z \in Cells /\ SameButCrc(z, y)
    BY <1>1, <2>2, HashedCell
  <2> HIDE DEF x, y, z
  <2>4. ASSUME x \in CdHeaders
        PROVE  SameButCrc(x, z)
    <3>1. y \in CdHeaders /\ y = [x EXCEPT !.crc = y.crc]
      BY <2>1, <2>4 DEF SameButCrc
    <3>2. z \in CdHeaders
      BY <2>3, <3>1 DEF SameButCrc
    <3>3. y = [z EXCEPT !.crc = y.crc]
      BY <2>3, <3>2 DEF SameButCrc
    <3>4. z = [x EXCEPT !.crc = z.crc]
      BY <2>4, <3>1, <3>2, <3>3, CrcLeftOut
    <3> QED
      BY <2>4, <3>2, <3>4 DEF SameButCrc
  <2>5. ASSUME x \notin CdHeaders
        PROVE  SameButCrc(x, z)
    <3>1. y = x
      BY <2>1, <2>5 DEF SameButCrc
    <3>2. z \notin CdHeaders
      BY <2>3, <2>5, <3>1 DEF SameButCrc
    <3>3. z = x
      BY <2>3, <3>1, <3>2 DEF SameButCrc
    <3> QED
      BY <2>5, <3>3 DEF SameButCrc
  <2> QED
    BY <2>4, <2>5 DEF x, z
<1> QED
  BY <1>3, <1>4

\* The record that ends the one archive ends the other, so that no later one is
\* missed and both are read from the same record.
LEMMA RecordCarried ==
  ASSUME NEW b, NEW c, SameDirectory(b, c)
  PROVE  /\ EocdOffset(b) - CdStart(b) <= EocdOffset(c) - CdStart(c)
         /\ At(c, CdStart(c) + (EocdOffset(b) - CdStart(b))) = At(b, EocdOffset(b))
<1> DEFINE q == EocdOffset(b) - CdStart(b)
           p == CdStart(c) + q
           r == At(b, EocdOffset(b))
<1>1. /\ b \in Archives /\ Parses(b) /\ c \in Archives /\ Parses(c)
  BY DEF SameDirectory
<1>2. /\ CdStart(b) \in Nat /\ EocdOffset(b) \in Nat /\ Len(b) \in Nat
      /\ CdStart(b) <= EocdOffset(b) /\ EocdOffset(b) < Len(b)
      /\ EocdPositions(b) # {}
  BY <1>1, ParsedLayout, ArchiveLength
<1>3. /\ CdStart(c) \in Nat /\ EocdOffset(c) \in Nat /\ Len(c) \in Nat
  BY <1>1, ParsedLayout, ArchiveLength
<1>4. /\ EocdOffset(b) \in EocdPositions(b) /\ r \in EocdRecords
  BY <1>1, <1>2, EocdFound
<1>5. /\ r.sig = "EOCD" /\ r.comment \in Nat
      /\ EocdOffset(b) + 1 + r.comment = Len(b)
  BY <1>4, FieldsAreNaturals DEF EocdPositions, HasSig, EocdRecords
<1>6. DirectoryLength(b) \in Nat /\ DirectoryLength(c) = DirectoryLength(b)
  BY SameDirectoryCells
<1>7. /\ q \in 0 .. DirectoryLength(b) - 1 /\ CdStart(b) + q = EocdOffset(b)
      /\ q + 1 + r.comment = DirectoryLength(b)
  BY <1>2, <1>5 DEF DirectoryLength
<1>8. At(c, p) = r
  <2>1. SameButCrc(At(b, CdStart(b) + q), At(c, p))
    BY <1>7, SameDirectoryCells
  <2>2. r \notin CdHeaders
    BY <1>5 DEF CdHeaders
  <2> HIDE DEF p, q
  <2> QED
    BY <1>7, <2>1, <2>2 DEF SameButCrc
<1>9. p \in 0 .. Len(c) - 1 /\ p + 1 + r.comment = Len(c)
  <2> DEFINE n == r.comment
             m == DirectoryLength(b)
  <2>1. n \in Nat /\ q \in 0 .. m - 1 /\ q + 1 + n = m /\ m \in Nat
    BY <1>5, <1>6, <1>7
  <2>2. Len(c) - CdStart(c) = m
    BY <1>6 DEF DirectoryLength
  <2> HIDE DEF n, m, q
  <2>3. CdStart(c) + q \in 0 .. Len(c) - 1 /\ CdStart(c) + q + 1 + n = Len(c)
    BY <1>3, <2>1, <2>2
  <2> QED
    BY <2>3 DEF n
<1> HIDE DEF p, q, r
<1>10. p \in EocdPositions(c)
  BY <1>5, <1>8, <1>9, <1>3 DEF EocdPositions, HasSig
<1>11. p <= EocdOffset(c)
  BY <1>1, <1>10, EocdFound
<1>12. q <= EocdOffset(c) - CdStart(c)
  BY <1>2, <1>3, <1>11 DEF p, q
<1> QED
  BY <1>8, <1>12 DEF p, q, r

\* What the headers of both say, and hence which entries there are and in which
\* order, is the same, but for the CRC of the manifest.
LEMMA SameDirectoryLayout ==
  ASSUME NEW b, NEW c, SameDirectory(b, c)
  PROVE  /\ Entries(c) = Entries(b)
         /\ Members(c) = Members(b)
         /\ \A h \in Members(b) : At(c, h) = At(b, h)
         /\ InArchiveOrder(c, Members(b)) = InArchiveOrder(b, Members(b))
<1>1. /\ b \in Archives /\ Parses(b) /\ c \in Archives /\ Parses(c)
      /\ DirectoryInput(b) = DirectoryInput(c)
  BY DEF SameDirectory
<1>2. SameDirectory(c, b)
  BY DEF SameDirectory
<1>3. /\ CdStart(b) \in Nat /\ EocdOffset(b) \in Nat /\ CdStart(b) <= EocdOffset(b)
      /\ CdStart(c) \in Nat /\ EocdOffset(c) \in Nat /\ Len(b) \in Nat
      /\ EocdOffset(b) < Len(b)
  BY <1>1, ParsedLayout, ArchiveLength
<1>4. At(c, EocdOffset(c)) = At(b, EocdOffset(b))
  <2>1. /\ EocdOffset(b) - CdStart(b) <= EocdOffset(c) - CdStart(c)
        /\ At(c, CdStart(c) + (EocdOffset(b) - CdStart(b))) = At(b, EocdOffset(b))
    BY RecordCarried
  <2>2. EocdOffset(c) - CdStart(c) <= EocdOffset(b) - CdStart(b)
    BY <1>2, RecordCarried
  <2>3. CdStart(c) + (EocdOffset(b) - CdStart(b)) = EocdOffset(c)
    BY <1>3, <2>1, <2>2
  <2> QED
    BY <2>1, <2>3
<1>5. CdStart(c) = CdStart(b) /\ Entries(c) = Entries(b)
  BY <1>4 DEF CdStart, Entries
<1>6. ASSUME NEW h \in Entries(b)
      PROVE  /\ SameButCrc(At(b, h), At(c, h)) /\ At(b, h) \in CdHeaders
             /\ h - CdStart(b) \in 0 .. DirectoryLength(b) - 1
             /\ CdStart(b) + (h - CdStart(b)) = h
  <2>1. h \in Nat /\ CdStart(b) <= h /\ h < EocdOffset(b) /\ At(b, h) \in CdHeaders
    BY <1>1, EntryProperties
  <2>2. /\ h - CdStart(b) \in 0 .. DirectoryLength(b) - 1
        /\ CdStart(b) + (h - CdStart(b)) = h
    BY <1>3, <2>1 DEF DirectoryLength
  <2> DEFINE q == h - CdStart(b)
  <2>3. q \in 0 .. DirectoryLength(b) - 1 /\ CdStart(b) + q = h /\ CdStart(c) + q = h
    BY <1>5, <2>2
  <2> HIDE DEF q
  <2>4. SameButCrc(At(b, CdStart(b) + q), At(c, CdStart(c) + q))
    BY <2>3, SameDirectoryCells
  <2> QED
    BY <2>1, <2>2, <2>3, <2>4
<1>7. \A h \in Entries(b) : /\ At(c, h).name = At(b, h).name
                            /\ At(c, h).offset = At(b, h).offset
  BY <1>6 DEF SameButCrc, CdHeaders
<1>8. Named(c, ManifestPath) = Named(b, ManifestPath) /\ Members(c) = Members(b)
  BY <1>5, <1>7 DEF Named, Members
<1>9. ASSUME NEW h \in Members(b)
      PROVE  At(c, h) = At(b, h)
  <2>1. /\ h \in Entries(b) /\ h \notin Named(b, ManifestPath)
        /\ h \notin Named(c, ManifestPath)
    BY <1>8 DEF Members
  <2> DEFINE q == h - CdStart(b)
  <2>2. /\ q \in 0 .. DirectoryLength(b) - 1 /\ CdStart(b) + q = h /\ CdStart(c) + q = h
        /\ q \in 0 .. DirectoryLength(c) - 1
    BY <1>5, <1>6, <2>1, SameDirectoryCells
  <2> HIDE DEF q
  <2>3. DirectoryInput(b)[q + 1] = At(b, h)
    BY <1>1, <2>1, <2>2, HashedCell
  <2>4. DirectoryInput(c)[q + 1] = At(c, h)
    BY <1>1, <2>1, <2>2, HashedCell
  <2> QED
    BY <1>1, <2>3, <2>4
<1>10. \A f, g \in Entries(b) : Before(c, f, g) <=> Before(b, f, g)
  BY <1>7 DEF Before
<1>11. InArchiveOrder(c, Members(b)) = InArchiveOrder(b, Members(b))
  <2>1. Members(b) \subseteq Entries(b)
    BY DEF Members
  <2>2. \A f, g \in Members(b) : Before(c, f, g) <=> Before(b, f, g)
    BY <1>10, <2>1
  <2> QED
    BY <1>1, <1>5, <2>1, <2>2, SameOrder
<1> QED
  BY <1>5, <1>8, <1>9, <1>11

-----------------------------------------------------------------------------
(* What both hashes determine                                              *)

\* The entry h is in both archives, with the same header, and what the hash
\* over it covers is the same.
HashedAlike(b, c, h) ==
  /\ b \in Archives /\ Parses(b) /\ h \in Entries(b)
  /\ c \in Archives /\ Parses(c) /\ h \in Entries(c)
  /\ At(c, h) = At(b, h)
  /\ BindingVerdict(b, h) = "ok" /\ BindingVerdict(c, h) = "ok"
  /\ EntryCells(c, h) = EntryCells(b, h)

\* Its content is then the same: it lies in the covered cells, and the local
\* header that says where is among them.
LEMMA ContentAlike ==
  ASSUME NEW b, NEW c, NEW h, HashedAlike(b, c, h)
  PROVE  ContentOf(c, h) = ContentOf(b, h)
<1> DEFINE lo   == At(b, h).offset
           size == Len(EntryCells(b, h))
           from == ContentStart(b, h)
           to   == ContentEnd(b, h)
<1>1. /\ b \in Archives /\ Parses(b) /\ h \in Entries(b) /\ BindingVerdict(b, h) = "ok"
      /\ c \in Archives /\ Parses(c) /\ h \in Entries(c) /\ BindingVerdict(c, h) = "ok"
      /\ At(c, h) = At(b, h) /\ EntryCells(c, h) = EntryCells(b, h)
  BY DEF HashedAlike
<1>2. ASSUME NEW z \in {b, c}
      PROVE  /\ lo \in Nat /\ BindingEnd(z, h) \in Nat
             /\ ContentStart(z, h) \in Nat /\ ContentEnd(z, h) \in Nat
             /\ lo < ContentStart(z, h) /\ ContentStart(z, h) <= ContentEnd(z, h)
             /\ ContentEnd(z, h) <= BindingEnd(z, h) /\ BindingEnd(z, h) <= Len(z)
             /\ Len(z) \in Nat
             /\ BindingEnd(z, h) = lo + size
  <2>1. /\ z \in Archives /\ Parses(z) /\ h \in Entries(z) /\ BindingVerdict(z, h) = "ok"
        /\ At(z, h).offset = lo /\ Len(EntryCells(z, h)) = size
    BY <1>1
  <2> HIDE DEF lo, size
  <2>2. /\ ContentVerdict(z, h) = "ok" /\ BindingEnd(z, h) \in Nat
        /\ ContentEnd(z, h) <= BindingEnd(z, h)
        /\ BindingEnd(z, h) <= EntryBoundary(z, h)
    BY <2>1, BindingLocated
  <2>3. /\ ContentStart(z, h) \in Nat /\ ContentEnd(z, h) \in Nat
        /\ lo < ContentStart(z, h)
        /\ ContentEnd(z, h) = ContentStart(z, h) + At(z, h).csize
    BY <2>1, <2>2, ContentLocated
  <2>4. /\ lo \in Nat /\ At(z, h).csize \in Nat
    BY <2>1, EntryProperties
  <2>5. /\ EntryBoundary(z, h) \in Nat /\ EntryBoundary(z, h) <= CdStart(z)
        /\ CdStart(z) \in Nat /\ CdStart(z) <= Len(z) /\ Len(z) \in Nat
    BY <2>1, BoundaryProperties, ParsedRecord, ArchiveLength
  <2>6. size = BindingEnd(z, h) - lo
    BY <2>1, EntryCellsType
  <2> QED
    BY <2>2, <2>3, <2>4, <2>5, <2>6
<1>3. ASSUME NEW i \in Nat, i < size
      PROVE  At(c, lo + i) = At(b, lo + i)
  <2>1. ASSUME NEW z \in {b, c}
        PROVE  At(z, lo + i) = EntryCells(z, h)[i + 1]
    <3>1. /\ lo + i < BindingEnd(z, h) /\ BindingEnd(z, h) <= Len(z)
          /\ lo \in Nat /\ BindingEnd(z, h) \in Nat
      BY <1>2, <1>3
    <3>2. z \in Archives /\ At(z, h).offset = lo
      BY <1>1
    <3> HIDE DEF lo
    <3> QED
      BY <3>1, <3>2, SliceAt DEF EntryCells
  <2> QED
    BY <1>1, <2>1
<1>4. ContentStart(c, h) = from /\ ContentEnd(c, h) = to
  <2>1. 0 < size
    BY <1>2
  <2>2. At(c, lo) = At(b, lo)
    BY <1>2, <1>3, <2>1
  <2> QED
    BY <1>1, <2>2 DEF ContentStart, ContentEnd
<1>5. /\ lo \in Nat /\ from \in Nat /\ to \in Nat /\ lo < from /\ from <= to
      /\ to <= lo + size /\ size \in Nat /\ to <= Len(b) /\ to <= Len(c)
  BY <1>2, <1>4
<1> HIDE DEF lo, size, from, to
<1>6. ASSUME NEW i \in 1 .. to - from
      PROVE  b[from + i] = c[from + i]
  <2> DEFINE j == from + i - 1 - lo
  <2>1. j \in Nat /\ j < size /\ lo + j + 1 = from + i
    BY <1>5
  <2> HIDE DEF j
  <2>2. At(c, lo + j) = At(b, lo + j)
    BY <1>3, <2>1
  <2> QED
    BY <2>1, <2>2 DEF At
<1>7. Slice(b, from, to) = Slice(c, from, to)
  <2>1. ASSUME NEW z \in {b, c}
        PROVE  /\ Slice(z, from, to) \in Archives
               /\ Len(Slice(z, from, to)) = to - from
               /\ \A i \in 1 .. to - from : Slice(z, from, to)[i] = z[from + i]
    <3>1. /\ z \in Archives /\ from \in Nat /\ to \in Nat
          /\ from <= to /\ to <= Len(z)
      BY <1>1, <1>5
    <3> QED
      BY <3>1, SliceProperties
  <2> DEFINE x == Slice(b, from, to)
             y == Slice(c, from, to)
  <2>2. /\ x \in Archives /\ y \in Archives /\ Len(x) = to - from /\ Len(y) = to - from
        /\ \A i \in 1 .. to - from : x[i] = y[i]
    BY <1>6, <2>1
  <2> HIDE DEF x, y
  <2>3. x = [i \in 1 .. Len(x) |-> x[i]] /\ y = [i \in 1 .. Len(y) |-> y[i]]
    BY <2>2 DEF Archives
  <2> QED
    BY <2>2, <2>3 DEF x, y
<1> QED
  BY <1>4, <1>7 DEF ContentOf, from, to

\* Two archives a validator cannot tell apart.
SameHashes(b, c) ==
  /\ SameDirectory(b, c)
  /\ CollectionVerdict(b) = "ok" /\ CollectionVerdict(c) = "ok"
  /\ CollectionInput(c) = CollectionInput(b)

\* They have the same members: the hashes leave nothing out that a reader of
\* them would notice.
LEMMA HashesDetermineMembers ==
  ASSUME NEW b, NEW c, SameHashes(b, c)
  PROVE  MemberFiles(c) = MemberFiles(b)
<1> DEFINE order == InArchiveOrder(b, Members(b))
<1>1. /\ SameDirectory(b, c) /\ CollectionInput(c) = CollectionInput(b)
      /\ b \in Archives /\ Parses(b) /\ c \in Archives /\ Parses(c)
  BY DEF SameHashes, SameDirectory
<1>2. /\ \A h \in Entries(b) : BindingVerdict(b, h) = "ok"
      /\ \A h \in Entries(c) : BindingVerdict(c, h) = "ok"
  BY <1>1, CollectionAccepts DEF SameHashes, Bindable
<1>3. /\ Entries(c) = Entries(b)
      /\ \A h \in Members(b) : At(c, h) = At(b, h)
      /\ InArchiveOrder(c, Members(c)) = order
  BY <1>1, SameDirectoryLayout
<1>4. \A k \in 1 .. Len(order) : order[k] \in Members(b) /\ order[k] \in Entries(b)
  <2>1. Members(b) \subseteq Entries(b)
    BY DEF Members
  <2> QED
    BY <1>1, <2>1, ArchiveOrder, ElementOfSeq
<1>5. /\ CollectionInput(b)
           = [k \in 1 .. Len(order) |->
                [name |-> At(b, order[k]).name, cells |-> EntryCells(b, order[k])]]
      /\ CollectionInput(c)
           = [k \in 1 .. Len(order) |->
                [name |-> At(c, order[k]).name, cells |-> EntryCells(c, order[k])]]
  BY <1>3 DEF CollectionInput
<1> HIDE DEF order
<1>6. ASSUME NEW k \in 1 .. Len(order)
      PROVE  SameMember(b, order[k], c, order[k])
  <2> DEFINE h == order[k]
  <2>1. h \in Members(b) /\ h \in Entries(b) /\ h \in Entries(c) /\ At(c, h) = At(b, h)
    BY <1>3, <1>4
  <2>2. EntryCells(c, h) = EntryCells(b, h)
    <3>1. /\ CollectionInput(b)[k].cells = EntryCells(b, h)
          /\ CollectionInput(c)[k].cells = EntryCells(c, h)
      BY <1>5
    <3> QED
      BY <1>1, <3>1
  <2> HIDE DEF h
  <2>3. BindingVerdict(b, h) = "ok" /\ BindingVerdict(c, h) = "ok"
    BY <1>2, <2>1
  <2>4. HashedAlike(b, c, h)
    BY <1>1, <2>1, <2>2, <2>3 DEF HashedAlike
  <2>5. ContentOf(c, h) = ContentOf(b, h)
    BY <2>4, ContentAlike
  <2>6. ContentVerdict(b, h) = "ok" /\ ContentVerdict(c, h) = "ok"
    BY <1>1, <2>1, <2>3, BindingLocated
  <2>7. At(c, h) = [At(b, h) EXCEPT !.offset = At(c, h).offset]
    BY <1>1, <2>1, EntryProperties DEF CdHeaders
  <2>8. SameMember(b, h, c, h)
    BY <2>2, <2>3, <2>5, <2>6, <2>7 DEF SameMember
  <2> QED
    BY <2>8 DEF h
<1>7. KeepsMembers(b, c)
  BY <1>3, <1>6 DEF KeepsMembers, order
<1> QED
  BY <1>1, <1>7, MemberFilesKept

-----------------------------------------------------------------------------
(* The second pass                                                         *)

\* Filling a placeholder without a descriptor leaves both hashes as they were,
\* and what is read back is what was filled in.
LEMMA FillLeavesHashes ==
  ASSUME NEW b, NEW content, NEW c, IsFilling(b, content, c), CollectionVerdict(b) = "ok",
         ~Streamed(b, FirstNamed(b, ManifestPath))
  PROVE  /\ CollectionVerdict(c) = "ok" /\ CollectionInput(c) = CollectionInput(b)
         /\ DirectoryInput(c) = DirectoryInput(b)
         /\ ReadVerdict(c, ManifestPath) = "ok" /\ ReadContent(c, ManifestPath) = content
<1> DEFINE h == FirstNamed(b, ManifestPath)
<1>1. /\ b \in Archives /\ content \in Payloads
      /\ FillVerdict(b, ManifestPath, content) = "ok"
      /\ c = FillZipEntry(b, ManifestPath, content)
  BY DEF IsFilling
<1>2. Parses(b) /\ \A g \in Entries(b) : BindingVerdict(b, g) = "ok"
  BY <1>1, CollectionAccepts DEF Bindable
<1>3. /\ c \in Archives /\ Parses(c) /\ KeepsMembers(b, c)
      /\ ReadVerdict(c, ManifestPath) = "ok" /\ ReadContent(c, ManifestPath) = content
  BY FillKeepsMembers
<1>4. /\ h \in Entries(b) /\ Named(c, ManifestPath) \subseteq Entries(b)
      /\ \A g \in Entries(b) \ {h} : SameMember(b, g, c, g)
  BY FilledLayout, FilledEntries DEF Named
<1>5. BindingVerdict(c, h) = "ok"
  BY <1>2, <1>4, FilledEntries
<1> HIDE DEF h
<1>6. \A g \in Named(c, ManifestPath) : BindingVerdict(c, g) = "ok"
  BY <1>2, <1>4, <1>5 DEF SameMember
<1>7. \A g \in Members(b) : BindingVerdict(b, g) = "ok"
  BY <1>2 DEF Members
<1>8. CollectionVerdict(c) = "ok" /\ CollectionInput(c) = CollectionInput(b)
  BY <1>1, <1>2, <1>3, <1>6, <1>7, CollectionKept
<1>9. DirectoryInput(c) = DirectoryInput(b)
  BY <1>1, FillKeepsDirectoryInput
<1> QED
  BY <1>3, <1>8, <1>9

\* It does not give the manifest a descriptor, nor take one away.
LEMMA FillKeepsStreaming ==
  ASSUME NEW b, NEW content, NEW c, IsFilling(b, content, c)
  PROVE  Streamed(c, FirstNamed(c, ManifestPath))
           <=> Streamed(b, FirstNamed(b, ManifestPath))
<1> DEFINE h == FirstNamed(b, ManifestPath)
<1>1. /\ FirstNamed(c, ManifestPath) = h /\ h \in Entries(b) /\ Parses(b)
      /\ At(c, h) = [At(b, h) EXCEPT !.crc = Crc(content)]
  BY FilledLayout
<1>2. b \in Archives
  BY DEF IsFilling
<1> HIDE DEF h
<1>3. At(b, h) \in CdHeaders
  BY <1>1, <1>2, EntryProperties
<1>4. At(c, h).flags = At(b, h).flags
  BY <1>1, <1>3 DEF CdHeaders
<1> QED
  BY <1>1, <1>4 DEF Streamed, h

\* What is read of a store padded to its placeholder begins with the store.
LEMMA PaddedBegins ==
  ASSUME NEW s \in Archives, NEW n \in Nat
  PROVE  IsPrefix(s, Padded(s, n))
<1> DEFINE m == IF Len(s) < n THEN n - Len(s) ELSE 0
           z == Zeros(m)
<1>1. Len(s) \in Nat /\ m \in Nat
  BY ArchiveLength
<1>2. z \in Seq({Zero}) /\ Len(z) = m
  <2> HIDE DEF m
  <2> QED
    BY <1>1 DEF Zeros
<1>3. Padded(s, n) = s \o z
  BY DEF Padded
<1> HIDE DEF m, z
<1> DEFINE t == s \o z
           l == Len(s)
<1>4. s \in Seq(Cells \cup {Zero}) /\ z \in Seq(Cells \cup {Zero})
  BY <1>2 DEF Archives
<1>5. /\ t \in Seq(Cells \cup {Zero}) /\ Len(t) = l + m
      /\ \A i \in 1 .. l : t[i] = s[i]
  BY <1>2, <1>4
<1> HIDE DEF t, l
<1>6. l \in Nat /\ l <= Len(t)
  BY <1>1, <1>5 DEF l
<1>7. SubSeq(s, 1, l) = SubSeq(t, 1, l)
  <2>1. /\ SubSeq(s, 1, l) = [i \in 1 .. l |-> s[i]]
        /\ SubSeq(t, 1, l) = [i \in 1 .. l |-> t[i]]
    BY <1>4, <1>5, <1>6 DEF l
  <2> QED
    BY <1>5, <2>1
<1> QED
  BY <1>3, <1>6, <1>7 DEF IsPrefix, t, l

-----------------------------------------------------------------------------
(* Types                                                                   *)

\* Whatever the other program makes of an archive is one.
ArchiveEdits == \A b \in Archives : Edits(b) \subseteq Archives

\* What the directory hash covers is a sequence of cells.
LEMMA DirectoryInputType ==
  ASSUME NEW b \in Archives, Parses(b)
  PROVE  DirectoryInput(b) \in Archives
<1> DEFINE n == DirectoryLength(b)
<1>1. n \in Nat
  BY ParsedRecord, ArchiveLength DEF DirectoryLength
<1>2. ASSUME NEW i \in 1 .. n
      PROVE  DirectoryInput(b)[i] \in Cells
  <2> DEFINE q == i - 1
  <2>1. q \in 0 .. DirectoryLength(b) - 1 /\ q + 1 = i
    BY <1>1
  <2> HIDE DEF q
  <2>2. LET x == At(b, CdStart(b) + q)
            y == DirectoryInput(b)[q + 1]
        IN x \in Cells /\ SameButCrc(x, y)
    BY <2>1, HashedCell
  <2> QED
    BY <2>1, <2>2 DEF SameButCrc, Cells
<1>3. DirectoryInput(b) = [i \in 1 .. n |-> DirectoryInput(b)[i]]
  BY DEF DirectoryInput, DirectoryLength
<1> HIDE DEF n
<1> QED
  BY <1>1, <1>2, <1>3 DEF Archives

\* The signer embeds and fills what it has, and knows which placeholder that
\* goes with.
SignerInv ==
  /\ phase \in {"reserved", "hashed", "signed"} => room \in Sizes
  /\ phase = "signed" => store \in Stores

\* What the first call does.
LEMMA ReserveStep ==
  ASSUME SigningTypeOK, NEW n \in Sizes, Reserve(n)
  PROVE  /\ phase' \in {"reserved", "refused"} /\ room' = n /\ edited' = {}
         /\ call'.verdict \in Verdicts
         /\ UNCHANGED <<store, assertion, seen, edits>>
         /\ phase' = "refused" => doc' = doc
         /\ phase' = "reserved" => /\ EmbedVerdict(doc, Zeros(n)) = "ok"
                                   /\ doc' = Embed(doc, Zeros(n))
<1>1. /\ call'.verdict = EmbedVerdict(doc, Zeros(n))
      /\ doc' = IF call'.verdict = "ok" THEN Embed(doc, Zeros(n)) ELSE doc
  BY DEF Reserve, EmbedManifest, Return
<1>2. EmbedVerdict(doc, Zeros(n)) \in Verdicts
  BY CallVerdicts DEF EmbedVerdict
<1>3. /\ phase' = IF call'.verdict = "ok" THEN "reserved" ELSE "refused"
      /\ room' = n /\ edited' = {} /\ UNCHANGED <<store, assertion, seen, edits>>
  BY DEF Reserve
<1> QED
  BY <1>1, <1>2, <1>3

\* And the second: it fills, or changes nothing.
LEMMA FillStep ==
  ASSUME SigningTypeOK, SignerInv, Fill
  PROVE  /\ phase = "signed" /\ phase' \in {"filled", "draft", "refused"}
         /\ room' \in Nat /\ call'.verdict \in Verdicts
         /\ UNCHANGED <<store, assertion, seen, edited, edits>>
         /\ phase' # "filled" => doc' = doc
         /\ phase' = "filled" => IsFilling(doc, Padded(store, room), doc')
<1>1. /\ phase = "signed" /\ store \in Stores /\ room \in Sizes
      /\ UNCHANGED <<store, assertion, seen, edited, edits>>
  BY DEF Fill, SignerInv
<1>2. /\ call'.verdict = FillVerdict(doc, ManifestPath, Padded(store, room))
      /\ doc' = IF call'.verdict = "ok"
                THEN FillZipEntry(doc, ManifestPath, Padded(store, room)) ELSE doc
  BY DEF Fill, FillManifest, Return
<1>3. call'.verdict \in Verdicts
  BY <1>2, CallVerdicts
<1>4. /\ phase' \in {"filled", "draft", "refused"}
      /\ phase' = "filled" <=> call'.verdict = "ok"
  BY DEF Fill
<1>5. room' \in Nat
  <2>1. room \in Nat /\ Len(store) \in Nat
    BY <1>1, SizeAssumption, ArchiveLength DEF SigningTypeOK
  <2>2. Max({room, Len(store)}) \in {room, Len(store)}
    <3>1. \E x \in {room, Len(store)} : \A y \in {room, Len(store)} : x >= y
      BY <2>1
    <3> QED
      BY <3>1 DEF Max
  <2> QED
    BY <2>1, <2>2 DEF Fill
<1>6. doc \in Archives /\ Padded(store, room) \in Payloads
  BY <1>1, SignerAssumption DEF SigningTypeOK
<1> QED
  BY <1>1, <1>2, <1>3, <1>4, <1>5, <1>6 DEF IsFilling

\* No pass leaves the archives or asks for a longer room than a length can be.
LEMMA SigningTypeStep ==
  ASSUME ArchiveEdits, SigningTypeOK, SignerInv, [SigningNext]_signingVars
  PROVE  SigningTypeOK' /\ SignerInv'
<1> USE DEF Phases
<1>1. ASSUME NEW n \in Sizes, Reserve(n)
      PROVE  SigningTypeOK' /\ SignerInv'
  <2>1. /\ phase' \in {"reserved", "refused"} /\ room' = n /\ edited' = {}
        /\ call'.verdict \in Verdicts
        /\ UNCHANGED <<store, assertion, seen, edits>>
        /\ phase' = "refused" => doc' = doc
        /\ phase' = "reserved" => /\ EmbedVerdict(doc, Zeros(n)) = "ok"
                                  /\ doc' = Embed(doc, Zeros(n))
    BY <1>1, ReserveStep
  <2>2. doc' \in Archives
    BY <2>1, EmbedType, SignerAssumption DEF SigningTypeOK
  <2> QED
    BY <2>1, <2>2, SizeAssumption DEF SigningTypeOK, SignerInv
<1>2. ASSUME Hash
      PROVE  SigningTypeOK' /\ SignerInv'
  <2>1. /\ phase = "reserved" /\ phase' \in {"hashed", "refused"}
        /\ UNCHANGED <<doc, call, room, store, edited, edits>>
    BY <1>2 DEF Hash, held
  <2>2. assertion'.directory \in Archives
    <3>1. CASE assertion' = assertion
      BY <3>1 DEF SigningTypeOK
    <3>2. CASE /\ CollectionVerdict(doc) = "ok" /\ RangesVerdict(doc) = "ok"
               /\ assertion' = [members   |-> CollectionInput(doc),
                                directory |-> DirectoryInput(doc)]
      <4>1. doc \in Archives /\ Parses(doc)
        BY <3>2 DEF SigningTypeOK, RangesVerdict, Parses
      <4> QED
        BY <3>2, <4>1, DirectoryInputType
    <3> QED
      BY <1>2, <3>1, <3>2 DEF Hash
  <2> QED
    BY <2>1, <2>2 DEF SigningTypeOK, SignerInv
<1>3. ASSUME NEW s \in Stores, Sign(s)
      PROVE  SigningTypeOK' /\ SignerInv'
  BY <1>3 DEF Sign, held, SigningTypeOK, SignerInv
<1>4. ASSUME Fill
      PROVE  SigningTypeOK' /\ SignerInv'
  <2>1. /\ phase' \in {"filled", "draft", "refused"}
        /\ room' \in Nat /\ call'.verdict \in Verdicts
        /\ UNCHANGED <<store, assertion, seen, edited, edits>>
        /\ phase' # "filled" => doc' = doc
        /\ phase' = "filled" => IsFilling(doc, Padded(store, room), doc')
    BY <1>4, FillStep
  <2>2. doc' \in Archives
    BY <2>1, FillKeepsMembers DEF SigningTypeOK
  <2> QED
    BY <2>1, <2>2 DEF SigningTypeOK, SignerInv
<1>5. ASSUME Restart
      PROVE  SigningTypeOK' /\ SignerInv'
  BY <1>5 DEF Restart, held, SigningTypeOK, SignerInv
<1>6. ASSUME Edit
      PROVE  SigningTypeOK' /\ SignerInv'
  <2>1. /\ edits < MaxEdits /\ edits' = edits + 1 /\ doc' \in Edits(doc)
        /\ edited' = edited \cup {phase}
        /\ UNCHANGED <<call, phase, room, store, assertion, seen>>
    BY <1>6 DEF Edit
  <2>2. doc' \in Archives
    BY <2>1 DEF ArchiveEdits, SigningTypeOK
  <2>3. edits' \in 0 .. MaxEdits
    BY <2>1, BoundAssumption DEF SigningTypeOK
  <2> QED
    BY <2>1, <2>2, <2>3 DEF SigningTypeOK, SignerInv
<1>7. ASSUME UNCHANGED signingVars
      PROVE  SigningTypeOK' /\ SignerInv'
  BY <1>7 DEF signingVars, held, SigningTypeOK, SignerInv
<1> QED
  BY <1>1, <1>2, <1>3, <1>4, <1>5, <1>6, <1>7 DEF SigningNext, Signing

\* The signer starts from an archive that nobody has written to.
LEMMA SigningInitTypes ==
  SigningInit => SigningTypeOK /\ SignerInv
<1> SUFFICES ASSUME SigningInit
             PROVE  SigningTypeOK /\ SignerInv
  OBVIOUS
<1>1. doc \in Archives /\ call.verdict \in Verdicts
  BY InputAssumption DEF SigningInit, Init, Verdicts
<1>2. assertion.directory \in Archives
  BY DEF SigningInit, Archives
<1> QED
  BY <1>1, <1>2, BoundAssumption DEF SigningInit, SigningTypeOK, SignerInv, Phases

\* The types every other proof about the signer starts from.
LEMMA SigningTypes ==
  ASSUME ArchiveEdits PROVE SigningSpec => [](SigningTypeOK /\ SignerInv)
BY SigningInitTypes, SigningTypeStep, PTL DEF SigningSpec

\* No pass of the signer, whatever happens to the document in between, makes
\* anything but an archive of it or asks for more room than a length can be
\* (embed_manifest, fill_manifest).
THEOREM SigningTypeCorrect ==
  ASSUME ArchiveEdits PROVE SigningSpec => []SigningTypeOK
BY SigningTypes, PTL

-----------------------------------------------------------------------------
(* What a validator notices                                                *)

\* The hashes were taken of b, which then had the members that are remembered.
HashedOf(b) ==
  /\ Parses(b) /\ CollectionVerdict(b) = "ok"
  /\ assertion = [members |-> CollectionInput(b), directory |-> DirectoryInput(b)]
  /\ seen = MemberFiles(b)

\* From the hashing on there is such an archive, though it may be gone.
HashedInv ==
  phase \in {"hashed", "signed", "filled"} => \E b \in Archives : HashedOf(b)

\* What was hashed was an archive, whatever pass comes next.
LEMMA HashedStep ==
  ASSUME SigningTypeOK, SignerInv, HashedInv, [SigningNext]_signingVars
  PROVE  HashedInv'
<1>1. ASSUME NEW n \in Sizes, Reserve(n)
      PROVE  HashedInv'
  BY <1>1, ReserveStep DEF HashedInv
<1>2. ASSUME Hash
      PROVE  HashedInv'
  <2>1. CASE /\ CollectionVerdict(doc) = "ok" /\ RangesVerdict(doc) = "ok"
             /\ assertion' = [members   |-> CollectionInput(doc),
                              directory |-> DirectoryInput(doc)]
             /\ seen' = MemberFiles(doc)
    <3>1. doc \in Archives /\ Parses(doc)
      BY <2>1 DEF SigningTypeOK, RangesVerdict, Parses
    <3> QED
      BY <2>1, <3>1 DEF HashedInv, HashedOf
  <2>2. CASE phase' = "refused"
    BY <2>2 DEF HashedInv
  <2> QED
    BY <1>2, <2>1, <2>2 DEF Hash
<1>3. ASSUME phase' \in {"signed", "filled"}, phase \in {"hashed", "signed"},
             assertion' = assertion, seen' = seen
      PROVE  HashedInv'
  BY <1>3 DEF HashedInv, HashedOf
<1>4. ASSUME NEW s \in Stores, Sign(s)
      PROVE  HashedInv'
  BY <1>3, <1>4 DEF Sign
<1>5. ASSUME Fill
      PROVE  HashedInv'
  <2>1. CASE phase' = "filled"
    BY <1>3, <1>5, <2>1, FillStep
  <2>2. CASE phase' # "filled"
    BY <1>5, <2>2, FillStep DEF HashedInv
  <2> QED
    BY <2>1, <2>2
<1>6. ASSUME Restart
      PROVE  HashedInv'
  BY <1>6 DEF Restart, HashedInv
<1>7. ASSUME Edit \/ UNCHANGED signingVars
      PROVE  HashedInv'
  <2>1. phase' = phase /\ assertion' = assertion /\ seen' = seen
    BY <1>7 DEF Edit, signingVars
  <2> QED
    BY <2>1 DEF HashedInv, HashedOf
<1> QED
  BY <1>1, <1>2, <1>4, <1>5, <1>6, <1>7 DEF SigningNext, Signing

\* A validator that computes both hashes has no room for a change: whatever was
\* done to the document since they were taken, if it validates it has the members
\* it had.  It takes both: the collection hash does not cover what the directory
\* says of a member (how to decode it), nor the directory hash its content.
THEOREM ChangesAreNoticed ==
  ASSUME ArchiveEdits PROVE SigningSpec => []ChangesNoticed
<1>1. SigningInit => HashedInv
  BY DEF SigningInit, HashedInv
<1>2. SigningTypeOK /\ SignerInv /\ HashedInv /\ [SigningNext]_signingVars => HashedInv'
  BY HashedStep
<1>3. SigningTypeOK /\ HashedInv => ChangesNoticed
  <2> SUFFICES ASSUME SigningTypeOK, HashedInv, phase = "filled", Parses(doc), Valid(doc)
               PROVE  MemberFiles(doc) = seen
    BY DEF ChangesNoticed
  <2>1. PICK b \in Archives : HashedOf(b)
    BY DEF HashedInv
  <2>2. doc \in Archives
    BY DEF SigningTypeOK
  <2>3. /\ CollectionInput(doc) = CollectionInput(b)
        /\ DirectoryInput(b) = DirectoryInput(doc)
    BY <2>1 DEF HashedOf, Valid
  <2>4. SameHashes(b, doc)
    BY <2>1, <2>2, <2>3 DEF SameHashes, SameDirectory, HashedOf, Valid
  <2>5. MemberFiles(doc) = MemberFiles(b)
    BY <2>4, HashesDetermineMembers
  <2> QED
    BY <2>1, <2>5 DEF HashedOf
<1> QED
  BY <1>1, <1>2, <1>3, SigningTypes, PTL DEF SigningSpec

-----------------------------------------------------------------------------
(* That what was hashed late validates                                     *)

ManifestStreamed(b) == Streamed(b, FirstNamed(b, ManifestPath))

\* The document as it was hashed, if it has not been changed since.
LateInv ==
  edited \subseteq {"reserved"} =>
    /\ phase \in {"hashed", "signed"} =>
         /\ CollectionVerdict(doc) = "ok"
         /\ assertion = [members   |-> CollectionInput(doc),
                         directory |-> DirectoryInput(doc)]
    /\ phase = "filled" => Valid(doc) \/ ManifestStreamed(doc)

\* Filling an archive that was edited before it was hashed, if at all, writes
\* into what no hash covers (fill_manifest).
LEMMA LateFill ==
  ASSUME SigningTypeOK, SignerInv, LateInv, Fill, phase' = "filled",
         edited \subseteq {"reserved"}, ~ManifestStreamed(doc)
  PROVE  Valid(doc)'
<1> DEFINE content == Padded(store, room)
<1>1. /\ phase = "signed" /\ IsFilling(doc, content, doc')
      /\ store' = store /\ assertion' = assertion
  BY FillStep
<1>2. /\ CollectionVerdict(doc) = "ok"
      /\ assertion = [members   |-> CollectionInput(doc),
                      directory |-> DirectoryInput(doc)]
  BY <1>1 DEF LateInv
<1>3. IsPrefix(store, content)
  <2>1. store \in Archives /\ room \in Nat
    BY <1>1, SizeAssumption DEF SignerInv
  <2> QED
    BY <2>1, PaddedBegins
<1> HIDE DEF content
<1>4. /\ CollectionVerdict(doc') = "ok" /\ CollectionInput(doc') = CollectionInput(doc)
      /\ DirectoryInput(doc') = DirectoryInput(doc)
      /\ ReadVerdict(doc', ManifestPath) = "ok"
      /\ ReadContent(doc', ManifestPath) = content
  BY <1>1, <1>2, FillLeavesHashes DEF ManifestStreamed
<1> QED
  BY <1>1, <1>2, <1>3, <1>4 DEF Valid

\* No pass but an edit after the hashes makes them stale.
LEMMA LateStep ==
  ASSUME SigningTypeOK, SignerInv, LateInv, [SigningNext]_signingVars
  PROVE  LateInv'
<1>1. ASSUME NEW n \in Sizes, Reserve(n)
      PROVE  LateInv'
  BY <1>1, ReserveStep DEF LateInv
<1>2. ASSUME Hash
      PROVE  LateInv'
  <2>1. phase' \in {"hashed", "refused"} /\ doc' = doc
    BY <1>2 DEF Hash, held
  <2>2. phase' = "hashed" => /\ CollectionVerdict(doc) = "ok"
                             /\ assertion' = [members   |-> CollectionInput(doc),
                                              directory |-> DirectoryInput(doc)]
    BY <1>2 DEF Hash
  <2> QED
    BY <2>1, <2>2 DEF LateInv
<1>3. ASSUME NEW s \in Stores, Sign(s)
      PROVE  LateInv'
  BY <1>3 DEF Sign, held, LateInv
<1>4. ASSUME Fill
      PROVE  LateInv'
  <2>1. /\ phase' \in {"filled", "draft", "refused"} /\ edited' = edited
        /\ phase' = "filled" => IsFilling(doc, Padded(store, room), doc')
    BY <1>4, FillStep
  <2>2. ASSUME phase' = "filled", edited \subseteq {"reserved"}
        PROVE  (Valid(doc) \/ ManifestStreamed(doc))'
    <3>1. CASE ManifestStreamed(doc)
      BY <2>1, <2>2, <3>1, FillKeepsStreaming DEF ManifestStreamed
    <3>2. CASE ~ManifestStreamed(doc)
      BY <1>4, <2>2, <3>2, LateFill
    <3> QED
      BY <3>1, <3>2
  <2> QED
    BY <2>1, <2>2 DEF LateInv
<1>5. ASSUME Restart
      PROVE  LateInv'
  BY <1>5 DEF Restart, LateInv
<1>6. ASSUME Edit
      PROVE  LateInv'
  <2>1. phase' = phase /\ edited' = edited \cup {phase}
    BY <1>6 DEF Edit
  <2>2. edited' \subseteq {"reserved"} => phase' = "reserved"
    BY <2>1
  <2> QED
    BY <2>2 DEF LateInv
<1>7. ASSUME UNCHANGED signingVars
      PROVE  LateInv'
  <2>1. /\ doc' = doc /\ phase' = phase /\ edited' = edited
        /\ assertion' = assertion /\ store' = store
    BY <1>7 DEF signingVars, held
  <2> QED
    BY <2>1 DEF LateInv, Valid, ManifestStreamed
<1> QED
  BY <1>1, <1>2, <1>3, <1>4, <1>5, <1>6, <1>7 DEF SigningNext, Signing

\* Hashing a document with the placeholder in it is sound: after the fill it
\* validates, also when another program saved it before it was hashed, unless
\* that program left a manifest with a data descriptor (fill_manifest).
THEOREM LateHashesValidate ==
  ASSUME ArchiveEdits PROVE SigningSpec => []LateHashValidates
<1>1. SigningInit => LateInv
  BY DEF SigningInit, LateInv
<1>2. SigningTypeOK /\ SignerInv /\ LateInv /\ [SigningNext]_signingVars => LateInv'
  BY LateStep
<1>3. LateInv => LateHashValidates
  BY DEF LateInv, LateHashValidates, ManifestStreamed
<1> QED
  BY <1>1, <1>2, <1>3, SigningTypes, PTL DEF SigningSpec

-----------------------------------------------------------------------------
(* That what was signed can be signed again                                *)

\* What the other program makes of an archive that ends its directory at the
\* EOCD does so too.  (Of the others embed_manifest makes what it cannot read,
\* as the run trailing_record shows.)
ExactEdits ==
  \A b \in Archives : ExactDirectory(b) => \A c \in Edits(b) : ExactDirectory(c)

\* The manifest the signer put there has no descriptor.
PlainInv ==
  /\ ExactDirectory(doc)
  /\ edited = {} /\ phase \in {"reserved", "hashed", "signed", "filled"} /\ Parses(doc) =>
       ~ManifestStreamed(doc)
  /\ edited = {} /\ phase = "filled" => Parses(doc)

\* embed_manifest replaces a manifest of any kind by a plain one.
LEMMA EmbeddedIsPlain ==
  ASSUME NEW b \in Archives, ExactDirectory(b), NEW content \in Payloads,
         EmbedVerdict(b, content) = "ok"
  PROVE  LET c == Embed(b, content)
         IN ExactDirectory(c) /\ (Parses(c) => ~ManifestStreamed(c))
<1> DEFINE c == Embed(b, content)
           d == RemoveZipEntry(b, ManifestPath)
<1>1. IsInsertion(d, content, c) /\ ExactDirectory(c)
  BY EmbedInserts
<1> HIDE DEF c, d
<1>2. ASSUME Parses(c)
      PROVE  ~ManifestStreamed(c)
  <2>1. At(c, EocdOffset(c)) = Last(c)
    BY <1>1, InsertedLayout
  <2>2. ~IsZip64(Last(c))
    BY <1>2, <2>1 DEF Parses, ParseVerdict
  <2>3. FirstNamed(c, ManifestPath) = NewHeader(d, c)
    BY <1>1, <2>2, InsertKeepsMembers
  <2>4. At(c, NewHeader(d, c))
          = CdHeader(ManifestPath, Crc(content), Len(content), CdStart(d))
    BY <1>1, InsertedLayout
  <2> QED
    BY <2>3, <2>4 DEF ManifestStreamed, Streamed, CdHeader
<1> QED
  BY <1>1, <1>2 DEF c

\* No pass makes a document that could not be signed again.
LEMMA PlainStep ==
  ASSUME ArchiveEdits, ExactEdits, SigningTypeOK, SignerInv, PlainInv,
         [SigningNext]_signingVars
  PROVE  PlainInv'
<1>1. ASSUME NEW n \in Sizes, Reserve(n)
      PROVE  PlainInv'
  <2>1. /\ phase' \in {"reserved", "refused"}
        /\ phase' = "refused" => doc' = doc
        /\ phase' = "reserved" => /\ EmbedVerdict(doc, Zeros(n)) = "ok"
                                  /\ doc' = Embed(doc, Zeros(n))
    BY <1>1, ReserveStep
  <2>2. doc \in Archives /\ ExactDirectory(doc) /\ Zeros(n) \in Payloads
    BY SignerAssumption DEF SigningTypeOK, PlainInv
  <2>3. CASE phase' = "refused"
    BY <2>1, <2>2, <2>3 DEF PlainInv
  <2>4. CASE phase' = "reserved"
    BY <2>1, <2>2, <2>4, EmbeddedIsPlain DEF PlainInv
  <2> QED
    BY <2>1, <2>3, <2>4
<1>2. ASSUME doc' = doc, edited' = edited,
             \/ phase' \in {"draft", "refused"}
             \/ phase \in {"reserved", "hashed"} /\ phase' \in {"hashed", "signed"}
      PROVE  PlainInv'
  BY <1>2 DEF PlainInv, ManifestStreamed
<1>3. ASSUME Hash \/ (\E s \in Stores : Sign(s)) \/ Restart
      PROVE  PlainInv'
  BY <1>2, <1>3 DEF Hash, Sign, Restart, held
<1>4. ASSUME Fill
      PROVE  PlainInv'
  <2>1. /\ phase = "signed" /\ phase' \in {"filled", "draft", "refused"}
        /\ edited' = edited
        /\ phase' # "filled" => doc' = doc
        /\ phase' = "filled" => IsFilling(doc, Padded(store, room), doc')
    BY <1>4, FillStep
  <2>2. CASE phase' # "filled"
    BY <1>2, <2>1, <2>2
  <2>3. CASE phase' = "filled"
    <3>1. IsFilling(doc, Padded(store, room), doc')
      BY <2>1, <2>3
    <3>2. Parses(doc) /\ Parses(doc') /\ ExactDirectory(doc')
      BY <3>1, FillKeepsMembers DEF PlainInv
    <3>3. ManifestStreamed(doc') <=> ManifestStreamed(doc)
      BY <3>1, FillKeepsStreaming DEF ManifestStreamed
    <3> QED
      BY <2>1, <3>2, <3>3 DEF PlainInv
  <2> QED
    BY <2>2, <2>3
<1>5. ASSUME Edit
      PROVE  PlainInv'
  <2>1. doc' \in Edits(doc) /\ edited' # {}
    BY <1>5 DEF Edit
  <2>2. ExactDirectory(doc')
    BY <2>1 DEF ExactEdits, SigningTypeOK, PlainInv
  <2> QED
    BY <2>1, <2>2 DEF PlainInv
<1>6. ASSUME UNCHANGED signingVars
      PROVE  PlainInv'
  BY <1>6 DEF signingVars, held, PlainInv, ManifestStreamed
<1> QED
  BY <1>1, <1>3, <1>4, <1>5, <1>6 DEF SigningNext, Signing

\* Whatever manifest there was before, with a descriptor or without, and whatever
\* was done to the document while no placeholder was in it, what the signer
\* leaves can be signed again: every entry of it can be bound.
THEOREM SignedAgain ==
  ASSUME ExactInputs, ArchiveEdits, ExactEdits
  PROVE  SigningSpec => []SignedStaysBindable
<1>1. SigningInit => PlainInv /\ LateInv
  BY DEF SigningInit, Init, ExactInputs, PlainInv, LateInv
<1>2. SigningTypeOK /\ SignerInv /\ PlainInv /\ [SigningNext]_signingVars => PlainInv'
  BY PlainStep
<1>3. SigningTypeOK /\ SignerInv /\ LateInv /\ [SigningNext]_signingVars => LateInv'
  BY LateStep
<1>4. SigningTypeOK /\ PlainInv /\ LateInv => SignedStaysBindable
  <2> SUFFICES ASSUME SigningTypeOK, PlainInv, LateInv, phase = "filled", edited = {}
               PROVE  Bindable(doc)
    BY DEF SignedStaysBindable
  <2>1. ~ManifestStreamed(doc)
    BY DEF PlainInv
  <2>2. Valid(doc)
    BY <2>1 DEF LateInv
  <2>3. doc \in Archives /\ CollectionVerdict(doc) = "ok"
    BY <2>2 DEF SigningTypeOK, Valid
  <2> QED
    BY <2>3, CollectionAccepts
<1> QED
  BY <1>1, <1>2, <1>3, <1>4, SigningTypes, PTL DEF SigningSpec
=============================================================================
