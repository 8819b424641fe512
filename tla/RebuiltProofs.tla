---------------------------- MODULE RebuiltProofs ---------------------------
(***************************************************************************)
(* What insert_zip_entry, remove_zip_entry and fill_manifest write, read   *)
(* again by parse_layout and entry_binding_range: for every archive, where *)
(* the entries are and that they are the entries they were.                *)
(***************************************************************************)
EXTENDS ZipEditProofs

-----------------------------------------------------------------------------
(* Data, headers and a record                                              *)

\* The archive c is data, then headers, then a record that locates these.
IsRebuilt(c, data, dir, count, size) ==
  /\ data \in Archives /\ dir \in Archives
  /\ count \in U16 /\ size \in U32 /\ Len(data) \in U32
  /\ c = data \o dir \o <<Eocd(count, size, Len(data))>>

\* What both rebuilding operations write: the record found is the last cell, it
\* locates the headers behind the data, and each cell is where it was put.
LEMMA RebuiltCells ==
  ASSUME NEW c, NEW data, NEW dir, NEW count, NEW size,
         IsRebuilt(c, data, dir, count, size)
  PROVE  /\ c \in Archives /\ Len(c) = Len(data) + Len(dir) + 1
         /\ EocdPositions(c) # {} /\ EocdOffset(c) = Len(data) + Len(dir)
         /\ At(c, EocdOffset(c)) = Eocd(count, size, Len(data))
         /\ Last(c) = Eocd(count, size, Len(data))
         /\ CdStart(c) = Len(data)
         /\ Entries(c) = Len(data) .. Len(data) + count - 1
         /\ \A p \in Nat : p < Len(data) => At(c, p) = At(data, p)
         /\ \A p \in Nat : p < Len(dir) => At(c, Len(data) + p) = At(dir, p)
         /\ \A from, to \in Nat :
              from <= to /\ to <= Len(data) => Slice(c, from, to) = Slice(data, from, to)
<1> DEFINE eocd == Eocd(count, size, Len(data))
           body == data \o dir
<1>1. /\ data \in Archives /\ dir \in Archives
      /\ count \in U16 /\ size \in U32 /\ Len(data) \in U32
      /\ c = data \o dir \o <<eocd>>
  BY DEF IsRebuilt
<1>2. eocd \in EocdRecords /\ eocd \in Cells
  BY <1>1, EocdType
<1>3. /\ eocd.sig = "EOCD" /\ eocd.count = count
      /\ eocd.cdoffset = Len(data) /\ eocd.comment = 0
  BY DEF Eocd
<1>4. /\ Len(data) \in Nat /\ Len(dir) \in Nat /\ count \in Nat
  BY <1>1, ArchiveLength, FieldsAreNaturals
<1> HIDE DEF eocd
<1>5. <<eocd>> \in Archives /\ Len(<<eocd>>) = 1
  BY <1>2, OneCell
<1>6. /\ body \in Archives /\ Len(body) = Len(data) + Len(dir) /\ Len(body) \in Nat
      /\ \A p \in Nat : p < Len(data) => At(body, p) = At(data, p)
      /\ \A from, to \in Nat :
           from <= to /\ to <= Len(data) => Slice(body, from, to) = Slice(data, from, to)
  BY <1>1, <1>4, AppendedAfter, ArchiveLength
<1>7. \A p \in Nat : p < Len(dir) => At(body, Len(data) + p) = At(dir, p)
  BY <1>1, AppendedCells
<1> HIDE DEF body
<1>8. /\ c \in Archives /\ Len(c) = Len(body) + 1
      /\ \A p \in Nat : p < Len(body) => At(c, p) = At(body, p)
      /\ \A from, to \in Nat :
           from <= to /\ to <= Len(body) => Slice(c, from, to) = Slice(body, from, to)
  <2>1. c = body \o <<eocd>>
    BY <1>1 DEF body
  <2>2. /\ body \o <<eocd>> \in Archives
        /\ Len(body \o <<eocd>>) = Len(body) + Len(<<eocd>>)
        /\ \A p \in Nat : p < Len(body) => At(body \o <<eocd>>, p) = At(body, p)
        /\ \A from, to \in Nat :
             from <= to /\ to <= Len(body)
               => Slice(body \o <<eocd>>, from, to) = Slice(body, from, to)
    BY <1>5, <1>6, AppendedAfter
  <2> QED
    BY <1>5, <2>1, <2>2, Zenon
<1>9. c[Len(body) + 1] = eocd
  <2>1. body \in Seq(Cells)
    BY <1>6 DEF Archives
  <2> QED
    BY <1>1, <1>2, <1>6, <2>1 DEF body
<1>10. At(c, Len(body)) = eocd /\ Last(c) = eocd
  BY <1>8, <1>9 DEF At, Last
<1>11. Len(body) \in EocdPositions(c)
  BY <1>3, <1>6, <1>8, <1>10 DEF EocdPositions, HasSig
<1>12. EocdOffset(c) = Len(body)
  <2>1. EocdOffset(c) \in 0 .. Len(c) - 1 /\ Len(body) <= EocdOffset(c)
    BY <1>8, <1>11, EocdFound
  <2> QED
    BY <1>6, <1>8, <2>1
<1>13. CdStart(c) = Len(data) /\ Entries(c) = Len(data) .. Len(data) + count - 1
  BY <1>3, <1>10, <1>12 DEF CdStart, Entries
<1>14. \A p \in Nat : p < Len(data) => At(c, p) = At(data, p)
  BY <1>4, <1>6, <1>8
<1>15. \A p \in Nat : p < Len(dir) => At(c, Len(data) + p) = At(dir, p)
  BY <1>4, <1>6, <1>7, <1>8
<1>16. \A from, to \in Nat :
         from <= to /\ to <= Len(data) => Slice(c, from, to) = Slice(data, from, to)
  BY <1>4, <1>6, <1>8
<1> QED
  BY <1>4, <1>6, <1>8, <1>10, <1>11, <1>12, <1>13, <1>14, <1>15, <1>16 DEF eocd

\* It parses, when the record counts the headers, each header locates something
\* in the data, and no number is a ZIP64 sentinel.
LEMMA RebuiltParses ==
  ASSUME NEW c, NEW data, NEW dir, NEW size,
         IsRebuilt(c, data, dir, Len(dir), size),
         \A p \in Nat : p < Len(dir) =>
           /\ At(dir, p) \in CdHeaders
           /\ At(dir, p).name \notin NonUtf8Names
           /\ At(dir, p).offset < Len(data)
           /\ At(dir, p).csize # U32Max /\ At(dir, p).usize # U32Max,
         ~IsZip64(Last(c))
  PROVE  Parses(c) /\ ExactDirectory(c)
<1> DEFINE n    == Len(dir)
           s    == Len(data)
           eocd == Eocd(n, size, s)
<1>1. /\ c \in Archives /\ Len(c) = s + n + 1
      /\ EocdPositions(c) # {} /\ EocdOffset(c) = s + n
      /\ At(c, EocdOffset(c)) = eocd /\ Last(c) = eocd
      /\ CdStart(c) = s
      /\ Entries(c) = s .. s + n - 1
      /\ \A p \in Nat : p < n => At(c, s + p) = At(dir, p)
  BY RebuiltCells
<1>2. n \in Nat /\ s \in Nat /\ s <= U32Max /\ U32Max \in Nat
  BY ArchiveLength, FieldsAreNaturals DEF U32, IsRebuilt
<1> HIDE DEF eocd, n, s
<1>3. ASSUME NEW h \in Entries(c)
      PROVE  HeaderVerdict(c, h) = "ok"
  <2>1. h \in s .. s + n - 1
    BY <1>1
  <2>2. h - s \in Nat /\ h - s < n /\ s + (h - s) = h
    BY <1>2, <2>1
  <2>3. At(c, h) = At(dir, h - s)
    BY <1>1, <2>2
  <2> DEFINE e == At(c, h)
  <2>4. /\ e \in CdHeaders /\ e.name \notin NonUtf8Names /\ e.offset < s
        /\ e.csize # U32Max /\ e.usize # U32Max
    BY <2>2, <2>3 DEF n, s
  <2>5. e.sig = "CENTRAL" /\ e.offset \in Nat
    BY <2>4, FieldsAreNaturals DEF CdHeaders
  <2> HIDE DEF e
  <2>6. e.offset # U32Max /\ ~(e.offset >= CdStart(c))
    <3>1. \A x, y, z \in Nat : x < y /\ y <= z => x # z /\ ~(x >= y)
      OBVIOUS
    <3> QED
      BY <1>1, <1>2, <2>4, <2>5, <3>1, Zenon
  <2>7. h < Len(c) /\ ~(h + 1 > EocdOffset(c))
    BY <1>1, <1>2, <2>1
  <2>8. HasSig(c, h, "CENTRAL")
    BY <2>5, <2>7 DEF HasSig, e
  <2> QED
    BY <2>4, <2>6, <2>7, <2>8 DEF HeaderVerdict, e
<1>4. Parses(c)
  <2>1. ~IsZip64(At(c, EocdOffset(c)))
    BY <1>1
  <2>2. ~(CdStart(c) > EocdOffset(c))
    BY <1>1, <1>2
  <2> QED
    BY <1>1, <1>3, <2>1, <2>2 DEF Parses, ParseVerdict
<1>5. Cardinality(Entries(c)) = n
  <2>1. eocd.count = n
    BY DEF eocd, Eocd, n
  <2> QED
    BY <1>1, <1>4, <2>1, EntriesFinite
<1>6. ExactDirectory(c)
  BY <1>1, <1>5 DEF ExactDirectory
<1> QED
  BY <1>4, <1>6

\* The record that ends the archive locates and counts its headers.
RecordIsExact(c) ==
  LET r == Last(c)
  IN /\ r.sig = "EOCD" /\ r.comment = 0
     /\ r.count <= U16Max /\ r.cdsize <= U32Max /\ r.cdoffset <= U32Max
     /\ r.cdoffset < Len(c)
     /\ r.cdsize = SizeOf(c, r.cdoffset .. Len(c) - 2)
     /\ r.count = Cardinality({p \in r.cdoffset .. Len(c) - 1 : HasSig(c, p, "CENTRAL")})

\* The n cells of c at at repeat those at from in b, which are all in b.
Repeats(b, from, c, at, n) ==
  /\ b \in Archives /\ from \in Nat /\ n \in Nat /\ from + n <= Len(b)
  /\ at \in Nat
  /\ \A i \in Nat : i < n => At(c, at + i) = At(b, from + i)

\* The same cells elsewhere have as many bytes.
LEMMA SizeShifted ==
  ASSUME NEW b, NEW from, NEW c, NEW at, NEW n, Repeats(b, from, c, at, n)
  PROVE  SizeOf(c, at .. at + n - 1) = SizeOf(b, from .. from + n - 1)
<1> USE DEF Repeats
<1> DEFINE ps == from .. from + n - 1
           qs == at .. at + n - 1
           f  == [p \in ps |-> at + (p - from)]
<1>1. ps \subseteq 0 .. Len(b) - 1
  BY ArchiveLength
<1>2. f \in Bijection(ps, qs)
  <2>1. \A p \in ps : at + (p - from) \in qs
    OBVIOUS
  <2>2. \A p, q \in ps : at + (p - from) = at + (q - from) => p = q
    OBVIOUS
  <2>3. ASSUME NEW q \in qs
        PROVE  \E p \in ps : at + (p - from) = q
    <3>1. from + (q - at) \in ps /\ at + (from + (q - at) - from) = q
      OBVIOUS
    <3> QED
      BY <3>1
  <2> HIDE DEF ps, qs
  <2> QED
    BY <2>1, <2>2, <2>3 DEF Bijection, Injection, Surjection, IsInjective
<1>3. ASSUME NEW p \in ps
      PROVE  CellSize(c, f[p]) = CellSize(b, p)
  <2>1. p - from \in Nat /\ p - from < n /\ from + (p - from) = p
    OBVIOUS
  <2>2. At(c, f[p]) = At(b, p)
    BY <2>1
  <2> QED
    BY <2>2 DEF CellSize
<1> HIDE DEF ps, qs, f
<1>4. SizeOf(c, qs) = SizeOf(b, ps)
  <2>1. SameSizes(b, ps, c, qs, f)
    BY <1>1, <1>2, <1>3 DEF SameSizes
  <2> QED
    BY <2>1, SizeMoved
<1> QED
  BY <1>4 DEF ps, qs

\* It does if it was written with their number and size and the length of the
\* data.
LEMMA RebuiltRecord ==
  ASSUME NEW c, NEW data, NEW dir, NEW size, size = SizeOf(dir, 0 .. Len(dir) - 1),
         IsRebuilt(c, data, dir, Len(dir), size),
         \A p \in Nat : p < Len(dir) => At(dir, p).sig = "CENTRAL"
  PROVE  RecordIsExact(c)
<1> DEFINE d == Len(data)
           n == Len(dir)
           r == Last(c)
<1>1. /\ Len(c) = d + n + 1
      /\ r = Eocd(n, size, d) /\ EocdOffset(c) = d + n
      /\ At(c, EocdOffset(c)) = Eocd(n, size, d)
      /\ \A p \in Nat : p < n => At(c, d + p) = At(dir, p)
  BY RebuiltCells
<1>2. /\ n \in U16 /\ size \in U32 /\ d \in U32 /\ n \in Nat /\ d \in Nat
      /\ U16Max \in Nat /\ U32Max \in Nat /\ dir \in Archives
  BY FieldsAreNaturals DEF IsRebuilt
<1>3. /\ r.sig = "EOCD" /\ r.comment = 0 /\ r.count = n /\ r.cdsize = size
      /\ r.cdoffset = d
  BY <1>1 DEF Eocd
<1> HIDE DEF d, n, r
<1>4. n <= U16Max /\ size <= U32Max /\ d <= U32Max
  BY <1>2 DEF U16, U32
<1>5. {p \in d .. Len(c) - 1 : HasSig(c, p, "CENTRAL")} = d .. d + n - 1
  <2>1. ASSUME NEW p \in d .. d + n - 1
        PROVE  p \in d .. Len(c) - 1 /\ HasSig(c, p, "CENTRAL")
    <3> DEFINE q == p - d
    <3>1. q \in Nat /\ q < n /\ d + q = p /\ p \in d .. Len(c) - 1 /\ p < Len(c)
      BY <1>1, <1>2
    <3> HIDE DEF q
    <3>2. At(c, p) = At(dir, q) /\ At(dir, q).sig = "CENTRAL"
      BY <1>1, <3>1 DEF n
    <3> QED
      BY <3>1, <3>2 DEF HasSig
  <2>2. ~HasSig(c, d + n, "CENTRAL")
    BY <1>1 DEF HasSig, Eocd
  <2>3. ASSUME NEW p \in d .. Len(c) - 1, HasSig(c, p, "CENTRAL")
        PROVE  p \in d .. d + n - 1
    <3>1. p # d + n
      BY <2>2, <2>3
    <3> QED
      BY <1>1, <1>2, <3>1
  <2> QED
    BY <2>1, <2>3
<1>6. Cardinality(d .. d + n - 1) = n
  <2>1. Cardinality(d .. d + n - 1) = IF d > d + n - 1 THEN 0 ELSE d + n - 1 - d + 1
    BY <1>2, FS_Interval
  <2> QED
    BY <1>2, <2>1
<1>7. size = SizeOf(c, d .. Len(c) - 2) /\ d < Len(c)
  <2>1. 0 + n <= Len(dir) /\ \A i \in Nat : i < n => At(c, d + i) = At(dir, 0 + i)
    BY <1>1, <1>2 DEF n
  <2>2. SizeOf(c, d .. d + n - 1) = SizeOf(dir, 0 .. 0 + n - 1)
    <3>1. Repeats(dir, 0, c, d, n)
      BY <1>2, <2>1 DEF Repeats, n
    <3> QED
      BY <3>1, SizeShifted
  <2>3. Len(c) - 2 = d + n - 1 /\ 0 + n - 1 = n - 1 /\ d < Len(c)
    BY <1>1, <1>2
  <2> QED
    BY <2>2, <2>3 DEF n
<1> QED
  BY <1>1, <1>3, <1>4, <1>5, <1>6, <1>7 DEF RecordIsExact, r

\* What the parser found of each header it accepted.
LEMMA AcceptedHeader ==
  ASSUME NEW b \in Archives, Parses(b), NEW h \in Entries(b)
  PROVE  /\ At(b, h).name \notin NonUtf8Names
         /\ At(b, h).offset # U32Max
         /\ At(b, h).csize # U32Max /\ At(b, h).usize # U32Max
<1>1. HeaderVerdict(b, h) = "ok"
  BY ParsedLayout
<1> QED
  BY <1>1 DEF HeaderVerdict

-----------------------------------------------------------------------------
(* An entry and its copy                                                   *)

\* The n cells at at in c are those at from in b.
SameCells(b, from, c, at, n) ==
  \A i \in 0 .. n - 1 : At(c, at + i) = At(b, from + i)

\* Slices of the same cells are the same.
LEMMA SameSlice ==
  ASSUME NEW b \in Archives, NEW c \in Archives,
         NEW from \in Nat, NEW at \in Nat, NEW n \in Nat,
         from + n <= Len(b), at + n <= Len(c), SameCells(b, from, c, at, n)
  PROVE  Slice(c, at, at + n) = Slice(b, from, from + n)
<1> DEFINE x == Slice(c, at, at + n)
           y == Slice(b, from, from + n)
<1>1. /\ x \in Archives /\ Len(x) = n
      /\ \A i \in 1 .. n : x[i] = c[at + i]
  <2> DEFINE to == at + n
  <2>1. to \in Nat /\ at <= to /\ to - at = n
    OBVIOUS
  <2> HIDE DEF to
  <2>2. /\ Slice(c, at, to) \in Archives /\ Len(Slice(c, at, to)) = to - at
        /\ \A i \in 1 .. to - at : Slice(c, at, to)[i] = c[at + i]
    BY <2>1, SliceProperties DEF to
  <2> QED
    BY <2>1, <2>2 DEF to
<1>2. /\ y \in Archives /\ Len(y) = n
      /\ \A i \in 1 .. n : y[i] = b[from + i]
  <2> DEFINE to == from + n
  <2>1. to \in Nat /\ from <= to /\ to - from = n
    OBVIOUS
  <2> HIDE DEF to
  <2>2. /\ Slice(b, from, to) \in Archives /\ Len(Slice(b, from, to)) = to - from
        /\ \A i \in 1 .. to - from : Slice(b, from, to)[i] = b[from + i]
    BY <2>1, SliceProperties DEF to
  <2> QED
    BY <2>1, <2>2 DEF to
<1>3. \A i \in 1 .. n : c[at + i] = b[from + i]
  <2> SUFFICES ASSUME NEW i \in 1 .. n
               PROVE  c[at + i] = b[from + i]
    OBVIOUS
  <2>1. i - 1 \in 0 .. n - 1 /\ at + (i - 1) + 1 = at + i /\ from + (i - 1) + 1 = from + i
    OBVIOUS
  <2>2. At(c, at + (i - 1)) = At(b, from + (i - 1))
    BY <2>1 DEF SameCells
  <2> QED
    BY <2>1, <2>2 DEF At
<1> HIDE DEF x, y
<1>4. x \in Seq(Cells) /\ y \in Seq(Cells)
  BY <1>1, <1>2 DEF Archives
<1>5. x = y
  BY <1>1, <1>2, <1>3, <1>4, SeqEqual
<1> QED
  BY <1>5 DEF x, y

\* The entry g of c is the entry h of b, moved: the header is the same but for
\* the offset, and so are the size cells between that and g's boundary.
IsMoved(b, h, c, g, size) ==
  /\ b \in Archives /\ Parses(b) /\ h \in Entries(b)
  /\ c \in Archives /\ Parses(c) /\ g \in Entries(c)
  /\ At(c, g) = [At(b, h) EXCEPT !.offset = At(c, g).offset]
  /\ size \in Nat /\ EntryBoundary(c, g) = At(c, g).offset + size
  /\ SameCells(b, At(b, h).offset, c, At(c, g).offset, size)

\* Moved with all that is bound.
MovedWhole(b, h, c, g, size) ==
  /\ IsMoved(b, h, c, g, size)
  /\ BindingVerdict(b, h) = "ok" /\ BindingEnd(b, h) <= At(b, h).offset + size

\* All that lies between from and to in c is such a copy.
IsCopy(b, h, c, g, from, to) ==
  At(c, g).offset = from /\ IsMoved(b, h, c, g, to - from)

\* The k-th header of the directory.
Nth(c, k) == CdStart(c) + k - 1

\* If all of its content moved, it is located in the new place.
LEMMA MovedContent ==
  ASSUME NEW b, NEW h, NEW c, NEW g, NEW size, IsMoved(b, h, c, g, size),
         ContentVerdict(b, h) = "ok", ContentEnd(b, h) <= At(b, h).offset + size
  PROVE  /\ ContentVerdict(c, g) = "ok"
         /\ ContentOf(c, g) = ContentOf(b, h)
         /\ ContentEnd(c, g) - At(c, g).offset = ContentEnd(b, h) - At(b, h).offset
<1> DEFINE lo == At(b, h).offset
           ln == At(c, g).offset
<1>1. /\ b \in Archives /\ Parses(b) /\ h \in Entries(b)
      /\ c \in Archives /\ Parses(c) /\ g \in Entries(c)
      /\ size \in Nat /\ EntryBoundary(c, g) = ln + size
      /\ \A i \in 0 .. size - 1 : At(c, ln + i) = At(b, lo + i)
  BY DEF IsMoved, SameCells
<1>2. /\ lo \in Nat /\ ln \in Nat /\ At(b, h) \in CdHeaders /\ At(b, h).csize \in Nat
      /\ lo < CdStart(b) /\ CdStart(b) \in Nat /\ CdStart(b) <= Len(b)
      /\ Len(b) \in Nat /\ Len(c) \in Nat
  BY <1>1, EntryProperties, ParsedRecord, ArchiveLength
<1>3. At(c, g).flags = At(b, h).flags /\ At(c, g).csize = At(b, h).csize
  BY <1>2 DEF CdHeaders, IsMoved
<1>4. /\ HasSig(b, lo, "LOCAL") /\ At(b, lo) \in LocalHeaders
      /\ ContentStart(b, h) \in Nat /\ ContentEnd(b, h) \in Nat
      /\ lo < ContentStart(b, h)
      /\ ContentEnd(b, h) = ContentStart(b, h) + At(b, h).csize
      /\ At(b, lo).flags = At(b, h).flags /\ ContentEnd(b, h) <= Len(b)
  <2>1. At(b, lo).flags = At(b, h).flags /\ ~(ContentEnd(b, h) > Len(b))
    BY DEF ContentVerdict
  <2> QED
    BY <1>1, <1>2, <2>1, ContentLocated
<1>5. ln + size <= Len(c)
  <2>1. EntryBoundary(c, g) <= CdStart(c) /\ CdStart(c) \in Nat /\ CdStart(c) <= Len(c)
    BY <1>1, BoundaryProperties, ParsedRecord
  <2> QED
    BY <1>1, <1>2, <2>1
<1> DEFINE extra == At(b, lo).extra
           csize == At(b, h).csize
<1>6. extra \in Nat
  BY <1>4, FieldsAreNaturals DEF LocalHeaders
<1>7. ContentStart(b, h) = lo + 1 + extra /\ ContentEnd(b, h) = lo + 1 + extra + csize
  BY <1>4 DEF ContentStart
<1>8. 1 + extra + csize <= size /\ 0 \in 0 .. size - 1
  <2>1. lo + 1 + extra + csize <= lo + size
    BY <1>7
  <2>2. lo \in Nat /\ size \in Nat /\ extra \in Nat /\ csize \in Nat
    BY <1>1, <1>2, <1>6
  <2> HIDE DEF lo, extra, csize
  <2> QED
    BY <2>1, <2>2
<1>9. At(c, ln) = At(b, lo)
  <2>1. ln + 0 = ln /\ lo + 0 = lo
    BY <1>2
  <2> QED
    BY <1>1, <1>8, <2>1
<1>10. ContentStart(c, g) = ln + 1 + extra /\ ContentEnd(c, g) = ln + 1 + extra + csize
  BY <1>3, <1>9 DEF ContentStart, ContentEnd
<1> HIDE DEF lo, ln, extra, csize
<1>11. ContentVerdict(c, g) = "ok"
  <2>1. ln < Len(c) /\ HasSig(c, ln, "LOCAL")
    BY <1>1, <1>2, <1>4, <1>5, <1>8, <1>9 DEF HasSig
  <2>2. ~(ContentEnd(c, g) > EntryBoundary(c, g)) /\ ~(ContentEnd(c, g) > Len(c))
    BY <1>1, <1>2, <1>5, <1>6, <1>8, <1>10 DEF csize
  <2> QED
    BY <1>3, <1>4, <1>9, <2>1, <2>2 DEF ContentVerdict, ln
<1>12. ContentEnd(c, g) - ln = ContentEnd(b, h) - lo
  BY <1>2, <1>6, <1>7, <1>10 DEF csize
<1>13. ContentOf(c, g) = ContentOf(b, h)
  <2> DEFINE from == lo + 1 + extra
             at   == ln + 1 + extra
  <2>1. csize \in Nat
    BY <1>2 DEF csize
  <2>2. /\ from \in Nat /\ at \in Nat
        /\ from + csize <= Len(b) /\ at + csize <= Len(c)
    BY <1>1, <1>2, <1>4, <1>5, <1>6, <1>7, <1>8, <2>1
  <2>3. ASSUME NEW i \in 0 .. csize - 1
        PROVE  At(c, at + i) = At(b, from + i)
    <3>1. /\ 1 + extra + i \in 0 .. size - 1
          /\ at + i = ln + (1 + extra + i) /\ from + i = lo + (1 + extra + i)
      BY <1>1, <1>2, <1>6, <1>8, <2>1
    <3> QED
      BY <1>1, <3>1
  <2> HIDE DEF from, at
  <2>4. Slice(c, at, at + csize) = Slice(b, from, from + csize)
    <3>1. SameCells(b, from, c, at, csize)
      BY <2>3 DEF SameCells
    <3> QED
      BY <1>1, <2>1, <2>2, <3>1, SameSlice
  <2> QED
    BY <1>7, <1>10, <2>4 DEF ContentOf, from, at
<1> QED
  BY <1>11, <1>12, <1>13 DEF lo, ln

\* If all that its hash covers moved, that is bound in the new place.
LEMMA MovedBinding ==
  ASSUME NEW b, NEW h, NEW c, NEW g, NEW size, MovedWhole(b, h, c, g, size)
  PROVE  /\ BindingVerdict(c, g) = "ok"
         /\ EntryCells(c, g) = EntryCells(b, h)
         /\ BindingEnd(c, g) - At(c, g).offset = BindingEnd(b, h) - At(b, h).offset
<1> SUFFICES ASSUME IsMoved(b, h, c, g, size), BindingVerdict(b, h) = "ok",
                    BindingEnd(b, h) <= At(b, h).offset + size
             PROVE  /\ BindingVerdict(c, g) = "ok"
               /\ EntryCells(c, g) = EntryCells(b, h)
               /\ BindingEnd(c, g) - At(c, g).offset = BindingEnd(b, h) - At(b, h).offset
  BY DEF MovedWhole
<1> DEFINE lo == At(b, h).offset
           ln == At(c, g).offset
<1>1. /\ b \in Archives /\ Parses(b) /\ h \in Entries(b)
      /\ c \in Archives /\ Parses(c) /\ g \in Entries(c)
      /\ size \in Nat /\ EntryBoundary(c, g) = ln + size
      /\ \A i \in 0 .. size - 1 : At(c, ln + i) = At(b, lo + i)
  BY DEF IsMoved, SameCells
<1>2. /\ lo \in Nat /\ ln \in Nat /\ At(b, h) \in CdHeaders
      /\ CdStart(b) \in Nat /\ CdStart(b) <= Len(b)
      /\ Len(b) \in Nat /\ Len(c) \in Nat
  BY <1>1, EntryProperties, ParsedRecord, ArchiveLength
<1>3. /\ At(c, g).flags = At(b, h).flags /\ At(c, g).crc = At(b, h).crc
      /\ At(c, g).csize = At(b, h).csize /\ At(c, g).usize = At(b, h).usize
  BY <1>2 DEF CdHeaders, IsMoved
<1>4. /\ ContentVerdict(b, h) = "ok"
      /\ BindingEnd(b, h) \in Nat /\ BindingEnd(b, h) <= Len(b)
      /\ ContentEnd(b, h) \in Nat /\ ContentEnd(b, h) <= BindingEnd(b, h)
      /\ lo < ContentEnd(b, h)
  <2>1. /\ ContentVerdict(b, h) = "ok" /\ BindingEnd(b, h) \in Nat
        /\ ContentEnd(b, h) <= BindingEnd(b, h)
        /\ BindingEnd(b, h) <= EntryBoundary(b, h)
    BY <1>1, BindingLocated
  <2>2. /\ EntryBoundary(b, h) \in Nat /\ EntryBoundary(b, h) <= CdStart(b)
    BY <1>1, BoundaryProperties
  <2>3. /\ ContentStart(b, h) \in Nat /\ ContentEnd(b, h) \in Nat
        /\ lo < ContentStart(b, h)
        /\ ContentEnd(b, h) = ContentStart(b, h) + At(b, h).csize
    BY <1>1, <2>1, ContentLocated
  <2>4. At(b, h).csize \in Nat
    BY <1>1, EntryProperties
  <2> HIDE DEF lo
  <2> QED
    BY <1>2, <2>1, <2>2, <2>3, <2>4
<1> DEFINE k == ContentEnd(b, h) - lo
<1>5. k \in Nat /\ k >= 1 /\ ContentEnd(b, h) = lo + k /\ k <= size
  BY <1>1, <1>2, <1>4
<1>6. ContentVerdict(c, g) = "ok" /\ ContentEnd(c, g) = ln + k
  <2>1. /\ ContentVerdict(c, g) = "ok"
        /\ ContentEnd(c, g) - ln = ContentEnd(b, h) - lo
    BY <1>1, <1>2, <1>4, MovedContent
  <2>2. ContentEnd(c, g) \in Nat
    BY <1>1, <2>1, ContentLocated
  <2> QED
    BY <1>2, <1>5, <2>1, <2>2
<1>7. ln + size <= Len(c)
  <2>1. EntryBoundary(c, g) <= CdStart(c) /\ CdStart(c) \in Nat /\ CdStart(c) <= Len(c)
    BY <1>1, BoundaryProperties, ParsedRecord
  <2> QED
    BY <1>1, <1>2, <2>1
<1>8. Streamed(c, g) <=> Streamed(b, h)
  BY <1>3 DEF Streamed
<1> HIDE DEF lo, ln, k
\* The words of the descriptor are where they were.
<1>9. ASSUME NEW j \in Nat, lo + j < BindingEnd(b, h), NEW v
      PROVE  HasWord(c, ln + j, v) <=> HasWord(b, lo + j, v)
  <2>1. j \in 0 .. size - 1 /\ lo + j < Len(b) /\ ln + j < Len(c)
    <3>1. /\ lo \in Nat /\ ln \in Nat /\ size \in Nat /\ Len(b) \in Nat /\ Len(c) \in Nat
          /\ BindingEnd(b, h) \in Nat /\ BindingEnd(b, h) <= Len(b)
          /\ BindingEnd(b, h) <= lo + size
      BY <1>1, <1>2, <1>4 DEF lo
    <3> QED
      BY <1>7, <1>9, <3>1
  <2>2. At(c, ln + j) = At(b, lo + j)
    BY <1>1, <2>1 DEF lo, ln
  <2> QED
    BY <2>1, <2>2 DEF HasWord, HasSig
<1>10. /\ BindingVerdict(c, g) = "ok"
       /\ BindingEnd(c, g) = ln + (BindingEnd(b, h) - lo)
  <2>1. CASE Streamed(b, h)
    <3> DEFINE skip == IF HasWord(b, lo + k, DescriptorSig) THEN 1 ELSE 0
               j    == k + skip
    <3>1. skip \in Nat
      OBVIOUS
    <3>2. DescriptorAt(b, h) = lo + k + skip
      BY <1>5 DEF DescriptorAt
    <3> HIDE DEF skip
    <3>3. j \in Nat /\ lo + k + skip = lo + j /\ ln + k + skip = ln + j
      BY <1>2, <1>5, <3>1 DEF lo, ln
    <3>4. /\ BindingEnd(b, h) = lo + j + 3
          /\ HasDescriptor(b, h, lo + j)
      BY <2>1, <3>2, <3>3 DEF BindingEnd, BindingVerdict
    <3>5. lo + k < BindingEnd(b, h)
      BY <1>2, <1>5, <3>1, <3>4 DEF lo
    <3>6. HasWord(c, ln + k, DescriptorSig) <=> HasWord(b, lo + k, DescriptorSig)
      BY <1>5, <1>9, <3>5
    <3>7. DescriptorAt(c, g) = ln + j
      BY <1>6, <3>3, <3>6 DEF DescriptorAt, skip
    <3> HIDE DEF j
    <3>8. HasDescriptor(c, g, ln + j)
      <4>1. /\ HasWord(b, lo + j, At(b, h).crc)
            /\ HasWord(b, lo + j + 1, At(b, h).csize)
            /\ HasWord(b, lo + j + 2, At(b, h).usize)
        BY <3>4 DEF HasDescriptor
      <4>2. /\ j + 1 \in Nat /\ j + 2 \in Nat
            /\ lo + j + 1 = lo + (j + 1) /\ lo + j + 2 = lo + (j + 2)
            /\ ln + j + 1 = ln + (j + 1) /\ ln + j + 2 = ln + (j + 2)
            /\ lo + j < BindingEnd(b, h) /\ lo + (j + 1) < BindingEnd(b, h)
            /\ lo + (j + 2) < BindingEnd(b, h)
        <5>1. lo \in Nat /\ ln \in Nat /\ BindingEnd(b, h) \in Nat
          BY <1>2, <1>4
        <5> QED
          BY <3>3, <3>4, <5>1
      <4>3. /\ HasWord(c, ln + j, At(b, h).crc)
            /\ HasWord(c, ln + (j + 1), At(b, h).csize)
            /\ HasWord(c, ln + (j + 2), At(b, h).usize)
        BY <1>9, <3>3, <4>1, <4>2
      <4>4. ln + j + 3 <= EntryBoundary(c, g)
        BY <1>1, <1>2, <3>3, <3>4, SMTT(30) DEF lo, ln
      <4> QED
        BY <1>3, <4>2, <4>3, <4>4 DEF HasDescriptor
    <3>9. BindingVerdict(c, g) = "ok" /\ BindingEnd(c, g) = ln + j + 3
      BY <1>6, <1>8, <2>1, <3>7, <3>8 DEF BindingVerdict, BindingEnd
    <3> QED
      BY <1>2, <3>3, <3>4, <3>9 DEF lo, ln
  <2>2. CASE ~Streamed(b, h)
    <3>1. BindingEnd(b, h) = lo + k /\ BindingEnd(c, g) = ln + k
      BY <1>5, <1>6, <1>8, <2>2 DEF BindingEnd
    <3>2. SameSums(At(b, lo), At(b, h))
      BY <2>2 DEF BindingVerdict, lo
    <3>3. At(c, ln) = At(b, lo)
      <4>1. 0 \in 0 .. size - 1 /\ ln + 0 = ln /\ lo + 0 = lo
        BY <1>1, <1>2, <1>5 DEF lo, ln
      <4> QED
        BY <1>1, <4>1 DEF lo, ln
    <3>4. SameSums(At(c, ln), At(c, g))
      BY <1>3, <3>2, <3>3 DEF SameSums
    <3>5. BindingVerdict(c, g) = "ok"
      BY <1>6, <1>8, <2>2, <3>4 DEF BindingVerdict, ln
    <3> QED
      BY <1>2, <1>5, <3>1, <3>5 DEF lo, ln
  <2> QED
    BY <2>1, <2>2
<1>11. EntryCells(c, g) = EntryCells(b, h)
  <2> DEFINE n == BindingEnd(b, h) - lo
  <2>1. /\ n \in Nat /\ BindingEnd(b, h) = lo + n /\ n <= size
        /\ BindingEnd(c, g) = ln + n
        /\ lo + n <= Len(b) /\ ln + n <= Len(c)
    <3>1. /\ lo \in Nat /\ ln \in Nat /\ size \in Nat /\ Len(b) \in Nat /\ Len(c) \in Nat
          /\ BindingEnd(b, h) \in Nat /\ BindingEnd(b, h) <= Len(b)
          /\ BindingEnd(b, h) <= lo + size /\ lo < ContentEnd(b, h)
          /\ ContentEnd(b, h) \in Nat /\ ContentEnd(b, h) <= BindingEnd(b, h)
      BY <1>1, <1>2, <1>4 DEF lo
    <3>2. BindingEnd(c, g) = ln + (BindingEnd(b, h) - lo)
      BY <1>10
    <3> QED
      BY <1>7, <3>1, <3>2
  <2> HIDE DEF n
  <2>2. SameCells(b, lo, c, ln, n)
    <3>1. \A i \in 0 .. n - 1 : i \in 0 .. size - 1
      BY <1>1, <2>1
    <3> QED
      BY <1>1, <3>1 DEF SameCells, lo, ln
  <2>3. Slice(c, ln, ln + n) = Slice(b, lo, lo + n)
    BY <1>1, <1>2, <2>1, <2>2, SameSlice DEF lo, ln
  <2> QED
    BY <2>1, <2>3 DEF EntryCells, lo, ln
<1>12. BindingEnd(c, g) - ln = BindingEnd(b, h) - lo
  BY <1>2, <1>4, <1>10 DEF lo, ln
<1> QED
  BY <1>10, <1>11, <1>12 DEF lo, ln

-----------------------------------------------------------------------------
(* The members of two archives                                             *)

\* The entry g of c is the entry h of b as far as a reader can tell: its header
\* but for the offset, its content if it can be located, and if it can be bound
\* what is bound.
SameMember(b, h, c, g) ==
  /\ At(c, g) = [At(b, h) EXCEPT !.offset = At(c, g).offset]
  /\ ContentVerdict(c, g) = "ok" <=> ContentVerdict(b, h) = "ok"
  /\ ContentVerdict(b, h) = "ok" => ContentOf(c, g) = ContentOf(b, h)
  /\ BindingVerdict(b, h) = "ok" => /\ BindingVerdict(c, g) = "ok"
                                    /\ EntryCells(c, g) = EntryCells(b, h)

\* The members of c are those of b, in the same order.
KeepsMembers(b, c) ==
  LET old == InArchiveOrder(b, Members(b))
      new == InArchiveOrder(c, Members(c))
  IN /\ Len(new) = Len(old)
     /\ \A k \in 1 .. Len(old) : SameMember(b, old[k], c, new[k])

\* An entry that stays where it is, up to its boundary, is the same.
LEMMA StayedMember ==
  ASSUME NEW b \in Archives, Parses(b), NEW h \in Entries(b),
         NEW c \in Archives, Parses(c), NEW g \in Entries(c),
         At(c, g) = At(b, h), EntryBoundary(c, g) = EntryBoundary(b, h),
         SameCells(b, At(b, h).offset, c, At(b, h).offset,
                   EntryBoundary(b, h) - At(b, h).offset)
  PROVE  /\ SameMember(b, h, c, g)
         /\ BindingVerdict(b, h) = "ok" => BindingEnd(c, g) = BindingEnd(b, h)
<1> DEFINE lo   == At(b, h).offset
           size == EntryBoundary(b, h) - lo
<1>1. /\ lo \in Nat /\ EntryBoundary(b, h) \in Nat /\ lo <= EntryBoundary(b, h)
      /\ At(b, h) \in CdHeaders
  BY EntryProperties, BoundaryProperties
<1>2. size \in Nat /\ EntryBoundary(b, h) = lo + size
  BY <1>1
<1>3. At(c, g) = [At(b, h) EXCEPT !.offset = At(c, g).offset]
  BY <1>1 DEF CdHeaders
<1>4. At(b, h) = [At(c, g) EXCEPT !.offset = At(b, h).offset]
  BY <1>1 DEF CdHeaders
<1>5. IsMoved(b, h, c, g, size)
  BY <1>2, <1>3 DEF IsMoved
<1>6. IsMoved(c, g, b, h, size)
  <2>1. SameCells(c, At(c, g).offset, b, At(b, h).offset, size)
    BY DEF SameCells
  <2> QED
    BY <1>2, <1>4, <2>1 DEF IsMoved
<1>7. ASSUME ContentVerdict(b, h) = "ok"
      PROVE  ContentVerdict(c, g) = "ok" /\ ContentOf(c, g) = ContentOf(b, h)
  <2>1. ContentEnd(b, h) <= lo + size
    BY <1>2, <1>7, ContentLocated
  <2> QED
    BY <1>5, <1>7, <2>1, MovedContent
<1>8. ASSUME ContentVerdict(c, g) = "ok"
      PROVE  ContentVerdict(b, h) = "ok"
  <2>1. ContentEnd(c, g) <= At(c, g).offset + size
    BY <1>2, <1>8, ContentLocated
  <2> QED
    BY <1>6, <1>8, <2>1, MovedContent
<1>9. ASSUME BindingVerdict(b, h) = "ok"
      PROVE  /\ BindingVerdict(c, g) = "ok" /\ EntryCells(c, g) = EntryCells(b, h)
             /\ BindingEnd(c, g) = BindingEnd(b, h)
  <2>1. BindingEnd(b, h) <= lo + size
    BY <1>2, <1>9, BindingLocated
  <2>2. /\ BindingVerdict(c, g) = "ok" /\ EntryCells(c, g) = EntryCells(b, h)
        /\ BindingEnd(c, g) - At(c, g).offset = BindingEnd(b, h) - lo
    BY <1>5, <1>9, <2>1, MovedBinding DEF MovedWhole
  <2>3. BindingEnd(b, h) \in Nat /\ BindingEnd(c, g) \in Nat
    BY <1>9, <2>2, BindingLocated
  <2>4. At(c, g).offset = lo
    OBVIOUS
  <2> HIDE DEF lo
  <2>5. \A x, y, z \in Nat : y - x = z - x => y = z
    OBVIOUS
  <2>6. BindingEnd(c, g) - lo = BindingEnd(b, h) - lo
    BY <2>2, <2>4
  <2>7. BindingEnd(c, g) = BindingEnd(b, h)
    BY <1>1, <2>3, <2>5, <2>6, Zenon DEF lo
  <2> QED
    BY <2>2, <2>7
<1> QED
  BY <1>3, <1>7, <1>8, <1>9 DEF SameMember

\* One that moves, with all that is bound, is the same too.
LEMMA MovedMember ==
  ASSUME NEW b, NEW h, NEW c, NEW g, NEW size, MovedWhole(b, h, c, g, size)
  PROVE  SameMember(b, h, c, g)
<1> /\ IsMoved(b, h, c, g, size)
    /\ BindingVerdict(b, h) = "ok" /\ BindingEnd(b, h) <= At(b, h).offset + size
  BY DEF MovedWhole
<1>1. /\ BindingVerdict(c, g) = "ok" /\ EntryCells(c, g) = EntryCells(b, h)
  BY MovedBinding
<1>2. /\ b \in Archives /\ Parses(b) /\ h \in Entries(b) /\ size \in Nat
      /\ At(c, g) = [At(b, h) EXCEPT !.offset = At(c, g).offset]
  BY DEF IsMoved
<1>3. ContentEnd(b, h) <= At(b, h).offset + size
  <2>1. /\ ContentEnd(b, h) <= BindingEnd(b, h) /\ BindingEnd(b, h) \in Nat
        /\ ContentVerdict(b, h) = "ok"
    BY <1>2, BindingLocated
  <2>2. ContentEnd(b, h) \in Nat
    BY <1>2, <2>1, ContentLocated
  <2>3. At(b, h).offset + size \in Nat
    BY <1>2, EntryProperties
  <2> QED
    BY <2>1, <2>2, <2>3
<1>4. ContentVerdict(b, h) = "ok"
  BY DEF BindingVerdict
<1>5. ContentVerdict(c, g) = "ok" /\ ContentOf(c, g) = ContentOf(b, h)
  BY <1>3, <1>4, MovedContent
<1> QED
  BY <1>1, <1>2, <1>4, <1>5 DEF SameMember

\* An archive keeps its own members, and keeping them twice is keeping them.
LEMMA MembersKept ==
  /\ \A b \in Archives : Parses(b) => KeepsMembers(b, b)
  /\ \A a, b, c \in Archives :
       Parses(a) /\ KeepsMembers(a, b) /\ KeepsMembers(b, c) => KeepsMembers(a, c)
<1>1. ASSUME NEW b \in Archives, Parses(b), NEW hs, hs \subseteq Entries(b),
             NEW k \in 1 .. Len(InArchiveOrder(b, hs))
      PROVE  At(b, InArchiveOrder(b, hs)[k]) \in CdHeaders
  <2>1. InArchiveOrder(b, hs) \in Seq(hs)
    BY <1>1, ArchiveOrder
  <2>2. InArchiveOrder(b, hs)[k] \in hs
    BY <1>1, <2>1, ElementOfSeq
  <2> QED
    BY <1>1, <2>2, EntryProperties
<1>2. \A b : Members(b) \subseteq Entries(b)
  BY DEF Members
<1>3. ASSUME NEW b \in Archives, Parses(b)
      PROVE  KeepsMembers(b, b)
  <2> DEFINE old == InArchiveOrder(b, Members(b))
  <2>1. ASSUME NEW k \in 1 .. Len(old)
        PROVE  SameMember(b, old[k], b, old[k])
    <3>1. At(b, old[k]) \in CdHeaders
      BY <1>1, <1>2, <1>3
    <3> HIDE DEF old
    <3> QED
      BY <3>1 DEF SameMember, CdHeaders
  <2> QED
    BY <2>1 DEF KeepsMembers
<1>4. ASSUME NEW a \in Archives, NEW b \in Archives, NEW c \in Archives,
             Parses(a), KeepsMembers(a, b), KeepsMembers(b, c)
      PROVE  KeepsMembers(a, c)
  <2> DEFINE old == InArchiveOrder(a, Members(a))
             mid == InArchiveOrder(b, Members(b))
             new == InArchiveOrder(c, Members(c))
  <2>1. /\ Len(mid) = Len(old) /\ Len(new) = Len(mid)
        /\ \A k \in 1 .. Len(old) : SameMember(a, old[k], b, mid[k])
        /\ \A k \in 1 .. Len(mid) : SameMember(b, mid[k], c, new[k])
    BY <1>4 DEF KeepsMembers
  <2>2. \A k \in 1 .. Len(old) : At(a, old[k]) \in CdHeaders
    BY <1>1, <1>2, <1>4
  <2> HIDE DEF old, mid, new
  <2>3. ASSUME NEW k \in 1 .. Len(old)
        PROVE  SameMember(a, old[k], c, new[k])
    <3>1. SameMember(a, old[k], b, mid[k]) /\ SameMember(b, mid[k], c, new[k])
      BY <2>1
    <3>2. At(c, new[k]) = [At(a, old[k]) EXCEPT !.offset = At(c, new[k]).offset]
      BY <2>2, <3>1 DEF SameMember, CdHeaders
    <3> QED
      BY <3>1, <3>2 DEF SameMember
  <2> QED
    BY <2>1, <2>3 DEF KeepsMembers, old, new
<1> QED
  BY <1>3, <1>4

\* Every member of the later archive is one of the earlier.
LEMMA MemberOfBoth ==
  ASSUME NEW b \in Archives, Parses(b), NEW c \in Archives, Parses(c),
         KeepsMembers(b, c), NEW g \in Members(c)
  PROVE  \E h \in Members(b) : SameMember(b, h, c, g)
<1> DEFINE old == InArchiveOrder(b, Members(b))
           new == InArchiveOrder(c, Members(c))
<1>1. Members(b) \subseteq Entries(b) /\ Members(c) \subseteq Entries(c)
  BY DEF Members
<1>2. /\ Len(new) = Len(old)
      /\ \A k \in 1 .. Len(old) : SameMember(b, old[k], c, new[k])
  BY DEF KeepsMembers
<1>3. PICK k \in 1 .. Len(new) : new[k] = g
  BY <1>1, ArchiveOrder
<1>4. old \in Seq(Members(b))
  BY <1>1, ArchiveOrder
<1> HIDE DEF old, new
<1>5. old[k] \in Members(b)
  BY <1>2, <1>4, ElementOfSeq
<1> QED
  BY <1>2, <1>3, <1>5

\* If the members could be bound they still can, and the hash over them is the
\* one it was.
LEMMA CollectionKept ==
  ASSUME NEW b \in Archives, Parses(b), NEW c \in Archives, Parses(c),
         KeepsMembers(b, c),
         \A h \in Members(b) : BindingVerdict(b, h) = "ok",
         \A g \in Named(c, ManifestPath) : BindingVerdict(c, g) = "ok"
  PROVE  /\ \A g \in Entries(c) : BindingVerdict(c, g) = "ok"
         /\ CollectionInput(c) = CollectionInput(b)
         /\ CollectionVerdict(b) = "ok" => CollectionVerdict(c) = "ok"
<1>1. \A g \in Entries(c) : BindingVerdict(c, g) = "ok"
  <2>1. \A g \in Members(c) : BindingVerdict(c, g) = "ok"
    BY MemberOfBoth DEF SameMember
  <2> QED
    BY <2>1 DEF Members
<1>2. CollectionInput(c) = CollectionInput(b)
  <2> DEFINE old == InArchiveOrder(b, Members(b))
             new == InArchiveOrder(c, Members(c))
  <2>1. /\ Len(new) = Len(old)
        /\ \A k \in 1 .. Len(old) : SameMember(b, old[k], c, new[k])
    BY DEF KeepsMembers
  <2>2. old \in Seq(Members(b)) /\ Members(b) \subseteq Entries(b)
    BY ArchiveOrder DEF Members
  <2> HIDE DEF old, new
  <2>3. ASSUME NEW k \in 1 .. Len(old)
        PROVE  /\ At(c, new[k]).name = At(b, old[k]).name
               /\ EntryCells(c, new[k]) = EntryCells(b, old[k])
    <3>1. old[k] \in Members(b) /\ old[k] \in Entries(b)
      BY <2>2, ElementOfSeq
    <3>2. At(b, old[k]) \in CdHeaders
      BY <3>1, EntryProperties
    <3>3. At(c, new[k]).name = At(b, old[k]).name
      BY <2>1, <3>2 DEF SameMember, CdHeaders
    <3> QED
      BY <2>1, <3>1, <3>3 DEF SameMember
  <2> QED
    BY <2>1, <2>3 DEF CollectionInput, old, new
<1>3. ASSUME CollectionVerdict(b) = "ok"
      PROVE  CollectionVerdict(c) = "ok"
  <2>1. \A h \in Entries(b) : At(b, h).name \notin DotNames
    <3> DEFINE refused == {h \in Entries(b) : MemberVerdict(b, h) # "ok"}
    <3>1. refused = {}
      <4> SUFFICES ASSUME refused # {}
                   PROVE  FALSE
        OBVIOUS
      <4>1. FirstOf(b, refused) \in refused
        BY FirstIsFirst
      <4>2. MemberVerdict(b, FirstOf(b, refused)) = "ok"
        BY <1>3 DEF CollectionVerdict
      <4> QED
        BY <4>1, <4>2
    <3> QED
      BY <3>1 DEF MemberVerdict
  <2>2. ASSUME NEW g \in Entries(c)
        PROVE  At(c, g).name \notin DotNames
    <3>1. CASE At(c, g).name = ManifestPath
      BY <3>1, NameAssumption
    <3>2. CASE At(c, g).name # ManifestPath
      <4>1. g \in Members(c)
        BY <3>2 DEF Members, Named
      <4>2. PICK h \in Members(b) : SameMember(b, h, c, g)
        BY <4>1, MemberOfBoth
      <4>3. h \in Entries(b)
        BY DEF Members
      <4>4. At(b, h) \in CdHeaders
        BY <4>3, EntryProperties
      <4>5. At(c, g).name = At(b, h).name
        BY <4>2, <4>4 DEF SameMember, CdHeaders
      <4> QED
        BY <2>1, <4>3, <4>5
    <3> QED
      BY <3>1, <3>2
  <2>3. \A g \in Entries(c) : MemberVerdict(c, g) = "ok"
    BY <1>1, <2>2 DEF MemberVerdict
  <2> QED
    BY <2>3 DEF CollectionVerdict
<1> QED
  BY <1>1, <1>2, <1>3

-----------------------------------------------------------------------------
(* What remove_zip_entry writes                                            *)

\* c is what is left of b when its entries of that name are removed: kept are
\* the others, out[k] what the loop has copied after k of them.
IsRemoval(b, name, kept, out, c) ==
  /\ b \in Archives /\ RemoveVerdict(b, name) = "ok" /\ Named(b, name) # {}
  /\ kept = InArchiveOrder(b, Kept(b, name))
  /\ out = Copied(b, kept)
  /\ c = RemoveZipEntry(b, name)

\* The loop copies what is bound of each entry, one after the other, and never
\* more than it has read.
LEMMA RemovedData ==
  ASSUME NEW b, NEW name, NEW kept, NEW out, NEW c,
         IsRemoval(b, name, kept, out, c)
  PROVE  /\ Parses(b) /\ \A h \in Entries(b) : BindingVerdict(b, h) = "ok"
         /\ Len(kept) \in Nat /\ Len(kept) < U16Max
         /\ kept \in [1 .. Len(kept) -> Kept(b, name)]
         /\ \A j, k \in 1 .. Len(kept) : j < k <=> Before(b, kept[j], kept[k])
         /\ \A j, k \in 1 .. Len(kept) : kept[j] = kept[k] => j = k
         /\ \A h \in Kept(b, name) : \E k \in 1 .. Len(kept) : kept[k] = h
         /\ SizeOf(b, Kept(b, name)) \in U32
         /\ \A k \in 0 .. Len(kept) : out[k] \in Archives /\ Len(out[k]) \in Nat
         /\ out[0] = <<>>
         /\ \A j, k \in 0 .. Len(kept) : j < k => Len(out[j]) < Len(out[k])
         /\ Len(out[Len(kept)]) \in U32 /\ Len(out[Len(kept)]) # U32Max
         /\ Len(out[Len(kept)]) <= CdStart(b)
         /\ \A k \in 1 .. Len(kept) :
              /\ Len(out[k - 1]) <= At(b, kept[k]).offset
              /\ Len(out[k]) = Len(out[k - 1])
                                 + (BindingEnd(b, kept[k]) - At(b, kept[k]).offset)
              /\ Len(out[k - 1]) < Len(out[k]) /\ Len(out[k]) <= Len(out[Len(kept)])
              /\ Slice(out[Len(kept)], Len(out[k - 1]), Len(out[k]))
                   = EntryCells(b, kept[k])
<1> DEFINE hs == Kept(b, name)
           n  == Len(kept)
<1>1. /\ b \in Archives /\ Named(b, name) # {} /\ RemoveVerdict(b, name) = "ok"
      /\ kept = InArchiveOrder(b, hs) /\ out = Copied(b, kept)
  BY DEF IsRemoval
<1>2. /\ Parses(b) /\ \A h \in Entries(b) : BindingVerdict(b, h) = "ok"
      /\ SizeOf(b, hs) \in U32
  BY <1>1, RemoveAccepts
<1>3. hs \subseteq Entries(b) /\ hs # Entries(b)
  BY <1>1 DEF Kept, Named
<1>4. /\ kept \in Seq(hs) /\ kept \in [1 .. Cardinality(hs) -> hs]
      /\ n \in Nat /\ n = Cardinality(hs)
      /\ \A j, k \in 1 .. Cardinality(hs) : j < k <=> Before(b, kept[j], kept[k])
      /\ \A j, k \in 1 .. Cardinality(hs) : kept[j] = kept[k] => j = k
      /\ \A h \in hs : \E k \in 1 .. Cardinality(hs) : kept[k] = h
  BY <1>1, <1>2, <1>3, ArchiveOrder
<1>5. n < U16Max
  <2>1. /\ IsFiniteSet(Entries(b)) /\ Cardinality(Entries(b)) \in Nat
        /\ Cardinality(Entries(b)) = At(b, EocdOffset(b)).count
    BY <1>1, <1>2, EntriesFinite
  <2>2. At(b, EocdOffset(b)).count \in U16
    BY <1>1, <1>2, ParsedRecord
  <2>3. n <= Cardinality(Entries(b)) /\ n # Cardinality(Entries(b))
    BY <1>3, <1>4, <2>1, FS_Subset
  <2> QED
    BY <1>4, <2>1, <2>2, <2>3, FieldsAreNaturals DEF U16
<1>6. \A h \in hs : EntryCells(b, h) \in Archives
  BY <1>1, <1>2, <1>3, EntryCellsType
<1>7. \A k \in 0 .. n : out[k] \in Archives /\ Len(out[k]) \in Nat
  BY <1>1, <1>4, <1>6, CopiedType, ArchiveLength
<1>8. out[0] = <<>>
  BY <1>1, <1>4, CopiedStep
<1>9. /\ Len(out[n]) \in U32 /\ Len(out[n]) # U32Max
      /\ Len(out[n]) <= CdStart(b)
  <2>1. Len(out[n]) <= CdStart(b)
    BY <1>1, <1>2, <1>3, CopiedFits
  <2>2. Len(out[n]) \in Nat
    BY <1>4, <1>7
  <2>3. CdStart(b) \in U32
    BY <1>1, <1>2, ParsedRecord
  <2>4. CdStart(b) # U32Max
    BY <1>2, ParsedLayout DEF Parses, ParseVerdict, IsZip64, CdStart
  <2> QED
    BY <2>1, <2>2, <2>3, <2>4, FieldsAreNaturals DEF U32
<1>10. ASSUME NEW k \in 1 .. n
       PROVE  /\ Len(out[k - 1]) <= At(b, kept[k]).offset
              /\ Len(out[k]) = Len(out[k - 1])
                                 + (BindingEnd(b, kept[k]) - At(b, kept[k]).offset)
              /\ Len(out[k - 1]) < Len(out[k]) /\ Len(out[k]) <= Len(out[n])
              /\ Slice(out[n], Len(out[k - 1]), Len(out[k])) = EntryCells(b, kept[k])
  <2>1. Len(out[k - 1]) <= At(b, kept[k]).offset
    BY <1>1, <1>2, <1>3, CopiedFits
  <2>2. /\ Len(out[k]) = Len(out[k - 1]) + Len(EntryCells(b, kept[k]))
        /\ Len(out[k]) <= Len(out[n])
        /\ Slice(out[n], Len(out[k - 1]), Len(out[k])) = EntryCells(b, kept[k])
    <3>1. n \in 0 .. n
      BY <1>4
    <3>2. \A m \in 0 .. n : \A j \in 1 .. m :
            /\ Len(out[j]) = Len(out[j - 1]) + Len(EntryCells(b, kept[j]))
            /\ Len(out[j]) <= Len(out[m])
            /\ Slice(out[m], Len(out[j - 1]), Len(out[j])) = EntryCells(b, kept[j])
      <4>1. kept \in Seq(hs) /\ out = Copied(b, kept)
        BY <1>1, <1>4
      <4> HIDE DEF hs
      <4> QED
        BY <1>6, <4>1, CopiedPieces
    <3> QED
      BY <3>1, <3>2
  <2>3. kept[k] \in Entries(b)
    BY <1>3, <1>4, ElementOfSeq
  <2>4. Len(EntryCells(b, kept[k])) = BindingEnd(b, kept[k]) - At(b, kept[k]).offset
    BY <1>1, <1>2, <2>3, EntryCellsType
  <2>5. /\ At(b, kept[k]).offset \in Nat /\ BindingEnd(b, kept[k]) \in Nat
        /\ At(b, kept[k]).offset < BindingEnd(b, kept[k])
    <3>1. /\ BindingEnd(b, kept[k]) \in Nat
          /\ ContentEnd(b, kept[k]) <= BindingEnd(b, kept[k])
          /\ ContentVerdict(b, kept[k]) = "ok"
      BY <1>1, <1>2, <2>3, BindingLocated
    <3>2. /\ ContentStart(b, kept[k]) \in Nat /\ ContentEnd(b, kept[k]) \in Nat
          /\ At(b, kept[k]).offset < ContentStart(b, kept[k])
          /\ ContentEnd(b, kept[k])
               = ContentStart(b, kept[k]) + At(b, kept[k]).csize
      BY <1>1, <1>2, <2>3, <3>1, ContentLocated
    <3>3. At(b, kept[k]).offset \in Nat /\ At(b, kept[k]).csize \in Nat
      BY <1>1, <1>2, <2>3, EntryProperties
    <3> QED
      BY <3>1, <3>2, <3>3
  <2>6. Len(out[k - 1]) \in Nat
    BY <1>4, <1>7
  <2> QED
    BY <2>1, <2>2, <2>4, <2>5, <2>6
<1>11. ASSUME NEW j \in 0 .. n, NEW k \in 0 .. n, j < k
       PROVE  Len(out[j]) < Len(out[k])
  <2>1. j + 1 \in 1 .. n /\ j + 1 \in 1 .. k /\ j + 1 - 1 = j
    BY <1>4, <1>11
  <2>2. Len(out[j]) < Len(out[j + 1])
    BY <1>10, <2>1
  <2>3. Len(out[j + 1]) <= Len(out[k])
    <3>1. kept \in Seq(hs) /\ out = Copied(b, kept)
      BY <1>1, <1>4
    <3> HIDE DEF hs
    <3>2. \A m \in 0 .. n : \A i \in 1 .. m : Len(out[i]) <= Len(out[m])
      BY <1>6, <3>1, CopiedPieces
    <3> QED
      BY <2>1, <3>2
  <2>4. Len(out[j]) \in Nat /\ Len(out[j + 1]) \in Nat /\ Len(out[k]) \in Nat
    BY <1>7, <2>1
  <2>5. \A x, y, z \in Nat : x < y /\ y <= z => x < z
    OBVIOUS
  <2> QED
    BY <2>2, <2>3, <2>4, <2>5, Zenon
<1> QED
  BY <1>2, <1>4, <1>5, <1>7, <1>8, <1>9, <1>10, <1>11

\* What it writes is what was copied, the headers kept with their new offsets
\* and a record of both. It parses, unless the size of these headers is the
\* number that means ZIP64.
LEMMA RemovedCells ==
  ASSUME NEW b, NEW name, NEW kept, NEW out, NEW c,
         IsRemoval(b, name, kept, out, c)
  PROVE  /\ c \in Archives /\ ExactDirectory(c) /\ RecordIsExact(c)
         /\ Parses(c) <=> ~IsZip64(Last(c))
         /\ Parses(c) <=> SizeOf(b, Kept(b, name)) # U32Max
         /\ SizeOf(c, Entries(c)) = SizeOf(b, Kept(b, name))
         /\ EocdPositions(c) # {} /\ Len(c) = EocdOffset(c) + 1
         /\ EocdOffset(c) = Len(out[Len(kept)]) + Len(kept)
         /\ At(c, EocdOffset(c)) = Last(c)
         /\ Last(c) = Eocd(Len(kept), SizeOf(b, Kept(b, name)), Len(out[Len(kept)]))
         /\ CdStart(c) = Len(out[Len(kept)])
         /\ Entries(c) = CdStart(c) .. CdStart(c) + Len(kept) - 1
         /\ Slice(c, 0, CdStart(c)) = out[Len(kept)]
         /\ \A p \in Nat : p < CdStart(c) => At(c, p) = At(out[Len(kept)], p)
         /\ \A k \in 1 .. Len(kept) :
              /\ At(c, Nth(c, k)) = [At(b, kept[k]) EXCEPT !.offset = Len(out[k - 1])]
              /\ At(c, Nth(c, k)).offset = Len(out[k - 1])
              /\ Nth(c, k) \in Entries(c)
<1> DEFINE n    == Len(kept)
           size == SizeOf(b, Kept(b, name))
           data == out[n]
           s    == Len(data)
           dir  == [k \in 1 .. n |->
                      [At(b, kept[k]) EXCEPT !.offset = Len(out[k - 1])]]
<1>1. /\ Parses(b) /\ \A h \in Entries(b) : BindingVerdict(b, h) = "ok"
      /\ n \in Nat /\ n < U16Max
      /\ \A k \in 0 .. n : out[k] \in Archives /\ Len(out[k]) \in Nat
      /\ s \in U32 /\ s # U32Max /\ size \in U32
      /\ kept \in [1 .. n -> Kept(b, name)]
      /\ \A j, k \in 1 .. n : kept[j] = kept[k] => j = k
      /\ \A h \in Kept(b, name) : \E k \in 1 .. n : kept[k] = h
      /\ b \in Archives
  <2>1. b \in Archives
    BY DEF IsRemoval
  <2> HIDE DEF dir
  <2> QED
    BY <2>1, RemovedData, SMTT(30)
<1>2. \A k \in 1 .. n :
        /\ Len(out[k - 1]) <= At(b, kept[k]).offset
        /\ Len(out[k]) = Len(out[k - 1])
                           + (BindingEnd(b, kept[k]) - At(b, kept[k]).offset)
        /\ Len(out[k - 1]) < Len(out[k]) /\ Len(out[k]) <= Len(data)
        /\ Slice(data, Len(out[k - 1]), Len(out[k])) = EntryCells(b, kept[k])
  BY RemovedData, SMTT(30)
<1>3. data \in Archives /\ s \in Nat /\ n \in U16
  <2>1. n \in 0 .. n
    BY <1>1
  <2> QED
    BY <1>1, <2>1, FieldsAreNaturals DEF U16
<1>4. \A k \in 1 .. n : kept[k] \in Entries(b) /\ At(b, kept[k]) \in CdHeaders
  <2>1. \A k \in 1 .. n : kept[k] \in Entries(b)
    BY <1>1 DEF Kept
  <2> QED
    BY <1>1, <2>1, EntryProperties
<1>5. \A k \in 1 .. n : Len(out[k - 1]) \in U32 /\ Len(out[k - 1]) \in Nat
  <2> SUFFICES ASSUME NEW k \in 1 .. n
               PROVE  Len(out[k - 1]) \in U32 /\ Len(out[k - 1]) \in Nat
    OBVIOUS
  <2>1. k - 1 \in 0 .. n
    BY <1>1
  <2>2. Len(out[k - 1]) \in Nat /\ At(b, kept[k]).offset \in U32
    BY <1>1, <1>4, <2>1 DEF CdHeaders
  <2>3. Len(out[k - 1]) <= At(b, kept[k]).offset
    BY <1>2
  <2> HIDE DEF n
  <2> QED
    BY <2>2, <2>3, FieldsAreNaturals DEF U32
<1>6. \A k \in 1 .. n : dir[k] \in CdHeaders
  BY <1>4, <1>5 DEF CdHeaders
<1>7. dir \in Archives /\ Len(dir) = n
  <2>1. dir \in [1 .. n -> Cells]
    BY <1>6 DEF Cells
  <2> HIDE DEF dir
  <2>2. dir \in Archives
    BY <1>1, <2>1, SeqDef DEF Archives
  <2>3. DOMAIN dir = 1 .. n /\ DOMAIN dir = 1 .. Len(dir) /\ Len(dir) \in Nat
    BY <2>1, <2>2, ArchiveLength
  <2> QED
    BY <1>1, <2>2, <2>3
<1>8. c = data \o dir \o <<Eocd(n, size, s)>>
  BY DEF IsRemoval, RemoveZipEntry
<1> HIDE DEF n, data, s, size
<1>9. IsRebuilt(c, data, dir, Len(dir), size)
  BY <1>1, <1>3, <1>7, <1>8 DEF IsRebuilt, s, size
<1>10. /\ c \in Archives /\ EocdPositions(c) # {}
       /\ EocdOffset(c) = s + n /\ Len(c) = s + n + 1
       /\ At(c, EocdOffset(c)) = Eocd(n, size, s) /\ Last(c) = Eocd(n, size, s)
       /\ CdStart(c) = s /\ Entries(c) = s .. s + n - 1
       /\ \A p \in Nat : p < s => At(c, p) = At(data, p)
       /\ \A p \in Nat : p < n => At(c, s + p) = At(dir, p)
       /\ \A from, to \in Nat :
            from <= to /\ to <= s => Slice(c, from, to) = Slice(data, from, to)
  <2> HIDE DEF dir
  <2> QED
    BY <1>7, <1>9, RebuiltCells DEF s
<1>11. /\ ExactDirectory(c) /\ RecordIsExact(c)
       /\ Parses(c) <=> ~IsZip64(Last(c))
       /\ IsZip64(Last(c)) <=> size = U32Max
  <2>1. ASSUME NEW p \in Nat, p < Len(dir)
        PROVE  /\ At(dir, p) \in CdHeaders
               /\ At(dir, p).name \notin NonUtf8Names
               /\ At(dir, p).offset < Len(data)
               /\ At(dir, p).csize # U32Max /\ At(dir, p).usize # U32Max
    <3>1. p + 1 \in 1 .. n /\ p + 1 - 1 = p
      BY <1>1, <1>7, <2>1
    <3> DEFINE h == kept[p + 1]
    <3>2. /\ dir[p + 1] \in CdHeaders
          /\ dir[p + 1] = [At(b, h) EXCEPT !.offset = Len(out[p + 1 - 1])]
      <4>1. dir[p + 1] = [At(b, h) EXCEPT !.offset = Len(out[p + 1 - 1])]
        BY <3>1
      <4> HIDE DEF dir, h
      <4> QED
        BY <1>6, <3>1, <4>1
    <3>3. h \in Entries(b) /\ At(b, h) \in CdHeaders
      BY <1>4, <3>1
    <3>4. /\ At(b, h).name \notin NonUtf8Names
          /\ At(b, h).csize # U32Max /\ At(b, h).usize # U32Max
      BY <1>1, <3>3, AcceptedHeader
    <3>5. Len(out[p + 1 - 1]) < Len(data)
      <4>1. /\ Len(out[p + 1 - 1]) < Len(out[p + 1])
            /\ Len(out[p + 1]) <= Len(data)
        BY <1>2, <3>1
      <4>2. Len(out[p + 1]) \in Nat /\ Len(out[p + 1 - 1]) \in Nat
        BY <1>1, <1>5, <3>1
      <4> QED
        BY <1>3, <4>1, <4>2 DEF s
    <3> HIDE DEF dir, h
    <3>6. At(dir, p) = dir[p + 1]
      BY DEF At
    <3> QED
      BY <3>2, <3>3, <3>4, <3>5, <3>6 DEF CdHeaders
  <2>2. IsZip64(Last(c)) <=> size = U32Max
    <3>1. /\ Eocd(n, size, s).count = n /\ Eocd(n, size, s).cdsize = size
          /\ Eocd(n, size, s).cdoffset = s
      BY DEF Eocd
    <3>2. n # U16Max
      BY <1>1, WidthAssumption
    <3> QED
      BY <1>1, <1>10, <3>1, <3>2 DEF IsZip64
  <2>3. size = SizeOf(dir, 0 .. n - 1)
    <3> DEFINE ps == 0 .. n - 1
               f  == [p \in ps |-> kept[p + 1]]
    <3>1. \A p \in ps : p + 1 \in 1 .. n /\ p \in Nat /\ p < n
      BY <1>1
    <3>2. f \in Bijection(ps, Kept(b, name))
      <4>1. \A p \in ps : kept[p + 1] \in Kept(b, name)
        BY <1>1, <3>1
      <4>2. ASSUME NEW p \in ps, NEW q \in ps, kept[p + 1] = kept[q + 1]
            PROVE  p = q
        <5>1. p + 1 = q + 1
          BY <1>1, <3>1, <4>2
        <5> QED
          BY <3>1, <5>1
      <4>3. ASSUME NEW h \in Kept(b, name)
            PROVE  \E p \in ps : kept[p + 1] = h
        <5>1. PICK k \in 1 .. n : kept[k] = h
          BY <1>1
        <5>2. k - 1 \in ps /\ k - 1 + 1 = k
          BY <1>1
        <5> QED
          BY <5>1, <5>2
      <4> HIDE DEF ps
      <4> QED
        BY <4>1, <4>2, <4>3 DEF Bijection, Injection, Surjection, IsInjective
    <3>3. ASSUME NEW p \in ps
          PROVE  CellSize(b, f[p]) = CellSize(dir, p)
      <4>1. p + 1 \in 1 .. n
        BY <3>1
      <4>2. f[p] = kept[p + 1] /\ At(b, kept[p + 1]) \in CdHeaders
        BY <1>4, <4>1
      <4>3. At(dir, p) = [At(b, kept[p + 1]) EXCEPT !.offset = Len(out[p + 1 - 1])]
        BY <4>1 DEF At
      <4> HIDE DEF dir, f
      <4> QED
        BY <4>2, <4>3 DEF CellSize, CdHeaders
    <3>4. ps \subseteq 0 .. Len(dir) - 1
      BY <1>1, <1>7
    <3> HIDE DEF ps, f, dir
    <3>5. SizeOf(b, Kept(b, name)) = SizeOf(dir, ps)
      <4>1. SameSizes(dir, ps, b, Kept(b, name), f)
        BY <1>7, <3>2, <3>3, <3>4 DEF SameSizes
      <4> QED
        BY <4>1, SizeMoved
    <3> QED
      BY <3>5 DEF ps, size
  <2> HIDE DEF dir
  <2>4. RecordIsExact(c)
    <3>1. \A p \in Nat : p < Len(dir) => At(dir, p).sig = "CENTRAL"
      BY <2>1 DEF CdHeaders
    <3>2. size = SizeOf(dir, 0 .. Len(dir) - 1)
      BY <1>7, <2>3
    <3> QED
      BY <1>9, <3>1, <3>2, RebuiltRecord
  <2>5. ~IsZip64(Last(c)) => Parses(c) /\ ExactDirectory(c)
    BY <1>9, <2>1, RebuiltParses
  <2>6. IsZip64(Last(c)) => ~Parses(c)
    BY <1>10 DEF Parses, ParseVerdict
  <2> QED
    BY <2>2, <2>4, <2>5, <2>6 DEF ExactDirectory
<1>12. Slice(c, 0, s) = data
  <2>1. Slice(c, 0, s) = Slice(data, 0, s)
    BY <1>3, <1>10
  <2>2. data \in Seq(Cells)
    BY <1>3 DEF Archives
  <2> QED
    BY <1>3, <2>1, <2>2 DEF Slice, s
<1>13. ASSUME NEW k \in 1 .. n
       PROVE  /\ At(c, s + k - 1) = [At(b, kept[k]) EXCEPT !.offset = Len(out[k - 1])]
              /\ At(c, s + k - 1).offset = Len(out[k - 1])
              /\ s + k - 1 \in Entries(c)
  <2>1. k - 1 \in Nat /\ k - 1 < n /\ s + (k - 1) = s + k - 1 /\ k - 1 + 1 = k
    BY <1>1, <1>3
  <2>2. At(c, s + k - 1) = dir[k]
    BY <1>10, <2>1 DEF At
  <2>3. At(c, s + k - 1) = [At(b, kept[k]) EXCEPT !.offset = Len(out[k - 1])]
    BY <2>2
  <2>4. At(c, s + k - 1).offset = Len(out[k - 1])
    BY <1>4, <2>3 DEF CdHeaders
  <2> QED
    BY <1>1, <1>3, <1>10, <2>3, <2>4
<1>14. \A p \in Nat : p < CdStart(c) => At(c, p) = At(data, p)
  BY <1>10
<1>15. \A k \in 1 .. n : Nth(c, k) = s + k - 1
  BY <1>10 DEF Nth
<1>16. SizeOf(c, Entries(c)) = size /\ Len(c) = EocdOffset(c) + 1
  <2>1. Last(c).cdsize = size /\ Last(c).cdoffset = s
    BY <1>10 DEF Eocd
  <2>2. Len(c) - 2 = s + n - 1 /\ Len(c) = EocdOffset(c) + 1
    BY <1>1, <1>3, <1>10
  <2> QED
    BY <1>10, <1>11, <2>1, <2>2 DEF RecordIsExact
<1> QED
  BY <1>10, <1>11, <1>12, <1>13, <1>14, <1>15, <1>16 DEF n, data, s, size

\* If it parses, it holds the entries kept, each behind the one it follows, with
\* all that is bound of it and nothing else.
LEMMA RemovedLayout ==
  ASSUME NEW b, NEW name, NEW kept, NEW out, NEW c,
         IsRemoval(b, name, kept, out, c), Parses(c)
  PROVE  \A k \in 1 .. Len(kept) :
           IsCopy(b, kept[k], c, Nth(c, k), Len(out[k - 1]), Len(out[k]))
<1> DEFINE n    == Len(kept)
           data == out[n]
           s    == Len(data)
<1>1. /\ Parses(b) /\ \A h \in Entries(b) : BindingVerdict(b, h) = "ok"
      /\ n \in Nat
      /\ \A k \in 0 .. n : out[k] \in Archives /\ Len(out[k]) \in Nat
      /\ s \in U32
      /\ kept \in [1 .. n -> Kept(b, name)]
      /\ b \in Archives
  BY RemovedData DEF IsRemoval
<1>2. \A k \in 1 .. n :
        /\ Len(out[k - 1]) <= At(b, kept[k]).offset
        /\ Len(out[k]) = Len(out[k - 1])
                           + (BindingEnd(b, kept[k]) - At(b, kept[k]).offset)
        /\ Len(out[k - 1]) < Len(out[k]) /\ Len(out[k]) <= Len(data)
        /\ Slice(data, Len(out[k - 1]), Len(out[k])) = EntryCells(b, kept[k])
  BY RemovedData, SMTT(30)
<1>3. data \in Archives /\ s \in Nat
  <2>1. n \in 0 .. n
    BY <1>1
  <2> QED
    BY <1>1, <2>1
<1>4. \A k \in 1 .. n : kept[k] \in Entries(b) /\ At(b, kept[k]) \in CdHeaders
  <2>1. \A k \in 1 .. n : kept[k] \in Entries(b)
    BY <1>1 DEF Kept
  <2> QED
    BY <1>1, <2>1, EntryProperties
<1>5. \A k \in 1 .. n : Len(out[k - 1]) \in Nat
  <2> SUFFICES ASSUME NEW k \in 1 .. n
               PROVE  Len(out[k - 1]) \in Nat
    OBVIOUS
  <2>1. k - 1 \in 0 .. n
    BY <1>1
  <2> QED
    BY <1>1, <2>1
<1>10. /\ c \in Archives
       /\ CdStart(c) = s /\ Entries(c) = s .. s + n - 1
       /\ \A p \in Nat : p < s => At(c, p) = At(data, p)
  BY RemovedCells
<1>11. Parses(c)
  OBVIOUS
<1>13. \A k \in 1 .. n :
         /\ At(c, s + k - 1) = [At(b, kept[k]) EXCEPT !.offset = Len(out[k - 1])]
         /\ At(c, s + k - 1).offset = Len(out[k - 1])
         /\ s + k - 1 \in Entries(c)
  <2>1. \A k \in 1 .. n :
          /\ At(c, Nth(c, k)) = [At(b, kept[k]) EXCEPT !.offset = Len(out[k - 1])]
          /\ At(c, Nth(c, k)).offset = Len(out[k - 1])
          /\ Nth(c, k) \in Entries(c)
    BY RemovedCells
  <2>2. \A k \in 1 .. n : Nth(c, k) = s + k - 1
    BY <1>10 DEF Nth
  <2> HIDE DEF n, s
  <2> QED
    BY <2>1, <2>2
<1> HIDE DEF n, data, s
<1>14. \A j, k \in 0 .. n : j < k => Len(out[j]) < Len(out[k])
  BY RemovedData DEF n
<1>15. ASSUME NEW k \in 1 .. n
       PROVE  EntryBoundary(c, s + k - 1) = Len(out[k])
  <2> DEFINE g == s + k - 1
  <2>1. Len(out[k]) \in Nat /\ g \in Entries(c)
    <3>1. k \in 0 .. n
      BY <1>1
    <3> QED
      BY <1>1, <1>13, <3>1
  <2>2. ASSUME NEW f \in Entries(c)
        PROVE  \E j \in 1 .. n : /\ f = s + j - 1
                                 /\ At(c, f).offset = Len(out[j - 1])
    <3> DEFINE j == f - s + 1
    <3>1. j \in 1 .. n /\ f = s + j - 1
      BY <1>1, <1>3, <1>10
    <3> HIDE DEF j
    <3> QED
      BY <1>13, <3>1
  <2>3. ASSUME NEW f \in Entries(c), Before(c, g, f)
        PROVE  Len(out[k]) <= At(c, f).offset
    <3>1. PICK j \in 1 .. n : f = s + j - 1 /\ At(c, f).offset = Len(out[j - 1])
      BY <2>2
    <3>2. At(c, g).offset = Len(out[k - 1])
      BY <1>13
    <3>3. /\ j - 1 \in 0 .. n /\ k - 1 \in 0 .. n /\ k \in 0 .. n
          /\ \A i \in 0 .. n : Len(out[i]) \in Nat
      BY <1>1
    <3>4. k < j
      <4> SUFFICES ASSUME ~(k < j)
                   PROVE  FALSE
        OBVIOUS
      <4>1. CASE j = k
        BY <1>1, <1>3, <2>3, <3>1, <3>2, <3>3, <4>1 DEF Before
      <4>2. CASE j < k
        <5>1. Len(out[j - 1]) < Len(out[k - 1])
          BY <1>14, <3>3, <4>2
        <5> QED
          BY <2>3, <3>1, <3>2, <3>3, <5>1 DEF Before
      <4> QED
        BY <4>1, <4>2
    <3>5. CASE k = j - 1
      BY <3>1, <3>3, <3>5
    <3>6. CASE k < j - 1
      <4>1. Len(out[k]) < Len(out[j - 1])
        BY <1>14, <3>3, <3>6
      <4> QED
        BY <3>1, <3>3, <4>1
    <3> QED
      BY <3>4, <3>5, <3>6
  <2>4. \/ \E f \in Entries(c) : Before(c, g, f) /\ At(c, f).offset = Len(out[k])
        \/ Len(out[k]) = CdStart(c)
    <3>1. CASE k = n
      BY <1>10, <3>1 DEF s, data
    <3>2. CASE k # n
      <4> DEFINE f == s + (k + 1) - 1
      <4>1. k + 1 \in 1 .. n /\ k + 1 - 1 = k /\ k - 1 \in 0 .. n /\ k \in 0 .. n
        BY <1>1, <3>2
      <4>2. f \in Entries(c) /\ At(c, f).offset = Len(out[k])
        <5> DEFINE i == k + 1
        <5>1. i \in 1 .. n /\ i - 1 = k /\ f = s + i - 1
          BY <4>1
        <5> HIDE DEF i, f
        <5> QED
          BY <1>13, <5>1
      <4>3. Len(out[k - 1]) < Len(out[k]) /\ At(c, g).offset = Len(out[k - 1])
        BY <1>2, <1>13
      <4> QED
        BY <4>2, <4>3 DEF Before
    <3> QED
      BY <3>1, <3>2
  <2> HIDE DEF g
  <2> QED
    BY <1>10, <1>11, <2>1, <2>3, <2>4, BoundaryIs DEF g
<1>16. ASSUME NEW k \in 1 .. n
       PROVE  IsCopy(b, kept[k], c, Nth(c, k), Len(out[k - 1]), Len(out[k]))
  <2> DEFINE from == At(b, kept[k]).offset
             to   == Len(out[k - 1])
             size == Len(out[k]) - to
             g    == s + k - 1
  <2>1. /\ kept[k] \in Entries(b) /\ g \in Entries(c)
        /\ At(c, g) = [At(b, kept[k]) EXCEPT !.offset = to]
        /\ At(c, g).offset = to /\ EntryBoundary(c, g) = Len(out[k])
    BY <1>4, <1>13, <1>15
  <2>2. /\ to \in Nat /\ Len(out[k]) \in Nat /\ from \in Nat
        /\ to < Len(out[k]) /\ Len(out[k]) <= s
        /\ Len(out[k]) = to + (BindingEnd(b, kept[k]) - from)
        /\ Slice(data, to, Len(out[k])) = EntryCells(b, kept[k])
        /\ BindingEnd(b, kept[k]) \in Nat /\ BindingEnd(b, kept[k]) <= Len(b)
    <3>1. from \in Nat
      BY <1>1, <2>1, EntryProperties
    <3>2. /\ BindingEnd(b, kept[k]) \in Nat
          /\ BindingEnd(b, kept[k]) <= EntryBoundary(b, kept[k])
          /\ EntryBoundary(b, kept[k]) \in Nat
          /\ EntryBoundary(b, kept[k]) <= CdStart(b)
          /\ CdStart(b) \in Nat /\ CdStart(b) <= Len(b) /\ Len(b) \in Nat
      BY <1>1, <2>1, BindingLocated, BoundaryProperties, ParsedRecord, ArchiveLength
    <3>3. BindingEnd(b, kept[k]) <= Len(b)
      BY <3>2
    <3> QED
      BY <1>1, <1>2, <1>5, <3>1, <3>2, <3>3 DEF s
  <2> HIDE DEF from, to, g
  <2> DEFINE end == Len(out[k])
             old == BindingEnd(b, kept[k])
  <2>3. /\ size \in Nat /\ end = to + size /\ old = from + size
        /\ end \in Nat /\ end <= s /\ old \in Nat /\ old <= Len(b)
        /\ Slice(data, to, end) = Slice(b, from, old)
    <3>1. \A u, v, x, y \in Nat :
            u < v /\ v = u + (x - y) => v - u \in Nat /\ v = u + (v - u) /\ x = y + (v - u)
      OBVIOUS
    <3>2. Slice(data, to, end) = Slice(b, from, old)
      BY <2>2 DEF EntryCells, from
    <3>3. /\ end \in Nat /\ old \in Nat /\ to < end /\ end = to + (old - from)
          /\ end <= s /\ old <= Len(b)
      BY <2>2
    <3> HIDE DEF end, old
    <3>4. end - to \in Nat /\ end = to + (end - to) /\ old = from + (end - to)
      BY <2>2, <3>1, <3>3
    <3> QED
      BY <3>2, <3>3, <3>4 DEF end
  <2> HIDE DEF size, end, old
  <2>4. SameCells(b, from, c, to, size)
    <3> SUFFICES ASSUME NEW i \in 0 .. size - 1
                 PROVE  At(c, to + i) = At(b, from + i)
      BY DEF SameCells
    <3>1. i \in Nat /\ to + i < end /\ from + i < old /\ to + i < s /\ to + i \in Nat
      BY <1>3, <2>2, <2>3
    <3>2. Slice(b, from, old)[i + 1] = At(b, from + i)
      BY <1>1, <2>2, <2>3, <3>1, SliceAt
    <3>3. Slice(data, to, end)[i + 1] = At(data, to + i)
      <4>1. /\ data \in Archives /\ to \in Nat /\ end \in Nat /\ i \in Nat
            /\ to + i < end /\ end <= Len(data)
        BY <1>3, <2>2, <2>3, <3>1 DEF s
      <4> QED
        BY <4>1, SliceAt
    <3>4. At(c, to + i) = At(data, to + i)
      BY <1>10, <3>1
    <3> QED
      BY <2>3, <3>2, <3>3, <3>4
  <2>5. IsMoved(b, kept[k], c, g, size)
    BY <1>1, <1>10, <1>11, <2>1, <2>3, <2>4 DEF IsMoved, from, end
  <2> QED
    BY <1>10, <2>1, <2>5 DEF IsCopy, Nth, g, size, to, end
<1> QED
  BY <1>16 DEF n

\* The entries of what it writes, if it parses, are the ones kept, in the order they had, and
\* all of them bound again, each up to where the next begins.
LEMMA RemovedEntries ==
  ASSUME NEW b, NEW name, NEW kept, NEW out, NEW c,
         IsRemoval(b, name, kept, out, c), Parses(c)
  PROVE  /\ \A k \in 1 .. Len(kept) :
              /\ SameMember(b, kept[k], c, Nth(c, k))
              /\ BindingVerdict(c, Nth(c, k)) = "ok"
              /\ BindingEnd(c, Nth(c, k)) = Len(out[k])
              /\ At(c, Nth(c, k)).offset = Len(out[k - 1])
         /\ \A g \in Entries(c) :
              \E k \in 1 .. Len(kept) : g = Nth(c, k)
         /\ \A g \in Entries(c) : BindingVerdict(c, g) = "ok"
         /\ Named(c, name) = {}
         /\ InArchiveOrder(c, Entries(c)) = [k \in 1 .. Len(kept) |-> Nth(c, k)]
<1> DEFINE n == Len(kept)
           s == CdStart(c)
<1>1. /\ Parses(b) /\ \A h \in Entries(b) : BindingVerdict(b, h) = "ok"
      /\ n \in Nat /\ kept \in [1 .. n -> Kept(b, name)]
      /\ \A k \in 0 .. n : Len(out[k]) \in Nat
      /\ \A j, k \in 0 .. n : j < k => Len(out[j]) < Len(out[k])
      /\ b \in Archives
  BY RemovedData DEF IsRemoval
<1>2. /\ c \in Archives /\ Parses(c)
      /\ Entries(c) = s .. s + n - 1
      /\ \A k \in 1 .. n :
           IsCopy(b, kept[k], c, Nth(c, k), Len(out[k - 1]), Len(out[k]))
  BY RemovedCells, RemovedLayout
<1>3. s \in Nat
  BY <1>2, ParsedLayout
<1>4. \A k \in 1 .. n : Nth(c, k) = s + k - 1
  BY DEF Nth
<1>5. \A k \in 1 .. n :
        /\ Len(out[k]) = Len(out[k - 1])
                           + (BindingEnd(b, kept[k]) - At(b, kept[k]).offset)
        /\ Len(out[k - 1]) < Len(out[k])
  BY RemovedData
<1> HIDE DEF n, s
<1>6. ASSUME NEW k \in 1 .. n
      PROVE  /\ SameMember(b, kept[k], c, Nth(c, k))
             /\ BindingVerdict(c, Nth(c, k)) = "ok"
             /\ BindingEnd(c, Nth(c, k)) = Len(out[k])
             /\ At(c, Nth(c, k)).offset = Len(out[k - 1])
             /\ At(c, Nth(c, k)).name = At(b, kept[k]).name
             /\ Nth(c, k) \in Entries(c)
  <2> DEFINE h    == kept[k]
             g    == Nth(c, k)
             from == Len(out[k - 1])
             to   == Len(out[k])
             size == to - from
  <2>1. /\ IsMoved(b, h, c, g, size)
        /\ At(c, g) = [At(b, h) EXCEPT !.offset = from]
    BY <1>2 DEF IsCopy, IsMoved
  <2>2. h \in Entries(b) /\ g \in Entries(c)
    BY <2>1 DEF IsMoved
  <2>3. At(b, h) \in CdHeaders /\ At(b, h).offset \in Nat
    BY <1>1, <2>2, EntryProperties
  <2>4. BindingVerdict(b, h) = "ok" /\ BindingEnd(b, h) \in Nat
    BY <1>1, <2>2, BindingLocated
  <2>5. from \in Nat /\ to \in Nat /\ from < to
    <3>1. k - 1 \in 0 .. n /\ k \in 0 .. n
      BY <1>1
    <3> QED
      BY <1>1, <1>5, <3>1
  <2>6. to = from + (BindingEnd(b, h) - At(b, h).offset)
    BY <1>5
  <2>7. At(c, g).offset = from /\ At(c, g).name = At(b, h).name
    BY <2>1, <2>3 DEF CdHeaders
  <2> HIDE DEF h, g, from, to
  <2>8. BindingEnd(b, h) <= At(b, h).offset + size
    <3>1. \A u, v, x, y \in Nat : v = u + (x - y) => x <= y + (v - u)
      OBVIOUS
    <3> QED
      BY <2>3, <2>4, <2>5, <2>6, <3>1, Zenon
  <2>9. /\ BindingVerdict(c, g) = "ok"
        /\ BindingEnd(c, g) - At(c, g).offset = BindingEnd(b, h) - At(b, h).offset
        /\ SameMember(b, h, c, g)
    <3>1. MovedWhole(b, h, c, g, size)
      BY <2>1, <2>4, <2>8 DEF MovedWhole
    <3> HIDE DEF size
    <3> QED
      BY <3>1, MovedBinding, MovedMember
  <2>10. BindingEnd(c, g) \in Nat
    BY <1>2, <2>2, <2>9, BindingLocated
  <2>11. BindingEnd(c, g) = to
    <3>1. \A u, z \in Nat : z = u + (z - u)
      OBVIOUS
    <3>2. BindingEnd(c, g) - from = BindingEnd(b, h) - At(b, h).offset
      BY <2>7, <2>9
    <3>3. BindingEnd(c, g) = from + (BindingEnd(c, g) - from)
      BY <2>5, <2>10, <3>1
    <3> QED
      BY <2>6, <3>2, <3>3, Zenon
  <2> QED
    BY <2>2, <2>7, <2>9, <2>11 DEF h, g, from, to
<1>7. ASSUME NEW g \in Entries(c)
      PROVE  \E k \in 1 .. n : g = Nth(c, k)
  <2>1. g - s + 1 \in 1 .. n /\ g = s + (g - s + 1) - 1
    BY <1>1, <1>2, <1>3
  <2>2. g = Nth(c, g - s + 1)
    BY <1>4, <2>1
  <2> QED
    BY <2>1, <2>2
<1>8. Named(c, name) = {}
  <2>1. \A k \in 1 .. n : At(b, kept[k]).name # name
    BY <1>1 DEF Kept, Named
  <2> QED
    BY <1>6, <1>7, <2>1 DEF Named
<1>9. InArchiveOrder(c, Entries(c)) = [k \in 1 .. n |-> Nth(c, k)]
  <2> DEFINE t == [k \in 1 .. n |-> Nth(c, k)]
  <2>1. t \in [1 .. n -> Entries(c)]
    BY <1>6
  <2>2. \A h \in Entries(c) : \E k \in 1 .. n : t[k] = h
    BY <1>7
  <2>3. ASSUME NEW j \in 1 .. n, NEW k \in 1 .. n, j < k
        PROVE  Before(c, t[j], t[k])
    <3>1. At(c, t[j]).offset = Len(out[j - 1]) /\ At(c, t[k]).offset = Len(out[k - 1])
      BY <1>6
    <3>2. Len(out[j - 1]) < Len(out[k - 1])
      <4>1. j - 1 \in 0 .. n /\ k - 1 \in 0 .. n /\ j - 1 < k - 1
        BY <1>1, <2>3
      <4> QED
        BY <1>1, <4>1
    <3> HIDE DEF t
    <3> QED
      BY <3>1, <3>2 DEF Before
  <2> HIDE DEF t
  <2>4. ListsInOrder(c, Entries(c), n, t)
    BY <1>1, <2>1, <2>2, <2>3 DEF ListsInOrder
  <2>5. InArchiveOrder(c, Entries(c)) = t
    BY <1>2, <2>4, OrderIsUnique
  <2> QED
    BY <2>5 DEF t
<1>10. \A g \in Entries(c) : BindingVerdict(c, g) = "ok"
  BY <1>6, <1>7
<1> QED
  BY <1>6, <1>7, <1>8, <1>9, <1>10 DEF n, s

\* Removing the manifest keeps the members, and every one of them can be bound.
LEMMA RemoveKeepsMembers ==
  ASSUME NEW b \in Archives, RemoveVerdict(b, ManifestPath) = "ok",
         Parses(RemoveZipEntry(b, ManifestPath))
  PROVE  LET c == RemoveZipEntry(b, ManifestPath)
         IN /\ c \in Archives /\ Parses(b)
            /\ ExactDirectory(b) => ExactDirectory(c)
            /\ Named(c, ManifestPath) = {}
            /\ Members(c) = Entries(c)
            /\ KeepsMembers(b, c)
<1> DEFINE c == RemoveZipEntry(b, ManifestPath)
<1>1. Parses(b)
  BY RemoveAccepts
<1>2. CASE Named(b, ManifestPath) = {}
  <2>1. c = b
    BY <1>2 DEF RemoveZipEntry
  <2> QED
    BY <1>1, <1>2, <2>1, MembersKept DEF Members
<1>3. CASE Named(b, ManifestPath) # {}
  <2> DEFINE kept == InArchiveOrder(b, Kept(b, ManifestPath))
             out  == Copied(b, kept)
  <2>1. IsRemoval(b, ManifestPath, kept, out, c)
    BY <1>3 DEF IsRemoval
  <2>2. Members(b) = Kept(b, ManifestPath)
    BY DEF Members, Kept
  <2> DEFINE old == InArchiveOrder(b, Members(b))
  <2>3. old = kept /\ Parses(c)
    BY <2>2
  <2> HIDE DEF kept, out, c, old
  <2>4. c \in Archives /\ ExactDirectory(c)
    BY <2>1, RemovedCells
  <2>5. /\ Named(c, ManifestPath) = {}
        /\ InArchiveOrder(c, Entries(c)) = [k \in 1 .. Len(kept) |-> Nth(c, k)]
        /\ \A k \in 1 .. Len(kept) : SameMember(b, kept[k], c, Nth(c, k))
    BY <2>1, <2>3, RemovedEntries
  <2>6. Members(c) = Entries(c)
    BY <2>5 DEF Members
  <2>7. KeepsMembers(b, c)
    <3> DEFINE new == InArchiveOrder(c, Members(c))
    <3>1. new = [k \in 1 .. Len(kept) |-> Nth(c, k)] /\ Len(kept) \in Nat
      BY <2>1, <2>5, <2>6, RemovedData
    <3>2. Len(new) = Len(kept) /\ \A k \in 1 .. Len(kept) : new[k] = Nth(c, k)
      BY <3>1
    <3> HIDE DEF new
    <3> QED
      BY <2>3, <2>5, <3>2 DEF KeepsMembers, new, old
  <2> QED
    BY <1>1, <2>4, <2>5, <2>6, <2>7 DEF c
<1> QED
  BY <1>2, <1>3

\* The directory it leaves takes as many bytes as the headers of the members. It
\* can be read again, unless these are as many as mean ZIP64.
LEMMA RemoveMeasures ==
  ASSUME NEW b \in Archives, RemoveVerdict(b, ManifestPath) = "ok"
  PROVE  LET c == RemoveZipEntry(b, ManifestPath)
         IN /\ c \in Archives /\ Parses(b)
            /\ ExactDirectory(b) => ExactDirectory(c)
            /\ SizeOf(c, Entries(c)) = SizeOf(b, Members(b))
            /\ CdStart(c) \in Nat /\ CdStart(c) <= CdStart(b) /\ CdStart(b) \in Nat
            /\ Named(b, ManifestPath) = {} => Parses(c)
            /\ Named(b, ManifestPath) # {} => (Parses(c) <=> ~IsZip64(Last(c)))
            /\ ~Parses(c) => /\ SizeOf(b, Members(b)) = U32Max
                             /\ ParseVerdict(c) = "Zip64Unsupported"
<1> DEFINE c == RemoveZipEntry(b, ManifestPath)
<1>1. Parses(b) /\ CdStart(b) \in Nat
  BY RemoveAccepts, ParsedLayout
<1>2. CASE Named(b, ManifestPath) = {}
  <2>1. c = b /\ Members(b) = Entries(b)
    BY <1>2 DEF RemoveZipEntry, Members
  <2> HIDE DEF c
  <2> QED
    BY <1>1, <1>2, <2>1 DEF c
<1>3. CASE Named(b, ManifestPath) # {}
  <2> DEFINE kept == InArchiveOrder(b, Kept(b, ManifestPath))
             out  == Copied(b, kept)
  <2>1. IsRemoval(b, ManifestPath, kept, out, c)
    BY <1>3 DEF IsRemoval
  <2>2. Members(b) = Kept(b, ManifestPath)
    BY DEF Members, Kept
  <2> HIDE DEF kept, out, c
  <2>3. /\ c \in Archives /\ ExactDirectory(c)
        /\ Parses(c) <=> ~IsZip64(Last(c))
        /\ Parses(c) <=> SizeOf(b, Kept(b, ManifestPath)) # U32Max
        /\ SizeOf(c, Entries(c)) = SizeOf(b, Kept(b, ManifestPath))
        /\ At(c, EocdOffset(c)) = Last(c)
        /\ CdStart(c) = Len(out[Len(kept)])
        /\ Len(c) = EocdOffset(c) + 1
    BY <2>1, RemovedCells
  <2>4. /\ Len(out[Len(kept)]) \in U32 /\ Len(out[Len(kept)]) <= CdStart(b)
    BY <2>1, RemovedData
  <2>5. CdStart(c) \in Nat /\ CdStart(c) <= CdStart(b)
    BY <2>3, <2>4, FieldsAreNaturals
  <2>6. EocdPositions(c) # {}
    BY <2>1, RemovedCells
  <2>7. IsZip64(Last(c)) => ParseVerdict(c) = "Zip64Unsupported"
    BY <2>3, <2>6 DEF ParseVerdict
  <2> QED
    BY <1>1, <1>3, <2>2, <2>3, <2>5, <2>7 DEF c
<1> QED
  BY <1>2, <1>3

-----------------------------------------------------------------------------
(* What insert_zip_entry writes                                            *)

\* An insert writes the cells before the directory, a local header and the
\* content, then the old headers and one more.
LEMMA InsertedCells ==
  ASSUME NEW b \in Archives, NEW name \in Names, NEW content \in Payloads,
         InsertVerdict(b, name, content) = "ok"
  PROVE  LET data == InsertedData(b, content)
             dir  == InsertedDirectory(b, name, content)
         IN /\ IsRebuilt(InsertZipEntry(b, name, content), data, dir,
                         Cardinality(Entries(b)) + 1, InsertedSize(b, name))
            /\ Len(data) = CdStart(b) + 1 + Len(content)
            /\ Slice(data, 0, CdStart(b)) = Slice(b, 0, CdStart(b))
            /\ \A p \in Nat : p < CdStart(b) => At(data, p) = At(b, p)
            /\ At(data, CdStart(b)) = LocalHeader(Crc(content), Len(content))
            /\ Slice(data, CdStart(b) + 1, Len(data)) = content
            /\ Len(dir) = EocdOffset(b) - CdStart(b) + 1
            /\ \A p \in Nat : p < EocdOffset(b) - CdStart(b)
                                => At(dir, p) = At(b, CdStart(b) + p)
            /\ At(dir, EocdOffset(b) - CdStart(b))
                 = CdHeader(name, Crc(content), Len(content), CdStart(b))
<1> DEFINE s    == CdStart(b)
           e    == EocdOffset(b)
           kept == Slice(b, 0, s)
           old  == Slice(b, s, e)
           head == LocalHeader(Crc(content), Len(content))
           last == CdHeader(name, Crc(content), Len(content), s)
           data == InsertedData(b, content)
           dir  == InsertedDirectory(b, name, content)
<1>1. /\ Parses(b)
      /\ Crc(content) \in U32 /\ Len(content) \in U32
      /\ Cardinality(Entries(b)) + 1 \in U16
      /\ s \in U32 /\ Len(data) <= U32Max /\ InsertedSize(b, name) <= U32Max
  BY InsertAccepts
<1>2. content \in Archives /\ Len(content) \in Nat
  BY PayloadAssumption, ArchiveLength
<1>3. /\ s \in Nat /\ e \in Nat /\ Len(b) \in Nat
      /\ s <= e /\ e < Len(b)
  BY <1>1, ParsedLayout, ArchiveLength
<1>4. head \in Cells /\ last \in Cells
  <2>1. 0 \in U16
    BY FieldsAreNaturals DEF U16
  <2>2. head \in LocalHeaders
    BY <1>1, <2>1 DEF LocalHeader, LocalHeaders
  <2>3. last \in CdHeaders
    BY <1>1, <2>1, NameAssumption DEF CdHeader, CdHeaders
  <2> QED
    BY <2>2, <2>3 DEF Cells
<1> HIDE DEF head, last
<1>5. /\ <<head>> \in Archives /\ Len(<<head>>) = 1
      /\ <<last>> \in Archives /\ Len(<<last>>) = 1
      /\ At(<<head>>, 0) = head /\ At(<<last>>, 0) = last
  BY <1>4, OneCell DEF At
<1>6. /\ kept \in Archives /\ Len(kept) = s
      /\ old \in Archives /\ Len(old) = e - s
  <2>1. 0 <= s /\ s <= Len(b) /\ e <= Len(b) /\ s - 0 = s
    BY <1>3
  <2> QED
    BY <1>3, <2>1, SliceProperties
<1>7. \A p \in Nat : p < s => At(kept, p) = At(b, p)
  <2> SUFFICES ASSUME NEW p \in Nat, p < s
               PROVE  At(kept, p) = At(b, p)
    OBVIOUS
  <2>1. 0 + p < s /\ s <= Len(b) /\ 0 + p = p
    BY <1>3
  <2>2. kept[p + 1] = At(b, p)
    BY <1>3, <2>1, SliceAt
  <2> QED
    BY <2>2 DEF At
<1>8. \A p \in Nat : p < e - s => At(old, p) = At(b, s + p)
  <2> SUFFICES ASSUME NEW p \in Nat, p < e - s
               PROVE  At(old, p) = At(b, s + p)
    OBVIOUS
  <2>1. s + p < e /\ e <= Len(b)
    BY <1>3
  <2>2. old[p + 1] = At(b, s + p)
    BY <1>3, <2>1, SliceAt
  <2> QED
    BY <2>2 DEF At
<1>9. Slice(kept, 0, s) = kept
  <2>1. kept \in Seq(Cells)
    BY <1>6 DEF Archives
  <2> HIDE DEF kept
  <2> QED
    BY <1>3, <1>6, <2>1 DEF Slice
<1>10. data = kept \o <<head>> \o content /\ dir = old \o <<last>>
  BY DEF InsertedData, InsertedDirectory, head, last
<1> HIDE DEF s, e, kept, old, data, dir
<1> DEFINE front == kept \o <<head>>
<1>11. /\ front \in Archives /\ Len(front) = s + 1
       /\ \A p \in Nat : p < s => At(front, p) = At(b, p)
       /\ At(front, s) = head
       /\ Slice(front, 0, s) = kept
  <2>1. /\ front \in Archives /\ Len(front) = Len(kept) + Len(<<head>>)
        /\ \A p \in Nat : p < Len(kept) => At(front, p) = At(kept, p)
        /\ \A from, to \in Nat :
             from <= to /\ to <= Len(kept) => Slice(front, from, to) = Slice(kept, from, to)
    BY <1>5, <1>6, AppendedAfter
  <2>2. At(front, Len(kept) + 0) = At(<<head>>, 0)
    <3>1. 0 \in Nat /\ 0 < Len(<<head>>)
      BY <1>5
    <3> QED
      BY <1>5, <1>6, <3>1, AppendedCells
  <2>3. Len(kept) + 0 = s /\ 0 <= s /\ s <= Len(kept)
    BY <1>3, <1>6
  <2> HIDE DEF front
  <2> QED
    BY <1>3, <1>5, <1>6, <1>7, <1>9, <2>1, <2>2, <2>3
<1> HIDE DEF front
<1>12. /\ data \in Archives /\ Len(data) = s + 1 + Len(content)
       /\ \A p \in Nat : p < s => At(data, p) = At(b, p)
       /\ At(data, s) = head
       /\ Slice(data, 0, s) = kept
       /\ Slice(data, s + 1, Len(data)) = content
  <2>1. data = front \o content
    BY <1>10 DEF front
  <2>2. /\ data \in Archives /\ Len(data) = Len(front) + Len(content)
        /\ \A p \in Nat : p < Len(front) => At(data, p) = At(front, p)
        /\ \A from, to \in Nat :
             from <= to /\ to <= Len(front) => Slice(data, from, to) = Slice(front, from, to)
    BY <1>2, <1>11, <2>1, AppendedAfter
  <2>3. Slice(data, Len(front), Len(front) + Len(content)) = content
    BY <1>2, <1>11, <2>1, AppendedAt
  <2>4. s < s + 1 /\ 0 <= s /\ s <= s + 1 /\ \A p \in Nat : p < s => p < s + 1
    BY <1>3
  <2> QED
    BY <1>3, <1>11, <2>2, <2>3, <2>4
<1>13. /\ dir \in Archives /\ Len(dir) = e - s + 1
       /\ \A p \in Nat : p < e - s => At(dir, p) = At(b, s + p)
       /\ At(dir, e - s) = last
  <2>1. /\ dir \in Archives /\ Len(dir) = Len(old) + Len(<<last>>)
        /\ \A p \in Nat : p < Len(old) => At(dir, p) = At(old, p)
    <3>1. old \in Archives /\ <<last>> \in Archives /\ dir = old \o <<last>>
      BY <1>5, <1>6, <1>10
    <3> QED
      BY <3>1, AppendedAfter
  <2>2. At(dir, Len(old) + 0) = At(<<last>>, 0)
    <3>1. 0 \in Nat /\ 0 < Len(<<last>>)
      BY <1>5
    <3> QED
      BY <1>5, <1>6, <1>10, <3>1, AppendedCells
  <2>3. Len(old) + 0 = e - s
    BY <1>3, <1>6
  <2> QED
    BY <1>5, <1>6, <1>8, <2>1, <2>2, <2>3
<1>14. Len(data) \in U32 /\ InsertedSize(b, name) \in U32
  BY <1>1, <1>12, InsertedSizeIsNatural, ArchiveLength, FieldsAreNaturals DEF U32
<1>15. InsertZipEntry(b, name, content)
         = data \o dir
             \o <<Eocd(Cardinality(Entries(b)) + 1, InsertedSize(b, name), Len(data))>>
  BY DEF InsertZipEntry, data, dir
<1>16. IsRebuilt(InsertZipEntry(b, name, content), data, dir,
                 Cardinality(Entries(b)) + 1, InsertedSize(b, name))
  BY <1>1, <1>12, <1>13, <1>14, <1>15 DEF IsRebuilt
<1> QED
  BY <1>12, <1>13, <1>16 DEF s, e, kept, data, dir, head, last

\* c is what insert_zip_entry makes of b for the manifest path, where b has no
\* manifest and its directory ends at the record.
IsInsertion(b, content, c) ==
  /\ b \in Archives /\ content \in Payloads
  /\ InsertVerdict(b, ManifestPath, content) = "ok"
  /\ ExactDirectory(b) /\ Named(b, ManifestPath) = {}
  /\ c = InsertZipEntry(b, ManifestPath, content)

\* Where the header h of b is in c.
Put(b, c, h) == CdStart(c) + (h - CdStart(b))

\* The header of the new entry is the last of the directory.
NewHeader(b, c) == CdStart(c) + Cardinality(Entries(b))

\* Every cell before the directory stays; then the new entry, whose content ends
\* at the new directory, which is the old one and one header more.
LEMMA InsertedLayout ==
  ASSUME NEW b, NEW content, NEW c, IsInsertion(b, content, c)
  PROVE  /\ c \in Archives /\ Parses(b) /\ RecordIsExact(c)
         /\ Cardinality(Entries(b)) \in Nat
         /\ CdStart(c) = CdStart(b) + 1 + Len(content) /\ CdStart(c) \in Nat
         /\ EocdOffset(c) = CdStart(c) + Cardinality(Entries(b)) + 1
         /\ Len(c) = EocdOffset(c) + 1
         /\ At(c, EocdOffset(c)) = Last(c)
         /\ Last(c) = Eocd(Cardinality(Entries(b)) + 1, InsertedSize(b, ManifestPath),
                           CdStart(c))
         /\ InsertedSize(b, ManifestPath)
              = SizeOf(b, Entries(b)) + CdHeaderLen(ManifestPath)
         /\ SizeOf(c, Entries(c)) = InsertedSize(b, ManifestPath)
         /\ Entries(c) = CdStart(c) .. CdStart(c) + Cardinality(Entries(b))
         /\ Slice(c, 0, CdStart(b)) = Slice(b, 0, CdStart(b))
         /\ \A p \in Nat : p < CdStart(b) => At(c, p) = At(b, p)
         /\ At(c, CdStart(b)) = LocalHeader(Crc(content), Len(content))
         /\ Slice(c, CdStart(b) + 1, CdStart(c)) = content
         /\ \A h \in Entries(b) : Put(b, c, h) \in Entries(c) /\ At(c, Put(b, c, h)) = At(b, h)
         /\ \A g \in Entries(c) : \/ g = NewHeader(b, c)
                                  \/ \E h \in Entries(b) : g = Put(b, c, h)
         /\ NewHeader(b, c) \in Entries(c)
         /\ At(c, NewHeader(b, c))
              = CdHeader(ManifestPath, Crc(content), Len(content), CdStart(b))
         /\ ~IsZip64(Last(c)) => Parses(c) /\ ExactDirectory(c)
<1> DEFINE s    == CdStart(b)
           m    == Cardinality(Entries(b))
           d    == s + 1 + Len(content)
           data == InsertedData(b, content)
           dir  == InsertedDirectory(b, ManifestPath, content)
           size == InsertedSize(b, ManifestPath)
           head == LocalHeader(Crc(content), Len(content))
           last == CdHeader(ManifestPath, Crc(content), Len(content), s)
<1>1. /\ b \in Archives /\ content \in Payloads
      /\ InsertVerdict(b, ManifestPath, content) = "ok"
      /\ ExactDirectory(b)
      /\ c = InsertZipEntry(b, ManifestPath, content)
  BY DEF IsInsertion
<1>3. ManifestPath \in Names /\ ManifestPath \notin NonUtf8Names
  BY NameAssumption
<1>2. /\ Parses(b) /\ Crc(content) \in U32 /\ Len(content) \in U32
      /\ m + 1 \in U16 /\ s \in U32
  BY <1>1, <1>3, InsertAccepts
<1>4. /\ m \in Nat /\ s \in Nat /\ Len(content) \in Nat
      /\ EocdOffset(b) = s + m /\ Entries(b) = s .. s + m - 1
  <2>1. m \in Nat /\ m = At(b, EocdOffset(b)).count
    BY <1>1, <1>2, EntriesFinite
  <2>2. s \in Nat /\ Len(content) \in Nat
    BY <1>2, FieldsAreNaturals
  <2> QED
    BY <1>1, <1>2, <2>1, <2>2 DEF ExactDirectory, Entries
<1>5. /\ IsRebuilt(c, data, dir, m + 1, size)
      /\ Len(data) = d
      /\ Slice(data, 0, s) = Slice(b, 0, s)
      /\ \A p \in Nat : p < s => At(data, p) = At(b, p)
      /\ At(data, s) = head
      /\ Slice(data, s + 1, Len(data)) = content
      /\ Len(dir) = EocdOffset(b) - s + 1
      /\ \A p \in Nat : p < EocdOffset(b) - s => At(dir, p) = At(b, s + p)
      /\ At(dir, EocdOffset(b) - s) = last
  BY <1>1, <1>3, InsertedCells
<1> HIDE DEF s, m, data, dir, size, head, last
<1>6. EocdOffset(b) - s = m /\ Len(dir) = m + 1 /\ d \in Nat /\ s < d
  BY <1>4, <1>5
<1>7. /\ c \in Archives /\ EocdOffset(c) = d + (m + 1) /\ Len(c) = d + (m + 1) + 1
      /\ At(c, EocdOffset(c)) = Eocd(m + 1, size, d)
      /\ Last(c) = Eocd(m + 1, size, d)
      /\ CdStart(c) = d /\ Entries(c) = d .. d + (m + 1) - 1
      /\ \A p \in Nat : p < d => At(c, p) = At(data, p)
      /\ \A p \in Nat : p < m + 1 => At(c, d + p) = At(dir, p)
      /\ \A from, to \in Nat :
           from <= to /\ to <= d => Slice(c, from, to) = Slice(data, from, to)
  <2> HIDE DEF d
  <2>1. IsRebuilt(c, data, dir, m + 1, size) /\ Len(data) = d /\ Len(dir) = m + 1
    BY <1>5, <1>6 DEF d
  <2> QED
    BY <2>1, RebuiltCells, SMTT(30)
<1>8. ASSUME NEW h \in Entries(b)
      PROVE  /\ Put(b, c, h) \in Entries(c) /\ At(c, Put(b, c, h)) = At(b, h)
             /\ At(dir, h - s) = At(b, h)
  <2>1. h - s \in Nat /\ h - s < m /\ h - s < m + 1 /\ s + (h - s) = h
    BY <1>4
  <2>2. Put(b, c, h) = d + (h - s)
    BY <1>7 DEF Put, s
  <2>3. At(dir, h - s) = At(b, h)
    BY <1>5, <1>6, <2>1
  <2>4. At(c, Put(b, c, h)) = At(dir, h - s)
    BY <1>7, <2>1, <2>2
  <2>5. Put(b, c, h) \in Entries(c)
    <3> HIDE DEF d
    <3>1. \A x, y, z \in Nat : x < y => z + x \in z .. z + (y + 1) - 1
      OBVIOUS
    <3>2. d + (h - s) \in d .. d + (m + 1) - 1
      BY <1>4, <1>6, <2>1, <3>1, Zenon
    <3> QED
      BY <1>7, <2>2, <3>2
  <2> QED
    BY <2>3, <2>4, <2>5
<1>9. At(dir, m) = last /\ At(c, NewHeader(b, c)) = last
  <2>1. m < m + 1 /\ NewHeader(b, c) = d + m
    BY <1>4, <1>7 DEF NewHeader, m
  <2> QED
    BY <1>4, <1>5, <1>6, <1>7, <2>1
<1>10. ASSUME NEW p \in Nat, p < Len(dir)
       PROVE  /\ At(dir, p) \in CdHeaders
              /\ At(dir, p).name \notin NonUtf8Names
              /\ At(dir, p).offset < Len(data)
              /\ At(dir, p).csize # U32Max /\ At(dir, p).usize # U32Max
  <2>1. CASE p < m
    <3> DEFINE h == s + p
    <3>1. h \in Entries(b) /\ h - s = p
      BY <1>4, <2>1
    <3> HIDE DEF h
    <3>2. At(dir, p) = At(b, h)
      BY <1>8, <3>1
    <3>3. /\ At(b, h) \in CdHeaders
          /\ At(b, h).offset \in Nat /\ At(b, h).offset < s
      BY <1>1, <1>2, <3>1, EntryProperties DEF s
    <3>4. At(b, h).name \notin NonUtf8Names /\ At(b, h).csize # U32Max
          /\ At(b, h).usize # U32Max
      BY <1>1, <1>2, <3>1, AcceptedHeader
    <3>5. \A x, y, z \in Nat : x < y /\ y < z => x < z
      OBVIOUS
    <3>6. At(b, h).offset < Len(data)
      BY <1>4, <1>5, <1>6, <3>3, <3>5, Zenon
    <3> QED
      BY <3>2, <3>3, <3>4, <3>6
  <2>2. CASE ~(p < m)
    <3>1. p = m
      BY <1>4, <1>6, <1>10, <2>2
    <3>2. At(dir, p) = last
      BY <1>9, <3>1
    <3>3. /\ last.name = ManifestPath /\ last.offset = s
          /\ last.csize = Len(content) /\ last.usize = Len(content)
      BY DEF last, CdHeader
    <3>4. last \in CdHeaders
      <4>1. 0 \in U16
        BY FieldsAreNaturals DEF U16
      <4> QED
        BY <1>2, <1>3, <4>1, NameAssumption DEF CdHeader, CdHeaders, last
    <3>5. Len(content) # U32Max
      <4>1. Len(data) \in U32
        BY <1>5 DEF IsRebuilt
      <4>2. d <= U32Max
        BY <1>5, <4>1, FieldsAreNaturals DEF U32
      <4> QED
        BY <1>4, <4>2, FieldsAreNaturals
    <3> QED
      BY <1>3, <1>5, <1>6, <3>2, <3>3, <3>4, <3>5
  <2> QED
    BY <2>1, <2>2
<1>11. IsRebuilt(c, data, dir, Len(dir), size)
  BY <1>5, <1>6
<1>18. /\ size = SizeOf(b, Entries(b)) + CdHeaderLen(ManifestPath)
       /\ size = SizeOf(dir, 0 .. Len(dir) - 1)
  <2>1. size = SizeOf(b, Entries(b)) + CdHeaderLen(ManifestPath)
    <3>1. s .. EocdOffset(b) - 1 = Entries(b)
      BY <1>4
    <3> QED
      BY <3>1 DEF size, InsertedSize, s
  <2>2. dir \in Archives
    BY <1>11 DEF IsRebuilt
  <2>3. SizeOf(b, Entries(b)) = SizeOf(dir, 0 .. m - 1)
    <3>1. /\ 0 + m <= Len(dir) /\ 0 .. 0 + m - 1 = 0 .. m - 1
          /\ \A i \in Nat : i < m => At(b, s + i) = At(dir, 0 + i)
      BY <1>4, <1>5, <1>6
    <3>2. SizeOf(b, s .. s + m - 1) = SizeOf(dir, 0 .. 0 + m - 1)
      <4>1. 0 \in Nat /\ m \in Nat /\ s \in Nat
        BY <1>4
      <4>2. Repeats(dir, 0, b, s, m)
        BY <2>2, <3>1, <4>1 DEF Repeats
      <4> QED
        BY <4>1, <4>2, SizeShifted
    <3> QED
      BY <1>4, <3>1, <3>2
  <2>4. CellSize(dir, m) = CdHeaderLen(ManifestPath)
    BY <1>9 DEF CellSize, last, CdHeader
  <2>5. SizeOf(dir, (0 .. m - 1) \cup {m}) = SizeOf(dir, 0 .. m - 1) + CellSize(dir, m)
    <3>1. /\ 0 .. m - 1 \subseteq 0 .. Len(dir) - 1
          /\ m \in 0 .. Len(dir) - 1 /\ m \notin 0 .. m - 1
      BY <1>4, <1>6
    <3> QED
      BY <2>2, <3>1, SizeExtended
  <2>6. 0 .. Len(dir) - 1 = (0 .. m - 1) \cup {m}
    BY <1>4, <1>6
  <2> QED
    BY <2>1, <2>3, <2>4, <2>5, <2>6
<1>12. ~IsZip64(Last(c)) => Parses(c) /\ ExactDirectory(c)
  BY <1>10, <1>11, RebuiltParses
<1>13. RecordIsExact(c)
  <2>1. \A p \in Nat : p < Len(dir) => At(dir, p).sig = "CENTRAL"
    BY <1>10 DEF CdHeaders
  <2> QED
    BY <1>11, <1>18, <2>1, RebuiltRecord
<1>19. SizeOf(c, Entries(c)) = size /\ Len(c) = EocdOffset(c) + 1
  <2>1. Last(c).cdsize = size /\ Last(c).cdoffset = d
    BY <1>7 DEF Eocd
  <2>2. Len(c) - 2 = d + (m + 1) - 1 /\ Len(c) = EocdOffset(c) + 1
    BY <1>4, <1>6, <1>7
  <2> HIDE DEF d
  <2> QED
    BY <1>7, <1>13, <2>1, <2>2 DEF RecordIsExact
<1>14. /\ \A p \in Nat : p < s => At(c, p) = At(b, p)
       /\ At(c, s) = head
       /\ Slice(c, 0, s) = Slice(b, 0, s)
       /\ Slice(c, s + 1, d) = content
  <2>1. \A p \in Nat : p < s => p < d
    BY <1>4, <1>6
  <2>2. 0 \in Nat /\ 0 <= s /\ s <= d /\ s + 1 \in Nat /\ s + 1 <= d /\ d <= d
    BY <1>4, <1>6
  <2> HIDE DEF d
  <2> QED
    BY <1>4, <1>5, <1>6, <1>7, <2>1, <2>2
<1>15. /\ EocdOffset(c) = CdStart(c) + m + 1
       /\ Entries(c) = CdStart(c) .. CdStart(c) + m
       /\ Last(c) = Eocd(m + 1, size, CdStart(c))
  BY <1>4, <1>6, <1>7
<1>16. NewHeader(b, c) \in Entries(c)
  BY <1>4, <1>6, <1>7 DEF NewHeader, m
<1>17. ASSUME NEW g \in Entries(c)
       PROVE  g = NewHeader(b, c) \/ \E h \in Entries(b) : g = Put(b, c, h)
  <2>1. NewHeader(b, c) = d + m /\ \A h : Put(b, c, h) = d + (h - s)
    BY <1>7 DEF NewHeader, Put, m, s
  <2>2. CASE g = d + m
    BY <2>1, <2>2
  <2>3. CASE g # d + m
    <3> DEFINE h == s + (g - d)
    <3>1. \A u, v, w, x \in Int :
            x \in u .. u + v /\ x # u + v =>
              /\ w + (x - u) \in w .. w + v - 1
              /\ x = u + (w + (x - u) - w)
      OBVIOUS
    <3>2. g \in Int /\ d \in Int /\ s \in Int /\ m \in Int /\ g \in d .. d + m
      BY <1>4, <1>6, <1>7
    <3>3. h \in s .. s + m - 1 /\ g = d + (h - s)
      BY <2>3, <3>1, <3>2
    <3>4. h \in Entries(b)
      BY <1>4, <3>3
    <3> HIDE DEF h
    <3> QED
      BY <2>1, <3>3, <3>4
  <2> QED
    BY <2>2, <2>3
<1> QED
  BY <1>2, <1>4, <1>6, <1>7, <1>8, <1>9, <1>12, <1>13, <1>14, <1>15, <1>16, <1>17,
     <1>18, <1>19 DEF s, m, size, head, last

\* Read again, the new archive has the entries of the old, each with the range
\* it had, and the new one, which reads back and can be bound.
LEMMA InsertedEntries ==
  ASSUME NEW b, NEW content, NEW c, IsInsertion(b, content, c), ~IsZip64(Last(c))
  PROVE  /\ Parses(c)
         /\ \A h \in Entries(b) :
              /\ SameMember(b, h, c, Put(b, c, h))
              /\ BindingVerdict(b, h) = "ok" =>
                   BindingEnd(c, Put(b, c, h)) = BindingEnd(b, h)
         /\ \A h, g \in Entries(b) : Before(c, Put(b, c, h), Put(b, c, g)) <=> Before(b, h, g)
         /\ StoredInClear(At(c, NewHeader(b, c)))
         /\ ContentVerdict(c, NewHeader(b, c)) = "ok"
         /\ ContentOf(c, NewHeader(b, c)) = content
         /\ BindingVerdict(c, NewHeader(b, c)) = "ok"
         /\ BindingEnd(c, NewHeader(b, c)) = CdStart(c)
<1> DEFINE s == CdStart(b)
           d == CdStart(c)
           m == Cardinality(Entries(b))
           n == NewHeader(b, c)
<1>1. /\ c \in Archives /\ Parses(b) /\ Parses(c) /\ m \in Nat
      /\ d = s + 1 + Len(content) /\ d \in Nat
      /\ EocdOffset(c) = d + m + 1
      /\ Entries(c) = d .. d + m
      /\ \A p \in Nat : p < s => At(c, p) = At(b, p)
      /\ At(c, s) = LocalHeader(Crc(content), Len(content))
      /\ Slice(c, s + 1, d) = content
      /\ \A h \in Entries(b) : Put(b, c, h) \in Entries(c) /\ At(c, Put(b, c, h)) = At(b, h)
      /\ At(c, n) = CdHeader(ManifestPath, Crc(content), Len(content), s)
  BY InsertedLayout
<1>6. n \in Entries(c)
  BY InsertedLayout
<1>7. \A g \in Entries(c) : g = n \/ \E h \in Entries(b) : g = Put(b, c, h)
  BY InsertedLayout
<1>2. b \in Archives /\ content \in Archives /\ ExactDirectory(b)
  BY PayloadAssumption DEF IsInsertion
<1>3. /\ s \in Nat /\ Entries(b) = s .. s + m - 1 /\ Len(content) \in Nat
      /\ d <= Len(c) /\ Len(c) \in Nat /\ s < d
      /\ d \in Nat /\ m \in Nat /\ Entries(c) = d .. d + m
  <2>1. s \in Nat /\ m = At(b, EocdOffset(b)).count
    BY <1>1, <1>2, ParsedLayout, EntriesFinite
  <2>2. Len(content) \in Nat /\ d <= Len(c) /\ Len(c) \in Nat
    BY <1>1, <1>2, ArchiveLength, ParsedRecord
  <2>3. s < s + 1 + Len(content)
    BY <2>1, <2>2
  <2> QED
    BY <1>1, <2>1, <2>2, <2>3 DEF Entries
<1>4. \A h : Put(b, c, h) = d + (h - s)
  BY DEF Put
<1>5. n = d + m
  BY DEF NewHeader
<1> HIDE DEF s, d, m, n
<1>8. /\ At(c, n).offset = s /\ At(c, n).name = ManifestPath /\ At(c, n).flags = {}
      /\ At(c, n).method = 0 /\ At(c, n).csize = Len(content)
      /\ At(c, n).usize = Len(content) /\ At(c, n).crc = Crc(content)
  BY <1>1 DEF CdHeader
<1>9. \A h \in Entries(b) : At(b, h).offset \in Nat /\ At(b, h).offset < s /\ h \in Nat
  BY <1>1, <1>2, EntryProperties DEF s
<1>10. ASSUME NEW h \in Entries(b), NEW g \in Entries(b)
       PROVE  Before(c, Put(b, c, h), Put(b, c, g)) <=> Before(b, h, g)
  <2>1. d + (h - s) < d + (g - s) <=> h < g
    BY <1>3, <1>9
  <2>2. At(c, Put(b, c, h)) = At(b, h) /\ At(c, Put(b, c, g)) = At(b, g)
    BY <1>1
  <2> QED
    BY <1>4, <2>1, <2>2 DEF Before
<1>11. ASSUME NEW h \in Entries(b)
       PROVE  EntryBoundary(c, Put(b, c, h)) = EntryBoundary(b, h)
  <2> DEFINE g == Put(b, c, h)
             x == EntryBoundary(b, h)
  <2>1. /\ x \in Nat /\ x <= s
        /\ \A f \in Entries(b) : Before(b, h, f) => x <= At(b, f).offset
    BY <1>1, <1>2, BoundaryProperties DEF s
  <2>2. g \in Entries(c) /\ At(c, g) = At(b, h)
    BY <1>1
  <2>3. Before(c, g, n)
    BY <1>8, <1>9, <2>2 DEF Before
  <2>4. ASSUME NEW f \in Entries(c), Before(c, g, f)
        PROVE  x <= At(c, f).offset
    <3>1. CASE f = n
      BY <1>8, <2>1, <3>1
    <3>2. ASSUME NEW k \in Entries(b), f = Put(b, c, k)
          PROVE  x <= At(c, f).offset
      <4>1. Before(b, h, k)
        BY <1>10, <2>4, <3>2
      <4> QED
        BY <1>1, <2>1, <3>2, <4>1
    <3> QED
      BY <1>7, <3>1, <3>2
  <2>5. \E f \in Entries(c) : Before(c, g, f) /\ At(c, f).offset = x
    <3>1. CASE x = s
      BY <1>6, <1>8, <2>3, <3>1
    <3>2. ASSUME NEW k \in Entries(b), Before(b, h, k), At(b, k).offset = x
          PROVE  \E f \in Entries(c) : Before(c, g, f) /\ At(c, f).offset = x
      BY <1>1, <1>10, <3>2
    <3>3. (\E k \in Entries(b) : Before(b, h, k) /\ At(b, k).offset = x) \/ x = s
      BY <1>1, <1>2, BoundaryReached DEF s
    <3> QED
      BY <3>1, <3>2, <3>3
  <2> HIDE DEF g, x
  <2>6. EntryBoundary(c, g) = x
    BY <1>1, <2>1, <2>2, <2>4, <2>5, BoundaryIs
  <2> QED
    BY <2>6 DEF g, x
<1>12. ASSUME NEW h \in Entries(b)
       PROVE  /\ SameMember(b, h, c, Put(b, c, h))
              /\ BindingVerdict(b, h) = "ok" =>
                   BindingEnd(c, Put(b, c, h)) = BindingEnd(b, h)
  <2> DEFINE g    == Put(b, c, h)
             from == At(b, h).offset
             size == EntryBoundary(b, h) - from
  <2>1. g \in Entries(c) /\ At(c, g) = At(b, h) /\ EntryBoundary(c, g) = EntryBoundary(b, h)
    BY <1>1, <1>11
  <2>2. /\ from \in Nat /\ EntryBoundary(b, h) \in Nat /\ from <= EntryBoundary(b, h)
        /\ EntryBoundary(b, h) <= s /\ At(b, h) \in CdHeaders
    BY <1>1, <1>2, EntryProperties, BoundaryProperties DEF s
  <2>3. SameCells(b, from, c, from, size)
    <3> SUFFICES ASSUME NEW i \in 0 .. size - 1
                 PROVE  At(c, from + i) = At(b, from + i)
      BY DEF SameCells
    <3>1. \A x, y, z \in Nat : x <= y /\ y <= z =>
            \A j \in 0 .. y - x - 1 : x + j \in Nat /\ x + j < z
      OBVIOUS
    <3> HIDE DEF from
    <3>2. from + i \in Nat /\ from + i < s
      BY <1>3, <2>2, <3>1, Zenon
    <3> QED
      BY <1>1, <3>2
  <2> HIDE DEF g
  <2> QED
    BY <1>1, <1>2, <2>1, <2>3, StayedMember DEF g
<1>13. EntryBoundary(c, n) = d
  <2>1. \A f \in Entries(c) : ~Before(c, n, f)
    <3>1. ~Before(c, n, n)
      <4>1. n \in Nat /\ At(c, n).offset \in Nat
        BY <1>1, <1>3, <1>5, <1>8, SMTT(30)
      <4> QED
        BY <4>1 DEF Before
    <3>2. ASSUME NEW h \in Entries(b)
          PROVE  ~Before(c, n, Put(b, c, h))
      BY <1>1, <1>3, <1>8, <1>9 DEF Before
    <3> QED
      BY <1>7, <3>1, <3>2
  <2> QED
    BY <1>1, <1>6, <2>1, BoundaryIs DEF d
<1>14. At(c, s).sig = "LOCAL" /\ At(c, s).flags = {} /\ At(c, s).extra = 0
       /\ At(c, s).crc = Crc(content) /\ At(c, s).csize = Len(content)
       /\ At(c, s).usize = Len(content)
  BY <1>1 DEF LocalHeader
<1>15. ContentStart(c, n) = s + 1 /\ ContentEnd(c, n) = d
  <2>1. ContentStart(c, n) = s + 1 + 0
    BY <1>8, <1>14 DEF ContentStart
  <2>2. ContentStart(c, n) = s + 1
    BY <1>3, <2>1
  <2> QED
    BY <1>1, <1>8, <2>2 DEF ContentEnd
<1>16. ContentVerdict(c, n) = "ok"
  <2>1. HasSig(c, s, "LOCAL")
    BY <1>3, <1>14 DEF HasSig
  <2>2. ~(d > EntryBoundary(c, n)) /\ ~(d > Len(c))
    BY <1>1, <1>3, <1>13
  <2> QED
    BY <1>8, <1>14, <1>15, <2>1, <2>2 DEF ContentVerdict
<1>17. ContentOf(c, n) = content
  BY <1>1, <1>15 DEF ContentOf
<1>18. BindingVerdict(c, n) = "ok" /\ BindingEnd(c, n) = d
  <2>1. ~Streamed(c, n)
    BY <1>8 DEF Streamed
  <2>2. SameSums(At(c, At(c, n).offset), At(c, n))
    BY <1>8, <1>14 DEF SameSums
  <2> QED
    BY <1>15, <1>16, <2>1, <2>2 DEF BindingVerdict, BindingEnd
<1>19. StoredInClear(At(c, n))
  BY <1>8 DEF StoredInClear
<1> QED
  BY <1>1, <1>10, <1>12, <1>16, <1>17, <1>18, <1>19 DEF n, d

\* An insert into an archive with no manifest keeps every member, and what it
\* put in is all there is at the manifest path.
LEMMA InsertKeepsMembers ==
  ASSUME NEW b, NEW content, NEW c, IsInsertion(b, content, c), ~IsZip64(Last(c))
  PROVE  /\ c \in Archives /\ Parses(b) /\ Parses(c) /\ ExactDirectory(c)
         /\ KeepsMembers(b, c)
         /\ Named(c, ManifestPath) = {NewHeader(b, c)}
         /\ FirstNamed(c, ManifestPath) = NewHeader(b, c)
         /\ ReadVerdict(c, ManifestPath) = "ok"
         /\ ReadContent(c, ManifestPath) = content
         /\ BindingVerdict(c, NewHeader(b, c)) = "ok"
         /\ Members(b) = Entries(b)
         /\ Members(c) = {Put(b, c, h) : h \in Entries(b)}
<1> DEFINE n == NewHeader(b, c)
<1>1. /\ c \in Archives /\ Parses(b) /\ ExactDirectory(c)
      /\ \A h \in Entries(b) : Put(b, c, h) \in Entries(c) /\ At(c, Put(b, c, h)) = At(b, h)
      /\ \A g \in Entries(c) : g = n \/ \E h \in Entries(b) : g = Put(b, c, h)
      /\ n \in Entries(c) /\ At(c, n).name = ManifestPath
  BY InsertedLayout DEF CdHeader
<1>2. /\ Parses(c)
      /\ \A h \in Entries(b) : SameMember(b, h, c, Put(b, c, h))
      /\ \A h, g \in Entries(b) : Before(c, Put(b, c, h), Put(b, c, g)) <=> Before(b, h, g)
      /\ StoredInClear(At(c, n))
      /\ ContentVerdict(c, n) = "ok" /\ ContentOf(c, n) = content
      /\ BindingVerdict(c, n) = "ok"
  BY InsertedEntries
<1>3. b \in Archives /\ \A h \in Entries(b) : At(b, h).name # ManifestPath
  BY DEF IsInsertion, Named
<1> HIDE DEF n
<1>4. Named(c, ManifestPath) = {n}
  BY <1>1, <1>2, <1>3 DEF Named
<1>5. FirstNamed(c, ManifestPath) = n
  BY <1>4 DEF FirstNamed, FirstOf
<1>6. ReadVerdict(c, ManifestPath) = "ok"
  BY <1>2, <1>4, <1>5 DEF ReadVerdict, ManifestEntryVerdict, Parses
<1>7. ReadContent(c, ManifestPath) = content
  BY <1>2, <1>5 DEF ReadContent
<1>8. Members(b) = Entries(b)
  BY <1>3 DEF Members, Named
<1>9. Members(c) = {Put(b, c, h) : h \in Entries(b)}
  <2>1. \A h \in Entries(b) : Put(b, c, h) # n
    BY <1>1, <1>3
  <2> QED
    BY <1>1, <1>2, <1>4, <2>1 DEF Members
<1>10. KeepsMembers(b, c)
  <2> DEFINE old == InArchiveOrder(b, Members(b))
             new == InArchiveOrder(c, Members(c))
             t   == [k \in 1 .. Len(old) |-> Put(b, c, old[k])]
             m   == Len(old)
  <2>1. /\ old \in [1 .. m -> Entries(b)] /\ m \in Nat
        /\ \A j, k \in 1 .. m : j < k <=> Before(b, old[j], old[k])
        /\ \A h \in Entries(b) : \E k \in 1 .. m : old[k] = h
    BY <1>2, <1>1, <1>3, <1>8, ArchiveOrder
  <2>2. \A k \in 1 .. m : t[k] = Put(b, c, old[k]) /\ old[k] \in Entries(b)
    BY <2>1
  <2>3. t \in [1 .. m -> Members(c)]
    BY <1>9, <2>1
  <2>4. ListsInOrder(c, Members(c), m, t)
    <3> HIDE DEF old, t, m
    <3>1. \A j, k \in 1 .. m : j < k => Before(c, t[j], t[k])
      BY <1>2, <2>1, <2>2
    <3>2. \A g \in Members(c) : \E k \in 1 .. m : t[k] = g
      BY <1>9, <2>1, <2>2
    <3> QED
      BY <2>1, <2>3, <3>1, <3>2 DEF ListsInOrder
  <2>5. Members(c) \subseteq Entries(c)
    BY DEF Members
  <2>6. new = t
    <3> HIDE DEF t, m
    <3> QED
      BY <1>1, <1>2, <2>4, <2>5, OrderIsUnique
  <2>7. Len(new) = m
    BY <2>1, <2>6
  <2> HIDE DEF old, new, t, m
  <2> QED
    BY <1>2, <2>2, <2>6, <2>7 DEF KeepsMembers, old, new, m
<1> QED
  BY <1>1, <1>2, <1>4, <1>5, <1>6, <1>7, <1>8, <1>9, <1>10 DEF n

-----------------------------------------------------------------------------
(* What fill_manifest writes                                               *)

\* c is b with the content put in the place of the manifest's.
IsFilling(b, content, c) ==
  /\ b \in Archives /\ content \in Payloads
  /\ FillVerdict(b, ManifestPath, content) = "ok"
  /\ c = FillZipEntry(b, ManifestPath, content)

\* Of the cells, those of the content become the new content, the two headers
\* get its CRC, and no other changes.
LEMMA FilledCells ==
  ASSUME NEW b, NEW content, NEW c, IsFilling(b, content, c)
  PROVE  LET h     == FirstNamed(b, ManifestPath)
             lh    == At(b, h).offset
             start == ContentStart(b, h)
         IN /\ start \in Nat /\ lh < start /\ ContentEnd(b, h) \in Nat
            /\ start <= ContentEnd(b, h) /\ ContentEnd(b, h) <= CdStart(b)
            /\ \A p \in Nat : /\ p < Len(b) /\ p # lh /\ p # h
                              /\ p < start \/ ContentEnd(b, h) <= p
                              => At(c, p) = At(b, p)
            /\ At(c, lh) = [At(b, lh) EXCEPT !.crc = Crc(content)]
            /\ At(c, h) = [At(b, h) EXCEPT !.crc = Crc(content)]
            /\ Slice(c, start, ContentEnd(b, h)) = content
<1> DEFINE h     == FirstNamed(b, ManifestPath)
           lh    == At(b, h).offset
           start == ContentStart(b, h)
           end   == ContentEnd(b, h)
<1>1. b \in Archives /\ content \in Payloads /\ content \in Archives
  BY PayloadAssumption DEF IsFilling
<1>2. /\ Parses(b) /\ h \in Entries(b)
      /\ ContentVerdict(b, h) = "ok" /\ Len(content) = At(b, h).csize
  BY FillAccepts DEF IsFilling
<1>3. /\ h \in Nat /\ CdStart(b) <= h /\ h < EocdOffset(b)
      /\ lh \in Nat /\ lh < CdStart(b)
  BY <1>1, <1>2, EntryProperties
<1>4. /\ CdStart(b) \in Nat /\ Len(b) \in Nat
      /\ EocdOffset(b) \in Nat /\ EocdOffset(b) < Len(b)
  BY <1>1, <1>2, ParsedLayout, ArchiveLength
<1>5. Len(content) \in Nat
  BY <1>1, ArchiveLength
<1>6. /\ start \in Nat /\ lh < start /\ end \in Nat
      /\ end = start + Len(content) /\ end <= CdStart(b)
  <2>1. /\ start \in Nat /\ lh < start /\ end \in Nat
        /\ end = start + At(b, h).csize /\ end <= EntryBoundary(b, h)
    BY <1>1, <1>2, ContentLocated
  <2>2. EntryBoundary(b, h) \in Nat /\ EntryBoundary(b, h) <= CdStart(b)
    BY <1>1, <1>2, BoundaryProperties
  <2>3. \A x, y, z \in Nat : x <= y /\ y <= z => x <= z
    OBVIOUS
  <2>4. end <= CdStart(b)
    BY <1>4, <2>1, <2>2, <2>3, Zenon
  <2> QED
    BY <1>2, <2>1, <2>4
<1>7. c = [i \in 1 .. Len(b) |->
             IF i - 1 \in start .. start + Len(content) - 1
             THEN content[i - start]
             ELSE IF i - 1 \in {lh, h}
             THEN [b[i] EXCEPT !.crc = Crc(content)]
             ELSE b[i]]
  BY DEF IsFilling, FillZipEntry
<1>8. c \in Archives /\ Len(c) = Len(b)
  BY FillCells DEF IsFilling
<1> HIDE DEF h, lh, start, end
<1>9. ASSUME NEW p \in Nat, p < Len(b), NEW i \in Nat, i = p + 1
      PROVE  c[i] = IF p \in start .. start + Len(content) - 1
                    THEN content[i - start]
                    ELSE IF p \in {lh, h}
                    THEN [b[i] EXCEPT !.crc = Crc(content)]
                    ELSE b[i]
  <2>1. i \in 1 .. Len(b) /\ i - 1 = p
    BY <1>4, <1>9
  <2> DEFINE cell(k, q) == IF q \in start .. start + Len(content) - 1
                           THEN content[k - start]
                           ELSE IF q \in {lh, h}
                           THEN [b[k] EXCEPT !.crc = Crc(content)]
                           ELSE b[k]
  <2>2. c = [k \in 1 .. Len(b) |-> cell(k, k - 1)]
    BY <1>7
  <2> HIDE DEF cell
  <2>3. \A k \in 1 .. Len(b) : c[k] = cell(k, k - 1)
    BY <2>2, Zenon
  <2>4. c[i] = cell(i, p)
    BY <2>1, <2>3, Zenon
  <2> QED
    BY <2>4 DEF cell
<1>10. start <= end
  BY <1>5, <1>6
<1>11. ASSUME NEW p \in Nat, p < Len(b), p # lh, p # h, p < start \/ end <= p
       PROVE  At(c, p) = At(b, p)
  <2>1. p \notin start .. start + Len(content) - 1
    BY <1>5, <1>6, <1>11
  <2> DEFINE i == p + 1
  <2>2. i \in Nat /\ i = p + 1 /\ At(c, p) = c[i] /\ At(b, p) = b[i]
    BY DEF At
  <2> HIDE DEF i
  <2> QED
    BY <1>9, <1>11, <2>1, <2>2
<1>12. At(c, lh) = [At(b, lh) EXCEPT !.crc = Crc(content)]
  <2>1. lh \notin start .. start + Len(content) - 1 /\ lh < Len(b)
    BY <1>3, <1>4, <1>5, <1>6
  <2> QED
    BY <1>3, <1>9, <2>1 DEF At
<1>13. At(c, h) = [At(b, h) EXCEPT !.crc = Crc(content)]
  <2>1. h \notin start .. start + Len(content) - 1 /\ h < Len(b)
    BY <1>3, <1>4, <1>5, <1>6
  <2> QED
    BY <1>3, <1>9, <2>1 DEF At
<1>14. Slice(c, start, end) = content
  <2> DEFINE sl == Slice(c, start, end)
  <2>1. /\ sl \in Archives /\ Len(sl) = end - start
        /\ \A i \in 1 .. end - start : sl[i] = c[start + i]
    <3>1. end <= Len(c)
      BY <1>3, <1>4, <1>6, <1>8
    <3> QED
      BY <1>6, <1>8, <1>10, <3>1, SliceProperties
  <2>2. end - start = Len(content)
    BY <1>5, <1>6
  <2>3. ASSUME NEW i \in 1 .. Len(content)
        PROVE  c[start + i] = content[i]
    <3> DEFINE p == start + i - 1
               k == start + i
    <3>1. /\ p \in Nat /\ p < Len(b) /\ k \in Nat /\ k = p + 1 /\ k - start = i
          /\ p \in start .. start + Len(content) - 1
      BY <1>3, <1>4, <1>5, <1>6
    <3> HIDE DEF p, k
    <3>2. c[k] = content[i]
      BY <1>9, <3>1
    <3> QED
      BY <3>2 DEF k
  <2> HIDE DEF sl
  <2>4. DOMAIN sl = 1 .. Len(content) /\ DOMAIN content = 1 .. Len(content)
    BY <1>1, <2>1, <2>2, ArchiveLength
  <2>5. \A i \in DOMAIN content : sl[i] = content[i]
    BY <2>1, <2>2, <2>3, <2>4
  <2>6. sl \in Seq(Cells) /\ content \in Seq(Cells) /\ Len(sl) = Len(content)
    BY <1>1, <2>1, <2>2 DEF Archives
  <2>7. sl = content
    BY <2>4, <2>5, <2>6, SeqEqual
  <2> QED
    BY <2>7 DEF sl
<1> QED
  BY <1>6, <1>10, <1>11, <1>12, <1>13, <1>14 DEF h, lh, start, end

\* The directory stays where it is, and with it every boundary; of its headers
\* one has another CRC.
LEMMA FilledLayout ==
  ASSUME NEW b, NEW content, NEW c, IsFilling(b, content, c)
  PROVE  LET h == FirstNamed(b, ManifestPath)
         IN /\ c \in Archives /\ Parses(b) /\ Parses(c) /\ h \in Entries(b)
            /\ CdStart(c) = CdStart(b) /\ EocdOffset(c) = EocdOffset(b)
            /\ At(c, EocdOffset(c)) = At(b, EocdOffset(b))
            /\ Entries(c) = Entries(b) /\ Members(c) = Members(b)
            /\ Named(c, ManifestPath) = Named(b, ManifestPath)
            /\ FirstNamed(c, ManifestPath) = h
            /\ \A g \in Entries(b) :
                 At(c, g) = IF g = h THEN [At(b, g) EXCEPT !.crc = Crc(content)]
                            ELSE At(b, g)
            /\ \A g \in Entries(b) : EntryBoundary(c, g) = EntryBoundary(b, g)
            /\ \A hs : hs \subseteq Entries(b) =>
                 InArchiveOrder(c, hs) = InArchiveOrder(b, hs)
<1> DEFINE h == FirstNamed(b, ManifestPath)
<1>1. /\ b \in Archives /\ content \in Payloads
      /\ FillVerdict(b, ManifestPath, content) = "ok"
      /\ c = FillZipEntry(b, ManifestPath, content)
  BY DEF IsFilling
<1>2. Parses(b) /\ h \in Named(b, ManifestPath) /\ h \in Entries(b)
  BY <1>1, FillAccepts
<1>3. /\ c \in Archives /\ Len(c) = Len(b)
      /\ \A p \in CdStart(b) .. Len(b) - 1 :
           At(c, p) = IF p = h THEN [At(b, p) EXCEPT !.crc = Crc(content)]
                      ELSE At(b, p)
  BY <1>1, FillCells
<1>4. /\ CdStart(c) = CdStart(b) /\ EocdOffset(c) = EocdOffset(b)
      /\ At(c, EocdOffset(c)) = At(b, EocdOffset(b)) /\ EocdPositions(c) # {}
      /\ Entries(c) = Entries(b)
      /\ \A f, g \in Entries(b) : Before(c, f, g) <=> Before(b, f, g)
      /\ \A n : Named(c, n) = Named(b, n)
      /\ \A n : Named(b, n) # {} => FirstNamed(c, n) = FirstNamed(b, n)
  BY <1>1, FillKeepsLayout
<1> HIDE DEF h
<1>5. \A g \in Entries(b) :
        At(c, g) = IF g = h THEN [At(b, g) EXCEPT !.crc = Crc(content)] ELSE At(b, g)
  <2> SUFFICES ASSUME NEW g \in Entries(b)
               PROVE  g \in CdStart(b) .. Len(b) - 1
    BY <1>3
  <2>1. /\ g \in Nat /\ CdStart(b) <= g /\ g < EocdOffset(b)
        /\ CdStart(b) \in Nat /\ EocdOffset(b) \in Nat /\ EocdOffset(b) < Len(b)
        /\ Len(b) \in Nat
    BY <1>1, <1>2, EntryProperties, ParsedLayout, ArchiveLength
  <2> QED
    BY <2>1
<1>6. ASSUME NEW g \in Entries(b)
      PROVE  /\ At(c, g).sig = At(b, g).sig /\ At(c, g).name = At(b, g).name
             /\ At(c, g).offset = At(b, g).offset /\ At(c, g).csize = At(b, g).csize
             /\ At(c, g).usize = At(b, g).usize
  <2>1. At(b, g) \in CdHeaders
    BY <1>1, <1>2, EntryProperties
  <2> QED
    BY <1>5, <2>1 DEF CdHeaders
<1>7. Parses(c)
  <2>1. /\ ~IsZip64(At(b, EocdOffset(b))) /\ ~(CdStart(b) > EocdOffset(b))
    BY <1>2 DEF Parses, ParseVerdict
  <2>2. \A g \in Entries(b) : HeaderVerdict(b, g) = "ok"
    BY <1>1, <1>2, ParsedLayout
  <2>3. ASSUME NEW g \in Entries(c)
        PROVE  HeaderVerdict(c, g) = "ok"
    <3>1. g \in Entries(b) /\ HeaderVerdict(b, g) = "ok"
      BY <1>4, <2>2, <2>3
    <3>2. HasSig(c, g, "CENTRAL") <=> HasSig(b, g, "CENTRAL")
      BY <1>3, <1>6, <3>1 DEF HasSig
    <3> QED
      BY <1>4, <1>6, <3>1, <3>2 DEF HeaderVerdict
  <2> QED
    BY <1>4, <2>1, <2>3 DEF Parses, ParseVerdict
<1>8. Members(c) = Members(b) /\ FirstNamed(c, ManifestPath) = h
  BY <1>2, <1>4 DEF Members, h
<1>9. ASSUME NEW g \in Entries(b)
      PROVE  EntryBoundary(c, g) = EntryBoundary(b, g)
  <2> DEFINE m == EntryBoundary(b, g)
  <2>1. /\ m \in Nat
        /\ \A f \in Entries(b) : Before(b, g, f) => m <= At(b, f).offset
    BY <1>1, <1>2, BoundaryProperties
  <2>2. \/ \E f \in Entries(b) : Before(b, g, f) /\ At(b, f).offset = m
        \/ m = CdStart(b)
    BY <1>1, <1>2, BoundaryReached
  <2> HIDE DEF m
  <2>3. /\ \A f \in Entries(c) : Before(c, g, f) => m <= At(c, f).offset
        /\ \/ \E f \in Entries(c) : Before(c, g, f) /\ At(c, f).offset = m
           \/ m = CdStart(c)
    BY <1>4, <1>6, <2>1, <2>2
  <2>4. EntryBoundary(c, g) = m
    BY <1>3, <1>4, <1>7, <2>1, <2>3, BoundaryIs
  <2> QED
    BY <2>4 DEF m
<1>10. ASSUME NEW hs, hs \subseteq Entries(b)
       PROVE  InArchiveOrder(c, hs) = InArchiveOrder(b, hs)
  <2>1. hs \subseteq Entries(c) /\ \A f, g \in hs : Before(c, f, g) <=> Before(b, f, g)
    BY <1>3, <1>4, <1>10
  <2> QED
    BY <1>1, <1>2, <1>3, <1>7, <1>10, <2>1, SameOrder
<1> QED
  BY <1>2, <1>3, <1>4, <1>5, <1>7, <1>8, <1>9, <1>10 DEF h

\* Every entry but the filled one keeps all that is known of it; that one can be
\* read, and bound if it could be and has no descriptor.
LEMMA FilledEntries ==
  ASSUME NEW b, NEW content, NEW c, IsFilling(b, content, c)
  PROVE  LET h == FirstNamed(b, ManifestPath)
         IN /\ \A g \in Entries(b) \ {h} :
                 /\ SameMember(b, g, c, g)
                 /\ BindingVerdict(b, g) = "ok" => BindingEnd(c, g) = BindingEnd(b, g)
            /\ ManifestEntryVerdict(c, h) = "ok" /\ ContentOf(c, h) = content
            /\ BindingVerdict(b, h) = "ok" /\ ~Streamed(b, h) =>
                 BindingVerdict(c, h) = "ok" /\ BindingEnd(c, h) = BindingEnd(b, h)
<1> DEFINE h     == FirstNamed(b, ManifestPath)
           lh    == At(b, h).offset
           start == ContentStart(b, h)
           end   == ContentEnd(b, h)
           s     == CdStart(b)
<1>1. /\ start \in Nat /\ lh < start /\ end \in Nat
      /\ start <= end /\ end <= s
      /\ \A p \in Nat : /\ p < Len(b) /\ p # lh /\ p # h
                        /\ p < start \/ end <= p
                        => At(c, p) = At(b, p)
      /\ At(c, lh) = [At(b, lh) EXCEPT !.crc = Crc(content)]
      /\ At(c, h) = [At(b, h) EXCEPT !.crc = Crc(content)]
      /\ Slice(c, start, end) = content
  BY FilledCells
<1>2. /\ c \in Archives /\ Parses(b) /\ Parses(c) /\ h \in Entries(b)
      /\ Entries(c) = Entries(b)
      /\ \A g \in Entries(b) :
           At(c, g) = IF g = h THEN [At(b, g) EXCEPT !.crc = Crc(content)]
                      ELSE At(b, g)
      /\ \A g \in Entries(b) : EntryBoundary(c, g) = EntryBoundary(b, g)
  BY FilledLayout
<1>3. /\ b \in Archives /\ content \in Payloads
      /\ FillVerdict(b, ManifestPath, content) = "ok"
      /\ c = FillZipEntry(b, ManifestPath, content)
  BY DEF IsFilling
<1>4. /\ h \in Nat /\ s <= h /\ lh \in Nat /\ lh < s /\ At(b, h) \in CdHeaders
      /\ s \in Nat /\ s <= Len(b) /\ Len(b) \in Nat
  BY <1>2, <1>3, EntryProperties, ParsedRecord, ArchiveLength
<1>5. /\ ContentVerdict(b, h) = "ok" /\ At(b, lh) \in LocalHeaders
      /\ HasSig(b, lh, "LOCAL") /\ end <= EntryBoundary(b, h)
      /\ EntryBoundary(b, h) \in Nat
  BY <1>2, <1>3, FillAccepts, ContentLocated, BoundaryProperties
<1>6. Len(c) = Len(b)
  BY <1>3, FillCells
<1>7. StoredInClear(At(b, h))
  <2>1. ReadVerdict(b, ManifestPath) = "ok"
    BY <1>3 DEF FillVerdict
  <2>2. ManifestEntryVerdict(b, h) = "ok"
    BY <1>2, <2>1 DEF ReadVerdict
  <2> QED
    BY <2>2 DEF ManifestEntryVerdict
<1> HIDE DEF h, lh, start, end, s
<1>8. ASSUME NEW g \in Entries(b) \ {h}
      PROVE  /\ SameMember(b, g, c, g)
             /\ BindingVerdict(b, g) = "ok" => BindingEnd(c, g) = BindingEnd(b, g)
  <2> DEFINE lo == At(b, g).offset
             hi == EntryBoundary(b, g)
  <2>1. /\ lo \in Nat /\ hi \in Nat /\ lo <= hi /\ hi <= s /\ g \in Nat
        /\ \A f \in Entries(b) : Before(b, g, f) => hi <= At(b, f).offset
    BY <1>2, <1>3, EntryProperties, BoundaryProperties DEF s
  <2>2. At(c, g) = At(b, g) /\ EntryBoundary(c, g) = hi
    BY <1>2
  <2>3. hi <= lh \/ end <= lo
    <3>1. Before(b, g, h) \/ Before(b, h, g)
      BY <1>4, <2>1 DEF Before, lh
    <3>2. CASE Before(b, g, h)
      BY <1>2, <2>1, <3>2 DEF lh
    <3>3. CASE Before(b, h, g)
      <4>1. EntryBoundary(b, h) <= lo
        BY <1>2, <1>3, <3>3, BoundaryProperties
      <4>2. \A x, y, z \in Nat : x <= y /\ y <= z => x <= z
        OBVIOUS
      <4> QED
        BY <1>1, <1>5, <2>1, <4>1, <4>2, Zenon
    <3> QED
      BY <3>1, <3>2, <3>3
  <2>4. SameCells(b, lo, c, lo, hi - lo)
    <3> SUFFICES ASSUME NEW i \in 0 .. hi - lo - 1
                 PROVE  At(c, lo + i) = At(b, lo + i)
      BY DEF SameCells
    <3> HIDE DEF lo, hi
    <3>1. lo + i \in Nat /\ lo <= lo + i /\ lo + i < hi
      BY <2>1
    <3> DEFINE p == lo + i
    <3> HIDE DEF p
    <3>2. p \in Nat /\ lo <= p /\ p < hi
      BY <3>1 DEF p
    <3>3. /\ p < Len(b) /\ p # lh /\ p # h
          /\ p < start \/ end <= p
      BY <1>1, <1>4, <2>1, <2>3, <3>2
    <3>4. At(c, p) = At(b, p)
      BY <1>1, <3>2, <3>3
    <3> QED
      BY <3>4 DEF p
  <2> QED
    BY <1>2, <1>3, <2>2, <2>4, StayedMember
<1>9. /\ At(c, h).flags = At(b, h).flags /\ At(c, h).method = At(b, h).method
      /\ At(c, h).csize = At(b, h).csize /\ At(c, h).usize = At(b, h).usize
      /\ At(c, h).offset = lh /\ At(c, h).crc = Crc(content)
  BY <1>1, <1>4 DEF CdHeaders, lh
<1>10. /\ At(c, lh).sig = "LOCAL" /\ At(c, lh).flags = At(b, lh).flags
       /\ At(c, lh).extra = At(b, lh).extra /\ At(c, lh).csize = At(b, lh).csize
       /\ At(c, lh).usize = At(b, lh).usize /\ At(c, lh).crc = Crc(content)
  BY <1>1, <1>5 DEF LocalHeaders
<1>11. ContentStart(c, h) = start /\ ContentEnd(c, h) = end
  BY <1>9, <1>10 DEF ContentStart, ContentEnd, start, end, lh
<1>12. ContentVerdict(c, h) = "ok"
  <2>1. HasSig(c, lh, "LOCAL")
    BY <1>5, <1>6, <1>10 DEF HasSig
  <2>2. /\ At(b, lh).flags = At(b, h).flags
        /\ ~(end > EntryBoundary(b, h)) /\ ~(end > Len(b))
    BY <1>5 DEF ContentVerdict, lh, end
  <2> QED
    BY <1>2, <1>6, <1>9, <1>10, <1>11, <2>1, <2>2 DEF ContentVerdict
<1>13. ManifestEntryVerdict(c, h) = "ok"
  BY <1>7, <1>9, <1>12 DEF ManifestEntryVerdict, StoredInClear
<1>14. ContentOf(c, h) = content
  BY <1>1, <1>11 DEF ContentOf
<1>15. ASSUME BindingVerdict(b, h) = "ok", ~Streamed(b, h)
       PROVE  BindingVerdict(c, h) = "ok" /\ BindingEnd(c, h) = BindingEnd(b, h)
  <2>1. ~Streamed(c, h)
    BY <1>9, <1>15 DEF Streamed
  <2>2. SameSums(At(b, lh), At(b, h))
    BY <1>5, <1>15 DEF BindingVerdict, lh
  <2>3. SameSums(At(c, At(c, h).offset), At(c, h))
    BY <1>9, <1>10, <2>2 DEF SameSums
  <2> QED
    BY <1>11, <1>12, <1>15, <2>1, <2>3 DEF BindingVerdict, BindingEnd, end
<1> QED
  BY <1>8, <1>13, <1>14, <1>15 DEF h

\* A fill keeps the members, and the store it put in is read back.
LEMMA FillKeepsMembers ==
  ASSUME NEW b, NEW content, NEW c, IsFilling(b, content, c)
  PROVE  /\ c \in Archives /\ Parses(b) /\ Parses(c)
         /\ ExactDirectory(b) => ExactDirectory(c)
         /\ KeepsMembers(b, c)
         /\ ReadVerdict(b, ManifestPath) = "ok"
         /\ ReadVerdict(c, ManifestPath) = "ok"
         /\ ReadContent(c, ManifestPath) = content
         /\ Len(ReadContent(b, ManifestPath)) = Len(content)
<1> DEFINE h == FirstNamed(b, ManifestPath)
<1>1. /\ b \in Archives /\ content \in Payloads
      /\ FillVerdict(b, ManifestPath, content) = "ok"
  BY DEF IsFilling
<1>2. /\ c \in Archives /\ Parses(b) /\ Parses(c) /\ h \in Entries(b)
      /\ CdStart(c) = CdStart(b) /\ EocdOffset(c) = EocdOffset(b)
      /\ Entries(c) = Entries(b) /\ Members(c) = Members(b)
      /\ Named(c, ManifestPath) = Named(b, ManifestPath)
      /\ FirstNamed(c, ManifestPath) = h
      /\ \A hs : hs \subseteq Entries(b) =>
           InArchiveOrder(c, hs) = InArchiveOrder(b, hs)
  BY FilledLayout
<1>3. /\ \A g \in Entries(b) \ {h} : SameMember(b, g, c, g)
      /\ ManifestEntryVerdict(c, h) = "ok" /\ ContentOf(c, h) = content
  BY FilledEntries
<1>4. h \in Named(b, ManifestPath)
  BY <1>1, FillAccepts
<1> HIDE DEF h
<1>5. ReadVerdict(b, ManifestPath) = "ok"
  BY <1>1 DEF FillVerdict
<1>6. ReadVerdict(c, ManifestPath) = "ok" /\ ReadContent(c, ManifestPath) = content
  BY <1>2, <1>3, <1>4 DEF ReadVerdict, ReadContent
<1>7. ExactDirectory(b) => ExactDirectory(c)
  BY <1>2 DEF ExactDirectory
<1>8. KeepsMembers(b, c)
  <2> DEFINE old == InArchiveOrder(b, Members(b))
  <2>1. Members(b) \subseteq Entries(b) /\ h \notin Members(b)
    BY <1>4 DEF Members
  <2>2. InArchiveOrder(c, Members(c)) = old
    BY <1>2, <2>1
  <2>3. \A k \in 1 .. Len(old) : old[k] \in Members(b)
    BY <1>1, <1>2, <2>1, ArchiveOrder, ElementOfSeq
  <2> HIDE DEF old
  <2>4. \A k \in 1 .. Len(old) : SameMember(b, old[k], c, old[k])
    BY <1>3, <2>1, <2>3
  <2> QED
    BY <2>2, <2>4 DEF KeepsMembers, old
<1>9. Len(ReadContent(b, ManifestPath)) = Len(content)
  <2> DEFINE from == ContentStart(b, h)
             to   == ContentEnd(b, h)
  <2>1. /\ from \in Nat /\ to \in Nat /\ from <= to /\ to <= CdStart(b)
        /\ Slice(c, from, to) = content
    BY FilledCells DEF h
  <2>2. CdStart(b) \in Nat /\ CdStart(b) <= Len(b) /\ Len(b) \in Nat /\ Len(c) = Len(b)
    BY <1>1, <1>2, ParsedRecord, ArchiveLength, FillCells DEF IsFilling
  <2> HIDE DEF from, to
  <2>3. to <= Len(b) /\ to <= Len(c)
    BY <2>1, <2>2
  <2>4. Len(Slice(b, from, to)) = to - from /\ Len(Slice(c, from, to)) = to - from
    BY <1>1, <1>2, <2>1, <2>3, SliceProperties
  <2> QED
    BY <2>1, <2>4 DEF ReadContent, ContentOf, h, from, to
<1> QED
  BY <1>2, <1>5, <1>6, <1>7, <1>8, <1>9

\* A fill changes the size of no header.
LEMMA FillKeepsSize ==
  ASSUME NEW b, NEW content, NEW c, IsFilling(b, content, c)
  PROVE  SizeOf(c, Entries(c)) = SizeOf(b, Entries(b))
<1> DEFINE h == FirstNamed(b, ManifestPath)
<1>1. /\ b \in Archives /\ Parses(b) /\ Entries(c) = Entries(b)
      /\ \A g \in Entries(b) :
           At(c, g) = IF g = h THEN [At(b, g) EXCEPT !.crc = Crc(content)]
                      ELSE At(b, g)
  BY FilledLayout DEF IsFilling
<1>2. \A g \in Entries(b) : At(b, g) \in CdHeaders
  BY <1>1, EntryProperties
<1> HIDE DEF h
<1>3. \A g \in Entries(b) : CellSize(c, g) = CellSize(b, g)
  BY <1>1, <1>2 DEF CellSize, CdHeaders
<1>4. BytesIn(c, Entries(b)) = BytesIn(b, Entries(b))
  BY <1>3 DEF BytesIn
<1> QED
  BY <1>1, <1>4 DEF SizeOf

-----------------------------------------------------------------------------
(* embed_manifest                                                          *)

\* What an insert writes and would write, in numbers.
LEMMA InsertMeasures ==
  ASSUME NEW b \in Archives, Parses(b), ExactDirectory(b), NEW content \in Payloads,
         Len(content) <= U32Max
  PROVE  /\ Len(InsertedData(b, content)) = CdStart(b) + 1 + Len(content)
         /\ InsertedSize(b, ManifestPath)
              = SizeOf(b, Entries(b)) + CdHeaderLen(ManifestPath)
         /\ Cardinality(Entries(b)) + 1 <= U16Max
<1> DEFINE s    == CdStart(b)
           m    == Cardinality(Entries(b))
           head == LocalHeader(Crc(content), Len(content))
           kept == Slice(b, 0, s)
<1>1. /\ s \in Nat /\ EocdOffset(b) \in Nat /\ s <= EocdOffset(b)
      /\ EocdOffset(b) < Len(b) /\ Len(b) \in Nat
  BY ParsedLayout, ArchiveLength
<1>2. /\ m \in Nat /\ m = At(b, EocdOffset(b)).count /\ m \in U16
      /\ Entries(b) = s .. s + m - 1 /\ EocdOffset(b) = s + m
  BY EntriesFinite, ParsedRecord DEF ExactDirectory, Entries
<1>3. m # U16Max
  BY <1>2 DEF Parses, ParseVerdict, IsZip64
<1>4. m + 1 <= U16Max
  BY <1>2, <1>3, FieldsAreNaturals DEF U16
<1>5. InsertedSize(b, ManifestPath) = SizeOf(b, Entries(b)) + CdHeaderLen(ManifestPath)
  <2>1. s .. EocdOffset(b) - 1 = Entries(b)
    BY <1>1, <1>2
  <2> QED
    BY <2>1 DEF InsertedSize, s
<1>6. Len(InsertedData(b, content)) = s + 1 + Len(content)
  <2>1. kept \in Archives /\ Len(kept) = s
    <3>1. 0 <= s /\ s <= Len(b) /\ s - 0 = s
      BY <1>1
    <3> QED
      BY <1>1, <3>1, SliceProperties
  <2>2. content \in Archives /\ Len(content) \in Nat
    BY PayloadAssumption, ArchiveLength
  <2>3. head \in Cells
    <3>1. 0 \in U16 /\ Crc(content) \in U32 /\ Len(content) \in U32
      BY <2>2, FieldsAreNaturals, PayloadAssumption DEF U16, U32
    <3>2. head \in LocalHeaders
      BY <3>1 DEF LocalHeader, LocalHeaders
    <3> QED
      BY <3>2 DEF Cells
  <2>4. InsertedData(b, content) = kept \o <<head>> \o content
    BY DEF InsertedData
  <2> HIDE DEF kept, head
  <2>5. <<head>> \in Archives /\ Len(<<head>>) = 1
    BY <2>3, OneCell
  <2>6. kept \o <<head>> \in Archives /\ Len(kept \o <<head>>) = s + 1
    BY <2>1, <2>5, AppendedAfter
  <2> QED
    BY <1>1, <2>2, <2>4, <2>6, AppendedAfter
<1> QED
  BY <1>4, <1>5, <1>6 DEF m, s

\* An embed is an insert into what a remove leaves.
LEMMA EmbedInserts ==
  ASSUME NEW b \in Archives, NEW store \in Payloads, ExactDirectory(b),
         EmbedVerdict(b, store) = "ok"
  PROVE  /\ IsInsertion(RemoveZipEntry(b, ManifestPath), store, Embed(b, store))
         /\ RemoveVerdict(b, ManifestPath) = "ok"
         /\ Parses(RemoveZipEntry(b, ManifestPath))
         /\ Embed(b, store) \in Archives /\ RecordIsExact(Embed(b, store))
         /\ ExactDirectory(Embed(b, store))
<1> DEFINE mid == RemoveZipEntry(b, ManifestPath)
           c   == Embed(b, store)
<1>1. /\ RemoveVerdict(b, ManifestPath) = "ok"
      /\ InsertVerdict(mid, ManifestPath, store) = "ok"
  BY DEF EmbedVerdict
<1>2. /\ mid \in Archives /\ Parses(mid) /\ ExactDirectory(mid)
      /\ Named(mid, ManifestPath) = {}
  <2>1. Parses(mid)
    BY <1>1 DEF InsertVerdict, Parses
  <2> QED
    BY <1>1, <2>1, RemoveKeepsMembers
<1>3. IsInsertion(mid, store, c)
  BY <1>1, <1>2 DEF IsInsertion, Embed
<1> HIDE DEF mid, c
<1>4. /\ c \in Archives /\ RecordIsExact(c) /\ At(c, EocdOffset(c)) = Last(c)
      /\ ~IsZip64(Last(c)) => ExactDirectory(c)
  BY <1>3, InsertedLayout
<1>5. IsZip64(Last(c)) => ~Parses(c)
  BY <1>4 DEF Parses, ParseVerdict
<1>6. ExactDirectory(c)
  BY <1>4, <1>5 DEF ExactDirectory
<1> QED
  BY <1>1, <1>2, <1>3, <1>4, <1>6 DEF mid, c

\* It keeps the members, and the store is read back from the one entry at the
\* manifest path, unless a number written is the ZIP64 sentinel.
LEMMA EmbedKeepsMembers ==
  ASSUME NEW b \in Archives, NEW store \in Payloads, ExactDirectory(b),
         EmbedVerdict(b, store) = "ok", ~IsZip64(Last(Embed(b, store)))
  PROVE  LET c == Embed(b, store)
         IN /\ Parses(b) /\ Parses(c)
            /\ KeepsMembers(b, c)
            /\ ReadVerdict(c, ManifestPath) = "ok"
            /\ ReadContent(c, ManifestPath) = store
            /\ Cardinality(Named(c, ManifestPath)) = 1
            /\ \A g \in Named(c, ManifestPath) : BindingVerdict(c, g) = "ok"
<1> DEFINE mid == RemoveZipEntry(b, ManifestPath)
           c   == Embed(b, store)
<1>1. /\ IsInsertion(mid, store, c) /\ RemoveVerdict(b, ManifestPath) = "ok"
      /\ c \in Archives /\ Parses(mid)
  BY EmbedInserts
<1>2. mid \in Archives /\ Parses(b) /\ KeepsMembers(b, mid)
  BY <1>1, RemoveKeepsMembers
<1> HIDE DEF mid, c
<1>3. /\ Parses(c) /\ KeepsMembers(mid, c)
      /\ Named(c, ManifestPath) = {NewHeader(mid, c)}
      /\ ReadVerdict(c, ManifestPath) = "ok" /\ ReadContent(c, ManifestPath) = store
      /\ BindingVerdict(c, NewHeader(mid, c)) = "ok"
  BY <1>1, InsertKeepsMembers DEF c
<1>4. KeepsMembers(b, c)
  BY <1>1, <1>2, <1>3, MembersKept
<1>5. Cardinality(Named(c, ManifestPath)) = 1
  BY <1>3, FS_Singleton
<1> QED
  BY <1>2, <1>3, <1>4, <1>5 DEF c
=============================================================================
