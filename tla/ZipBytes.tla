------------------------------ MODULE ZipBytes ------------------------------
(***************************************************************************)
(* The functions of zip.rs byte by byte: which bytes of a record each of   *)
(* them reads, writes and patches.  ZipLayout and ZipEdit have a record as *)
(* one cell; here its fields lie at the offsets the code names.            *)
(*                                                                         *)
(* A function that returns Result<T, Error> yields a verdict and a value.  *)
(* A byte has Base values.                                                 *)
(***************************************************************************)
EXTENDS Integers, FiniteSets, FiniteSetsExt, SequencesExt

CONSTANTS
  Base,                 \* the number of values of a byte
  EOCD_SIG, CD_HEADER_SIG, LOCAL_HEADER_SIG, DATA_DESCRIPTOR_SIG,
  ZIP_MANIFEST_PATH,    \* as bytes
  NonUtf8Names,         \* the names that are not UTF-8
  DotNames,             \* the names with a "." or ".." segment
  Crc32(_)              \* of a sequence of bytes

U16Max == Base * Base - 1
U32Max == Base * Base * Base * Base - 1

ASSUME BaseAssumption == /\ Base \in Nat /\ 46 <= U16Max
                         /\ {EOCD_SIG, CD_HEADER_SIG, LOCAL_HEADER_SIG,
                             DATA_DESCRIPTOR_SIG} \subseteq 0 .. U32Max

EOCD_MIN_LEN == 22
CD_HEADER_FIXED_LEN == 46
LOCAL_HEADER_FIXED_LEN == 30

Ok(value) == [verdict |-> "ok", value |-> value]
Err(error) == [verdict |-> error, value |-> <<>>]

\* The operator "?": what follows a result, unless it is an error.
Try(result, Then(_)) == IF result.verdict = "ok" THEN Then(result.value) ELSE result

\* collect: the values of a sequence of results, or the first error.
Collect(results) ==
  LET bad == {i \in DOMAIN results : results[i].verdict # "ok"}
  IN IF bad = {} THEN Ok([i \in DOMAIN results |-> results[i].value])
     ELSE results[Min(bad)]

\* filter: the elements of a sequence at those positions, in order.
Kept(s, positions) ==
  [k \in 1 .. Cardinality(positions) |->
     s[CHOOSE i \in positions : Cardinality({j \in positions : j < i}) = k - 1]]

-----------------------------------------------------------------------------
(* Numbers                                                                 *)

\* What each byte of a number counts.
Weight == <<1, Base, Base * Base, Base * Base * Base>>

\* The bytes of a number, least significant first.  A number that is too large
\* for its width does not fit its last byte: the code has to convert it first.
Le(v, width) ==
  [i \in 1 .. width |->
     IF i < width THEN (v \div Weight[i]) % Base ELSE v \div Weight[i]]

ReadU16(b, at) == b[at + 1] + Base * b[at + 2]
ReadU32(b, at) == ReadU16(b, at) + Base * Base * ReadU16(b, at + 2)

Bytes(b, from, to) == SubSeq(b, from + 1, to)

\* b with the bytes from at on overwritten.
Patch(b, at, new) ==
  [i \in 1 .. Len(b) |-> IF i - 1 \in at .. at + Len(new) - 1 THEN new[i - at] ELSE b[i]]

-----------------------------------------------------------------------------
(* find_eocd and parse_layout                                              *)

EocdOffsets(b) ==
  {p \in 0 .. Len(b) - EOCD_MIN_LEN :
     /\ ReadU32(b, p) = EOCD_SIG
     /\ p + EOCD_MIN_LEN + ReadU16(b, p + 20) = Len(b)}

NameLen(b, h) == ReadU16(b, h + 28)
NameOf(b, h) ==
  Bytes(b, h + CD_HEADER_FIXED_LEN, h + CD_HEADER_FIXED_LEN + NameLen(b, h))
LocalOffset(b, h) == ReadU32(b, h + 42)

NextHeader(b, h) ==
  h + CD_HEADER_FIXED_LEN + NameLen(b, h) + ReadU16(b, h + 30) + ReadU16(b, h + 32)

HeaderVerdict(b, cdStart, eocd, h) ==
  IF h + CD_HEADER_FIXED_LEN > Len(b) \/ ReadU32(b, h) # CD_HEADER_SIG THEN "Truncated"
  ELSE IF U32Max \in {LocalOffset(b, h), ReadU32(b, h + 20), ReadU32(b, h + 24)}
  THEN "Zip64Unsupported"
  ELSE IF h + CD_HEADER_FIXED_LEN + NameLen(b, h) > Len(b) THEN "Truncated"
  ELSE IF NameOf(b, h) \in NonUtf8Names THEN "NonUtf8Name"
  ELSE IF LocalOffset(b, h) >= cdStart THEN "BadOffset"
  ELSE IF NextHeader(b, h) > eocd THEN "Truncated"
  ELSE "ok"

\* One iteration of the walk w, at a header with that verdict.
Push(b, w, verdict) ==
  IF w.verdict # "ok" THEN w
  ELSE IF verdict # "ok" THEN [w EXCEPT !.verdict = verdict]
  ELSE [verdict |-> "ok", value |-> Append(w.value, w.cursor),
        cursor  |-> NextHeader(b, w.cursor)]

\* The headers of count entries from cdStart on, or the first error.
Walk(b, cdStart, eocd, count) ==
  LET walk[k \in 0 .. count] ==
        IF k = 0 THEN [verdict |-> "ok", value |-> <<>>, cursor |-> cdStart]
        ELSE LET w == walk[k - 1]
             IN Push(b, w, HeaderVerdict(b, cdStart, eocd, w.cursor))
  IN walk[count]

\* sort_by_key: a stable sort by local-header offset.
ByOffset(b, hs) ==
  LET Before(i, j) == \/ LocalOffset(b, hs[i]) < LocalOffset(b, hs[j])
                      \/ LocalOffset(b, hs[i]) = LocalOffset(b, hs[j]) /\ i < j
  IN [k \in DOMAIN hs |->
        hs[CHOOSE i \in DOMAIN hs :
             Cardinality({j \in DOMAIN hs : Before(j, i)}) = k - 1]]

\* An entry is the offset of its directory header (cd_header_offset).
LayoutAt(b, eocd, count, cd) ==
  IF count = U16Max \/ U32Max \in {ReadU32(b, eocd + 12), cd} THEN Err("Zip64Unsupported")
  ELSE IF cd > eocd THEN Err("BadOffset")
  ELSE Try(Walk(b, cd, eocd, count),
           LAMBDA hs : Ok([entries |-> ByOffset(b, hs), cdStart |-> cd, eocd |-> eocd]))

Layout(b) ==
  IF EocdOffsets(b) = {} THEN Err("NoEocd")
  ELSE LET eocd == Max(EocdOffsets(b))
       IN LayoutAt(b, eocd, ReadU16(b, eocd + 10), ReadU32(b, eocd + 16))

\* The position of the first entry with the name, or 0.
Position(b, l, name) ==
  LET found == {i \in DOMAIN l.entries : NameOf(b, l.entries[i]) = name}
  IN IF found = {} THEN 0 ELSE Min(found)

-----------------------------------------------------------------------------
(* entry_content_range and entry_binding_range                             *)

Span(from, to) == [start |-> from, end |-> to]

EntryBoundary(b, l, i) ==
  IF i < Len(l.entries) THEN LocalOffset(b, l.entries[i + 1]) ELSE l.cdStart

ContentRange(b, l, i) ==
  LET h     == l.entries[i]
      lh    == LocalOffset(b, h)
      start == lh + LOCAL_HEADER_FIXED_LEN + ReadU16(b, lh + 26) + ReadU16(b, lh + 28)
      end   == start + ReadU32(b, h + 20)
  IN IF ReadU32(b, lh) # LOCAL_HEADER_SIG THEN Err("Truncated")
     ELSE IF ReadU16(b, lh + 6) # ReadU16(b, h + 8) THEN Err("BadOffset")
     ELSE IF lh + LOCAL_HEADER_FIXED_LEN > Len(b) THEN Err("Truncated")
     ELSE IF end > EntryBoundary(b, l, i) THEN Err("BadOffset")
     ELSE IF end > Len(b) THEN Err("Truncated")
     ELSE Ok(Span(start, end))

\* CRC-32, compressed and uncompressed size are those of the header h.
SumsAt(b, at, h) ==
  /\ ReadU32(b, at) = ReadU32(b, h + 16)
  /\ ReadU32(b, at + 4) = ReadU32(b, h + 20)
  /\ ReadU32(b, at + 8) = ReadU32(b, h + 24)

\* The range of an entry whose content ends at end.
Bound(b, l, i, end) ==
  LET h    == l.entries[i]
      lh   == LocalOffset(b, h)
      sums == end + (IF ReadU32(b, end) = DATA_DESCRIPTOR_SIG THEN 4 ELSE 0)
  IN IF (ReadU16(b, h + 8) \div 8) % 2 = 1
     THEN IF sums + 12 > EntryBoundary(b, l, i) \/ ~SumsAt(b, sums, h)
          THEN Err("MalformedDataDescriptor") ELSE Ok(Span(lh, sums + 12))
     ELSE IF SumsAt(b, lh + 14, h) THEN Ok(Span(lh, end)) ELSE Err("BadOffset")

BindingRange(b, l, i) ==
  Try(ContentRange(b, l, i), LAMBDA content : Bound(b, l, i, content.end))

-----------------------------------------------------------------------------
(* The records the crate writes, field by field                            *)

WriteLocalHeader(name, crc, size) ==
  FlattenSeq(<<Le(LOCAL_HEADER_SIG, 4), Le(20, 2), Le(0, 2), Le(0, 2), Le(0, 2),
               Le(0, 2), Le(crc, 4), Le(size, 4), Le(size, 4), Le(Len(name), 2),
               Le(0, 2), name>>)

WriteCdHeader(name, crc, size, localOff) ==
  FlattenSeq(<<Le(CD_HEADER_SIG, 4), Le(20, 2), Le(20, 2), Le(0, 2), Le(0, 2),
               Le(0, 2), Le(0, 2), Le(crc, 4), Le(size, 4), Le(size, 4),
               Le(Len(name), 2), Le(0, 2), Le(0, 2), Le(0, 2), Le(0, 2), Le(0, 4),
               Le(localOff, 4), name>>)

WriteEocd(count, cdSize, cdStart) ==
  FlattenSeq(<<Le(EOCD_SIG, 4), Le(0, 2), Le(0, 2), Le(count, 2), Le(count, 2),
               Le(cdSize, 4), Le(cdStart, 4), Le(0, 2)>>)

-----------------------------------------------------------------------------
(* insert_zip_entry, remove_zip_entry, fill_manifest                       *)

\* Mutant: the size of the directory is not measured.
FinishedUnmeasured(data, dir, count) ==
  IF count > U16Max THEN Err("Zip64Unsupported")
  ELSE Ok(data \o dir \o WriteEocd(count, Len(dir), Len(data)))

\* A rebuilt archive gets its EOCD, if that can hold its numbers.
Finished(data, dir, count) ==
  IF Len(dir) > U32Max THEN Err("Truncated")
  ELSE IF count > U16Max THEN Err("Zip64Unsupported")
  ELSE Ok(data \o dir \o WriteEocd(count, Len(dir), Len(data)))

InsertInto(b, l, name, content, crc) ==
  LET data  == Bytes(b, 0, l.cdStart)
                 \o WriteLocalHeader(name, crc, Len(content)) \o content
      dir   == Bytes(b, l.cdStart, l.eocd)
                 \o WriteCdHeader(name, crc, Len(content), l.cdStart)
  IN IF Len(name) > U16Max \/ Len(content) > U32Max THEN Err("Truncated")
     ELSE IF Len(data) > U32Max THEN Err("Zip64Unsupported")
     ELSE Finished(data, dir, Len(l.entries) + 1)

InsertZipEntry(b, name, content) ==
  Try(Layout(b), LAMBDA l : InsertInto(b, l, name, content, Crc32(content)))

\* Mutant: the external attributes are overwritten.
RelocateFourEarly(header, offset) == Patch(header, 38, Le(offset, 4))

Relocate(header, offset) == Patch(header, 42, Le(offset, 4))

\* The entries hs and no others, each copied over its range.
Rebuilt(b, hs, ranges) ==
  LET copies == [k \in DOMAIN hs |-> Bytes(b, ranges[k].start, ranges[k].end)]
      before == [k \in DOMAIN hs |-> Len(FlattenSeq(SubSeq(copies, 1, k - 1)))]
      data   == FlattenSeq(copies)
      dir    == FlattenSeq([k \in DOMAIN hs |->
                  Relocate(Bytes(b, hs[k], NextHeader(b, hs[k])), before[k])])
  IN IF \E n \in ToSet(before) \cup {Len(data)} : n > U32Max
     THEN Err("Zip64Unsupported")
     ELSE Finished(data, dir, Len(hs))

RemoveFrom(b, l, name, ranges) ==
  LET others == {i \in DOMAIN l.entries : NameOf(b, l.entries[i]) # name}
  IN Rebuilt(b, Kept(l.entries, others), Kept(ranges, others))

RemoveZipEntry(b, name) ==
  Try(Layout(b), LAMBDA l :
    IF Position(b, l, name) = 0 THEN Ok(b)
    ELSE Try(Collect([i \in DOMAIN l.entries |-> BindingRange(b, l, i)]),
             LAMBDA ranges : RemoveFrom(b, l, name, ranges)))

\* Stored, and bit 0 of the flags clear.
StoredInClear(b, h) == ReadU16(b, h + 10) = 0 /\ ReadU16(b, h + 8) % 2 = 0

ManifestRange(b, l, i) ==
  IF ~StoredInClear(b, l.entries[i]) THEN Err("ManifestEntryNotStoredOrEncrypted")
  ELSE ContentRange(b, l, i)

\* read_manifest_entry; "none" stands for Ok(None).
ReadManifestEntry(b, name) ==
  Try(Layout(b), LAMBDA l :
    IF Position(b, l, name) = 0 THEN Err("none")
    ELSE Try(ManifestRange(b, l, Position(b, l, name)),
             LAMBDA range : Ok(Bytes(b, range.start, range.end))))

\* Mutant: the offsets of the two headers' CRC are swapped.
PatchCrcSwapped(b, h, crc) ==
  Patch(Patch(b, LocalOffset(b, h) + 16, Le(crc, 4)), h + 14, Le(crc, 4))

PatchCrc(b, h, crc) ==
  Patch(Patch(b, LocalOffset(b, h) + 14, Le(crc, 4)), h + 16, Le(crc, 4))

FillRange(b, h, range, content) ==
  IF Len(content) # range.end - range.start THEN Err("Truncated")
  ELSE Ok(PatchCrc(Patch(b, range.start, content), h, Crc32(content)))

FillZipEntry(b, name, content) ==
  Try(Layout(b), LAMBDA l :
    IF Position(b, l, name) = 0 THEN Err("Truncated")
    ELSE Try(ManifestRange(b, l, Position(b, l, name)), LAMBDA range :
           FillRange(b, l.entries[Position(b, l, name)], range, content)))

EmbedManifest(b, store) ==
  Try(RemoveZipEntry(b, ZIP_MANIFEST_PATH),
      LAMBDA base : InsertZipEntry(base, ZIP_MANIFEST_PATH, store))

-----------------------------------------------------------------------------
(* member_ranges, collection_members, central_directory_ranges             *)

\* member_ranges: every entry is checked, the manifest's too.
MemberRange(b, l, i) ==
  IF NameOf(b, l.entries[i]) \in DotNames THEN Err("InvalidMemberPath")
  ELSE Try(BindingRange(b, l, i),
           LAMBDA range : Ok([name |-> NameOf(b, l.entries[i]), content |-> range]))

CollectionMembers(b) ==
  Try(Layout(b), LAMBDA l :
    Try(Collect([i \in DOMAIN l.entries |-> MemberRange(b, l, i)]), LAMBDA members :
      Ok(Kept(members, {i \in DOMAIN members : members[i].name # ZIP_MANIFEST_PATH}))))

\* Mutant: the CRC is looked for where a local header has it.
CrcInDirectoryAsLocal(h) == h + 14

CrcInDirectory(h) == h + 16

DirectorySpans(b, l, crc) == <<Span(l.cdStart, crc), Span(crc + 4, Len(b))>>

CentralDirectoryRanges(b) ==
  Try(Layout(b), LAMBDA l :
    LET i == Position(b, l, ZIP_MANIFEST_PATH)
    IN Ok(IF i = 0 THEN <<Span(l.cdStart, Len(b))>>
          ELSE DirectorySpans(b, l, CrcInDirectory(l.entries[i]))))

CentralDirectoryRange(b) ==
  Try(CentralDirectoryRanges(b), LAMBDA spans :
    IF Len(spans) # 1 THEN Err("NonContiguousCentralDirectoryHash")
    ELSE Ok(spans[1]))
=============================================================================
