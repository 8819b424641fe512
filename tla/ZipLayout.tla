------------------------------ MODULE ZipLayout -----------------------------
(***************************************************************************)
(* What parse_layout extracts from an archive and the byte ranges the rest *)
(* of the crate derives from it (zip.rs).  An operation of the code that   *)
(* returns Result<T, Error> is a pair of operators: a verdict, "ok" or the *)
(* name of the first error the code meets, and the value, which has a      *)
(* meaning only when the verdict is "ok".                                  *)
(*                                                                         *)
(* An entry is identified by the offset h of its central-directory header  *)
(* (cd_header_offset): At(b, h) holds the other fields of its CdEntry.     *)
(***************************************************************************)
EXTENDS ZipCells, FiniteSets, FiniteSetsExt

\* Error, with the two answers that are none: Ok and Ok(None).
Verdicts ==
  {"ok", "none", "NoEocd", "Truncated", "Zip64Unsupported", "BadOffset",
   "NonUtf8Name", "InvalidMemberPath", "MalformedDataDescriptor",
   "NonContiguousCentralDirectoryHash", "ManifestEntryNotStoredOrEncrypted"}

-----------------------------------------------------------------------------
(* find_eocd: the last position whose record's comment ends the archive.   *)

EocdPositions(b) ==
  {p \in 0 .. Len(b) - 1 : /\ HasSig(b, p, "EOCD")
                           /\ p + 1 + At(b, p).comment = Len(b)}

\* Mutant: the search starts at the front.
EocdOffsetFirst(b) == Min(EocdPositions(b))

EocdOffset(b) == Max(EocdPositions(b))

-----------------------------------------------------------------------------
(* parse_layout                                                            *)

CdStart(b) == At(b, EocdOffset(b)).cdoffset

\* The offsets of the headers the EOCD record announces.  A header is one
\* cell, so the cursor of the walk advances by one.
Entries(b) == CdStart(b) .. CdStart(b) + At(b, EocdOffset(b)).count - 1

\* The checks of one iteration of the walk over the central directory.
HeaderVerdict(b, h) ==
  IF ~HasSig(b, h, "CENTRAL") THEN "Truncated"
  ELSE LET e == At(b, h) IN
       IF U32Max \in {e.offset, e.csize, e.usize} THEN "Zip64Unsupported"
       ELSE IF e.name \in NonUtf8Names THEN "NonUtf8Name"
       ELSE IF e.offset >= CdStart(b) THEN "BadOffset"
       ELSE IF h + 1 > EocdOffset(b) THEN "Truncated"
       ELSE "ok"

IsZip64(r) == r.count = U16Max \/ U32Max \in {r.cdsize, r.cdoffset}

ParseVerdict(b) ==
  IF EocdPositions(b) = {} THEN "NoEocd"
  ELSE IF IsZip64(At(b, EocdOffset(b))) THEN "Zip64Unsupported"
  ELSE IF CdStart(b) > EocdOffset(b) THEN "BadOffset"
  ELSE LET bad == {h \in Entries(b) : HeaderVerdict(b, h) # "ok"}
       IN IF bad = {} THEN "ok" ELSE HeaderVerdict(b, Min(bad))

Parses(b) == ParseVerdict(b) = "ok"

\* The directory holds exactly the headers the EOCD record counts: what the
\* parser does not check.
ExactDirectory(b) ==
  Parses(b) => CdStart(b) + Cardinality(Entries(b)) = EocdOffset(b)

\* The order sort_by_key leaves the entries in: by local-header offset,
\* entries with the same offset in directory order (the sort is stable).
Before(b, h, g) == \/ At(b, h).offset < At(b, g).offset
                   \/ At(b, h).offset = At(b, g).offset /\ h < g

Named(b, name) == {h \in Entries(b) : At(b, h).name = name}

\* The entry of hs that comes first in that order.
FirstOf(b, hs) == CHOOSE h \in hs : \A g \in hs \ {h} : Before(b, h, g)

\* The entry a search by name finds.
FirstNamed(b, name) == FirstOf(b, Named(b, name))

-----------------------------------------------------------------------------
(* entry_content_range, entry_boundary, entry_binding_range                *)

\* Mutant: the next entry does not bound this one.
EntryBoundaryCdOnly(b, h) == CdStart(b)

EntryBoundary(b, h) ==
  LET later == {g \in Entries(b) : Before(b, h, g)}
  IN IF later = {} THEN CdStart(b) ELSE Min({At(b, g).offset : g \in later})

ContentStart(b, h) ==
  LET lh == At(b, h).offset IN lh + 1 + At(b, lh).extra
ContentEnd(b, h) == ContentStart(b, h) + At(b, h).csize

ContentVerdict(b, h) ==
  LET lh == At(b, h).offset IN
  IF ~HasSig(b, lh, "LOCAL") THEN "Truncated"
  ELSE IF At(b, lh).flags # At(b, h).flags THEN "BadOffset"
  ELSE IF ContentEnd(b, h) > EntryBoundary(b, h) THEN "BadOffset"
  ELSE IF ContentEnd(b, h) > Len(b) THEN "Truncated"
  ELSE "ok"

\* Whether a local header agrees with its directory header.
SameSums(r, e) == r.crc = e.crc /\ r.csize = e.csize /\ r.usize = e.usize

Streamed(b, h) == "streamed" \in At(b, h).flags

\* The three words at d, before the entry's boundary, are its descriptor's.
HasDescriptor(b, h, d) ==
  /\ d + 3 <= EntryBoundary(b, h)
  /\ HasWord(b, d, At(b, h).crc)
  /\ HasWord(b, d + 1, At(b, h).csize)
  /\ HasWord(b, d + 2, At(b, h).usize)

\* Mutant: the signature is not skipped.
DescriptorAtContentEnd(b, h) == ContentEnd(b, h)

\* Where the descriptor's three words are taken to be: after a signature, if
\* the first word is one.
DescriptorAt(b, h) ==
  ContentEnd(b, h) + (IF HasWord(b, ContentEnd(b, h), DescriptorSig) THEN 1 ELSE 0)

\* Mutant: the data descriptor is left out.
BindingEndNoDescriptor(b, h) == ContentEnd(b, h)

BindingEnd(b, h) ==
  IF Streamed(b, h) THEN DescriptorAt(b, h) + 3 ELSE ContentEnd(b, h)

BindingVerdict(b, h) ==
  IF ContentVerdict(b, h) # "ok" THEN ContentVerdict(b, h)
  ELSE IF Streamed(b, h)
  THEN IF HasDescriptor(b, h, DescriptorAt(b, h))
       THEN "ok" ELSE "MalformedDataDescriptor"
  ELSE IF SameSums(At(b, At(b, h).offset), At(b, h)) THEN "ok" ELSE "BadOffset"
=============================================================================
