------------------------------- MODULE ZipEdit ------------------------------
(***************************************************************************)
(* The operations of zip.rs and writer.rs that read or rewrite an archive. *)
(* Each is a verdict and a value, as in ZipLayout.                         *)
(***************************************************************************)
EXTENDS ZipLayout, SequencesExt

-----------------------------------------------------------------------------
(* insert_zip_entry                                                        *)

\* Mutant: the new entry is put before the old ones.
InsertedDataFirst(b, content) ==
  <<LocalHeader(Crc(content), Len(content))>> \o content
    \o Slice(b, 0, CdStart(b))

\* Everything before the rebuilt directory: the old cells before the
\* directory, unchanged, then the new entry.
InsertedData(b, content) ==
  Slice(b, 0, CdStart(b))
    \o <<LocalHeader(Crc(content), Len(content))>> \o content

\* The old headers are copied up to the EOCD record, whatever lies there.
InsertedDirectory(b, name, content) ==
  Slice(b, CdStart(b), EocdOffset(b))
    \o <<CdHeader(name, Crc(content), Len(content), CdStart(b))>>

\* Its bytes.
InsertedSize(b, name) ==
  SizeOf(b, CdStart(b) .. EocdOffset(b) - 1) + CdHeaderLen(name)

InsertVerdict(b, name, content) ==
  LET newCount == Cardinality(Entries(b)) + 1
  IN IF ~Parses(b) THEN ParseVerdict(b)
     ELSE IF Len(content) > U32Max THEN "Truncated"
     ELSE IF Len(InsertedData(b, content)) > U32Max THEN "Zip64Unsupported"
     ELSE IF InsertedSize(b, name) > U32Max THEN "Truncated"
     ELSE IF newCount > U16Max THEN "Zip64Unsupported"
     ELSE "ok"

InsertZipEntry(b, name, content) ==
  LET data == InsertedData(b, content)
      dir  == InsertedDirectory(b, name, content)
  IN data \o dir
       \o <<Eocd(Cardinality(Entries(b)) + 1, InsertedSize(b, name), Len(data))>>

-----------------------------------------------------------------------------
(* remove_zip_entry                                                        *)

\* Mutant: of several entries with the name only the first is removed.
KeptAllButFirst(b, name) == Entries(b) \ {FirstNamed(b, name)}

Kept(b, name) == Entries(b) \ Named(b, name)

\* What is copied comes from before the directory, whose offset is a u32, and
\* is of no more entries than there were: the conversions of the offsets and
\* the count cannot fail.  That of the directory's size can, as the parser
\* does not bound it.
RemoveVerdict(b, name) ==
  LET refused == {h \in Entries(b) : BindingVerdict(b, h) # "ok"}
  IN IF ~Parses(b) THEN ParseVerdict(b)
     ELSE IF Named(b, name) = {} THEN "ok"
     ELSE IF refused # {} THEN BindingVerdict(b, FirstOf(b, refused))
     ELSE IF SizeOf(b, Kept(b, name)) > U32Max THEN "Truncated"
     ELSE "ok"

\* hs as a sequence: the k-th entry has k - 1 entries of hs before it.
InArchiveOrder(b, hs) ==
  [k \in 1 .. Cardinality(hs) |->
     CHOOSE h \in hs : Cardinality({g \in hs : Before(b, g, h)}) = k - 1]

\* Mutants: the content alone travels; the gap before the next entry does too.
EntryCellsContentOnly(b, h) == Slice(b, ContentStart(b, h), ContentEnd(b, h))
EntryCellsToBoundary(b, h) == Slice(b, At(b, h).offset, EntryBoundary(b, h))

\* The bytes that travel with an entry; a gap after them is dropped.
EntryCells(b, h) == Slice(b, At(b, h).offset, BindingEnd(b, h))

\* What the loop has copied after k of the entries in kept.
Copied(b, kept) ==
  LET out[k \in 0 .. Len(kept)] ==
        IF k = 0 THEN <<>> ELSE out[k - 1] \o EntryCells(b, kept[k])
  IN out

RemoveZipEntry(b, name) ==
  IF Named(b, name) = {} THEN b
  ELSE LET kept == InArchiveOrder(b, Kept(b, name))
           copied == Copied(b, kept)
           data == copied[Len(kept)]
           dir  == [k \in 1 .. Len(kept) |->
                      [At(b, kept[k]) EXCEPT !.offset = Len(copied[k - 1])]]
       IN data \o dir \o <<Eocd(Len(kept), SizeOf(b, Kept(b, name)), Len(data))>>

-----------------------------------------------------------------------------
(* read_manifest_entry and fill_manifest                                   *)

StoredInClear(e) == e.method = 0 /\ "encrypted" \notin e.flags

\* What both check of the entry they found before they use its content.
ManifestEntryVerdict(b, h) ==
  IF ~StoredInClear(At(b, h)) THEN "ManifestEntryNotStoredOrEncrypted"
  ELSE ContentVerdict(b, h)

\* "none" stands for Ok(None): the archive has no such entry.
ReadVerdict(b, name) ==
  IF ~Parses(b) THEN ParseVerdict(b)
  ELSE IF Named(b, name) = {} THEN "none"
  ELSE ManifestEntryVerdict(b, FirstNamed(b, name))

ContentOf(b, h) == Slice(b, ContentStart(b, h), ContentEnd(b, h))

ReadContent(b, name) == ContentOf(b, FirstNamed(b, name))

\* Mutant: the new content has to be shorter than the old.
FillVerdictShorter(b, name, content) ==
  IF ReadVerdict(b, name) = "none" THEN "Truncated"
  ELSE IF ReadVerdict(b, name) # "ok" THEN ReadVerdict(b, name)
  ELSE IF Len(content) >= At(b, FirstNamed(b, name)).csize THEN "Truncated"
  ELSE "ok"

FillVerdict(b, name, content) ==
  IF ReadVerdict(b, name) = "none" THEN "Truncated"
  ELSE IF ReadVerdict(b, name) # "ok" THEN ReadVerdict(b, name)
  ELSE IF Len(content) # At(b, FirstNamed(b, name)).csize THEN "Truncated"
  ELSE "ok"

\* Mutant: the second pass rebuilds the archive instead.
FillByReembedding(b, name, content) ==
  InsertZipEntry(RemoveZipEntry(b, name), name, content)

\* In place: the content, and the CRC of both headers of the entry.
FillZipEntry(b, name, content) ==
  LET h     == FirstNamed(b, name)
      start == ContentStart(b, h)
  IN [i \in 1 .. Len(b) |->
        IF i - 1 \in start .. start + Len(content) - 1
        THEN content[i - start]
        ELSE IF i - 1 \in {At(b, h).offset, h}
        THEN [b[i] EXCEPT !.crc = Crc(content)]
        ELSE b[i]]

-----------------------------------------------------------------------------
(* embed_manifest: remove what is there, then insert.                      *)

EmbedVerdict(b, content) ==
  IF RemoveVerdict(b, ManifestPath) # "ok" THEN RemoveVerdict(b, ManifestPath)
  ELSE InsertVerdict(RemoveZipEntry(b, ManifestPath), ManifestPath, content)

\* Mutant: the old manifest stays.
EmbedWithoutRemove(b, content) == InsertZipEntry(b, ManifestPath, content)

Embed(b, content) ==
  InsertZipEntry(RemoveZipEntry(b, ManifestPath), ManifestPath, content)
=============================================================================
