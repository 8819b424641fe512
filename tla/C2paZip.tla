------------------------------- MODULE C2paZip ------------------------------
(***************************************************************************)
(* A document in the hands of a caller of the crate (lib.rs).  Each action *)
(* is one call of a function that returns an archive; the caller goes on   *)
(* with what it returned, or keeps the document it had when it is refused. *)
(***************************************************************************)
EXTENDS CollectionBinding, ZipWriters

CONSTANT Inputs        \* the archives a caller may start from

ASSUME InputAssumption == Inputs \subseteq Archives

VARIABLES
  doc,                 \* the archive the caller holds
  call                 \* the last call: its name, its store, its verdict

vars == <<doc, call>>

Calls == [op : {"none", "embed", "fill", "remove"},
          store : Payloads \cup {<<>>}, verdict : Verdicts]

TypeOK == doc \in Archives /\ call \in Calls

Init == /\ doc \in Inputs
        /\ call = [op |-> "none", store |-> <<>>, verdict |-> "none"]

\* A call's effect: the new archive when it succeeds, nothing otherwise.
Return(op, store, verdict, archive) ==
  /\ call' = [op |-> op, store |-> store, verdict |-> verdict]
  /\ doc' = IF verdict = "ok" THEN archive ELSE doc

EmbedManifest(store) ==
  Return("embed", store, EmbedVerdict(doc, store), Embed(doc, store))

FillManifest(store) ==
  Return("fill", store, FillVerdict(doc, ManifestPath, store),
         FillZipEntry(doc, ManifestPath, store))

RemoveManifest ==
  Return("remove", <<>>, RemoveVerdict(doc, ManifestPath),
         RemoveZipEntry(doc, ManifestPath))

Next == \/ \E store \in Payloads : EmbedManifest(store) \/ FillManifest(store)
        \/ RemoveManifest

Spec == Init /\ [][Next]_vars

Did(op) == call'.op = op /\ call'.verdict = "ok"

-----------------------------------------------------------------------------
(* The abstract document: the refinement mapping to ManifestStore.         *)

\* The members of an archive as any ZIP reader sees them, in archive order,
\* each with its compressed content, if it can be located.
MemberFiles(b) ==
  LET file == [h \in Members(b) |->
                 [name |-> At(b, h).name, flags |-> At(b, h).flags,
                  method |-> At(b, h).method, crc |-> At(b, h).crc,
                  usize |-> At(b, h).usize,
                  content |-> IF ContentVerdict(b, h) = "ok"
                              THEN {ContentOf(b, h)} ELSE {}]]
  IN [k \in DOMAIN InArchiveOrder(b, Members(b)) |->
        file[InArchiveOrder(b, Members(b))[k]]]

FileRecords == [name : Names, flags : SUBSET FlagBits, method : U16, crc : U32,
                usize : U32, content : SUBSET Archives]

Promise ==
  INSTANCE ManifestStore WITH
    Stores <- Payloads,
    Files <- FileRecords,
    Refusals <- Verdicts \ {"ok"},
    members <- IF Parses(doc) THEN MemberFiles(doc) ELSE <<>>,
    manifest <- LET read == ReadVerdict(doc, ManifestPath)
                IN [state |-> IF read = "ok" THEN "present"
                              ELSE IF read = "none" THEN "absent" ELSE "unusable",
                    cells |-> IF read = "ok" THEN ReadContent(doc, ManifestPath)
                              ELSE <<>>]

\* The archive the calls rewrite behaves as the abstract document: no call
\* loses, alters or reorders a member, the manifest read back after a successful
\* embed or fill is the one given and after a remove none, and a call that is
\* refused changes nothing (embed_manifest, fill_manifest, remove_manifest).
KeepsPromise == Promise!Spec

-----------------------------------------------------------------------------
(* Safety of the rewriting calls                                           *)

\* A successful embed leaves exactly one entry at the manifest path, and the
\* crate reads from it the store that was embedded (embed_manifest).
EmbedReadsBack ==
  [][Did("embed") => /\ ReadVerdict(doc', ManifestPath) = "ok"
                     /\ ReadContent(doc', ManifestPath) = call'.store
                     /\ Cardinality(Named(doc', ManifestPath)) = 1]_vars

\* Two-pass signing: filling the placeholder leaves what the directory hash
\* covers as it was, so a hash over the placeholder validates (fill_manifest).
FillKeepsDirectoryHash ==
  [][Did("fill") => DirectoryInput(doc') = DirectoryInput(doc)]_vars

\* fill_manifest updates the CRC of both headers and of no data descriptor.
\* The crate writes no manifest with one; another writer may.
LeavesStaleDescriptor ==
  Did("fill") /\ Streamed(doc, FirstNamed(doc, ManifestPath))

\* A call that rebuilds the directory.
Rebuilds ==
  \/ Did("embed")
  \/ Did("remove") /\ Named(doc, ManifestPath) # {}

\* insert_zip_entry or remove_zip_entry writes a count, a size or an offset that
\* fits its field and is the ZIP64 sentinel, so the crate refuses the archive it
\* has just built.
WritesSentinel == Rebuilds /\ IsZip64(Last(doc'))

\* The two known ways a successful call leaves a document the crate refuses.
KnownDeadEnd == LeavesStaleDescriptor \/ WritesSentinel

\* Whatever is done to the manifest, the members' part of the collection hash
\* can still be computed and covers the same bytes under the same names: no
\* call moves a byte from one member to another, drops a descriptor or loses a
\* member (collection_members across embed, fill and remove).
MembersStayBound ==
  [][CollectionVerdict(doc) = "ok" /\ ~KnownDeadEnd =>
       /\ CollectionVerdict(doc') = "ok"
       /\ CollectionInput(doc') = CollectionInput(doc)]_vars

\* An archive all of whose entries can be bound: what remove_zip_entry needs.
Bindable(b) ==
  Parses(b) /\ \A h \in Entries(b) : BindingVerdict(b, h) = "ok"

\* The size of the directory fits its field of the EOCD, which no reader checks.
Measurable(b) == SizeOf(b, Entries(b)) <= U32Max

\* A bindable archive is a dead end only for its size.  A remove is refused only
\* if the directory is larger than its size field can tell, an embed only if the
\* store, the new directory or its offset outgrows its field, or if the directory
\* without a manifest has the size that means ZIP64; no call makes the archive
\* unbindable, and once the crate has rebuilt it, no call makes its directory too
\* large again, so that a manifest that was embedded can always be removed
\* (insert_zip_entry, remove_zip_entry).
StaysEditable ==
  [][Bindable(doc) /\ ~KnownDeadEnd =>
       /\ call'.op = "remove" =>
            \/ call'.verdict = "ok"
            \/ call'.verdict = "Truncated" /\ ~Measurable(doc)
       /\ call'.op = "embed" =>
            \/ call'.verdict = "ok"
            \/ /\ call'.verdict = "Zip64Unsupported"
               /\ \/ CdStart(doc) + 1 + Len(call'.store) > U32Max
                  \/ SizeOf(doc, Members(doc)) = U32Max
            \/ /\ call'.verdict = "Truncated"
               /\ \/ Len(call'.store) > U32Max
                  \/ SizeOf(doc, Members(doc)) + CdHeaderLen(ManifestPath) > U32Max
       /\ Bindable(doc')
       /\ Rebuilds \/ Measurable(doc) => Measurable(doc')]_vars

\* The ranges of an archive whose members can all be bound are disjoint, lie
\* before the directory and start at a local header: no byte is hashed for two
\* members, none of the directory for a member (entry_boundary).
RangesDisjoint ==
  CollectionVerdict(doc) = "ok" =>
    \A h \in Entries(doc) :
      /\ HasSig(doc, At(doc, h).offset, "LOCAL")
      /\ BindingEnd(doc, h) <= CdStart(doc)
      /\ \A g \in Entries(doc) \ {h} :
           \/ BindingEnd(doc, h) <= At(doc, g).offset
           \/ BindingEnd(doc, g) <= At(doc, h).offset

\* An entry is refused for its descriptor only when that is missing or disagrees
\* with the directory header: in either form, with a signature or without, it is
\* found and bound whole.  The one exception is a descriptor without signature
\* whose CRC has the signature's value (entry_binding_range,
\* Error::MalformedDataDescriptor).
DescriptorsAccepted ==
  Parses(doc) =>
    \A h \in Entries(doc) :
      LET end == ContentEnd(doc, h)
          marked == /\ HasWord(doc, end, DescriptorSig)
                    /\ HasDescriptor(doc, h, end + 1)
          unmarked == /\ At(doc, h).crc # DescriptorSig
                      /\ HasDescriptor(doc, h, end)
      IN ContentVerdict(doc, h) = "ok" /\ Streamed(doc, h) =>
           /\ (BindingVerdict(doc, h) = "ok") = (marked \/ unmarked)
           /\ marked => BindingEnd(doc, h) = end + 4
           /\ unmarked => BindingEnd(doc, h) = end + 3

\* An embed into an archive with no manifest moves nothing: the cells before
\* the directory and the offsets of the entries stay (insert_zip_entry).
EmbedKeepsOffsets ==
  [][Did("embed") /\ Named(doc, ManifestPath) = {} =>
       /\ Slice(doc', 0, CdStart(doc)) = Slice(doc, 0, CdStart(doc))
       /\ {<<e.name, e.offset>> : e \in {At(doc, h) : h \in Entries(doc)}}
            = {<<e.name, e.offset>> : e \in {At(doc', h) : h \in Members(doc')}}]_vars

\* The record a rebuilt archive ends with describes it: it locates the directory
\* and has its size and its count, and no number has been wrapped to fit its
\* field.  The parser never reads the size back, so nothing else would notice
\* (insert_zip_entry, remove_zip_entry).
EocdIsExact ==
  [][Rebuilds =>
       LET r == Last(doc')
       IN /\ r.sig = "EOCD" /\ r.comment = 0
          /\ r.count <= U16Max /\ r.cdsize <= U32Max /\ r.cdoffset <= U32Max
          /\ r.cdoffset < Len(doc')
          /\ r.cdsize = SizeOf(doc', r.cdoffset .. Len(doc') - 2)
          /\ r.count = Cardinality({p \in r.cdoffset .. Len(doc') - 1 :
                                      HasSig(doc', p, "CENTRAL")})]_vars

\* The entries of the archive follow one another from its first cell to its
\* directory, which lists them in that order and ends at an EOCD that measures
\* it and has no comment: what remove_zip_entry writes and build_zip builds.
Compact(b) ==
  /\ Bindable(b)
  /\ At(b, EocdOffset(b)).comment = 0
  /\ At(b, EocdOffset(b)).cdsize = SizeOf(b, Entries(b))
  /\ CdStart(b) + Cardinality(Entries(b)) = EocdOffset(b)
  /\ \A h \in Entries(b) :
       At(b, h).offset = IF h = CdStart(b) THEN 0 ELSE BindingEnd(b, h - 1)
  /\ CdStart(b) = IF Entries(b) = {} THEN 0 ELSE BindingEnd(b, Max(Entries(b)))

\* Removing a manifest leaves a compact archive, and no call makes a compact
\* one less so: the rebuilt offsets fit the rebuilt data (remove_zip_entry).
RebuildCompacts ==
  [][/\ call'.verdict = "ok" /\ ~KnownDeadEnd
     /\ \/ Compact(doc)
        \/ Did("remove") /\ Named(doc, ManifestPath) # {}
     => Compact(doc')]_vars

\* In a compact archive with no manifest an embed is undone by a remove, cell
\* for cell, and an earlier embed leaves no trace in a later one, in what it
\* writes or in whether it succeeds; unless what the first embed wrote is an
\* archive the crate refuses (embed_read_and_remove_round_trip,
\* embedding_twice_replaces).
EmbedIsReversible ==
  Compact(doc) /\ Named(doc, ManifestPath) = {} =>
    \A first, second \in Payloads :
      LET once == Embed(doc, first)
      IN EmbedVerdict(doc, first) = "ok" /\ ~IsZip64(Last(once)) =>
           /\ RemoveVerdict(once, ManifestPath) = "ok"
           /\ RemoveZipEntry(once, ManifestPath) = doc
           /\ EmbedVerdict(once, second) = EmbedVerdict(doc, second)
           /\ Embed(once, second) = Embed(doc, second)

\* A record that ends the archive b itself, wherever its directory may be.
EndsArchive(b, p) == HasSig(b, p, "EOCD") /\ p + 1 + At(b, p).comment = Len(b)

\* "A trailing ZIP comment is tolerated when locating the EOCD": with a comment
\* or without, the crate reads the same members, the same manifest and the same
\* hashed ranges; unless the comment holds a record that ends the archive too,
\* which is then the one found (find_eocd).
CommentsTolerated ==
  Parses(doc) /\ EocdOffset(doc) + 1 = Len(doc) =>
    \A comment \in {c \in Payloads : Len(c) \in U16} :
      LET b == WithComment(doc, comment)
          inner == {p \in Len(doc) .. Len(b) - 1 : EndsArchive(b, p)}
      IN IF inner # {} THEN EocdOffset(b) \in inner
         ELSE /\ Parses(b) /\ MemberFiles(b) = MemberFiles(doc)
              /\ ReadVerdict(b, ManifestPath) = ReadVerdict(doc, ManifestPath)
              /\ ReadVerdict(b, ManifestPath) = "ok" =>
                   ReadContent(b, ManifestPath) = ReadContent(doc, ManifestPath)
              /\ CollectionVerdict(b) = CollectionVerdict(doc)
              /\ CollectionVerdict(b) = "ok" =>
                   CollectionInput(b) = CollectionInput(doc)

-----------------------------------------------------------------------------
(* What the code's comments say and the code does not do                   *)

\* "is_valid_zip: the input parses as a valid, non-ZIP64 archive" (verify).
VerifyReportsParse == Verify(doc).is_valid_zip = Parses(doc)

\* "Calling this repeatedly leaves exactly one manifest": an embed that
\* succeeded can be repeated (embed_manifest).
EmbedsRepeat ==
  [][Did("embed") => EmbedVerdict(doc', call'.store) = "ok"]_vars

\* Embedding again a store as long as the placeholder is "harmless": the
\* directory hash over the placeholder stays valid (fill_manifest's comment).
ReembedSameLengthHarmless ==
  [][/\ call.op = "embed" /\ call.verdict = "ok"
     /\ Did("embed") /\ Len(call'.store) = Len(call.store)
     => DirectoryInput(doc') = DirectoryInput(doc)]_vars
=============================================================================
