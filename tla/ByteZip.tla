------------------------------- MODULE ByteZip ------------------------------
(***************************************************************************)
(* A document as bytes in the hands of a caller: C2paZip with the record   *)
(* layouts of the code, shown to implement C2paZip with one cell for each  *)
(* record.                                                                 *)
(***************************************************************************)
EXTENDS HostBindings, ZipFormat

CONSTANTS
  Inputs,      \* the archives a caller may start from
  Stores,      \* the stores it embeds and fills with
  FileNames    \* the names in them

ASSUME ByteAssumption ==
  /\ Inputs \subseteq Seq(0 .. Base - 1)
  /\ ZIP_MANIFEST_PATH \in Seq(0 .. Base - 1)
  /\ \A s \in Stores : s \in Seq(0 .. Base - 1) /\ Crc32(s) \in 0 .. U32Max

VARIABLES
  doc,         \* the archive the caller holds
  call,        \* the last call: its name, its store, its verdict
  cells        \* history: the cells the archive stands for

vars == <<doc, call, cells>>

Init == /\ doc \in Inputs /\ cells = CellsOf(doc)
        /\ call = [op |-> "none", store |-> <<>>, verdict |-> "none"]

Call(op, store, result) ==
  /\ call' = [op |-> op, store |-> store, verdict |-> result.verdict]
  /\ doc' = IF result.verdict = "ok" THEN result.value ELSE doc
  /\ cells' = CellsOf(doc')

Embed(store) == Call("embed", store, EmbedManifest(doc, store))
Fill(store) == Call("fill", store, FillZipEntry(doc, ZIP_MANIFEST_PATH, store))
Clear == Call("remove", <<>>, RemoveZipEntry(doc, ZIP_MANIFEST_PATH))

Next == (\E store \in Stores : Embed(store) \/ Fill(store)) \/ Clear

Spec == Init /\ [][Next]_vars

-----------------------------------------------------------------------------
(* Properties                                                              *)

ByteTypeOK ==
  /\ doc \in Seq(0 .. Base - 1)
  /\ call.op \in {"none", "embed", "fill", "remove"}

Cells ==
  INSTANCE C2paZip WITH
    DescriptorSig <- DATA_DESCRIPTOR_SIG,
    ManifestPath <- ZIP_MANIFEST_PATH,
    Names <- FileNames,
    Payloads <- {Data(s) : s \in Stores},
    CdHeaderLen <- LAMBDA name : Size.central + Len(name),
    Crc <- LAMBDA cs : Crc32([i \in DOMAIN cs |-> cs[i].v]),
    Inputs <- {CellsOf(b) : b \in Inputs},
    doc <- cells,
    call <- [call EXCEPT !.store = Data(@)]

\* Counted in bytes, with every field read, written and patched at the offset
\* the code names, the calls do what they do on cells: every reader and every
\* writer of a record agrees with the format on where its fields are, and every
\* offset and length with where the records are (write_local_header,
\* write_cd_header, parse_layout, entry_content_range, entry_binding_range,
\* fill_manifest, remove_zip_entry).
CellsAreFaithful == Cells!Spec

\* The members in archive order: the bytes of each entry, and of its directory
\* header all but the offset.
MemberBytes(b) ==
  LET hs == SelectSeq(ByOffset(b, HeadersOf(b)),
                      LAMBDA h : NameIn(b, h) # ZIP_MANIFEST_PATH)
  IN [k \in DOMAIN hs |->
        [entry  |-> Bytes(b, LocalOf(b, hs[k]), EntryEnd(b, hs[k])),
         header |-> Bytes(b, hs[k], hs[k] + Start.central.offset)
                      \o Bytes(b, hs[k] + Size.central, hs[k] + HeaderSize(b, hs[k]))]]

\* No call alters a byte of a member, time stamps and attributes included, or of
\* its directory header, but for the field that locates it: the patches hit the
\* fields they are meant for and nothing beside them (fill_manifest,
\* remove_zip_entry).
MembersKeepBytes ==
  [][RecordsOf(doc) # {} => MemberBytes(doc') = MemberBytes(doc)]_vars

\* The headers of the manifest in archive order; it is read from the first.
ManifestHeaders(b) ==
  LET hs == ByOffset(b, HeadersOf(b))
  IN Kept(hs, {k \in DOMAIN hs : NameIn(b, hs[k]) = ZIP_MANIFEST_PATH})

\* What a collection hash covers: the directory and the EOCD but for the CRC in
\* the header the manifest is read from, and the entries of the members; not
\* the manifest nor gaps between entries.
ToBeHashed(b) ==
  ((CdStartOf(b) .. Len(b) - 1)
     \ (IF ManifestHeaders(b) = <<>> THEN {}
        ELSE LET crc == ManifestHeaders(b)[1] + Start.central.crc IN crc .. crc + 3))
  \cup UNION {LocalOf(b, h) .. EntryEnd(b, h) - 1 :
                h \in {h \in ToSet(HeadersOf(b)) : NameIn(b, h) # ZIP_MANIFEST_PATH}}

\* A WebAssembly program has no archive longer than its addresses.
Addressable(host, b) == host = "js" => Len(b) <= U32Max

\* What a host program hashes, slicing the document by the starts and lengths
\* it is given, is every byte to be hashed, once, and no other byte: no byte of
\* the document is bound twice or left open by a length or an offset that is
\* off (collection_members, central_directory_ranges, their Python and
\* JavaScript conversions).
HashedOnce ==
  \A host \in Hosts :
    Addressable(host, doc) /\ HostMembers(host, doc).kind = "value" =>
      LET slices == HostMembers(host, doc).value \o HostDirectoryRanges(host, doc).value
          hashed == ToBeHashed(doc)
      IN \A p \in 0 .. Len(doc) - 1 :
           Cardinality({k \in DOMAIN slices :
                          p \in slices[k].start .. slices[k].start + slices[k].length - 1})
             = IF p \in hashed THEN 1 ELSE 0

\* A host program is told None of exactly the archives that can be read, all
\* names included, and have no header of a manifest, which are those it can hash
\* the directory of as one range; the report says that there is a manifest when
\* one is read, with its length, and calls an archive valid that is read or has
\* none, never one that cannot be read at all (read_manifest, verify,
\* central_directory_range).
AbsenceIsNoError ==
  LET names  == {NameIn(doc, h) : h \in ToSet(HeadersOf(doc))}
      absent == Layout(doc).verdict = "ok" /\ ZIP_MANIFEST_PATH \notin names
  IN /\ Layout(doc).verdict = "ok" => names \cap NonUtf8Names = {}
     /\ (HostRead(doc).kind = "None") = absent
     /\ \A host \in Hosts : (HostDirectoryRange(host, doc).kind = "value") = absent
     /\ HostVerify(doc).has_manifest = (HostRead(doc).kind = "value")
     /\ HostVerify(doc).has_manifest =>
          HostVerify(doc).manifest_len = Len(HostRead(doc).value)
     /\ absent \/ HostVerify(doc).has_manifest => HostVerify(doc).is_valid_zip
     /\ HostVerify(doc).is_valid_zip => Layout(doc).verdict = "ok"
=============================================================================
