-------------------------- MODULE CollectionBinding -------------------------
(***************************************************************************)
(* The inputs of the collection data hash (binding.rs) and the structural  *)
(* report (verify.rs).  The crate hands out byte ranges; what a caller     *)
(* hashes is the cells in them, and that is what these operators return.   *)
(***************************************************************************)
EXTENDS ZipEdit

-----------------------------------------------------------------------------
(* member_ranges and collection_members                                    *)

MemberVerdict(b, h) ==
  IF At(b, h).name \in DotNames THEN "InvalidMemberPath" ELSE BindingVerdict(b, h)

\* Every entry is checked, the manifest's too, before it is filtered out.
CollectionVerdict(b) ==
  LET refused == {h \in Entries(b) : MemberVerdict(b, h) # "ok"}
  IN IF ~Parses(b) THEN ParseVerdict(b)
     ELSE IF refused = {} THEN "ok"
     ELSE MemberVerdict(b, FirstOf(b, refused))

Members(b) == Entries(b) \ Named(b, ManifestPath)

\* Each member's name and the cells its hash covers, in archive order.
CollectionInput(b) ==
  LET order == InArchiveOrder(b, Members(b))
  IN [k \in 1 .. Len(order) |->
        [name |-> At(b, order[k]).name, cells |-> EntryCells(b, order[k])]]

-----------------------------------------------------------------------------
(* central_directory_range and central_directory_ranges                    *)

RangesVerdict(b) == ParseVerdict(b)

RangeVerdict(b) ==
  IF ~Parses(b) THEN ParseVerdict(b)
  ELSE IF Named(b, ManifestPath) # {} THEN "NonContiguousCentralDirectoryHash"
  ELSE "ok"

\* Mutants: the headers are not hashed; the manifest's CRC is hashed too.
DirectoryInputEocdOnly(b) == Slice(b, EocdOffset(b), Len(b))
DirectoryInputWithCrc(b) == Slice(b, CdStart(b), Len(b))

\* The cells from the first directory header to the end of the archive; of
\* the manifest's header, found by name, the CRC is left out.  A cell knows
\* what it is, which the hashed bytes do not: the two ranges of the code follow
\* one another in the hash, and the place of the four bytes left out between
\* them is kept here.
DirectoryInput(b) ==
  [i \in 1 .. Len(b) - CdStart(b) |->
     LET p == CdStart(b) + i - 1
     IN IF Named(b, ManifestPath) # {} /\ p = FirstNamed(b, ManifestPath)
        THEN [At(b, p) EXCEPT !.crc = 0]
        ELSE At(b, p)]

-----------------------------------------------------------------------------
(* verify                                                                  *)

Verify(b) ==
  LET read == ReadVerdict(b, ManifestPath)
  IN [has_manifest |-> read = "ok",
      manifest_len |-> IF read = "ok" THEN Len(ReadContent(b, ManifestPath)) ELSE 0,
      is_valid_zip |-> read \in {"ok", "none"}]
=============================================================================
