--------------------------- MODULE MCTwoPassSigning -------------------------
(***************************************************************************)
(* Instances of TwoPassSigning for TLC.                                    *)
(***************************************************************************)
EXTENDS TwoPassSigning, MCArchives

MCZero == Byte(0)
MCSizes == {1, 3}
MCStores == { <<Byte(1)>>, <<Byte(2), Byte(1)>> }
SigningPayloads ==
  {Zeros(n) : n \in MCSizes} \cup {Padded(s, n) : s \in MCStores, n \in MCSizes}

\* Documents with each kind of neighbour of the manifest, an old manifest that
\* has a descriptor, and members of which one may not be hashed.
SigningInputs ==
  { BuildZip(<<>>),
    BuildZip(<<PlainA, StreamedB>>),
    WriteZip(<<PaddedA, StreamedManifest>>, <<2, 1>>, <<>>, <<Byte(1)>>),
    BuildZip(<<DotFile>>) }

-----------------------------------------------------------------------------
(* Another program                                                         *)

\* The files of an archive, written anew, the manifest with a descriptor.
Resaved(b) ==
  LET order == InArchiveOrder(b, Entries(b))
      Flags(h) == IF At(b, h).name = ManifestPath THEN {"streamed"} ELSE {}
  IN BuildZip([k \in 1 .. Len(order) |->
       [StoredFile(At(b, order[k]).name, ContentOf(b, order[k]))
          EXCEPT !.flags = Flags(order[k]), !.method = At(b, order[k]).method]])

Swapped(b, p) == [b EXCEPT ![p] = b[p + 1], ![p + 1] = b[p]]

\* A member added, dropped or moved in the directory, all files saved anew,
\* one number or name of one structure changed.  (A directory that does not end
\* at the EOCD, or outgrows its size field, is the subject of another run.)
Changed(b) ==
  IF ~Parses(b) THEN {}
  ELSE {InsertZipEntry(b, "b", <<Byte(1)>>)}
    \cup {RemoveZipEntry(b, n) : n \in {m \in MCNames : RemoveVerdict(b, m) = "ok"}}
    \cup {Resaved(c) : c \in {c \in {b} : CollectionVerdict(c) = "ok"}}
    \cup {Swapped(b, p) : p \in {p \in 1 .. Len(b) - 1 :
                                   b[p].sig = "CENTRAL" /\ b[p + 1].sig = "CENTRAL"}}
    \cup Damages(b)

MCEdits(b) ==
  {c \in Changed(b) :
     /\ c \in Archives /\ ExactDirectory(c)
     /\ Parses(c) => SizeOf(c, Entries(c)) + MCCdHeaderLen(ManifestPath) < U32Max}
=============================================================================
