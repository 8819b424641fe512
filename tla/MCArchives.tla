------------------------------ MODULE MCArchives ----------------------------
(***************************************************************************)
(* Small instances for TLC: the constants, and the sets of archives the    *)
(* runs start from.                                                        *)
(***************************************************************************)
EXTENDS ZipWriters

MCNames == {"manifest", "a", "b", "../a", "nonutf8"}
MCNonUtf8 == {"nonutf8"}
MCCdHeaderLen(name) == 2
MCDots == {"../a"}

\* A checksum with collisions, as any checksum has; its values fit a u32.
MCCrc(cells) ==
  FoldSeq(LAMBDA c, sum : (2 * sum + (IF c.sig = "DATA" THEN c.v ELSE 1)) % 5,
          3, cells)

\* Two stores of the same length to fill one with the other, a longer one,
\* and one whose content looks like the end of an archive.
MCPayloads ==
  { <<Byte(1)>>, <<Byte(2)>>, <<Byte(1), Byte(2)>>, <<Eocd(0, 0, 0)>> }
TwoPayloads == { <<Byte(1)>>, <<Byte(2)>> }

-----------------------------------------------------------------------------
(* Files                                                                   *)

\* Any method but 0: 8 in archives, which is no u16 in the smallest instance.
Deflate == 1

PlainA   == StoredFile("a", <<Byte(1)>>)
PlainB   == StoredFile("b", <<Byte(2), Byte(1)>>)
EmptyB   == StoredFile("b", <<>>)
Manifest == StoredFile(ManifestPath, <<Byte(2)>>)

\* Deflated, its sums in a descriptor that starts with a signature, or not.
StreamedB ==
  [PlainB EXCEPT !.flags = {"streamed"}, !.method = Deflate, !.usize = 3, !.marked = TRUE]
UnmarkedA == [PlainA EXCEPT !.flags = {"streamed"}, !.extra = <<Byte(0)>>]

\* Its CRC is the number that is also the descriptor signature.
UnluckyA == [StoredFile("a", <<Byte(3)>>) EXCEPT !.flags = {"streamed"}]

EncryptedA        == [PlainA EXCEPT !.flags = {"encrypted"}]
PaddedA           == [PlainA EXCEPT !.gap = <<Byte(3)>>, !.extra = <<Byte(0)>>,
                             !.more = 3]
TwinManifest      == StoredFile(ManifestPath, PlainA.data)
PaddedManifest    == [Manifest EXCEPT !.gap = <<Byte(3)>>]
DeflatedManifest  == [Manifest EXCEPT !.method = Deflate, !.usize = 2]
EncryptedManifest == [Manifest EXCEPT !.flags = {"encrypted"}]
StreamedManifest  == [Manifest EXCEPT !.flags = {"streamed"}]
DotFile           == StoredFile("../a", <<Byte(1)>>)

Lists(files, n) == UNION {[1 .. k -> files] : k \in 0 .. n}

DistinctNames(fs) ==
  \A i, j \in DOMAIN fs : fs[i].name = fs[j].name => i = j

Orders(n) == {o \in [1 .. n -> 1 .. n] : \A i, j \in 1 .. n : o[i] = o[j] => i = j}

-----------------------------------------------------------------------------
(* Inputs                                                                  *)

\* What build_zip and streaming writers produce: compact archives.
CanonicalInputs ==
  {BuildZip(fs) : fs \in {l \in Lists({PlainA, UnmarkedA, StreamedB, EmptyB,
                                       Manifest}, 3) : DistinctNames(l)}}

\* What else is a well-formed archive: gaps, extra fields, comments, a
\* directory in another order than the data, a name twice, an unusable
\* manifest, a member the collection hash refuses.
ThirdPartyFiles ==
  {EncryptedA, PaddedA, UnluckyA, StreamedB, Manifest, PaddedManifest,
   DeflatedManifest, EncryptedManifest, StreamedManifest, DotFile}
PlainThirdPartyInputs ==
  {WriteZip(fs, o, <<>>, comment) :
     <<fs, o, comment>> \in
       UNION {{fs} \X Orders(Len(fs)) \X {<<>>, <<Byte(1)>>} :
                fs \in Lists(ThirdPartyFiles, 2)}}

\* An archive of no entries at the end of the comment of another.
NestedRecord(b) == WithComment(b, <<Byte(1), Eocd(0, 0, Len(b) + 1)>>)

ThirdPartyInputs ==
  PlainThirdPartyInputs
    \cup {NestedRecord(BuildZip(fs)) : fs \in Lists(ThirdPartyFiles, 1)}

Values(field) ==
  CASE field = "flags" -> {{}, {"streamed"}, FlagBits}
    [] field = "name" -> {"nonutf8", "../a", "a", ManifestPath}
    [] field \in {"extra", "method", "count", "comment"} -> {0, 1, 2, 4, U16Max}
    [] field = "len" -> {U16Max, U32Max + 1}
    [] OTHER -> {0, 1, 2, 4, U16Max, U32Max}

\* One field of one structure of b with another value, or b cut short.
Damages(b) ==
  UNION {UNION {{[b EXCEPT ![p] = [b[p] EXCEPT ![f] = v]] : v \in Values(f)} :
                  f \in DOMAIN b[p] \ {"sig"}} : p \in DOMAIN b}
    \cup {Slice(b, 0, k) : k \in 0 .. Len(b)}

DamagedInputs ==
  {d \in UNION {Damages(BuildZip(fs)) :
                  fs \in {<<StreamedB, Manifest>>, <<PlainA, TwinManifest>>}} :
     ExactDirectory(d)}

\* What the crate may be given that neither it nor build_zip wrote.
ForeignInputs == ThirdPartyInputs \cup DamagedInputs

\* As many entries as the limits of the widths leave room for, and fewer.
LimitInputs ==
  {BuildZip(fs) :
     fs \in {l \in Lists({PlainA, EmptyB, StoredFile("../a", <<>>), Manifest}, 3) :
               DistinctNames(l)}}

\* A member whose local header does not agree with its directory header: its sums
\* are zero as if a descriptor had them, or there should be one and is not.
UncheckedInputs ==
  {[BuildZip(<<PlainA>>) EXCEPT ![1].crc = 0],
   [BuildZip(<<PlainA>>) EXCEPT ![1].flags = {"streamed"}, ![3].flags = {"streamed"}]}

\* A directory followed by a record the EOCD does not count, as the digital
\* signature of the directory is, or by a header it does not count.
TrailingInputs ==
  {WriteZip(<<PlainA>>, <<1>>, trailing, <<>>) :
     trailing \in {<<Byte(1)>>, <<FileHeader(EmptyB, 0)>>}}
=============================================================================
