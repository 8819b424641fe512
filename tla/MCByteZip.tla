----------------------------- MODULE MCByteZip ------------------------------
(***************************************************************************)
(* Instances of ByteZip for TLC.                                           *)
(***************************************************************************)
EXTENDS ByteZip

\* "PK" and two more bytes, of the seven a byte may be.
Sig(x, y) == 6 + 7 * 5 + 49 * x + 343 * y
MCEocdSig == Sig(5, 6)
MCCdSig == Sig(1, 2)
MCLocalSig == Sig(3, 4)
MCDescriptorSig == Sig(6, 3)

MCManifestPath == <<3, 2>>
MCDots == {<<0>>}
MCNonUtf8 == {<<6>>}

\* As long as a field can be.
Long == [i \in 1 .. U16Max |-> i % Base]

MCFileNames == {MCManifestPath, <<1>>, <<2, 2, 2>>, <<0>>, <<6>>, Long}

\* A checksum whose values take all four bytes; one is the descriptor's signature.
MCCrc32(bytes) ==
  IF bytes = <<5, 5>> THEN MCDescriptorSig
  ELSE FoldSeq(LAMBDA b, sum : (31 * sum + 7 * b + 1) % Base ^ 4, 4000, bytes)

\* Two of a length; one that is a record.
MCStores ==
  {<<1, 2>>, <<6, 0>>,
   Encode("eocd", [sig |-> EOCD_SIG, count |-> 0, cdoffset |-> 0, comment |-> 0])}

PlainA    == File(<<1>>, <<4, 4>>)
Manifest  == File(MCManifestPath, <<6, 1>>)
PaddedB   == [File(<<2, 2, 2>>, <<1>>) EXCEPT
                !.gap = <<5>>, !.extra = <<3, 3>>, !.comment = <<4, 1, 2>>]
StreamedB == [PaddedB EXCEPT !.flags = 8, !.method = 8, !.usize = 4, !.marked = TRUE]
UnmarkedA == [PlainA EXCEPT !.flags = 8]
UnluckyA  == [File(<<1>>, <<5, 5>>) EXCEPT !.flags = 8]
Encrypted == [Manifest EXCEPT !.flags = 1, !.gap = <<2>>]
Deflated  == [Manifest EXCEPT !.method = 8, !.usize = 4, !.extra = <<1>>]
Streamed  == [Manifest EXCEPT !.flags = 8, !.marked = TRUE]
DotFile   == File(<<0>>, <<>>)
NonUtf8   == File(<<6>>, <<1>>)

\* With a name, an extra field and a comment as long as can be, a directory header
\* takes 190 of the 2400 bytes a directory may have.
Wide(f) == [f EXCEPT !.extra = Long, !.comment = Long]
WideFiles(n) == [i \in 1 .. n |-> Wide(File(Long, <<1>>))]

\* Directories that are too large without their manifest too, and with any they
\* would get.
WideInputs ==
  {WriteBytes(files, FALSE, <<>>) :
     files \in {WideFiles(13) \o <<Encrypted>>,
                WideFiles(12) \o <<[PlainA EXCEPT !.comment = Long]>>}}

MCInputs ==
  {WriteBytes(fs, variant[1], variant[2]) :
     <<fs, variant>> \in
       {<<PlainA, PaddedB>>, <<UnmarkedA, Manifest>>, <<Manifest, StreamedB>>,
        <<UnluckyA, Encrypted>>, <<Manifest, UnluckyA>>, <<Deflated, PlainA>>,
        <<Streamed, PaddedB>>, <<Manifest, DotFile, Manifest>>, <<PlainA, NonUtf8>>}
       \X {<<FALSE, <<>>>>, <<TRUE, <<1, 5>>>>}}
  \cup {WriteBytes(<<>>, FALSE, <<>>), <<1, 2, 3>>}
  \cup WideInputs
=============================================================================
