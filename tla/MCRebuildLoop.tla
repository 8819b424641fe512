---------------------------- MODULE MCRebuildLoop ---------------------------
(***************************************************************************)
(* Instances of RebuildLoop for TLC.                                       *)
(***************************************************************************)
EXTENDS RebuildLoop, MCArchives

\* As large as the limits leave room for.
FullB == StoredFile("b", [i \in 1 .. 6 |-> Byte(0)])

\* With much in their directory headers.
WideA        == [PlainA EXCEPT !.more = 5]
WideB        == [EmptyB EXCEPT !.more = 5]
WideManifest == [Manifest EXCEPT !.more = 4]

\* Directories of 13 bytes and more, too large before or after a manifest is
\* removed or embedded, and of 10 and 11, which a manifest makes 12 and 13.
WideLists ==
  {<<WideA, Manifest, WideB>>, <<WideA, WideB>>, <<WideA, WideManifest>>,
   <<WideA, WideManifest, EmptyB>>, <<WideA, [EmptyB EXCEPT !.more = 1]>>,
   <<WideA, [EmptyB EXCEPT !.more = 2]>>, <<WideManifest, StreamedB, WideA>>}

\* Archives with a manifest in each place, an entry no call may copy before or
\* after it, gaps, and as many entries and cells as the limits leave room for,
\* and fewer.
RebuildInputs ==
  {BuildZip(fs) : fs \in {<<>>, <<PlainA, Manifest, EmptyB>>, <<StreamedB, PlainA>>}
                            \cup WideLists}
    \cup {WriteZip(fs, o, <<>>, <<>>) :
            <<fs, o>> \in {<<PaddedA, StreamedManifest>>, <<UnluckyA, Manifest>>,
                           <<Manifest, UnluckyA>>, <<PaddedManifest, StreamedB>>}
                          \X Orders(2)}
    \cup {Slice(BuildZip(<<Manifest>>), 0, 2)}
    \cup {BuildZip(fs) :
            fs \in {l \in Lists({PlainA, FullB, StoredFile("../a", <<>>), Manifest}, 3) :
                      DistinctNames(l)}}
=============================================================================
