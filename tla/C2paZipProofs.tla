---------------------------- MODULE C2paZipProofs ---------------------------
(***************************************************************************)
(* Theorems about the calls a caller makes, for every set of inputs, every *)
(* set of stores and every checksum.                                       *)
(***************************************************************************)
EXTENDS C2paZip, RebuiltProofs

\* The calls by what they answer: what each does to the document when it
\* succeeds, and that it leaves the document when it does not.
LEMMA CallEffects ==
  ASSUME TypeOK, Next
  PROVE  /\ Did("embed") => /\ call'.store \in Payloads
                            /\ EmbedVerdict(doc, call'.store) = "ok"
                            /\ doc' = Embed(doc, call'.store)
         /\ Did("fill") => IsFilling(doc, call'.store, doc')
         /\ Did("remove") => /\ RemoveVerdict(doc, ManifestPath) = "ok"
                             /\ doc' = RemoveZipEntry(doc, ManifestPath)
         /\ Did("embed") \/ Did("fill") \/ Did("remove") \/ doc' = doc
<1> doc \in Archives
  BY DEF TypeOK
<1>1. ASSUME NEW store \in Payloads, EmbedManifest(store)
      PROVE  /\ call'.op = "embed" /\ call'.store = store
             /\ call'.verdict = EmbedVerdict(doc, store)
             /\ doc' = IF call'.verdict = "ok" THEN Embed(doc, store) ELSE doc
  BY <1>1 DEF EmbedManifest, Return
<1>2. ASSUME NEW store \in Payloads, FillManifest(store)
      PROVE  /\ call'.op = "fill" /\ call'.store = store
             /\ call'.verdict = FillVerdict(doc, ManifestPath, store)
             /\ doc' = IF call'.verdict = "ok"
                       THEN FillZipEntry(doc, ManifestPath, store) ELSE doc
  BY <1>2 DEF FillManifest, Return
<1>3. ASSUME RemoveManifest
      PROVE  /\ call'.op = "remove" /\ call'.verdict = RemoveVerdict(doc, ManifestPath)
             /\ doc' = IF call'.verdict = "ok"
                       THEN RemoveZipEntry(doc, ManifestPath) ELSE doc
  BY <1>3 DEF RemoveManifest, Return
<1> QED
  BY <1>1, <1>2, <1>3 DEF Next, Did, IsFilling

\* What a call answers with.
IsAnswer(c) ==
  /\ c = [op |-> c.op, store |-> c.store, verdict |-> c.verdict]
  /\ c.op \in {"embed", "fill", "remove"} /\ c.verdict \in Verdicts
  /\ c.store \in IF c.op = "remove" THEN {<<>>} ELSE Payloads

\* Every operation leaves an answer (embed_manifest, fill_manifest,
\* remove_manifest).
LEMMA CallAnswers ==
  ASSUME Next
  PROVE  IsAnswer(call')
<1>1. ASSUME NEW store \in Payloads, EmbedManifest(store)
      PROVE  IsAnswer(call')
  BY <1>1, CallVerdicts DEF EmbedManifest, Return, EmbedVerdict, IsAnswer
<1>2. ASSUME NEW store \in Payloads, FillManifest(store)
      PROVE  IsAnswer(call')
  BY <1>2, CallVerdicts DEF FillManifest, Return, IsAnswer
<1>3. ASSUME RemoveManifest
      PROVE  IsAnswer(call')
  BY <1>3, CallVerdicts DEF RemoveManifest, Return, IsAnswer
<1> QED
  BY <1>1, <1>2, <1>3 DEF Next

\* What a successful embed returns is an archive.
LEMMA EmbedType ==
  ASSUME NEW b \in Archives, NEW store \in Payloads, EmbedVerdict(b, store) = "ok"
  PROVE  Embed(b, store) \in Archives
<1>1. RemoveVerdict(b, ManifestPath) = "ok"
  BY DEF EmbedVerdict
<1>2. InsertVerdict(RemoveZipEntry(b, ManifestPath), ManifestPath, store) = "ok"
  BY <1>1 DEF EmbedVerdict
<1>3. RemoveZipEntry(b, ManifestPath) \in Archives
  BY <1>1, RemoveType
<1>4. ManifestPath \in Names
  BY NameAssumption
<1> QED
  BY <1>2, <1>3, <1>4, InsertType DEF Embed

\* The document is a sequence of cells after any sequence of calls, and every
\* call answers with one of the crate's errors or with success.
THEOREM TypeCorrect == Spec => []TypeOK
<1>1. Init => TypeOK
  <2> SUFFICES ASSUME Init
               PROVE  TypeOK
    OBVIOUS
  <2>1. doc \in Archives
    BY InputAssumption DEF Init
  <2>2. call \in Calls
    BY DEF Init, Calls, Verdicts
  <2> QED
    BY <2>1, <2>2 DEF TypeOK
<1>2. TypeOK /\ [Next]_vars => TypeOK'
  <2> SUFFICES ASSUME TypeOK, [Next]_vars
               PROVE  TypeOK'
    OBVIOUS
  <2>1. doc \in Archives /\ call \in Calls
    BY DEF TypeOK
  <2>2. ASSUME NEW op \in {"embed", "fill", "remove"},
               NEW store \in Payloads \cup {<<>>},
               NEW verdict \in Verdicts, NEW archive,
               verdict = "ok" => archive \in Archives,
               Return(op, store, verdict, archive)
        PROVE  TypeOK'
    <3>1. call' \in Calls
      BY <2>2 DEF Return, Calls
    <3>2. doc' \in Archives
      BY <2>1, <2>2 DEF Return
    <3> QED
      BY <3>1, <3>2 DEF TypeOK
  <2>3. ASSUME NEW store \in Payloads, EmbedManifest(store)
        PROVE  TypeOK'
    <3>1. EmbedVerdict(doc, store) \in Verdicts
      BY CallVerdicts DEF EmbedVerdict
    <3>2. EmbedVerdict(doc, store) = "ok" => Embed(doc, store) \in Archives
      BY <2>1, EmbedType
    <3> QED
      BY <2>2, <2>3, <3>1, <3>2 DEF EmbedManifest
  <2>4. ASSUME NEW store \in Payloads, FillManifest(store)
        PROVE  TypeOK'
    <3>1. FillVerdict(doc, ManifestPath, store) \in Verdicts
      BY CallVerdicts
    <3>2. FillVerdict(doc, ManifestPath, store) = "ok"
            => FillZipEntry(doc, ManifestPath, store) \in Archives
      BY <2>1, FillCells
    <3> QED
      BY <2>2, <2>4, <3>1, <3>2 DEF FillManifest
  <2>5. CASE RemoveManifest
    <3>1. RemoveVerdict(doc, ManifestPath) \in Verdicts
      BY CallVerdicts
    <3>2. RemoveVerdict(doc, ManifestPath) = "ok"
            => RemoveZipEntry(doc, ManifestPath) \in Archives
      BY <2>1, RemoveType
    <3> QED
      BY <2>2, <2>5, <3>1, <3>2 DEF RemoveManifest
  <2>6. CASE UNCHANGED vars
    BY <2>1, <2>6 DEF vars, TypeOK
  <2> QED
    BY <2>3, <2>4, <2>5, <2>6 DEF Next
<1> QED
  BY <1>1, <1>2, PTL DEF Spec

-----------------------------------------------------------------------------

\* The collection hash is given only when every entry can be bound.
LEMMA CollectionAccepts ==
  ASSUME NEW b \in Archives, CollectionVerdict(b) = "ok"
  PROVE  Bindable(b)
<1>1. Parses(b)
  BY DEF CollectionVerdict, Parses
<1> DEFINE refused == {h \in Entries(b) : MemberVerdict(b, h) # "ok"}
<1>2. refused = {}
  <2> SUFFICES ASSUME refused # {}
               PROVE  FALSE
    OBVIOUS
  <2>1. FirstOf(b, refused) \in refused
    BY <1>1, FirstIsFirst
  <2>2. MemberVerdict(b, FirstOf(b, refused)) = "ok"
    BY <1>1 DEF CollectionVerdict
  <2> QED
    BY <2>1, <2>2
<1> QED
  BY <1>1, <1>2 DEF MemberVerdict, Bindable

\* Whatever archive the caller holds, if the crate hands out its members'
\* ranges, no two entries share a byte and none reaches the directory: the
\* collection hash binds each byte to one member (entry_boundary).
THEOREM BoundRangesDisjoint == Spec => []RangesDisjoint
<1>1. TypeOK => RangesDisjoint
  <2> SUFFICES ASSUME TypeOK, CollectionVerdict(doc) = "ok",
                      NEW h \in Entries(doc)
               PROVE  /\ HasSig(doc, At(doc, h).offset, "LOCAL")
                      /\ BindingEnd(doc, h) <= CdStart(doc)
                      /\ \A g \in Entries(doc) \ {h} :
                           \/ BindingEnd(doc, h) <= At(doc, g).offset
                           \/ BindingEnd(doc, g) <= At(doc, h).offset
    BY DEF RangesDisjoint
  <2>1. doc \in Archives
    BY DEF TypeOK
  <2>2. Parses(doc) /\ \A g \in Entries(doc) : BindingVerdict(doc, g) = "ok"
    BY <2>1, CollectionAccepts DEF Bindable
  <2>5. HasSig(doc, At(doc, h).offset, "LOCAL")
    BY <2>1, <2>2, BindingLocated, ContentLocated
  <2>6. BindingEnd(doc, h) <= CdStart(doc)
    <3>1. BindingEnd(doc, h) \in Nat /\ BindingEnd(doc, h) <= EntryBoundary(doc, h)
      BY <2>1, <2>2, BindingLocated
    <3>2. EntryBoundary(doc, h) \in Nat /\ EntryBoundary(doc, h) <= CdStart(doc)
      BY <2>1, <2>2, BoundaryProperties
    <3>3. CdStart(doc) \in Nat
      BY <2>1, <2>2, ParsedLayout
    <3> QED
      BY <3>1, <3>2, <3>3
  <2>7. ASSUME NEW g \in Entries(doc) \ {h}
        PROVE  \/ BindingEnd(doc, h) <= At(doc, g).offset
               \/ BindingEnd(doc, g) <= At(doc, h).offset
    <3>1. Before(doc, h, g) \/ Before(doc, g, h)
      <4>1. /\ h \in Nat /\ At(doc, h).offset \in Nat
            /\ g \in Nat /\ At(doc, g).offset \in Nat
        BY <2>1, <2>2, EntryProperties
      <4> QED
        BY <4>1 DEF Before
    <3> QED
      BY <2>1, <2>2, <3>1, BoundEntriesApart
  <2> QED
    BY <2>5, <2>6, <2>7
<1> QED
  BY <1>1, TypeCorrect, PTL

-----------------------------------------------------------------------------

\* For every archive a descriptor is refused only when it is missing or
\* disagrees, in either of its two forms, or when its CRC, with no signature
\* before it, has the signature's value (entry_binding_range).
THEOREM DescriptorsAreAccepted == Spec => []DescriptorsAccepted
<1>1. TypeOK => DescriptorsAccepted
  <2> SUFFICES ASSUME TypeOK, Parses(doc), NEW h \in Entries(doc),
                      ContentVerdict(doc, h) = "ok", Streamed(doc, h)
               PROVE  LET end == ContentEnd(doc, h)
                          marked == /\ HasWord(doc, end, DescriptorSig)
                                    /\ HasDescriptor(doc, h, end + 1)
                          unmarked == /\ At(doc, h).crc # DescriptorSig
                                      /\ HasDescriptor(doc, h, end)
                      IN /\ (BindingVerdict(doc, h) = "ok") = (marked \/ unmarked)
                         /\ marked => BindingEnd(doc, h) = end + 4
                         /\ unmarked => BindingEnd(doc, h) = end + 3
    BY DEF DescriptorsAccepted
  <2> DEFINE end == ContentEnd(doc, h)
  <2>1. end \in Nat
    BY ContentLocated DEF TypeOK
  <2>2. /\ BindingVerdict(doc, h) = "ok" <=> HasDescriptor(doc, h, DescriptorAt(doc, h))
        /\ BindingEnd(doc, h) = DescriptorAt(doc, h) + 3
    BY DEF BindingVerdict, BindingEnd
  <2>3. HasDescriptor(doc, h, end) =>
          (HasWord(doc, end, DescriptorSig) <=> At(doc, h).crc = DescriptorSig)
    BY DEF HasDescriptor, HasWord
  <2>4. CASE HasWord(doc, end, DescriptorSig)
    <3>1. DescriptorAt(doc, h) = end + 1
      BY <2>4 DEF DescriptorAt
    <3> HIDE DEF end
    <3>2. BindingEnd(doc, h) = end + 4
      BY <2>1, <2>2, <3>1
    <3> QED
      BY <2>2, <2>3, <2>4, <3>1, <3>2 DEF end
  <2>5. CASE ~HasWord(doc, end, DescriptorSig)
    <3>1. DescriptorAt(doc, h) = end + 0
      BY <2>5 DEF DescriptorAt
    <3> HIDE DEF end
    <3>2. DescriptorAt(doc, h) = end /\ BindingEnd(doc, h) = end + 3
      BY <2>1, <2>2, <3>1
    <3> QED
      BY <2>2, <2>3, <2>5, <3>2 DEF end
  <2> QED
    BY <2>4, <2>5
<1> QED
  BY <1>1, TypeCorrect, PTL

-----------------------------------------------------------------------------

\* Two-pass signing, for every archive that can be filled: no content, not
\* even one that looks like the end of an archive, changes what the directory
\* hash covers when it is filled in (fill_manifest).
THEOREM FillKeepsHash == Spec => FillKeepsDirectoryHash
<1>1. TypeOK /\ [Next]_vars =>
        (Did("fill") => DirectoryInput(doc') = DirectoryInput(doc)) \/ UNCHANGED vars
  <2> SUFFICES ASSUME TypeOK, [Next]_vars, ~UNCHANGED vars, Did("fill")
               PROVE  DirectoryInput(doc') = DirectoryInput(doc)
    OBVIOUS
  <2>1. Next
    OBVIOUS
  <2>2. doc \in Archives
    BY DEF TypeOK
  <2>3. PICK store \in Payloads : FillManifest(store)
    <3>1. \A store : ~EmbedManifest(store)
      BY DEF EmbedManifest, Return, Did
    <3>2. ~RemoveManifest
      BY DEF RemoveManifest, Return, Did
    <3> QED
      BY <2>1, <3>1, <3>2 DEF Next
  <2>4. /\ FillVerdict(doc, ManifestPath, store) = "ok"
        /\ doc' = FillZipEntry(doc, ManifestPath, store)
    BY <2>3 DEF FillManifest, Return, Did
  <2> QED
    BY <2>2, <2>4, FillKeepsDirectoryInput
<1> QED
  BY <1>1, TypeCorrect, PTL DEF Spec, FillKeepsDirectoryHash

-----------------------------------------------------------------------------
(* Archives with nothing between the last directory header and the EOCD.   *)
(* Of the others insert_zip_entry writes directories it cannot read back,  *)
(* as the run trailing_record shows; from these no call leads to those.    *)

ExactInputs == \A b \in Inputs : ExactDirectory(b)

\* The directory of the document ends at its EOCD, if the document parses.
ExactDocument == TypeOK /\ ExactDirectory(doc)

\* It does, whatever is embedded: in place of the parser's check that is not
\* there, every call that rebuilds the directory writes one that is exact.
LEMMA DocumentStaysExact == ASSUME ExactInputs PROVE Spec => []ExactDocument
<1>1. Init => ExactDirectory(doc)
  BY DEF ExactInputs, Init
<1>2. TypeOK /\ ExactDirectory(doc) /\ [Next]_vars => ExactDirectory(doc)'
  <2> SUFFICES ASSUME TypeOK, ExactDirectory(doc), [Next]_vars
               PROVE  ExactDirectory(doc')
    OBVIOUS
  <2> doc \in Archives
    BY DEF TypeOK
  <2>1. CASE UNCHANGED vars
    BY <2>1 DEF vars
  <2>2. CASE Next
    <3>1. CASE Did("embed")
      BY <2>2, <3>1, CallEffects, EmbedInserts
    <3>2. CASE Did("fill")
      BY <2>2, <3>2, CallEffects, FillKeepsMembers
    <3>3. CASE Did("remove")
      BY <2>2, <3>3, CallEffects, RemoveMeasures
    <3> QED
      BY <2>2, <3>1, <3>2, <3>3, CallEffects
  <2> QED
    BY <2>1, <2>2
<1> QED
  BY <1>1, <1>2, TypeCorrect, PTL DEF Spec, ExactDocument

\* What a remove leaves can be read, unless it writes the ZIP64 sentinel.
LEMMA RemovedParses ==
  ASSUME TypeOK, Next, ~WritesSentinel, Did("remove")
  PROVE  Parses(doc')
<1>1. /\ RemoveVerdict(doc, ManifestPath) = "ok"
      /\ doc' = RemoveZipEntry(doc, ManifestPath) /\ doc \in Archives
  BY CallEffects DEF TypeOK
<1>2. CASE Named(doc, ManifestPath) = {}
  BY <1>1, <1>2, RemoveMeasures
<1>3. CASE Named(doc, ManifestPath) # {}
  <2>1. ~IsZip64(Last(doc'))
    BY <1>3 DEF WritesSentinel, Rebuilds
  <2> QED
    BY <1>1, <1>3, <2>1, RemoveMeasures
<1> QED
  BY <1>2, <1>3

\* No call that returns what the crate can read loses, alters or reorders a
\* member.
LEMMA CallsKeepMembers ==
  ASSUME ExactDocument, Next, ~WritesSentinel, Parses(doc)
  PROVE  doc' \in Archives /\ Parses(doc') /\ KeepsMembers(doc, doc')
<1> doc \in Archives /\ TypeOK /\ ExactDirectory(doc)
  BY DEF ExactDocument, TypeOK
<1>1. CASE Did("embed")
  <2>1. /\ call'.store \in Payloads /\ EmbedVerdict(doc, call'.store) = "ok"
        /\ doc' = Embed(doc, call'.store)
    BY <1>1, CallEffects
  <2>2. ~IsZip64(Last(doc'))
    BY <1>1 DEF WritesSentinel, Rebuilds
  <2> QED
    BY <2>1, <2>2, EmbedKeepsMembers, EmbedInserts
<1>2. CASE Did("fill")
  BY <1>2, CallEffects, FillKeepsMembers
<1>3. CASE Did("remove")
  BY <1>3, CallEffects, RemovedParses, RemoveKeepsMembers
<1>4. CASE doc' = doc
  BY <1>4, MembersKept
<1> QED
  BY <1>1, <1>2, <1>3, <1>4, CallEffects

\* Nor does one leave a manifest that cannot be bound where all could be,
\* unless it is filled and has a data descriptor.
LEMMA CallsKeepBindable ==
  ASSUME ExactDocument, Next, ~KnownDeadEnd, Bindable(doc)
  PROVE  /\ Bindable(doc') /\ CollectionInput(doc') = CollectionInput(doc)
         /\ CollectionVerdict(doc) = "ok" => CollectionVerdict(doc') = "ok"
<1> doc \in Archives /\ TypeOK /\ ExactDirectory(doc)
  BY DEF ExactDocument, TypeOK
<1>1. /\ Parses(doc) /\ \A h \in Entries(doc) : BindingVerdict(doc, h) = "ok"
      /\ ~WritesSentinel /\ ~LeavesStaleDescriptor
  BY DEF Bindable, KnownDeadEnd
<1>2. doc' \in Archives /\ Parses(doc') /\ KeepsMembers(doc, doc')
  BY <1>1, CallsKeepMembers
<1>3. \A g \in Named(doc', ManifestPath) : BindingVerdict(doc', g) = "ok"
  <2>1. CASE Did("embed")
    <3>1. /\ call'.store \in Payloads /\ EmbedVerdict(doc, call'.store) = "ok"
          /\ doc' = Embed(doc, call'.store)
      BY <2>1, CallEffects
    <3>2. ~IsZip64(Last(doc'))
      BY <1>1, <2>1 DEF WritesSentinel, Rebuilds
    <3> QED
      BY <3>1, <3>2, EmbedKeepsMembers
  <2>2. CASE Did("fill")
    <3> DEFINE h == FirstNamed(doc, ManifestPath)
    <3>1. IsFilling(doc, call'.store, doc')
      BY <2>2, CallEffects
    <3>2. h \in Entries(doc) /\ Named(doc', ManifestPath) \subseteq Entries(doc)
      BY <3>1, FilledLayout DEF Named
    <3>3. ~Streamed(doc, h)
      BY <1>1, <2>2 DEF LeavesStaleDescriptor
    <3> HIDE DEF h
    <3>4. \A g \in Entries(doc) \ {h} : SameMember(doc, g, doc', g)
      BY <3>1, FilledEntries DEF h
    <3>5. BindingVerdict(doc', h) = "ok"
      BY <1>1, <3>1, <3>2, <3>3, FilledEntries DEF h
    <3> QED
      BY <1>1, <3>2, <3>4, <3>5 DEF SameMember
  <2>3. CASE Did("remove")
    BY <1>2, <2>3, CallEffects, RemoveKeepsMembers
  <2>4. CASE doc' = doc
    BY <1>1, <2>4 DEF Named
  <2> QED
    BY <2>1, <2>2, <2>3, <2>4, CallEffects
<1>4. \A h \in Members(doc) : BindingVerdict(doc, h) = "ok"
  BY <1>1 DEF Members
<1> QED
  BY <1>1, <1>2, <1>3, <1>4, CollectionKept DEF Bindable

-----------------------------------------------------------------------------

\* Whatever sequence of stores is embedded, filled in and removed, the hash
\* over the members of a bindable archive can still be computed and does not
\* change; but for the two dead ends the runs show (collection_members).
THEOREM MembersAreBound == ASSUME ExactInputs PROVE Spec => MembersStayBound
<1>1. ExactDocument /\ [Next]_vars =>
        \/ CollectionVerdict(doc) = "ok" /\ ~KnownDeadEnd =>
             /\ CollectionVerdict(doc') = "ok"
             /\ CollectionInput(doc') = CollectionInput(doc)
        \/ UNCHANGED vars
  <2> SUFFICES ASSUME ExactDocument, Next, CollectionVerdict(doc) = "ok", ~KnownDeadEnd
               PROVE  /\ CollectionVerdict(doc') = "ok"
                      /\ CollectionInput(doc') = CollectionInput(doc)
    OBVIOUS
  <2>1. Bindable(doc)
    BY CollectionAccepts DEF ExactDocument, TypeOK
  <2> QED
    BY <2>1, CallsKeepBindable
<1> QED
  BY <1>1, DocumentStaysExact, PTL DEF Spec, MembersStayBound

\* A remove from a bindable archive is refused only for the size of the headers
\* it would keep.
LEMMA RemoveRefusedForSize ==
  ASSUME NEW b \in Archives, Bindable(b), RemoveVerdict(b, ManifestPath) # "ok"
  PROVE  /\ RemoveVerdict(b, ManifestPath) = "Truncated"
         /\ SizeOf(b, Members(b)) > U32Max /\ SizeOf(b, Members(b)) \in Nat
         /\ ~Measurable(b)
<1>1. Parses(b) /\ {h \in Entries(b) : BindingVerdict(b, h) # "ok"} = {}
  BY DEF Bindable
<1>2. Kept(b, ManifestPath) = Members(b)
  BY DEF Kept, Members
<1>3. /\ RemoveVerdict(b, ManifestPath) = "Truncated"
      /\ SizeOf(b, Members(b)) > U32Max
  BY <1>1, <1>2 DEF RemoveVerdict
<1>4. Members(b) \subseteq Entries(b) /\ Entries(b) \subseteq 0 .. Len(b) - 1
  BY <1>1, EntriesInside DEF Members
<1>5. SizeOf(b, Members(b)) <= SizeOf(b, Entries(b))
  BY <1>4, SizeGrows
<1>6. SizeOf(b, Members(b)) \in Nat /\ SizeOf(b, Entries(b)) \in Nat /\ U32Max \in Nat
  BY <1>4, SizeIsNatural, FieldsAreNaturals
<1> QED
  BY <1>3, <1>5, <1>6 DEF Measurable

\* What an embed into a bindable archive is refused for.
EmbedRefusedFor(b, store, verdict) ==
  \/ verdict = "ok"
  \/ /\ verdict = "Zip64Unsupported"
     /\ \/ CdStart(b) + 1 + Len(store) > U32Max
        \/ SizeOf(b, Members(b)) = U32Max
  \/ /\ verdict = "Truncated"
     /\ \/ Len(store) > U32Max
        \/ SizeOf(b, Members(b)) + CdHeaderLen(ManifestPath) > U32Max

\* It is refused for a size that does not fit, and for nothing else.
LEMMA EmbedRefusedForSize ==
  ASSUME NEW b \in Archives, NEW store \in Payloads, ExactDirectory(b), Bindable(b)
  PROVE  EmbedRefusedFor(b, store, EmbedVerdict(b, store))
<1> DEFINE mid == RemoveZipEntry(b, ManifestPath)
           v   == InsertVerdict(mid, ManifestPath, store)
           z   == SizeOf(b, Members(b))
           len == CdHeaderLen(ManifestPath)
<1>1. len \in Nat /\ Len(store) \in Nat /\ U32Max \in Nat
  BY NameAssumption, PayloadAssumption, ArchiveLength, FieldsAreNaturals
<1>2. CASE RemoveVerdict(b, ManifestPath) # "ok"
  <2>1. /\ EmbedVerdict(b, store) = "Truncated" /\ z > U32Max /\ z \in Nat
    BY <1>2, RemoveRefusedForSize DEF EmbedVerdict
  <2> HIDE DEF z, len
  <2>2. z + len > U32Max
    BY <1>1, <2>1
  <2> QED
    BY <2>1, <2>2 DEF EmbedRefusedFor, z, len
<1>3. CASE RemoveVerdict(b, ManifestPath) = "ok"
  <2>1. /\ mid \in Archives /\ ExactDirectory(mid)
        /\ SizeOf(mid, Entries(mid)) = z
        /\ CdStart(mid) \in Nat /\ CdStart(mid) <= CdStart(b) /\ CdStart(b) \in Nat
        /\ ~Parses(mid) => z = U32Max /\ ParseVerdict(mid) = "Zip64Unsupported"
    BY <1>3, RemoveMeasures
  <2>2. EmbedVerdict(b, store) = v
    BY <1>3 DEF EmbedVerdict
  <2> HIDE DEF mid
  <2>3. CASE ~Parses(mid)
    <3>1. v = "Zip64Unsupported"
      BY <2>1, <2>3 DEF InsertVerdict
    <3> QED
      BY <2>1, <2>2, <2>3, <3>1 DEF EmbedRefusedFor
  <2>4. CASE Parses(mid) /\ Len(store) > U32Max
    <3>1. v = "Truncated"
      BY <2>4 DEF InsertVerdict
    <3> QED
      BY <2>2, <2>4, <3>1 DEF EmbedRefusedFor
  <2>5. CASE Parses(mid) /\ ~(Len(store) > U32Max)
    <3>1. Len(store) <= U32Max
      BY <1>1, <2>5
    <3>2. /\ Len(InsertedData(mid, store)) = CdStart(mid) + 1 + Len(store)
          /\ InsertedSize(mid, ManifestPath) = z + len
          /\ Cardinality(Entries(mid)) + 1 <= U16Max
      BY <2>1, <2>5, <3>1, InsertMeasures
    <3>3. Cardinality(Entries(mid)) \in Nat /\ U16Max \in Nat
      BY <2>1, <2>5, EntriesFinite, FieldsAreNaturals
    <3>4. ~(Cardinality(Entries(mid)) + 1 > U16Max)
      BY <3>2, <3>3
    <3>5. v = IF CdStart(mid) + 1 + Len(store) > U32Max THEN "Zip64Unsupported"
              ELSE IF z + len > U32Max THEN "Truncated" ELSE "ok"
      BY <2>5, <3>2, <3>4 DEF InsertVerdict
    <3> HIDE DEF v, z, len
    <3>6. CdStart(mid) + 1 + Len(store) > U32Max => CdStart(b) + 1 + Len(store) > U32Max
      BY <1>1, <2>1
    <3> QED
      BY <2>2, <3>5, <3>6 DEF EmbedRefusedFor, z, len
  <2> QED
    BY <2>3, <2>4, <2>5
<1> QED
  BY <1>2, <1>3

\* Once the crate has rebuilt a directory its size fits its field.
LEMMA RebuiltIsMeasurable ==
  ASSUME ExactDocument, Next, Rebuilds \/ Measurable(doc)
  PROVE  Measurable(doc')
<1>1. doc \in Archives /\ TypeOK /\ ExactDirectory(doc)
  BY DEF ExactDocument, TypeOK
<1>2. CASE Did("embed")
  <2> DEFINE mid == RemoveZipEntry(doc, ManifestPath)
  <2>1. IsInsertion(mid, call'.store, doc')
    BY <1>1, <1>2, CallEffects, EmbedInserts
  <2>2. SizeOf(doc', Entries(doc')) = InsertedSize(mid, ManifestPath)
    BY <2>1, InsertedLayout
  <2>3. mid \in Archives /\ Parses(mid) /\ ~(InsertedSize(mid, ManifestPath) > U32Max)
    BY <2>1 DEF IsInsertion, InsertVerdict, Parses
  <2>4. InsertedSize(mid, ManifestPath) \in Nat /\ U32Max \in Nat
    BY <2>3, InsertedSizeIsNatural, NameAssumption, FieldsAreNaturals
  <2> QED
    BY <2>2, <2>3, <2>4 DEF Measurable
<1>3. CASE Did("fill")
  BY <1>1, <1>3, CallEffects, FillKeepsSize DEF Measurable, Rebuilds, Did
<1>4. CASE Did("remove") /\ Named(doc, ManifestPath) # {}
  <2> DEFINE kept == InArchiveOrder(doc, Kept(doc, ManifestPath))
  <2>1. IsRemoval(doc, ManifestPath, kept, Copied(doc, kept), doc')
    BY <1>1, <1>4, CallEffects DEF IsRemoval
  <2>2. /\ SizeOf(doc', Entries(doc')) = SizeOf(doc, Kept(doc, ManifestPath))
        /\ SizeOf(doc, Kept(doc, ManifestPath)) \in U32
    BY <2>1, RemovedCells, RemovedData
  <2> QED
    BY <2>2, FieldsAreNaturals DEF Measurable, U32
<1>5. CASE Did("remove") /\ Named(doc, ManifestPath) = {}
  BY <1>1, <1>5, CallEffects DEF Measurable, Rebuilds, Did, RemoveZipEntry
<1>6. CASE doc' = doc /\ ~Rebuilds
  BY <1>6
<1> QED
  BY <1>1, <1>2, <1>3, <1>4, <1>5, <1>6, CallEffects DEF Rebuilds

\* A bindable archive is a dead end only for its size: a remove is refused only
\* when the directory outgrows its size field, an embed only for the sizes and
\* the offset it would write; and every archive the crate has rebuilt stays
\* bindable and small enough for the next remove (remove_zip_entry,
\* insert_zip_entry).
THEOREM NoDeadEnd == ASSUME ExactInputs PROVE Spec => StaysEditable
<1>1. ExactDocument /\ [Next]_vars =>
        \/ Bindable(doc) /\ ~KnownDeadEnd =>
             /\ call'.op = "remove" =>
                  \/ call'.verdict = "ok"
                  \/ call'.verdict = "Truncated" /\ ~Measurable(doc)
             /\ call'.op = "embed" => EmbedRefusedFor(doc, call'.store, call'.verdict)
             /\ Bindable(doc')
             /\ Rebuilds \/ Measurable(doc) => Measurable(doc')
        \/ UNCHANGED vars
  <2> SUFFICES ASSUME ExactDocument, Next, Bindable(doc), ~KnownDeadEnd
               PROVE  /\ call'.op = "remove" =>
                           \/ call'.verdict = "ok"
                           \/ call'.verdict = "Truncated" /\ ~Measurable(doc)
                      /\ call'.op = "embed" =>
                           EmbedRefusedFor(doc, call'.store, call'.verdict)
                      /\ Bindable(doc')
                      /\ Rebuilds \/ Measurable(doc) => Measurable(doc')
    OBVIOUS
  <2>1. doc \in Archives /\ ExactDirectory(doc)
    BY DEF ExactDocument, TypeOK
  <2>2. ASSUME call'.op = "remove"
        PROVE  \/ call'.verdict = "ok"
               \/ call'.verdict = "Truncated" /\ ~Measurable(doc)
    <3>1. call'.verdict = RemoveVerdict(doc, ManifestPath)
      BY <2>2 DEF Next, EmbedManifest, FillManifest, RemoveManifest, Return
    <3> QED
      BY <2>1, <3>1, RemoveRefusedForSize
  <2>3. ASSUME call'.op = "embed"
        PROVE  EmbedRefusedFor(doc, call'.store, call'.verdict)
    <3>1. PICK store \in Payloads : EmbedManifest(store)
      BY <2>3 DEF Next, FillManifest, RemoveManifest, Return
    <3>2. call'.store = store /\ call'.verdict = EmbedVerdict(doc, store)
      BY <3>1 DEF EmbedManifest, Return
    <3> QED
      BY <2>1, <3>2, EmbedRefusedForSize
  <2> QED
    BY <2>2, <2>3, CallsKeepBindable, RebuiltIsMeasurable
<1> QED
  BY <1>1, DocumentStaysExact, PTL DEF Spec, StaysEditable, EmbedRefusedFor

\* An embed that succeeds can be read back, provided no number it writes is
\* the ZIP64 sentinel, which insert_zip_entry does not check (embed_manifest).
THEOREM EmbedIsReadBack ==
  ASSUME ExactInputs PROVE Spec /\ [][~WritesSentinel]_vars => EmbedReadsBack
<1>1. ExactDocument /\ [Next]_vars /\ [~WritesSentinel]_vars =>
        \/ Did("embed") => /\ ReadVerdict(doc', ManifestPath) = "ok"
                           /\ ReadContent(doc', ManifestPath) = call'.store
                           /\ Cardinality(Named(doc', ManifestPath)) = 1
        \/ UNCHANGED vars
  <2> SUFFICES ASSUME ExactDocument, Next, ~WritesSentinel, Did("embed")
               PROVE  /\ ReadVerdict(doc', ManifestPath) = "ok"
                      /\ ReadContent(doc', ManifestPath) = call'.store
                      /\ Cardinality(Named(doc', ManifestPath)) = 1
    OBVIOUS
  <2>1. doc \in Archives /\ TypeOK /\ ExactDirectory(doc)
    BY DEF ExactDocument, TypeOK
  <2>2. /\ call'.store \in Payloads /\ EmbedVerdict(doc, call'.store) = "ok"
        /\ doc' = Embed(doc, call'.store)
    BY <2>1, CallEffects
  <2>3. ~IsZip64(Last(doc'))
    BY DEF WritesSentinel, Rebuilds
  <2> QED
    BY <2>1, <2>2, <2>3, EmbedKeepsMembers
<1> QED
  BY <1>1, DocumentStaysExact, PTL DEF Spec, EmbedReadsBack

\* An embed into an archive with no manifest leaves every cell before the
\* directory and every offset in place, sentinel or not (insert_zip_entry).
THEOREM OffsetsStay == ASSUME ExactInputs PROVE Spec => EmbedKeepsOffsets
<1>1. ExactDocument /\ [Next]_vars =>
        \/ Did("embed") /\ Named(doc, ManifestPath) = {} =>
             /\ Slice(doc', 0, CdStart(doc)) = Slice(doc, 0, CdStart(doc))
             /\ {<<e.name, e.offset>> : e \in {At(doc, h) : h \in Entries(doc)}}
                  = {<<e.name, e.offset>> : e \in {At(doc', h) : h \in Members(doc')}}
        \/ UNCHANGED vars
  <2> SUFFICES ASSUME ExactDocument, Next, Did("embed"), Named(doc, ManifestPath) = {}
               PROVE  /\ Slice(doc', 0, CdStart(doc)) = Slice(doc, 0, CdStart(doc))
                      /\ {At(doc, h) : h \in Entries(doc)} = {At(doc', h) : h \in Members(doc')}
    OBVIOUS
  <2> DEFINE n == NewHeader(doc, doc')
  <2>1. doc \in Archives /\ TypeOK /\ ExactDirectory(doc)
    BY DEF ExactDocument, TypeOK
  <2>2. /\ call'.store \in Payloads /\ EmbedVerdict(doc, call'.store) = "ok"
        /\ doc' = Embed(doc, call'.store)
    BY <2>1, CallEffects
  <2>3. IsInsertion(doc, call'.store, doc')
    BY <2>1, <2>2, EmbedInserts DEF RemoveZipEntry
  <2>4. /\ Slice(doc', 0, CdStart(doc)) = Slice(doc, 0, CdStart(doc))
        /\ \A h \in Entries(doc) : /\ Put(doc, doc', h) \in Entries(doc')
                                   /\ At(doc', Put(doc, doc', h)) = At(doc, h)
        /\ \A g \in Entries(doc') : \/ g = n
                                    \/ \E h \in Entries(doc) : g = Put(doc, doc', h)
        /\ n \in Entries(doc') /\ At(doc', n).name = ManifestPath
    BY <2>3, InsertedLayout DEF CdHeader
  <2> HIDE DEF n
  <2>5. \A h \in Entries(doc) : At(doc, h).name # ManifestPath
    BY DEF Named
  <2>6. Members(doc') = {Put(doc, doc', h) : h \in Entries(doc)}
    BY <2>4, <2>5 DEF Members, Named
  <2> QED
    BY <2>4, <2>6
<1> QED
  BY <1>1, DocumentStaysExact, PTL DEF Spec, EmbedKeepsOffsets

\* The record of every rebuilt archive measures it, sentinel or not: no number
\* in it was cut to fit (insert_zip_entry, remove_zip_entry).
THEOREM RecordsAreExact == ASSUME ExactInputs PROVE Spec => EocdIsExact
<1>1. ExactDocument /\ [Next]_vars => (Rebuilds => RecordIsExact(doc')) \/ UNCHANGED vars
  <2> SUFFICES ASSUME ExactDocument, Next, Rebuilds
               PROVE  RecordIsExact(doc')
    OBVIOUS
  <2>1. doc \in Archives /\ TypeOK /\ ExactDirectory(doc)
    BY DEF ExactDocument, TypeOK
  <2>2. CASE Did("embed")
    BY <2>1, <2>2, CallEffects, EmbedInserts
  <2>3. CASE Did("remove") /\ Named(doc, ManifestPath) # {}
    <3> DEFINE kept == InArchiveOrder(doc, Kept(doc, ManifestPath))
    <3>1. IsRemoval(doc, ManifestPath, kept, Copied(doc, kept), doc')
      BY <2>1, <2>3, CallEffects DEF IsRemoval
    <3> QED
      BY <3>1, RemovedCells
  <2> QED
    BY <2>2, <2>3 DEF Rebuilds
<1> QED
  BY <1>1, DocumentStaysExact, PTL DEF Spec, EocdIsExact, RecordIsExact

-----------------------------------------------------------------------------
(* Compact archives                                                        *)

\* The headers of a directory of n entries are CdStart(b) and the n - 1 next.
LEMMA DirectoryInterval ==
  ASSUME NEW b, NEW s \in Nat, NEW n \in Nat, Entries(b) = s .. s + n - 1
  PROVE  /\ Entries(b) = {} <=> n = 0
         /\ n # 0 => Max(Entries(b)) = s + n - 1
<1>1. Entries(b) = {} <=> n = 0
  <2>1. n = 0 => Entries(b) = {}
    OBVIOUS
  <2>2. n # 0 => s \in Entries(b)
    OBVIOUS
  <2> QED
    BY <2>1, <2>2
<1>2. ASSUME n # 0
      PROVE  Max(Entries(b)) = s + n - 1
  <2>1. /\ s + n - 1 \in Nat /\ s + n - 1 \in Entries(b) /\ Entries(b) # {}
        /\ Entries(b) \subseteq 0 .. s + n - 1
    BY <1>2
  <2>2. /\ Max(Entries(b)) \in Entries(b)
        /\ \A y \in Entries(b) : y <= Max(Entries(b))
    BY <2>1, MaxIsGreatest
  <2>3. s + n - 1 <= Max(Entries(b)) /\ Max(Entries(b)) \in s .. s + n - 1
    BY <2>1, <2>2
  <2> QED
    BY <2>3
<1> QED
  BY <1>1, <1>2

\* What remove_zip_entry writes, if it parses, is compact: an entry begins where
\* the one before it ends, as the offsets it notes say.
LEMMA RemovedIsCompact ==
  ASSUME NEW b \in Archives, RemoveVerdict(b, ManifestPath) = "ok",
         Named(b, ManifestPath) # {}, Parses(RemoveZipEntry(b, ManifestPath))
  PROVE  Compact(RemoveZipEntry(b, ManifestPath))
<1> DEFINE kept == InArchiveOrder(b, Kept(b, ManifestPath))
           out  == Copied(b, kept)
           n    == Len(kept)
           c    == RemoveZipEntry(b, ManifestPath)
           s    == CdStart(c)
<1>1. IsRemoval(b, ManifestPath, kept, out, c) /\ Parses(c)
  BY DEF IsRemoval
<1> HIDE DEF kept, out, c
<1>2. /\ n \in Nat /\ out[0] = <<>>
      /\ \A k \in 0 .. n : Len(out[k]) \in Nat
  BY <1>1, RemovedData
<1>3. /\ c \in Archives /\ Parses(c) /\ EocdOffset(c) = Len(out[n]) + n
      /\ At(c, EocdOffset(c)) = Eocd(n, SizeOf(c, Entries(c)), Len(out[n]))
      /\ s = Len(out[n]) /\ Entries(c) = s .. s + n - 1
  BY <1>1, RemovedCells
<1>4. /\ \A k \in 1 .. n : /\ BindingEnd(c, Nth(c, k)) = Len(out[k])
                           /\ At(c, Nth(c, k)).offset = Len(out[k - 1])
      /\ \A g \in Entries(c) : \E k \in 1 .. n : g = Nth(c, k)
      /\ \A g \in Entries(c) : BindingVerdict(c, g) = "ok"
  BY <1>1, RemovedEntries
<1> HIDE DEF n
<1>5. s \in Nat
  BY <1>2, <1>3
<1>6. /\ Cardinality(Entries(c)) = n
      /\ At(c, EocdOffset(c)).comment = 0
      /\ At(c, EocdOffset(c)).cdsize = SizeOf(c, Entries(c))
  BY <1>3, EntriesFinite DEF Eocd
<1>7. ASSUME NEW h \in Entries(c)
      PROVE  At(c, h).offset = IF h = s THEN 0 ELSE BindingEnd(c, h - 1)
  <2>1. PICK k \in 1 .. n : h = Nth(c, k)
    BY <1>4
  <2>2. At(c, h).offset = Len(out[k - 1])
    BY <1>4, <2>1
  <2>3. CASE k = 1
    <3>1. h = s /\ k - 1 = 0
      BY <1>2, <1>5, <2>1, <2>3 DEF Nth
    <3>2. Len(<<>>) = 0
      OBVIOUS
    <3> QED
      BY <1>2, <2>2, <3>1, <3>2
  <2>4. CASE k # 1
    <3>1. k - 1 \in 1 .. n /\ h # s /\ h - 1 = Nth(c, k - 1)
      BY <1>2, <1>5, <2>1, <2>4 DEF Nth
    <3> QED
      BY <1>4, <2>2, <3>1
  <2> QED
    BY <2>3, <2>4
<1>8. s = IF Entries(c) = {} THEN 0 ELSE BindingEnd(c, Max(Entries(c)))
  <2>1. CASE n = 0
    BY <1>2, <1>3, <1>5, <2>1, DirectoryInterval
  <2>2. CASE n # 0
    <3>1. Entries(c) # {} /\ Max(Entries(c)) = s + n - 1
      BY <1>2, <1>3, <1>5, <2>2, DirectoryInterval
    <3>2. n \in 1 .. n
      BY <1>2, <2>2
    <3> QED
      BY <1>3, <1>4, <3>1, <3>2 DEF Nth
  <2> QED
    BY <2>1, <2>2
<1> QED
  BY <1>3, <1>4, <1>6, <1>7, <1>8 DEF Compact, Bindable, c, s

\* An insert into a compact archive puts the new entry behind the last.
LEMMA InsertedIsCompact ==
  ASSUME NEW b, NEW store, NEW c, IsInsertion(b, store, c), ~IsZip64(Last(c)), Compact(b)
  PROVE  Compact(c)
<1> DEFINE s == CdStart(b)
           d == CdStart(c)
           m == Cardinality(Entries(b))
           n == NewHeader(b, c)
<1>1. /\ c \in Archives /\ Parses(b) /\ m \in Nat /\ d \in Nat
      /\ EocdOffset(c) = d + m + 1
      /\ At(c, EocdOffset(c)) = Eocd(m + 1, SizeOf(c, Entries(c)), d)
      /\ Entries(c) = d .. d + m
      /\ \A h \in Entries(b) : At(c, Put(b, c, h)) = At(b, h)
      /\ \A g \in Entries(c) : g = n \/ \E h \in Entries(b) : g = Put(b, c, h)
      /\ At(c, n).offset = s
  BY InsertedLayout DEF CdHeader
<1>2. /\ Parses(c)
      /\ \A h \in Entries(b) :
           /\ SameMember(b, h, c, Put(b, c, h))
           /\ BindingVerdict(b, h) = "ok" =>
                BindingEnd(c, Put(b, c, h)) = BindingEnd(b, h)
      /\ BindingVerdict(c, n) = "ok" /\ BindingEnd(c, n) = d
  BY InsertedEntries
<1>3. b \in Archives
  BY DEF IsInsertion
<1>4. /\ \A h \in Entries(b) : BindingVerdict(b, h) = "ok"
      /\ \A h \in Entries(b) :
           At(b, h).offset = IF h = s THEN 0 ELSE BindingEnd(b, h - 1)
      /\ s = IF Entries(b) = {} THEN 0 ELSE BindingEnd(b, Max(Entries(b)))
  BY DEF Compact, Bindable
<1>5. s \in Nat /\ Entries(b) = s .. s + m - 1
  BY <1>1, <1>3, EntriesFinite, ParsedLayout DEF Entries
<1>6. n = d + m /\ \A h : Put(b, c, h) = d + (h - s)
  BY DEF NewHeader, Put
<1> HIDE DEF s, d, m, n
<1>7. \A g \in Entries(c) : BindingVerdict(c, g) = "ok"
  BY <1>1, <1>2, <1>4 DEF SameMember
<1>8. /\ Cardinality(Entries(c)) = m + 1
      /\ At(c, EocdOffset(c)).comment = 0
      /\ At(c, EocdOffset(c)).cdsize = SizeOf(c, Entries(c))
      /\ d + (m + 1) = EocdOffset(c)
  BY <1>1, <1>2, EntriesFinite DEF Eocd
<1>9. ASSUME NEW g \in Entries(c)
      PROVE  At(c, g).offset = IF g = d THEN 0 ELSE BindingEnd(c, g - 1)
  <2>1. CASE g = n
    <3>1. CASE m = 0
      <4>1. Entries(b) = {}
        BY <1>1, <1>5, <3>1, DirectoryInterval
      <4>2. s = 0
        BY <1>4, <4>1
      <4>3. g = d
        BY <1>1, <1>6, <2>1, <3>1
      <4> QED
        BY <1>1, <2>1, <4>2, <4>3
    <3>2. CASE m # 0
      <4> DEFINE h == s + m - 1
      <4>1. Entries(b) # {} /\ Max(Entries(b)) = h
        BY <1>1, <1>5, <3>2, DirectoryInterval
      <4>2. h \in Entries(b) /\ g # d /\ g - 1 = Put(b, c, h)
        BY <1>1, <1>5, <1>6, <2>1, <3>2
      <4> HIDE DEF h
      <4>3. BindingEnd(c, g - 1) = s
        BY <1>2, <1>4, <4>1, <4>2
      <4> QED
        BY <1>1, <2>1, <4>2, <4>3
    <3> QED
      BY <3>1, <3>2
  <2>2. ASSUME NEW h \in Entries(b), g = Put(b, c, h)
        PROVE  At(c, g).offset = IF g = d THEN 0 ELSE BindingEnd(c, g - 1)
    <3>1. g = d <=> h = s
      BY <1>1, <1>5, <1>6, <2>2
    <3>2. CASE h = s
      BY <1>1, <1>4, <2>2, <3>1, <3>2
    <3>3. CASE h # s
      <4>1. h - 1 \in Entries(b) /\ g - 1 = Put(b, c, h - 1)
        BY <1>1, <1>5, <1>6, <2>2, <3>3
      <4> QED
        BY <1>1, <1>2, <1>4, <2>2, <3>1, <3>3, <4>1
    <3> QED
      BY <3>2, <3>3
  <2> QED
    BY <1>1, <2>1, <2>2
<1>10. d = IF Entries(c) = {} THEN 0 ELSE BindingEnd(c, Max(Entries(c)))
  <2>1. /\ m + 1 \in Nat /\ m + 1 # 0 /\ d + (m + 1) - 1 = d + m
        /\ Entries(c) = d .. d + (m + 1) - 1
    BY <1>1
  <2>2. Entries(c) # {} /\ Max(Entries(c)) = d + m
    BY <1>1, <2>1, DirectoryInterval
  <2> QED
    BY <1>2, <1>6, <2>2
<1> QED
  BY <1>2, <1>7, <1>8, <1>9, <1>10 DEF Compact, Bindable, d

\* What is known of a compact archive: its directory, and where entries end.
LEMMA CompactEntries ==
  ASSUME NEW b \in Archives, Compact(b)
  PROVE  /\ Parses(b) /\ CdStart(b) \in Nat /\ Cardinality(Entries(b)) \in Nat
         /\ Entries(b) = CdStart(b) .. CdStart(b) + Cardinality(Entries(b)) - 1
         /\ \A h \in Entries(b) :
              /\ BindingVerdict(b, h) = "ok"
              /\ At(b, h).offset \in Nat /\ BindingEnd(b, h) \in Nat
              /\ At(b, h).offset < BindingEnd(b, h)
              /\ BindingEnd(b, h) <= CdStart(b)
              /\ At(b, h).offset = IF h = CdStart(b) THEN 0 ELSE BindingEnd(b, h - 1)
<1>1. Parses(b) /\ \A h \in Entries(b) : BindingVerdict(b, h) = "ok"
  BY DEF Compact, Bindable
<1>2. /\ CdStart(b) \in Nat /\ Cardinality(Entries(b)) \in Nat
      /\ Entries(b) = CdStart(b) .. CdStart(b) + Cardinality(Entries(b)) - 1
  BY <1>1, EntriesFinite, ParsedLayout DEF Entries
<1>3. ASSUME NEW h \in Entries(b)
      PROVE  /\ At(b, h).offset \in Nat /\ BindingEnd(b, h) \in Nat
             /\ At(b, h).offset < BindingEnd(b, h)
             /\ BindingEnd(b, h) <= CdStart(b)
  <2>1. /\ ContentVerdict(b, h) = "ok" /\ BindingEnd(b, h) \in Nat
        /\ ContentEnd(b, h) <= BindingEnd(b, h)
        /\ BindingEnd(b, h) <= EntryBoundary(b, h)
    BY <1>1, BindingLocated
  <2>2. /\ ContentStart(b, h) \in Nat /\ ContentEnd(b, h) \in Nat
        /\ At(b, h).offset < ContentStart(b, h)
        /\ ContentEnd(b, h) = ContentStart(b, h) + At(b, h).csize
        /\ At(b, h).offset \in Nat /\ At(b, h).csize \in Nat
    BY <1>1, <2>1, ContentLocated, EntryProperties
  <2>3. EntryBoundary(b, h) \in Nat /\ EntryBoundary(b, h) <= CdStart(b)
    BY <1>1, BoundaryProperties
  <2>4. \A o, s, z, e, x, y, d \in Nat :
          o < s /\ s + z <= e /\ e <= y /\ y <= d => o < e /\ e <= d
    OBVIOUS
  <2>5. CdStart(b) \in Nat
    BY <1>2
  <2> QED
    BY <2>1, <2>2, <2>3, <2>4, <2>5
<1> QED
  BY <1>1, <1>2, <1>3 DEF Compact

\* The directory of a compact archive lists the entries in archive order.
LEMMA CompactOrder ==
  ASSUME NEW b \in Archives, Compact(b)
  PROVE  \A h, g \in Entries(b) : h < g => Before(b, h, g)
<1> DEFINE s   == CdStart(b)
           bad == {g \in Entries(b) : \E h \in Entries(b) : h < g /\ ~Before(b, h, g)}
<1>1. /\ s \in Nat /\ Cardinality(Entries(b)) \in Nat
      /\ Entries(b) = s .. s + Cardinality(Entries(b)) - 1
      /\ \A h \in Entries(b) :
           /\ At(b, h).offset \in Nat /\ BindingEnd(b, h) \in Nat
           /\ At(b, h).offset < BindingEnd(b, h)
           /\ At(b, h).offset = IF h = s THEN 0 ELSE BindingEnd(b, h - 1)
  BY CompactEntries
<1>2. SUFFICES ASSUME bad # {}
               PROVE  FALSE
  OBVIOUS
<1>3. PICK g \in bad : \A x \in bad : g <= x
  <2>1. bad \subseteq Nat
    BY <1>1
  <2> HIDE DEF bad
  <2> QED
    BY <1>2, <2>1, LeastNatural
<1>4. PICK h \in Entries(b) : h < g /\ ~Before(b, h, g)
  BY <1>3
<1> HIDE DEF s
<1>5. /\ g \in Entries(b) /\ g # s /\ g - 1 \in Entries(b) /\ ~(g <= g - 1)
      /\ h = g - 1 \/ h < g - 1
  BY <1>1, <1>3, <1>4
<1>6. At(b, g - 1).offset < At(b, g).offset
  BY <1>1, <1>5
<1>7. /\ At(b, h).offset \in Nat /\ At(b, g - 1).offset \in Nat
      /\ At(b, g).offset \in Nat
  BY <1>1, <1>4, <1>5
<1>8. At(b, h).offset <= At(b, g - 1).offset
  <2>1. CASE h = g - 1
    BY <1>7, <2>1
  <2>2. CASE h < g - 1
    <3>1. Before(b, h, g - 1)
      BY <1>3, <1>4, <1>5, <2>2
    <3>2. At(b, h).offset < At(b, g - 1).offset \/ At(b, h).offset = At(b, g - 1).offset
      BY ONLY <3>1 DEF Before
    <3> QED
      BY ONLY <1>7, <3>2
  <2> QED
    BY <1>5, <2>1, <2>2
<1>9. At(b, h).offset < At(b, g).offset
  BY <1>6, <1>7, <1>8
<1> QED
  BY <1>4, <1>9 DEF Before

\* Its first entries copied one after the other are its first cells.
LEMMA PrefixCopied ==
  ASSUME NEW b \in Archives, Compact(b), NEW m \in Nat, m <= Cardinality(Entries(b)),
         NEW kept, kept = [k \in 1 .. m |-> CdStart(b) + k - 1]
  PROVE  \A k \in 1 .. m : Copied(b, kept)[k] = Slice(b, 0, BindingEnd(b, kept[k]))
<1> DEFINE s   == CdStart(b)
           out == Copied(b, kept)
           from(k) == At(b, kept[k]).offset
           end(k)  == BindingEnd(b, kept[k])
           bad == {k \in 1 .. m : out[k] # Slice(b, 0, end(k))}
<1>1. /\ s \in Nat /\ Cardinality(Entries(b)) \in Nat
      /\ Entries(b) = s .. s + Cardinality(Entries(b)) - 1
      /\ \A h \in Entries(b) :
           /\ At(b, h).offset \in Nat /\ BindingEnd(b, h) \in Nat
           /\ At(b, h).offset < BindingEnd(b, h)
           /\ BindingEnd(b, h) <= s
           /\ At(b, h).offset = IF h = s THEN 0 ELSE BindingEnd(b, h - 1)
      /\ s <= Len(b) /\ Len(b) \in Nat
  BY CompactEntries, ParsedRecord, ArchiveLength
<1>2. /\ Len(kept) = m
      /\ \A k \in 1 .. m : kept[k] = s + k - 1 /\ kept[k] \in Entries(b)
  BY <1>1
<1>3. \A k \in 0 .. m : out[k] = IF k = 0 THEN <<>> ELSE out[k - 1] \o EntryCells(b, kept[k])
  BY <1>2, CopiedStep
<1>4. \A k \in 1 .. m : EntryCells(b, kept[k]) = Slice(b, from(k), end(k))
  BY DEF EntryCells
<1> HIDE DEF s, out
<1>5. ASSUME NEW k \in 1 .. m
      PROVE  /\ from(k) \in Nat /\ end(k) \in Nat /\ from(k) <= end(k) /\ end(k) <= Len(b)
             /\ from(k) = IF k = 1 THEN 0 ELSE end(k - 1)
  <2>1. kept[k] = s + k - 1 /\ kept[k] \in Entries(b) /\ (kept[k] = s <=> k = 1)
    BY <1>1, <1>2
  <2>2. ASSUME k # 1
        PROVE  kept[k] - 1 = kept[k - 1]
    <3>1. k - 1 \in 1 .. m
      BY <2>2
    <3>2. kept[k - 1] = s + (k - 1) - 1
      BY <1>2, <3>1
    <3> QED
      BY <1>1, <2>1, <3>2
  <2>3. /\ from(k) \in Nat /\ end(k) \in Nat /\ from(k) < end(k) /\ end(k) <= s
        /\ from(k) = IF kept[k] = s THEN 0 ELSE BindingEnd(b, kept[k] - 1)
    BY <1>1, <2>1
  <2>4. \A x, y, z, w \in Nat : x < y /\ y <= z /\ z <= w => x <= y /\ y <= w
    OBVIOUS
  <2>5. from(k) = IF k = 1 THEN 0 ELSE end(k - 1)
    BY <2>1, <2>2, <2>3
  <2> HIDE DEF end, from
  <2>6. from(k) <= end(k) /\ end(k) <= Len(b)
    BY <1>1, <2>3, <2>4, Zenon
  <2> QED
    BY <2>3, <2>5, <2>6
<1> SUFFICES bad = {}
  BY DEF out
<1> HIDE DEF from, end
<1>6. SUFFICES ASSUME bad # {}
               PROVE  FALSE
  OBVIOUS
<1>7. bad \subseteq 1 .. m /\ \A k \in 1 .. m : k \in bad <=> out[k] # Slice(b, 0, end(k))
  OBVIOUS
<1> HIDE DEF bad
<1>8. PICK k \in bad : \A x \in bad : k <= x
  <2>1. bad \subseteq Nat
    BY <1>7
  <2> QED
    BY <1>6, <2>1, LeastNatural
<1>9. /\ k \in 1 .. m /\ k \in 0 .. m /\ k # 0
      /\ from(k) \in Nat /\ end(k) \in Nat /\ from(k) <= end(k) /\ end(k) <= Len(b)
  BY <1>5, <1>7, <1>8
<1>10. out[k - 1] = Slice(b, 0, from(k))
  <2>1. CASE k = 1
    <3>1. Slice(b, 0, 0) \in Archives /\ Len(Slice(b, 0, 0)) = 0
      BY <1>1, SliceProperties
    <3>2. Slice(b, 0, 0) = <<>>
      BY <3>1, EmptySeq DEF Archives
    <3>3. 0 \in 0 .. m /\ k - 1 = 0
      BY <2>1
    <3>4. out[0] = <<>>
      BY <1>3, <3>3
    <3> QED
      BY <1>5, <1>9, <2>1, <3>2, <3>3, <3>4
  <2>2. CASE k # 1
    <3>1. k - 1 \in 1 .. m /\ ~(k <= k - 1)
      BY <1>9, <2>2
    <3>2. out[k - 1] = Slice(b, 0, end(k - 1))
      BY <1>7, <1>8, <3>1
    <3> QED
      BY <1>5, <1>9, <2>2, <3>2
  <2> QED
    BY <2>1, <2>2
<1>11. out[k] = out[k - 1] \o Slice(b, from(k), end(k))
  BY <1>3, <1>4, <1>9
<1>12. Slice(b, 0, from(k)) \o Slice(b, from(k), end(k)) = Slice(b, 0, end(k))
  <2>1. 0 \in Nat /\ \A x \in Nat : 0 <= x
    OBVIOUS
  <2> QED
    BY <1>9, <2>1, SlicesJoin
<1> QED
  BY <1>7, <1>8, <1>9, <1>10, <1>11, <1>12

\* A compact archive without a manifest gets one by an insert; remove_zip_entry
\* then restores it, cell for cell.
LEMMA InsertionUndone ==
  ASSUME NEW b, NEW store, NEW c, IsInsertion(b, store, c), ~IsZip64(Last(c)), Compact(b)
  PROVE  RemoveVerdict(c, ManifestPath) = "ok" /\ RemoveZipEntry(c, ManifestPath) = b
<1> DEFINE s == CdStart(b)
           d == CdStart(c)
           m == Cardinality(Entries(b))
           n == NewHeader(b, c)
           z == At(b, EocdOffset(b)).cdsize
           t == [k \in 1 .. m |-> d + k - 1]
           kept == InArchiveOrder(c, Kept(c, ManifestPath))
           out  == Copied(c, kept)
           new  == RemoveZipEntry(c, ManifestPath)
<1>1. b \in Archives /\ Compact(c) /\ Named(b, ManifestPath) = {}
  BY InsertedIsCompact DEF IsInsertion
<1>2. /\ Parses(b) /\ s \in Nat /\ m \in Nat /\ Entries(b) = s .. s + m - 1
      /\ \A h \in Entries(b) :
           /\ BindingVerdict(b, h) = "ok" /\ BindingEnd(b, h) \in Nat
           /\ BindingEnd(b, h) <= s
           /\ At(b, h).offset = IF h = s THEN 0 ELSE BindingEnd(b, h - 1)
  BY <1>1, CompactEntries
<1>3. /\ c \in Archives /\ d \in Nat /\ Entries(c) = d .. d + m
      /\ Cardinality(Entries(c)) = m + 1 /\ Parses(c)
      /\ \A h \in Entries(b) : At(c, Put(b, c, h)) = At(b, h)
      /\ \A p \in Nat : p < s => At(c, p) = At(b, p)
      /\ Slice(c, 0, s) = Slice(b, 0, s)
  <2>1. /\ c \in Archives /\ d \in Nat /\ Entries(c) = d .. d + m
        /\ \A h \in Entries(b) : At(c, Put(b, c, h)) = At(b, h)
        /\ \A p \in Nat : p < s => At(c, p) = At(b, p)
        /\ Slice(c, 0, s) = Slice(b, 0, s)
        /\ EocdOffset(c) = d + m + 1
        /\ Last(c) = Eocd(m + 1, InsertedSize(b, ManifestPath), d)
        /\ At(c, EocdOffset(c)) = Last(c)
    BY InsertedLayout
  <2>2. Parses(c) /\ Cardinality(Entries(c)) = m + 1
    BY <1>1, <2>1, CompactEntries, EntriesFinite DEF Eocd
  <2> QED
    BY <2>1, <2>2
<1>4. /\ n = d + m /\ \A h : Put(b, c, h) = d + (h - s)
      /\ Named(c, ManifestPath) = {n}
      /\ \A h \in Entries(b) : BindingEnd(c, Put(b, c, h)) = BindingEnd(b, h)
      /\ \A g \in Entries(c) : BindingVerdict(c, g) = "ok"
  <2>1. Named(c, ManifestPath) = {n}
    BY InsertKeepsMembers
  <2>2. \A h \in Entries(b) : BindingEnd(c, Put(b, c, h)) = BindingEnd(b, h)
    BY <1>2, InsertedEntries
  <2>3. \A g \in Entries(c) : BindingVerdict(c, g) = "ok"
    BY <1>1, <1>3, CompactEntries
  <2> QED
    BY <2>1, <2>2, <2>3 DEF NewHeader, Put
<1> HIDE DEF s, d, m, n
<1>6. Kept(c, ManifestPath) = d .. d + m - 1
  BY <1>2, <1>3, <1>4 DEF Kept
<1>5. /\ RemoveVerdict(c, ManifestPath) = "ok"
      /\ SizeOf(c, Kept(c, ManifestPath)) = z /\ z \in U32 /\ z # U32Max
  <2>1. {h \in Entries(c) : BindingVerdict(c, h) # "ok"} = {}
    BY <1>4
  <2>2. SizeOf(c, Kept(c, ManifestPath)) = SizeOf(b, Entries(b))
    <3>1. \A i \in Nat : i < m => At(c, d + i) = At(b, s + i)
      <4>1. ASSUME NEW i \in Nat, i < m
            PROVE  At(c, d + i) = At(b, s + i)
        <5>1. s + i \in Entries(b) /\ Put(b, c, s + i) = d + i
          BY <1>2, <1>3, <1>4, <4>1
        <5> QED
          BY <1>3, <5>1
      <4> QED
        BY <4>1
    <3>2. s + m <= Len(b)
      <4>1. s + m = EocdOffset(b) /\ EocdOffset(b) < Len(b) /\ EocdOffset(b) \in Nat
        BY <1>1, <1>2, ParsedLayout, EocdFound DEF Compact, s, m
      <4> QED
        BY <1>1, <4>1, ArchiveLength
    <3>3. SizeOf(c, d .. d + m - 1) = SizeOf(b, s .. s + m - 1)
      <4>1. b \in Archives /\ s \in Nat /\ m \in Nat /\ d \in Nat
        BY <1>1, <1>2, <1>3
      <4>2. Repeats(b, s, c, d, m)
        BY <3>1, <3>2, <4>1 DEF Repeats
      <4> QED
        BY <4>1, <4>2, SizeShifted
    <3> QED
      BY <1>2, <1>6, <3>3
  <2>3. z = SizeOf(b, Entries(b))
    BY <1>1 DEF Compact
  <2>4. z \in U32 /\ z # U32Max
    <3>1. At(b, EocdOffset(b)) \in EocdRecords
      BY <1>1, <1>2, ParsedRecord
    <3>2. ~IsZip64(At(b, EocdOffset(b)))
      BY <1>2 DEF Parses, ParseVerdict
    <3> QED
      BY <3>1, <3>2 DEF EocdRecords, IsZip64
  <2>5. ~(SizeOf(c, Kept(c, ManifestPath)) > U32Max)
    BY <2>2, <2>3, <2>4, FieldsAreNaturals DEF U32
  <2> QED
    BY <1>3, <2>1, <2>2, <2>3, <2>4, <2>5 DEF RemoveVerdict
<1> HIDE DEF z
<1>7. kept = t
  <2>1. ListsInOrder(c, Kept(c, ManifestPath), m, t)
    <3>1. t \in [1 .. m -> Kept(c, ManifestPath)]
      BY <1>2, <1>3, <1>6
    <3>2. ASSUME NEW j \in 1 .. m, NEW k \in 1 .. m, j < k
          PROVE  Before(c, t[j], t[k])
      <4>1. t[j] \in Entries(c) /\ t[k] \in Entries(c) /\ t[j] < t[k]
        BY <1>2, <1>3, <3>2
      <4> QED
        BY <1>1, <1>3, <4>1, CompactOrder
    <3>3. ASSUME NEW h \in Kept(c, ManifestPath)
          PROVE  \E k \in 1 .. m : t[k] = h
      <4>1. h - d + 1 \in 1 .. m /\ t[h - d + 1] = h
        BY <1>2, <1>3, <1>6
      <4> QED
        BY <4>1
    <3> QED
      BY <1>2, <3>1, <3>2, <3>3 DEF ListsInOrder
  <2>2. Kept(c, ManifestPath) \subseteq Entries(c)
    BY DEF Kept
  <2> QED
    BY <1>3, <2>1, <2>2, OrderIsUnique
<1>8. Len(kept) = m /\ \A k \in 1 .. m : kept[k] = d + k - 1
  BY <1>2, <1>7
<1>9. ASSUME NEW k \in 1 .. m
      PROVE  /\ s + k - 1 \in Entries(b) /\ Put(b, c, s + k - 1) = d + k - 1
             /\ out[k] = Slice(c, 0, BindingEnd(b, s + k - 1))
  <2>1. s + k - 1 \in Entries(b) /\ Put(b, c, s + k - 1) = d + k - 1
    BY <1>2, <1>3, <1>4
  <2>2. BindingEnd(c, d + k - 1) = BindingEnd(b, s + k - 1)
    BY <1>4, <2>1
  <2>3. kept = [i \in 1 .. m |-> CdStart(c) + i - 1] /\ m <= Cardinality(Entries(c))
    BY <1>2, <1>3, <1>7 DEF d
  <2>4. c \in Archives /\ Compact(c) /\ m \in Nat
    BY <1>1, <1>2, <1>3
  <2>5. \A i \in 1 .. m : Copied(c, kept)[i] = Slice(c, 0, BindingEnd(c, kept[i]))
    BY <2>3, <2>4, PrefixCopied
  <2>6. out[k] = Slice(c, 0, BindingEnd(c, kept[k]))
    BY <2>5
  <2> QED
    BY <1>8, <2>1, <2>2, <2>6
<1>10. ASSUME NEW k \in 1 .. m
       PROVE  Len(out[k]) = BindingEnd(b, s + k - 1)
  <2>1. /\ BindingEnd(b, s + k - 1) \in Nat /\ BindingEnd(b, s + k - 1) <= s
        /\ s <= Len(b) /\ Len(b) \in Nat
    BY <1>1, <1>2, <1>9, ParsedRecord, ArchiveLength DEF s
  <2>2. s <= Len(c) /\ Len(c) \in Nat
    <3>1. s <= d
      <4>1. d = s + 1 + Len(store)
        BY InsertedLayout DEF s, d
      <4>2. Len(store) \in Nat
        BY PayloadAssumption, ArchiveLength DEF IsInsertion
      <4> QED
        BY <1>2, <4>1, <4>2
    <3>2. d <= Len(c) /\ Len(c) \in Nat
      BY <1>3, ParsedRecord, ArchiveLength DEF d
    <3> QED
      BY <1>2, <1>3, <3>1, <3>2
  <2>3. BindingEnd(b, s + k - 1) <= Len(c)
    BY <1>2, <2>1, <2>2
  <2> DEFINE e == BindingEnd(b, s + k - 1)
  <2>4. e \in Nat /\ 0 \in Nat /\ 0 <= e /\ e - 0 = e /\ e <= Len(c)
    BY <2>1, <2>3
  <2>5. out[k] = Slice(c, 0, e)
    BY <1>9
  <2> HIDE DEF out, e
  <2>6. Len(Slice(c, 0, e)) = e
    BY <1>3, <2>4, SliceProperties
  <2> QED
    BY <2>5, <2>6 DEF e
<1> HIDE DEF t
<1>11. out[m] = Slice(b, 0, s) /\ Len(out[m]) = s
  <2>1. s <= Len(b) /\ Len(Slice(b, 0, s)) = s /\ Slice(b, 0, s) \in Archives
    BY <1>1, <1>2, ParsedRecord, SliceProperties DEF s
  <2>2. CASE m = 0
    <3>1. s = 0
      BY <1>1, <1>2, <2>2, DirectoryInterval DEF Compact, s
    <3>2. out[0] = <<>>
      BY <1>2, <1>8, CopiedStep
    <3> QED
      BY <2>1, <2>2, <3>1, <3>2, EmptySeq DEF Archives
  <2>3. CASE m # 0
    <3>1. Entries(b) # {} /\ Max(Entries(b)) = s + m - 1
      BY <1>2, <2>3, DirectoryInterval
    <3>2. BindingEnd(b, s + m - 1) = s
      BY <3>1 DEF Compact, s
    <3>3. m \in 1 .. m
      BY <1>2, <2>3
    <3> QED
      BY <1>3, <1>9, <2>1, <3>2, <3>3
  <2> QED
    BY <2>2, <2>3
<1>12. IsRemoval(c, ManifestPath, kept, out, new)
  BY <1>3, <1>4, <1>5 DEF IsRemoval
<1> HIDE DEF kept, out, new
<1>13. /\ new \in Archives /\ EocdOffset(new) = s + m
       /\ At(new, s + m) = Eocd(m, z, s)
       /\ CdStart(new) = s /\ Slice(new, 0, s) = Slice(b, 0, s)
       /\ \A k \in 1 .. m :
            At(new, s + k - 1) = [At(c, d + k - 1) EXCEPT !.offset = Len(out[k - 1])]
       /\ Len(new) = s + m + 1
  <2>1. /\ new \in Archives /\ EocdOffset(new) = Len(out[Len(kept)]) + Len(kept)
        /\ At(new, EocdOffset(new)) = Eocd(Len(kept), z, Len(out[Len(kept)]))
        /\ CdStart(new) = Len(out[Len(kept)])
        /\ Slice(new, 0, CdStart(new)) = out[Len(kept)]
        /\ Len(new) = EocdOffset(new) + 1
    BY <1>5, <1>12, RemovedCells
  <2>2. \A k \in 1 .. m :
          At(new, s + k - 1) = [At(c, d + k - 1) EXCEPT !.offset = Len(out[k - 1])]
    <3> SUFFICES ASSUME NEW k \in 1 .. m
                 PROVE  At(new, s + k - 1) = [At(c, d + k - 1) EXCEPT !.offset = Len(out[k - 1])]
      OBVIOUS
    <3>1. At(new, Nth(new, k)) = [At(c, kept[k]) EXCEPT !.offset = Len(out[k - 1])]
      BY <1>8, <1>12, RemovedCells
    <3>2. Nth(new, k) = s + k - 1
      BY <1>8, <1>11, <2>1 DEF Nth
    <3> QED
      BY <1>8, <3>1, <3>2
  <2> QED
    BY <1>8, <1>11, <2>1, <2>2
<1>14. Len(b) = s + m + 1 /\ At(b, s + m) = Eocd(m, z, s)
  <2>1. /\ s + m = EocdOffset(b) /\ At(b, EocdOffset(b)).comment = 0
        /\ At(b, EocdOffset(b)).cdsize = z
    BY <1>1 DEF Compact, s, m, z
  <2>2. At(b, EocdOffset(b)).count = m /\ At(b, EocdOffset(b)) \in EocdRecords
    BY <1>1, <1>2, EntriesFinite, ParsedRecord DEF m
  <2>3. EocdOffset(b) + 1 + 0 = Len(b)
    BY <1>1, <1>2, <2>1, ParsedLayout, EocdFound DEF EocdPositions
  <2>4. At(b, EocdOffset(b)).cdoffset = s
    BY DEF s, CdStart
  <2>5. At(b, EocdOffset(b)) = Eocd(m, z, s)
    BY <2>1, <2>2, <2>4 DEF Eocd, EocdRecords
  <2> QED
    BY <1>2, <2>1, <2>3, <2>5
<1>15. ASSUME NEW p \in Nat, p < s + m + 1
       PROVE  At(new, p) = At(b, p)
  <2>1. CASE p < s
    <3> DEFINE zero == 0
    <3>1. s <= Len(new) /\ s <= Len(b) /\ zero \in Nat /\ zero + p < s /\ zero + p = p
      BY <1>2, <1>13, <1>14, <2>1
    <3> HIDE DEF zero
    <3>2. Slice(new, zero, s)[p + 1] = At(new, p)
      <4>1. new \in Archives /\ zero \in Nat /\ s \in Nat /\ zero + p < s /\ s <= Len(new)
        BY <1>2, <1>13, <3>1
      <4> QED
        BY <3>1, <4>1, SliceAt
    <3>3. Slice(b, zero, s)[p + 1] = At(b, p)
      <4>1. b \in Archives /\ zero \in Nat /\ s \in Nat /\ zero + p < s /\ s <= Len(b)
        BY <1>1, <1>2, <3>1
      <4> QED
        BY <3>1, <4>1, SliceAt
    <3> QED
      BY <1>13, <3>2, <3>3 DEF zero
  <2>2. CASE s <= p /\ p < s + m
    <3> DEFINE k == p - s + 1
    <3>1. k \in 1 .. m /\ s + k - 1 = p /\ d + (p - s) = d + k - 1 /\ p \in Entries(b)
      BY <1>2, <1>3, <2>2
    <3> HIDE DEF k
    <3>2. At(new, p) = [At(b, p) EXCEPT !.offset = Len(out[k - 1])]
      <4>1. At(new, s + k - 1) = [At(c, d + k - 1) EXCEPT !.offset = Len(out[k - 1])]
        BY <1>13, <3>1
      <4>2. Put(b, c, p) = d + (p - s) /\ At(c, Put(b, c, p)) = At(b, p)
        BY <1>3, <1>4, <3>1
      <4> QED
        BY <3>1, <4>1, <4>2
    <3>3. Len(out[k - 1]) = At(b, p).offset
      <4>1. CASE k = 1
        <5>1. out[0] = <<>> /\ k - 1 = 0 /\ p = s
          BY <1>2, <1>12, <3>1, <4>1, RemovedData
        <5> QED
          BY <1>2, <3>1, <5>1
      <4>2. CASE k # 1
        <5>1. k - 1 \in 1 .. m /\ s + (k - 1) - 1 = p - 1 /\ p # s
          BY <1>2, <3>1, <4>2
        <5> QED
          BY <1>2, <1>10, <3>1, <5>1
      <4> QED
        BY <4>1, <4>2
    <3>4. At(b, p) \in CdHeaders
      BY <1>1, <1>2, <3>1, EntryProperties
    <3> QED
      BY <3>2, <3>3, <3>4 DEF CdHeaders
  <2>3. CASE p = s + m
    BY <1>13, <1>14, <2>3
  <2> QED
    BY <1>2, <1>15, <2>1, <2>2, <2>3
<1>16. new = b
  <2>1. ASSUME NEW i \in 1 .. s + m + 1
        PROVE  new[i] = b[i]
    <3>1. i - 1 \in Nat /\ i - 1 < s + m + 1 /\ i - 1 + 1 = i
      BY <1>2
    <3> QED
      BY <1>15, <3>1 DEF At
  <2> QED
    BY <1>1, <1>13, <1>14, <2>1, SeqEqual DEF Archives
<1> QED
  BY <1>5, <1>16 DEF new

\* A fill moves nothing.
LEMMA FilledIsCompact ==
  ASSUME NEW b, NEW store, NEW c, IsFilling(b, store, c), Compact(b),
         ~Streamed(b, FirstNamed(b, ManifestPath))
  PROVE  Compact(c)
<1> DEFINE h == FirstNamed(b, ManifestPath)
           s == CdStart(b)
<1>1. /\ Parses(b) /\ Parses(c) /\ h \in Entries(b)
      /\ CdStart(c) = s /\ EocdOffset(c) = EocdOffset(b)
      /\ At(c, EocdOffset(c)) = At(b, EocdOffset(b))
      /\ Entries(c) = Entries(b)
      /\ \A g \in Entries(b) :
           At(c, g) = IF g = h THEN [At(b, g) EXCEPT !.crc = Crc(store)] ELSE At(b, g)
  BY FilledLayout
<1>2. b \in Archives
  BY DEF IsFilling
<1>3. /\ \A g \in Entries(b) : BindingVerdict(b, g) = "ok"
      /\ \A g \in Entries(b) :
           At(b, g).offset = IF g = s THEN 0 ELSE BindingEnd(b, g - 1)
      /\ s = IF Entries(b) = {} THEN 0 ELSE BindingEnd(b, Max(Entries(b)))
  BY DEF Compact, Bindable
<1>4. /\ \A g \in Entries(b) \ {h} :
           /\ SameMember(b, g, c, g)
           /\ BindingVerdict(b, g) = "ok" => BindingEnd(c, g) = BindingEnd(b, g)
      /\ BindingVerdict(b, h) = "ok" /\ ~Streamed(b, h) =>
           BindingVerdict(c, h) = "ok" /\ BindingEnd(c, h) = BindingEnd(b, h)
  BY FilledEntries
<1>5. ~Streamed(b, h)
  OBVIOUS
<1> HIDE DEF h, s
<1>6. \A g \in Entries(b) : BindingVerdict(c, g) = "ok" /\ BindingEnd(c, g) = BindingEnd(b, g)
  BY <1>1, <1>3, <1>4, <1>5 DEF SameMember
<1>7. \A g \in Entries(b) : At(b, g) \in CdHeaders /\ g \in Nat /\ s \in Nat /\ s <= g
  BY <1>1, <1>2, EntryProperties, ParsedLayout DEF s
<1>8. \A g \in Entries(b) : At(c, g).offset = At(b, g).offset
  BY <1>1, <1>7 DEF CdHeaders
<1>9. ASSUME NEW g \in Entries(c)
      PROVE  At(c, g).offset = IF g = CdStart(c) THEN 0 ELSE BindingEnd(c, g - 1)
  <2>1. CASE g = s
    BY <1>1, <1>3, <1>8, <2>1
  <2>2. CASE g # s
    <3>1. Entries(b) = s .. s + Cardinality(Entries(b)) - 1 /\ Cardinality(Entries(b)) \in Nat
      BY <1>1, <1>2, EntriesFinite DEF Entries, s
    <3>2. g \in Entries(b) /\ g \in Nat /\ s \in Nat
      BY <1>1, <1>7
    <3>3. g - 1 \in Entries(b)
      BY <2>2, <3>1, <3>2
    <3> QED
      BY <1>1, <1>3, <1>6, <1>8, <2>2, <3>3
  <2> QED
    BY <2>1, <2>2
<1>10. s = IF Entries(c) = {} THEN 0 ELSE BindingEnd(c, Max(Entries(c)))
  <2>1. CASE Entries(b) = {}
    BY <1>1, <1>3, <2>1
  <2>2. CASE Entries(b) # {}
    <3>1. Entries(b) \subseteq 0 .. EocdOffset(b) /\ EocdOffset(b) \in Nat
      BY <1>1, <1>2, EntryProperties, ParsedLayout
    <3>2. Max(Entries(b)) \in Entries(b)
      BY <2>2, <3>1, MaxIsGreatest
    <3> QED
      BY <1>1, <1>3, <1>6, <2>2, <3>2
  <2> QED
    BY <2>1, <2>2
<1>11. /\ At(b, EocdOffset(b)).comment = 0
       /\ At(b, EocdOffset(b)).cdsize = SizeOf(c, Entries(c))
       /\ s + Cardinality(Entries(b)) = EocdOffset(b)
  BY FillKeepsSize DEF Compact, s
<1> QED
  BY <1>1, <1>6, <1>9, <1>10, <1>11 DEF Compact, Bindable

\* A remove that finds a manifest leaves a compact archive, whatever gaps and
\* order it found, and no call makes a compact archive less so.
THEOREM RebuildsAreCompact == ASSUME ExactInputs PROVE Spec => RebuildCompacts
<1>1. ExactDocument /\ [Next]_vars =>
        \/ /\ call'.verdict = "ok" /\ ~KnownDeadEnd
           /\ \/ Compact(doc)
              \/ Did("remove") /\ Named(doc, ManifestPath) # {}
           => Compact(doc')
        \/ UNCHANGED vars
  <2> SUFFICES ASSUME ExactDocument, Next, ~KnownDeadEnd,
                      Compact(doc) \/ (Did("remove") /\ Named(doc, ManifestPath) # {})
               PROVE  Compact(doc')
    OBVIOUS
  <2>1. /\ doc \in Archives /\ TypeOK /\ ExactDirectory(doc)
        /\ ~WritesSentinel /\ ~LeavesStaleDescriptor
    BY DEF ExactDocument, TypeOK, KnownDeadEnd
  <2>2. CASE Did("embed")
    <3> DEFINE mid == RemoveZipEntry(doc, ManifestPath)
    <3>1. /\ IsInsertion(mid, call'.store, doc') /\ Parses(mid)
          /\ RemoveVerdict(doc, ManifestPath) = "ok"
      BY <2>1, <2>2, CallEffects, EmbedInserts
    <3>2. Compact(doc)
      BY <2>2 DEF Did
    <3>3. Compact(mid)
      BY <2>1, <3>1, <3>2, RemovedIsCompact DEF RemoveZipEntry
    <3>4. ~IsZip64(Last(doc'))
      BY <2>1, <2>2 DEF WritesSentinel, Rebuilds
    <3> HIDE DEF mid
    <3> QED
      BY <3>1, <3>3, <3>4, InsertedIsCompact
  <2>3. CASE Did("fill")
    <3>1. Compact(doc) /\ ~Streamed(doc, FirstNamed(doc, ManifestPath))
      BY <2>1, <2>3 DEF Did, LeavesStaleDescriptor
    <3> QED
      BY <2>1, <2>3, <3>1, CallEffects, FilledIsCompact
  <2>4. CASE Did("remove")
    BY <2>1, <2>4, CallEffects, RemovedParses, RemovedIsCompact DEF RemoveZipEntry
  <2>5. CASE doc' = doc /\ ~Did("remove")
    BY <2>5
  <2> QED
    BY <2>1, <2>2, <2>3, <2>4, <2>5, CallEffects
<1> QED
  BY <1>1, DocumentStaysExact, PTL DEF Spec, RebuildCompacts

\* In a compact archive with no manifest an embed is undone by a remove, cell
\* for cell, and leaves no trace in a later embed, unless what it writes is an
\* archive the crate refuses (embed_manifest, remove_manifest).
THEOREM EmbedIsUndone == Spec => []EmbedIsReversible
<1>1. TypeOK => EmbedIsReversible
  <2> SUFFICES ASSUME TypeOK, Compact(doc), Named(doc, ManifestPath) = {},
                      NEW first \in Payloads, NEW second \in Payloads,
                      EmbedVerdict(doc, first) = "ok", ~IsZip64(Last(Embed(doc, first)))
               PROVE  LET once == Embed(doc, first)
                      IN /\ RemoveVerdict(once, ManifestPath) = "ok"
                         /\ RemoveZipEntry(once, ManifestPath) = doc
                         /\ EmbedVerdict(once, second) = EmbedVerdict(doc, second)
                         /\ Embed(once, second) = Embed(doc, second)
    BY DEF EmbedIsReversible
  <2> DEFINE once == Embed(doc, first)
  <2>1. doc \in Archives /\ ExactDirectory(doc)
    <3>1. Parses(doc) /\ doc \in Archives
      BY DEF TypeOK, Compact, Bindable
    <3> QED
      BY <3>1, EntriesFinite DEF Compact, ExactDirectory
  <2>2. RemoveZipEntry(doc, ManifestPath) = doc /\ RemoveVerdict(doc, ManifestPath) = "ok"
    BY DEF RemoveZipEntry, RemoveVerdict, Compact, Bindable
  <2>3. IsInsertion(doc, first, once)
    BY <2>1, <2>2, EmbedInserts
  <2> HIDE DEF once
  <2>4. RemoveVerdict(once, ManifestPath) = "ok" /\ RemoveZipEntry(once, ManifestPath) = doc
    BY <2>3, InsertionUndone DEF once
  <2>5. /\ EmbedVerdict(once, second) = EmbedVerdict(doc, second)
        /\ Embed(once, second) = Embed(doc, second)
    BY <2>2, <2>4 DEF EmbedVerdict, Embed
  <2> QED
    BY <2>4, <2>5 DEF once
<1> QED
  BY <1>1, TypeCorrect, PTL

-----------------------------------------------------------------------------
(* The refinement of the abstract document                                 *)

Mem(b) == IF Parses(b) THEN MemberFiles(b) ELSE <<>>

Man(b) == LET read == ReadVerdict(b, ManifestPath)
          IN [state |-> IF read = "ok" THEN "present"
                        ELSE IF read = "none" THEN "absent" ELSE "unusable",
              cells |-> IF read = "ok" THEN ReadContent(b, ManifestPath) ELSE <<>>]

\* What is known of the members is a list of file records.
LEMMA MemberFilesType ==
  ASSUME NEW b \in Archives, Parses(b)
  PROVE  MemberFiles(b) \in Seq(FileRecords)
<1> DEFINE order == InArchiveOrder(b, Members(b))
           n     == Cardinality(Members(b))
           file  == [h \in Members(b) |->
                       [name |-> At(b, h).name, flags |-> At(b, h).flags,
                        method |-> At(b, h).method, crc |-> At(b, h).crc,
                        usize |-> At(b, h).usize,
                        content |-> IF ContentVerdict(b, h) = "ok"
                                    THEN {ContentOf(b, h)} ELSE {}]]
<1>1. Members(b) \subseteq Entries(b)
  BY DEF Members
<1>2. order \in [1 .. n -> Members(b)] /\ n \in Nat
  BY <1>1, ArchiveOrder
<1>3. ASSUME NEW h \in Members(b)
      PROVE  file[h] \in FileRecords
  <2>1. h \in Entries(b) /\ At(b, h) \in CdHeaders
    BY <1>1, EntryProperties
  <2>2. ASSUME ContentVerdict(b, h) = "ok"
        PROVE  ContentOf(b, h) \in Archives
    <3> DEFINE from == ContentStart(b, h)
               to   == ContentEnd(b, h)
    <3>1. from \in Nat /\ to \in Nat /\ to = from + At(b, h).csize
          /\ to <= EntryBoundary(b, h) /\ At(b, h).csize \in Nat
      BY <2>1, <2>2, ContentLocated, EntryProperties
    <3>2. /\ EntryBoundary(b, h) \in Nat /\ EntryBoundary(b, h) <= CdStart(b)
          /\ CdStart(b) \in Nat /\ CdStart(b) <= Len(b) /\ Len(b) \in Nat
      BY <2>1, BoundaryProperties, ParsedRecord, ArchiveLength
    <3> HIDE DEF from, to
    <3>3. \A x, y, z, w \in Nat : x <= y /\ y <= z /\ z <= w => x <= w
      OBVIOUS
    <3>4. to <= Len(b)
      BY <3>1, <3>2, <3>3, Zenon
    <3>5. from <= to
      BY <3>1
    <3>6. Slice(b, from, to) \in Archives
      BY <3>1, <3>4, <3>5, SliceProperties
    <3> QED
      BY <3>6 DEF ContentOf, from, to
  <2>3. (IF ContentVerdict(b, h) = "ok" THEN {ContentOf(b, h)} ELSE {}) \in SUBSET Archives
    BY <2>2
  <2> QED
    BY <2>1, <2>3 DEF FileRecords, CdHeaders
<1>4. MemberFiles(b) = [k \in DOMAIN order |-> file[order[k]]]
  BY DEF MemberFiles
<1> HIDE DEF order, n, file
<1>5. MemberFiles(b) \in [1 .. n -> FileRecords]
  BY <1>2, <1>3, <1>4
<1> QED
  BY <1>2, <1>5, SeqDef

\* Archives with the same members have the same list.
LEMMA MemberFilesKept ==
  ASSUME NEW b \in Archives, Parses(b), NEW c \in Archives, Parses(c), KeepsMembers(b, c)
  PROVE  MemberFiles(c) = MemberFiles(b)
<1> DEFINE file(x, h) == [name |-> At(x, h).name, flags |-> At(x, h).flags,
                          method |-> At(x, h).method, crc |-> At(x, h).crc,
                          usize |-> At(x, h).usize,
                          content |-> IF ContentVerdict(x, h) = "ok"
                                      THEN {ContentOf(x, h)} ELSE {}]
           order(x) == InArchiveOrder(x, Members(x))
           n(x)     == Len(order(x))
<1>1. ASSUME NEW x \in Archives, Parses(x)
      PROVE  /\ MemberFiles(x) = [k \in 1 .. n(x) |-> file(x, order(x)[k])]
             /\ \A k \in 1 .. n(x) : order(x)[k] \in Entries(x)
  <2> DEFINE f == [h \in Members(x) |-> file(x, h)]
  <2>1. /\ order(x) \in [1 .. n(x) -> Members(x)]
        /\ Members(x) \subseteq Entries(x)
    BY <1>1, ArchiveOrder DEF Members
  <2>2. MemberFiles(x) = [k \in DOMAIN order(x) |-> f[order(x)[k]]]
    BY DEF MemberFiles
  <2> HIDE DEF order, n, file
  <2>3. \A k \in 1 .. n(x) : f[order(x)[k]] = file(x, order(x)[k])
    BY <2>1
  <2> HIDE DEF f
  <2> QED
    BY <2>1, <2>2, <2>3
<1>2. /\ n(c) = n(b)
      /\ \A k \in 1 .. n(b) : SameMember(b, order(b)[k], c, order(c)[k])
  BY DEF KeepsMembers
<1>3. ASSUME NEW h \in Entries(b), NEW g, SameMember(b, h, c, g)
      PROVE  file(c, g) = file(b, h)
  <2>1. At(b, h) \in CdHeaders
    BY <1>3, EntryProperties
  <2>2. At(c, g) = [At(b, h) EXCEPT !.offset = At(c, g).offset]
    BY <1>3 DEF SameMember
  <2>3. /\ At(c, g).name = At(b, h).name /\ At(c, g).flags = At(b, h).flags
        /\ At(c, g).method = At(b, h).method /\ At(c, g).crc = At(b, h).crc
        /\ At(c, g).usize = At(b, h).usize
    BY <2>1, <2>2 DEF CdHeaders
  <2>4. (IF ContentVerdict(c, g) = "ok" THEN {ContentOf(c, g)} ELSE {})
          = (IF ContentVerdict(b, h) = "ok" THEN {ContentOf(b, h)} ELSE {})
    BY <1>3 DEF SameMember
  <2> QED
    BY <2>3, <2>4
<1> HIDE DEF order, n, file
<1>4. \A k \in 1 .. n(b) : file(c, order(c)[k]) = file(b, order(b)[k])
  BY <1>1, <1>2, <1>3
<1>5. /\ MemberFiles(b) = [k \in 1 .. n(b) |-> file(b, order(b)[k])]
      /\ MemberFiles(c) = [k \in 1 .. n(c) |-> file(c, order(c)[k])]
  BY <1>1
<1> QED
  BY <1>2, <1>4, <1>5

\* Every call does to the document what the abstract one says, unless it
\* writes the ZIP64 sentinel: a successful embed puts the store, a fill replaces
\* it, a remove clears it, nothing else changes, no member ever, and a call that
\* is refused changes nothing at all (lib.rs).
THEOREM PromiseIsKept ==
  ASSUME ExactInputs PROVE Spec /\ [][~WritesSentinel]_vars => KeepsPromise
<1>1. ExactDocument /\ Init => Promise!Init
  <2> SUFFICES ASSUME ExactDocument, Init
               PROVE  Promise!Init
    OBVIOUS
  <2>1. Mem(doc) \in Seq(FileRecords)
    BY MemberFilesType, EmptySeq DEF Mem, ExactDocument, TypeOK
  <2>2. Man(doc) \in {Promise!Absent, Promise!Unusable, Promise!Present(Man(doc).cells)}
    BY DEF Man, Promise!Absent, Promise!Unusable, Promise!Present
  <2>3. call = [op |-> "none", store |-> <<>>, verdict |-> "none"]
    BY DEF Init
  <2> QED
    BY <2>1, <2>2, <2>3 DEF Promise!Init, Mem, Man
<1>2. ExactDocument /\ [Next]_vars /\ [~WritesSentinel]_vars => [Promise!Next]_(Promise!vars)
  <2> SUFFICES ASSUME ExactDocument, [Next]_vars, [~WritesSentinel]_vars
               PROVE  Promise!Next \/ UNCHANGED Promise!vars
    OBVIOUS
  <2>1. CASE UNCHANGED vars
    BY <2>1 DEF vars, Promise!vars
  <2>2. ASSUME Next, ~WritesSentinel
        PROVE  Promise!Next
    <3> doc \in Archives /\ TypeOK /\ ExactDirectory(doc)
      BY DEF ExactDocument, TypeOK
    <3> DEFINE answer == call'
    <3>0. IsAnswer(answer)
      BY <2>2, CallAnswers
    <3>1. Mem(doc') = Mem(doc)
      <4>1. CASE Parses(doc)
        <5>1. doc' \in Archives /\ Parses(doc') /\ KeepsMembers(doc, doc')
          BY <2>2, <4>1, CallsKeepMembers
        <5> QED
          BY <4>1, <5>1, MemberFilesKept DEF Mem
      <4>2. CASE ~Parses(doc)
        <5>1. ~Did("embed") /\ ~Did("remove")
          BY <2>2, <4>2, CallEffects DEF EmbedVerdict, RemoveVerdict, Parses
        <5>2. ~Did("fill")
          BY <2>2, <4>2, CallEffects, FillKeepsMembers
        <5> QED
          BY <2>2, <5>1, <5>2, CallEffects
      <4> QED
        BY <4>1, <4>2
    <3>2. ASSUME Did("embed")
          PROVE  Promise!Put(call'.store) /\ call'.store \in Payloads
      <4>1. /\ call'.store \in Payloads /\ EmbedVerdict(doc, call'.store) = "ok"
            /\ doc' = Embed(doc, call'.store)
        BY <2>2, <3>2, CallEffects
      <4>2. ~IsZip64(Last(doc'))
        BY <2>2, <3>2 DEF WritesSentinel, Rebuilds
      <4>3. /\ ReadVerdict(doc', ManifestPath) = "ok"
            /\ ReadContent(doc', ManifestPath) = call'.store
        BY <4>1, <4>2, EmbedKeepsMembers
      <4>4. Man(doc') = Promise!Present(call'.store)
        BY <4>3 DEF Man, Promise!Present
      <4>5. Promise!Answer("embed", call'.store, "ok")
        BY <3>0, <3>2 DEF Promise!Answer, Did, IsAnswer
      <4> QED
        BY <4>1, <4>4, <4>5 DEF Promise!Put, Man
    <3>3. ASSUME Did("fill")
          PROVE  Promise!Replace(call'.store) /\ call'.store \in Payloads
      <4>1. IsFilling(doc, call'.store, doc')
        BY <2>2, <3>3, CallEffects
      <4>2. /\ ReadVerdict(doc, ManifestPath) = "ok"
            /\ ReadVerdict(doc', ManifestPath) = "ok"
            /\ ReadContent(doc', ManifestPath) = call'.store
            /\ Len(ReadContent(doc, ManifestPath)) = Len(call'.store)
        BY <4>1, FillKeepsMembers
      <4>3. Man(doc') = Promise!Present(call'.store)
        BY <4>2 DEF Man, Promise!Present
      <4>4. Man(doc).state = "present" /\ Len(call'.store) = Len(Man(doc).cells)
        BY <4>2 DEF Man
      <4>5. Promise!Answer("fill", call'.store, "ok")
        BY <3>0, <3>3 DEF Promise!Answer, Did, IsAnswer
      <4>6. call'.store \in Payloads
        BY <3>0, <3>3 DEF Did, IsAnswer
      <4> QED
        BY <4>3, <4>4, <4>5, <4>6 DEF Promise!Replace, Man
    <3>4. ASSUME Did("remove")
          PROVE  Promise!Clear
      <4>1. RemoveVerdict(doc, ManifestPath) = "ok"
            /\ doc' = RemoveZipEntry(doc, ManifestPath)
        BY <2>2, <3>4, CallEffects
      <4>2. Parses(doc') /\ Named(doc', ManifestPath) = {}
        BY <2>2, <3>4, <4>1, RemovedParses, RemoveKeepsMembers
      <4>3. ReadVerdict(doc', ManifestPath) = "none"
        BY <4>2 DEF ReadVerdict
      <4>4. Man(doc') = Promise!Absent
        BY <4>3 DEF Man, Promise!Absent
      <4>5. Promise!Answer("remove", <<>>, "ok")
        BY <3>0, <3>4 DEF Promise!Answer, Did, IsAnswer
      <4> QED
        BY <4>4, <4>5 DEF Promise!Clear, Man
    <3>5. ASSUME ~Did("embed"), ~Did("fill"), ~Did("remove")
          PROVE  Promise!Refuse
      <4>1. doc' = doc
        BY <2>2, <3>5, CallEffects
      <4>2. answer.verdict \in Verdicts \ {"ok"}
        BY <3>0, <3>5 DEF Did, IsAnswer
      <4>3. \/ Promise!Answer("embed", answer.store, answer.verdict)
            \/ Promise!Answer("fill", answer.store, answer.verdict)
            \/ Promise!Answer("remove", answer.store, answer.verdict)
        BY <3>0 DEF Promise!Answer, IsAnswer
      <4> QED
        BY <3>0, <4>1, <4>2, <4>3 DEF Promise!Refuse, IsAnswer
    <3> QED
      BY <3>1, <3>2, <3>3, <3>4, <3>5 DEF Promise!Next, Mem
  <2> QED
    BY <2>1, <2>2
<1> QED
  BY <1>1, <1>2, DocumentStaysExact, PTL DEF Spec, KeepsPromise, Promise!Spec

-----------------------------------------------------------------------------
(* Archives with a comment                                                 *)

\* c is read as b is: up to the record found, which is at the same place and
\* says the same of all but the comment, they are the same.
ReadsAlike(b, c) ==
  /\ b \in Archives /\ Parses(b) /\ c \in Archives
  /\ EocdPositions(c) # {} /\ EocdOffset(c) = EocdOffset(b)
  /\ \A p \in Nat : p < EocdOffset(b) => At(c, p) = At(b, p)
  /\ \E n \in U16 :
       At(c, EocdOffset(b)) = [At(b, EocdOffset(b)) EXCEPT !.comment = n]

\* It has the same entries.
LEMMA AlikeLayout ==
  ASSUME NEW b, NEW c, ReadsAlike(b, c)
  PROVE  /\ Parses(c) /\ CdStart(c) = CdStart(b) /\ Entries(c) = Entries(b)
         /\ EocdOffset(b) < Len(c)
         /\ \A h \in Entries(b) : At(c, h) = At(b, h)
<1> DEFINE p == EocdOffset(b)
           r == At(b, p)
           s == At(c, p)
<1>1. /\ b \in Archives /\ Parses(b) /\ c \in Archives
      /\ EocdPositions(c) # {} /\ EocdOffset(c) = p
      /\ \A q \in Nat : q < p => At(c, q) = At(b, q)
      /\ \E n \in U16 : s = [r EXCEPT !.comment = n]
  BY DEF ReadsAlike
<1>2. /\ EocdPositions(b) # {} /\ p \in Nat
      /\ CdStart(b) \in Nat /\ CdStart(b) <= p /\ r \in EocdRecords
      /\ \A h \in Entries(b) : HeaderVerdict(b, h) = "ok" /\ h \in Nat /\ h < p
  BY <1>1, ParsedLayout, ParsedRecord, EntryProperties
<1>3. p < Len(c) /\ p < Len(b) /\ Len(c) \in Nat /\ Len(b) \in Nat
  BY <1>1, EocdFound, ParsedLayout, ArchiveLength
<1>4. CdStart(b) = r.cdoffset /\ CdStart(c) = s.cdoffset
  BY <1>1 DEF CdStart
<1>5. /\ Entries(b) = CdStart(b) .. CdStart(b) + r.count - 1
      /\ Entries(c) = CdStart(c) .. CdStart(c) + s.count - 1
  BY <1>1 DEF Entries
<1>6. ~IsZip64(r)
  BY <1>1, <1>2 DEF Parses, ParseVerdict
<1> HIDE DEF p, r, s
<1>7. s.count = r.count /\ s.cdsize = r.cdsize /\ s.cdoffset = r.cdoffset
  BY <1>1, <1>2 DEF EocdRecords
<1>8. CdStart(c) = CdStart(b) /\ Entries(c) = Entries(b) /\ ~IsZip64(s)
  BY <1>4, <1>5, <1>6, <1>7 DEF IsZip64
<1>9. ASSUME NEW h \in Entries(b)
      PROVE  HeaderVerdict(c, h) = "ok" /\ At(c, h) = At(b, h)
  <2>1. h \in Nat /\ h < p /\ At(c, h) = At(b, h)
    BY <1>1, <1>2
  <2>2. h < Len(c) /\ h < Len(b)
    BY <1>2, <1>3, <2>1
  <2>3. HasSig(c, h, "CENTRAL") <=> HasSig(b, h, "CENTRAL")
    BY <2>1, <2>2 DEF HasSig
  <2>4. EocdOffset(c) = EocdOffset(b) /\ CdStart(c) = CdStart(b)
    BY <1>1, <1>8 DEF p
  <2>5. HeaderVerdict(c, h) = HeaderVerdict(b, h)
    BY <2>1, <2>3, <2>4 DEF HeaderVerdict
  <2> QED
    BY <1>2, <2>1, <2>5
<1>10. Parses(c)
  <2>1. {h \in Entries(c) : HeaderVerdict(c, h) # "ok"} = {}
    BY <1>8, <1>9
  <2>2. ~(CdStart(c) > EocdOffset(c))
    BY <1>1, <1>2, <1>8
  <2>3. ~IsZip64(At(c, EocdOffset(c)))
    BY <1>1, <1>8 DEF s
  <2> QED
    BY <1>1, <2>1, <2>2, <2>3 DEF Parses, ParseVerdict
<1> QED
  BY <1>3, <1>8, <1>9, <1>10 DEF p

\* And what is read of each is the same, the errors included.
LEMMA AlikeEntry ==
  ASSUME NEW b, NEW c, ReadsAlike(b, c), NEW h \in Entries(b)
  PROVE  /\ SameMember(b, h, c, h)
         /\ ContentVerdict(c, h) = ContentVerdict(b, h)
         /\ BindingVerdict(c, h) = BindingVerdict(b, h)
         /\ MemberVerdict(c, h) = MemberVerdict(b, h)
<1> DEFINE e  == At(b, h)
           lh == e.offset
           p  == EocdOffset(b)
<1>1. /\ b \in Archives /\ Parses(b) /\ c \in Archives /\ Parses(c)
      /\ CdStart(c) = CdStart(b) /\ Entries(c) = Entries(b)
      /\ \A g \in Entries(b) : At(c, g) = At(b, g)
      /\ \A q \in Nat : q < p => At(c, q) = At(b, q)
  BY AlikeLayout DEF ReadsAlike
<1>2. /\ p \in Nat /\ p < Len(b) /\ p < Len(c) /\ Len(b) \in Nat /\ Len(c) \in Nat
      /\ CdStart(b) \in Nat /\ CdStart(b) <= p
  BY <1>1, AlikeLayout, ParsedLayout, ArchiveLength
<1>3. /\ e \in CdHeaders /\ lh \in Nat /\ lh < CdStart(b) /\ e.csize \in Nat
  BY <1>1, EntryProperties
<1>4. EntryBoundary(c, h) = EntryBoundary(b, h)
  <2>1. \A g \in Entries(b) : Before(c, h, g) <=> Before(b, h, g)
    BY <1>1 DEF Before
  <2>2. {g \in Entries(c) : Before(c, h, g)} = {g \in Entries(b) : Before(b, h, g)}
    BY <1>1, <2>1
  <2>3. \A gs \in SUBSET Entries(b) : {At(c, g).offset : g \in gs} = {At(b, g).offset : g \in gs}
    BY <1>1
  <2> QED
    BY <1>1, <2>2, <2>3 DEF EntryBoundary
<1>5. /\ EntryBoundary(b, h) \in Nat /\ EntryBoundary(b, h) <= CdStart(b)
      /\ lh <= EntryBoundary(b, h)
  BY <1>1, BoundaryProperties
<1>6. At(c, h) = At(b, h)
  BY <1>1
<1> HIDE DEF p
<1>7. /\ \A q \in Nat : q < CdStart(b) => At(c, q) = At(b, q)
      /\ \A q \in Nat : q < CdStart(b) => (HasSig(c, q, "LOCAL") <=> HasSig(b, q, "LOCAL"))
      /\ \A q \in Nat : q <= CdStart(b) => \A v : HasWord(c, q, v) <=> HasWord(b, q, v)
  <2>1. \A q \in Nat : q < p =>
          At(c, q) = At(b, q) /\ \A sig : HasSig(c, q, sig) <=> HasSig(b, q, sig)
    BY <1>1, <1>2 DEF HasSig
  <2>2. ~HasSig(c, p, "WORD") /\ ~HasSig(b, p, "WORD")
    <3>1. At(c, p).sig = "EOCD" /\ At(b, p).sig = "EOCD"
      BY <1>1, ParsedRecord DEF p, ReadsAlike, EocdRecords
    <3> QED
      BY <3>1 DEF HasSig
  <2>3. \A q \in Nat : q < p => \A v : HasWord(c, q, v) <=> HasWord(b, q, v)
    BY <2>1 DEF HasWord
  <2>4. \A v : HasWord(c, p, v) <=> HasWord(b, p, v)
    BY <2>2 DEF HasWord
  <2>5. \A q \in Nat : /\ q < CdStart(b) => q < p
                       /\ q <= CdStart(b) => q < p \/ q = p
    BY <1>2
  <2> QED
    BY <2>1, <2>3, <2>4, <2>5
<1>8. SameMember(b, h, c, h)
  <2>1. SameCells(b, lh, c, lh, EntryBoundary(b, h) - lh)
    <3> DEFINE n == EntryBoundary(b, h) - lh
    <3>1. \A i \in 0 .. n - 1 : lh + i \in Nat /\ lh + i < CdStart(b)
      BY <1>2, <1>3, <1>5
    <3> HIDE DEF n, lh
    <3>2. SameCells(b, lh, c, lh, n)
      BY <1>7, <3>1 DEF SameCells
    <3> QED
      BY <3>2 DEF n
  <2> QED
    BY <1>1, <1>4, <1>6, <2>1, StayedMember
<1>9. /\ ContentStart(c, h) = ContentStart(b, h) /\ ContentEnd(c, h) = ContentEnd(b, h)
  BY <1>3, <1>6, <1>7 DEF ContentStart, ContentEnd
<1>10. ContentVerdict(c, h) = ContentVerdict(b, h)
  <2>1. HasSig(b, lh, "LOCAL") => At(b, lh) \in LocalHeaders
    BY <1>1, <1>2, <1>3, CellAt, CellKinds DEF HasSig
  <2>2. HasSig(b, lh, "LOCAL") => ContentEnd(b, h) \in Nat
    <3>1. HasSig(b, lh, "LOCAL") => At(b, lh).extra \in Nat
      BY <2>1, FieldsAreNaturals DEF LocalHeaders
    <3> QED
      BY <1>3, <3>1 DEF ContentEnd, ContentStart
  <2>3. ~(ContentEnd(b, h) > EntryBoundary(b, h)) /\ HasSig(b, lh, "LOCAL") =>
          ~(ContentEnd(b, h) > Len(b)) /\ ~(ContentEnd(b, h) > Len(c))
    BY <1>2, <1>5, <2>2
  <2>4. HasSig(c, lh, "LOCAL") <=> HasSig(b, lh, "LOCAL")
    BY <1>3, <1>7
  <2>5. At(c, lh) = At(b, lh)
    BY <1>3, <1>7
  <2> QED
    BY <1>4, <1>6, <1>9, <2>3, <2>4, <2>5 DEF ContentVerdict
<1>11. ContentVerdict(b, h) = "ok" =>
         /\ DescriptorAt(c, h) = DescriptorAt(b, h) /\ DescriptorAt(b, h) \in Nat
         /\ HasDescriptor(c, h, DescriptorAt(b, h)) <=> HasDescriptor(b, h, DescriptorAt(b, h))
         /\ SameSums(At(c, lh), At(c, h)) <=> SameSums(At(b, lh), At(b, h))
  <2> SUFFICES ASSUME ContentVerdict(b, h) = "ok"
               PROVE  /\ DescriptorAt(c, h) = DescriptorAt(b, h) /\ DescriptorAt(b, h) \in Nat
                      /\ HasDescriptor(c, h, DescriptorAt(b, h))
                           <=> HasDescriptor(b, h, DescriptorAt(b, h))
                      /\ SameSums(At(c, lh), At(c, h)) <=> SameSums(At(b, lh), At(b, h))
    OBVIOUS
  <2>1. ContentEnd(b, h) \in Nat /\ ContentEnd(b, h) <= EntryBoundary(b, h)
    BY <1>1, ContentLocated
  <2>2. ContentEnd(b, h) <= CdStart(b)
    BY <1>2, <1>5, <2>1
  <2>3. HasWord(c, ContentEnd(b, h), DescriptorSig) <=> HasWord(b, ContentEnd(b, h), DescriptorSig)
    BY <1>7, <2>1, <2>2
  <2>4. DescriptorAt(c, h) = DescriptorAt(b, h) /\ DescriptorAt(b, h) \in Nat
    BY <1>9, <2>1, <2>3 DEF DescriptorAt
  <2>5. ASSUME NEW d \in Nat
        PROVE  HasDescriptor(c, h, d) <=> HasDescriptor(b, h, d)
    <3>1. CASE d + 3 <= EntryBoundary(b, h)
      <4>1. /\ d \in Nat /\ d + 1 \in Nat /\ d + 2 \in Nat
            /\ d <= CdStart(b) /\ d + 1 <= CdStart(b) /\ d + 2 <= CdStart(b)
        BY <1>2, <1>5, <3>1
      <4>2. /\ \A v : HasWord(c, d, v) <=> HasWord(b, d, v)
            /\ \A v : HasWord(c, d + 1, v) <=> HasWord(b, d + 1, v)
            /\ \A v : HasWord(c, d + 2, v) <=> HasWord(b, d + 2, v)
        BY <1>7, <4>1
      <4> QED
        BY <1>4, <1>6, <4>2 DEF HasDescriptor
    <3>2. CASE ~(d + 3 <= EntryBoundary(b, h))
      BY <1>4, <3>2 DEF HasDescriptor
    <3> QED
      BY <3>1, <3>2
  <2>6. SameSums(At(c, lh), At(c, h)) <=> SameSums(At(b, lh), At(b, h))
    <3>1. At(c, lh) = At(b, lh)
      BY <1>3, <1>7
    <3> QED
      BY <1>6, <3>1
  <2> QED
    BY <2>4, <2>5, <2>6
<1>12. BindingVerdict(c, h) = BindingVerdict(b, h)
  <2>1. Streamed(c, h) <=> Streamed(b, h)
    BY <1>6 DEF Streamed
  <2>2. CASE ContentVerdict(b, h) # "ok"
    BY <1>10, <2>2 DEF BindingVerdict
  <2>3. CASE ContentVerdict(b, h) = "ok"
    BY <1>6, <1>10, <1>11, <2>1, <2>3 DEF BindingVerdict
  <2> QED
    BY <2>2, <2>3
<1>13. MemberVerdict(c, h) = MemberVerdict(b, h)
  BY <1>6, <1>12 DEF MemberVerdict
<1> QED
  BY <1>8, <1>10, <1>12, <1>13

\* The first of any entries is the same.
LEMMA AlikeFirst ==
  ASSUME NEW b, NEW c, ReadsAlike(b, c), NEW hs, hs \subseteq Entries(b), hs # {}
  PROVE  FirstOf(c, hs) = FirstOf(b, hs) /\ FirstOf(b, hs) \in hs
<1> DEFINE f == FirstOf(b, hs)
           g == FirstOf(c, hs)
<1>1. /\ b \in Archives /\ Parses(b) /\ c \in Archives /\ Parses(c)
      /\ hs \subseteq Entries(c) /\ \A h \in hs : At(c, h) = At(b, h)
  BY AlikeLayout DEF ReadsAlike
<1>2. /\ f \in hs /\ \A h \in hs \ {f} : Before(b, f, h)
      /\ g \in hs /\ \A h \in hs \ {g} : Before(c, g, h)
  BY <1>1, FirstIsFirst
<1>3. \A h \in hs : h \in Nat /\ At(b, h).offset \in Nat
  BY <1>1, EntryProperties
<1> HIDE DEF f, g
<1>4. ASSUME f # g
      PROVE  FALSE
  <2>1. Before(b, f, g) /\ Before(c, g, f)
    BY <1>2, <1>4
  <2> QED
    BY <1>1, <1>2, <1>3, <2>1 DEF Before
<1>5. f = g
  BY <1>4
<1> QED
  BY <1>2, <1>5 DEF f, g

\* And so are the members, the manifest and what the collection hash covers.
LEMMA AlikeReading ==
  ASSUME NEW b, NEW c, ReadsAlike(b, c)
  PROVE  /\ Parses(c) /\ MemberFiles(c) = MemberFiles(b)
         /\ ReadVerdict(c, ManifestPath) = ReadVerdict(b, ManifestPath)
         /\ ReadVerdict(c, ManifestPath) = "ok" =>
              ReadContent(c, ManifestPath) = ReadContent(b, ManifestPath)
         /\ CollectionVerdict(c) = CollectionVerdict(b)
         /\ CollectionVerdict(c) = "ok" => CollectionInput(c) = CollectionInput(b)
<1>1. /\ b \in Archives /\ Parses(b) /\ c \in Archives /\ Parses(c)
      /\ Entries(c) = Entries(b) /\ \A h \in Entries(b) : At(c, h) = At(b, h)
  BY AlikeLayout DEF ReadsAlike
<1>2. Named(c, ManifestPath) = Named(b, ManifestPath) /\ Members(c) = Members(b)
  BY <1>1 DEF Named, Members
<1>3. KeepsMembers(b, c)
  <2> DEFINE hs == Members(b)
             order == InArchiveOrder(b, hs)
  <2>1. hs \subseteq Entries(b) /\ hs \subseteq Entries(c)
    BY <1>1 DEF Members
  <2>2. \A f, g \in hs : Before(c, f, g) <=> Before(b, f, g)
    BY <1>1, <2>1 DEF Before
  <2> HIDE DEF hs
  <2>3. InArchiveOrder(c, hs) = order
    BY <1>1, <2>1, <2>2, SameOrder
  <2>4. \A k \in 1 .. Len(order) : order[k] \in Entries(b)
    BY <1>1, <2>1, ArchiveOrder
  <2>5. \A k \in 1 .. Len(order) : SameMember(b, order[k], c, order[k])
    BY <2>4, AlikeEntry
  <2> HIDE DEF order
  <2>6. InArchiveOrder(b, Members(b)) = order /\ InArchiveOrder(c, Members(c)) = order
    BY <1>2, <2>3 DEF hs, order
  <2> QED
    BY <2>5, <2>6 DEF KeepsMembers
<1>4. MemberFiles(c) = MemberFiles(b)
  BY <1>1, <1>3, MemberFilesKept
<1>5. /\ ReadVerdict(c, ManifestPath) = ReadVerdict(b, ManifestPath)
      /\ ReadVerdict(c, ManifestPath) = "ok" =>
           ReadContent(c, ManifestPath) = ReadContent(b, ManifestPath)
  <2>1. CASE Named(b, ManifestPath) = {}
    BY <1>1, <1>2, <2>1 DEF ReadVerdict
  <2>2. CASE Named(b, ManifestPath) # {}
    <3> DEFINE h == FirstNamed(b, ManifestPath)
    <3>1. Named(b, ManifestPath) \subseteq Entries(b)
      BY DEF Named
    <3>2. FirstNamed(c, ManifestPath) = h /\ h \in Entries(b)
      BY <1>2, <2>2, <3>1, AlikeFirst DEF FirstNamed
    <3> HIDE DEF h
    <3>3. /\ ContentVerdict(c, h) = ContentVerdict(b, h) /\ SameMember(b, h, c, h)
          /\ At(c, h) = At(b, h)
      BY <1>1, <3>2, AlikeEntry
    <3>4. ManifestEntryVerdict(c, h) = ManifestEntryVerdict(b, h)
      BY <3>3 DEF ManifestEntryVerdict
    <3>5. /\ ReadVerdict(c, ManifestPath) = ManifestEntryVerdict(c, h)
          /\ ReadVerdict(b, ManifestPath) = ManifestEntryVerdict(b, h)
      BY <1>1, <1>2, <2>2, <3>2 DEF ReadVerdict, h
    <3>6. ManifestEntryVerdict(b, h) = "ok" => ContentVerdict(b, h) = "ok"
      BY DEF ManifestEntryVerdict
    <3>7. ManifestEntryVerdict(b, h) = "ok" => ContentOf(c, h) = ContentOf(b, h)
      BY <3>3, <3>6 DEF SameMember
    <3>8. /\ ReadContent(c, ManifestPath) = ContentOf(c, h)
          /\ ReadContent(b, ManifestPath) = ContentOf(b, h)
      BY <3>2 DEF ReadContent, h
    <3> QED
      BY <3>4, <3>5, <3>7, <3>8
  <2> QED
    BY <2>1, <2>2
<1>6. CollectionVerdict(c) = CollectionVerdict(b)
  <2> DEFINE refused == {h \in Entries(b) : MemberVerdict(b, h) # "ok"}
  <2>1. refused \subseteq Entries(b)
    OBVIOUS
  <2>2. {h \in Entries(c) : MemberVerdict(c, h) # "ok"} = refused
    BY <1>1, AlikeEntry
  <2>3. CASE refused = {}
    BY <1>1, <2>2, <2>3 DEF CollectionVerdict
  <2>4. CASE refused # {}
    <3>1. FirstOf(c, refused) = FirstOf(b, refused) /\ FirstOf(b, refused) \in refused
      BY <2>1, <2>4, AlikeFirst
    <3>2. MemberVerdict(c, FirstOf(c, refused)) = MemberVerdict(b, FirstOf(b, refused))
      BY <3>1, AlikeEntry
    <3>3. /\ CollectionVerdict(b) = MemberVerdict(b, FirstOf(b, refused))
          /\ CollectionVerdict(c) = MemberVerdict(c, FirstOf(c, refused))
      BY <1>1, <2>2, <2>4 DEF CollectionVerdict
    <3> QED
      BY <3>2, <3>3
  <2> QED
    BY <2>3, <2>4
<1>7. ASSUME CollectionVerdict(c) = "ok"
      PROVE  CollectionInput(c) = CollectionInput(b)
  <2>1. /\ \A h \in Entries(b) : BindingVerdict(b, h) = "ok"
        /\ \A h \in Entries(c) : BindingVerdict(c, h) = "ok"
    BY <1>1, <1>6, <1>7, CollectionAccepts DEF Bindable
  <2>2. /\ \A h \in Members(b) : BindingVerdict(b, h) = "ok"
        /\ \A h \in Named(c, ManifestPath) : BindingVerdict(c, h) = "ok"
    BY <2>1 DEF Members, Named
  <2> QED
    BY <1>1, <1>3, <2>2, CollectionKept
<1> QED
  BY <1>1, <1>4, <1>5, <1>6, <1>7

\* b ends with its record, and c is b with a comment that fits.
IsCommented(b, comment, c) ==
  /\ b \in Archives /\ Parses(b) /\ EocdOffset(b) + 1 = Len(b)
  /\ comment \in Archives /\ Len(comment) \in U16
  /\ c = WithComment(b, comment)

\* The record stays where it was and counts the comment.
LEMMA CommentedCells ==
  ASSUME NEW b, NEW comment, NEW c, IsCommented(b, comment, c)
  PROVE  /\ c \in Archives /\ Len(c) = Len(b) + Len(comment)
         /\ \A p \in Nat : p < EocdOffset(b) => At(c, p) = At(b, p)
         /\ At(c, EocdOffset(b)) = [At(b, EocdOffset(b)) EXCEPT !.comment = Len(comment)]
         /\ EocdOffset(b) \in EocdPositions(c)
<1> DEFINE n == Len(b)
           m == Len(comment)
           r == [b[n] EXCEPT !.comment = m]
           x == [b EXCEPT ![n] = r]
<1>1. /\ b \in Archives /\ Parses(b) /\ EocdOffset(b) + 1 = n
      /\ comment \in Archives /\ m \in U16 /\ c = x \o comment
  BY DEF IsCommented, WithComment
<1>2. /\ n \in Nat /\ EocdOffset(b) \in Nat /\ m \in Nat /\ n \in 1 .. n
      /\ EocdOffset(b) = n - 1 /\ n - 1 < n
  BY <1>1, ArchiveLength, ParsedLayout
<1>3. At(b, EocdOffset(b)) = b[n] /\ b[n] \in EocdRecords
  BY <1>1, ParsedRecord DEF At
<1>4. r \in EocdRecords /\ r.comment = m /\ r.sig = "EOCD"
  BY <1>1, <1>3 DEF EocdRecords
<1>5. b \in [1 .. n -> Cells]
  BY <1>1 DEF Archives
<1> HIDE DEF r, m
<1>6. /\ x \in [1 .. n -> Cells] /\ x[n] = r
      /\ \A i \in 1 .. n : i # n => x[i] = b[i]
  BY <1>2, <1>4, <1>5 DEF Cells
<1> HIDE DEF x, n
<1>7. x \in Archives /\ Len(x) = n
  BY <1>2, <1>6 DEF Archives
<1>8. /\ c \in Archives /\ Len(c) = n + m
      /\ \A p \in Nat : p < n => At(c, p) = At(x, p)
  BY <1>1, <1>7, AppendedAfter DEF m
<1>9. ASSUME NEW p \in Nat, p < EocdOffset(b)
      PROVE  At(c, p) = At(b, p)
  <2>1. p + 1 \in 1 .. n /\ p + 1 # n /\ p < n
    BY <1>2, <1>9
  <2> QED
    BY <1>6, <1>8, <2>1 DEF At
<1>10. At(c, EocdOffset(b)) = r
  <2>1. At(c, EocdOffset(b)) = At(x, EocdOffset(b))
    BY <1>2, <1>8
  <2> QED
    BY <1>1, <1>6, <2>1 DEF At
<1>11. EocdOffset(b) \in EocdPositions(c)
  <2>1. /\ EocdOffset(b) \in 0 .. Len(c) - 1 /\ EocdOffset(b) < Len(c)
        /\ EocdOffset(b) + 1 + m = Len(c)
    BY <1>1, <1>2, <1>8
  <2> QED
    BY <1>4, <1>10, <2>1 DEF EocdPositions, HasSig
<1> QED
  BY <1>3, <1>8, <1>9, <1>10, <1>11 DEF r, m, n

\* With no record in the comment that ends the archive it is read as before;
\* with one, such a record is found.
LEMMA CommentedReading ==
  ASSUME NEW b, NEW comment, NEW c, IsCommented(b, comment, c)
  PROVE  LET inner == {p \in Len(b) .. Len(c) - 1 : EndsArchive(c, p)}
         IN /\ inner # {} => EocdOffset(c) \in inner
            /\ inner = {} => ReadsAlike(b, c)
<1> DEFINE inner == {p \in Len(b) .. Len(c) - 1 : EndsArchive(c, p)}
           o     == EocdOffset(c)
<1>1. /\ b \in Archives /\ Parses(b) /\ EocdOffset(b) + 1 = Len(b)
      /\ Len(comment) \in U16
  BY DEF IsCommented
<1>2. /\ c \in Archives /\ EocdOffset(b) \in EocdPositions(c)
      /\ \A p \in Nat : p < EocdOffset(b) => At(c, p) = At(b, p)
      /\ At(c, EocdOffset(b)) = [At(b, EocdOffset(b)) EXCEPT !.comment = Len(comment)]
  BY CommentedCells
<1>3. /\ o \in 0 .. Len(c) - 1 /\ o \in EocdPositions(c)
      /\ \A p \in EocdPositions(c) : p <= o
  BY <1>2, EocdFound
<1>4. Len(b) \in Nat /\ Len(c) \in Nat /\ EocdOffset(b) \in Nat
  BY <1>1, <1>2, ArchiveLength, ParsedLayout
<1>5. inner = {p \in EocdPositions(c) : Len(b) <= p}
  BY <1>4 DEF EndsArchive, EocdPositions
<1> HIDE DEF o, inner
<1>6. inner # {} => o \in inner
  <2> SUFFICES ASSUME NEW p \in inner
               PROVE  o \in inner
    OBVIOUS
  <2>1. p \in EocdPositions(c) /\ Len(b) <= p /\ p <= o /\ p \in 0 .. Len(c) - 1
    BY <1>3, <1>5 DEF EocdPositions
  <2>2. Len(b) <= o
    BY <1>3, <1>4, <2>1
  <2> QED
    BY <1>3, <1>5, <2>2
<1>7. inner = {} => ReadsAlike(b, c)
  <2> SUFFICES ASSUME inner = {}
               PROVE  ReadsAlike(b, c)
    OBVIOUS
  <2>1. ~(Len(b) <= o) /\ EocdOffset(b) <= o
    BY <1>2, <1>3, <1>5
  <2>2. o = EocdOffset(b)
    BY <1>1, <1>3, <1>4, <2>1
  <2> QED
    BY <1>1, <1>2, <2>2 DEF ReadsAlike, o
<1> QED
  BY <1>6, <1>7 DEF inner, o

\* For every archive that ends with its record and every comment that fits the
\* record: with the comment the crate reads the same members, the same manifest
\* and the same hashed ranges, the errors included, unless a record inside the
\* comment ends the archive; and then such a record is the one found
\* (find_eocd).
THEOREM CommentsAreTolerated == Spec => []CommentsTolerated
<1>1. TypeOK => CommentsTolerated
  <2> SUFFICES ASSUME TypeOK, Parses(doc), EocdOffset(doc) + 1 = Len(doc),
                      NEW comment \in {c \in Payloads : Len(c) \in U16}
               PROVE  LET b == WithComment(doc, comment)
                          inner == {p \in Len(doc) .. Len(b) - 1 : EndsArchive(b, p)}
                      IN IF inner # {} THEN EocdOffset(b) \in inner
                         ELSE /\ Parses(b) /\ MemberFiles(b) = MemberFiles(doc)
                              /\ ReadVerdict(b, ManifestPath) = ReadVerdict(doc, ManifestPath)
                              /\ ReadVerdict(b, ManifestPath) = "ok" =>
                                   ReadContent(b, ManifestPath) = ReadContent(doc, ManifestPath)
                              /\ CollectionVerdict(b) = CollectionVerdict(doc)
                              /\ CollectionVerdict(b) = "ok" =>
                                   CollectionInput(b) = CollectionInput(doc)
    BY DEF CommentsTolerated
  <2> DEFINE b == WithComment(doc, comment)
  <2>1. IsCommented(doc, comment, b)
    BY PayloadAssumption DEF IsCommented, TypeOK
  <2> HIDE DEF b
  <2>2. LET inner == {p \in Len(doc) .. Len(b) - 1 : EndsArchive(b, p)}
        IN /\ inner # {} => EocdOffset(b) \in inner
           /\ inner = {} => ReadsAlike(doc, b)
    BY <2>1, CommentedReading
  <2>3. ReadsAlike(doc, b) =>
          /\ Parses(b) /\ MemberFiles(b) = MemberFiles(doc)
          /\ ReadVerdict(b, ManifestPath) = ReadVerdict(doc, ManifestPath)
          /\ ReadVerdict(b, ManifestPath) = "ok" =>
               ReadContent(b, ManifestPath) = ReadContent(doc, ManifestPath)
          /\ CollectionVerdict(b) = CollectionVerdict(doc)
          /\ CollectionVerdict(b) = "ok" => CollectionInput(b) = CollectionInput(doc)
    BY AlikeReading
  <2> QED
    BY <2>2, <2>3 DEF b
<1> QED
  BY <1>1, TypeCorrect, PTL
=============================================================================
