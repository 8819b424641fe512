# Verification of c2pa-zip

TLA+ models of the crate `c2pa-zip`: a parser and byte-level editor of ZIP
archives that embeds, reads, fills and removes one entry, the C2PA Manifest
Store at `META-INF/content_credential.c2pa`, and hands out the byte ranges a
`c2pa.hash.collection.data` assertion hashes. Source paths are relative to the
repository (`src/src/zip.rs` is the crate's `src/zip.rs`).

## The system

The crate is a set of pure functions from archives (`&[u8]`) to archives, ranges
or reports. Nothing is persisted and nothing runs concurrently; the only state
is the archive a caller holds from one call to the next. What is hard about it
is in the data: offsets that must agree with each other after every rewrite, in
archives that other programs wrote, up to the limits of 16 and 32 bit fields,
and in a protocol of several calls (two-pass signing) between which some bytes
must not change.

| Component | Source | State, operations | Interacts with | What makes it correct |
|---|---|---|---|---|
| Parser | `zip.rs` `find_eocd`, `parse_layout` | two loops over the bytes, then a sort; yields the entries, the start of the directory, the EOCD | all the rest starts with it | finds the last record that ends the archive; accepts only headers and offsets in bounds; always stops |
| Entry ranges | `zip.rs` `entry_content_range`, `entry_boundary`, `entry_binding_range` | none | editor, binding | ranges are disjoint, before the directory, and agree with the local header or the descriptor |
| Editor | `zip.rs` `insert_zip_entry`, `remove_zip_entry`, `fill_manifest` | loops that build a new archive | writer API | what it writes, it can read; members are kept; recorded numbers are exact; an error leaves nothing behind |
| Writer API | `writer.rs` | calls the editor; embed is remove, then insert | caller | one manifest, the last one embedded or filled |
| Reader API, report | `reader.rs`, `verify.rs` | none | caller | reads only a stored, unencrypted entry; the report says whether the archive parses |
| Binding | `binding.rs`, `zip.rs` `member_ranges`, `central_directory_ranges` | none | caller, who hashes | filling the manifest changes nothing that is hashed; a change to a member does |
| CRC-32 | `zip.rs` `crc32` | a loop over bytes and bits | editor | the polynomial remainder |
| Python, WebAssembly | `python.rs`, `wasm.rs` | none; ranges become a start and a length, errors one exception | host programs | every byte to be hashed is hashed once; absence is not an error |
| Errors | `error.rs` | the variants | all | each failure has the documented one |
| Crate root, fuzz target, tests | `lib.rs`, `fuzz/`, `tests/` | re-exports, drivers | | |

The behaviours that are hard to test: sequences of calls (each keeps the
promises of the ones before it); archives whose directory order, gaps,
comments, extra fields, descriptors or repeated names no fixture has; entries
that overlap or share an offset; fields at 0xFFFF and 0xFFFFFFFF, which are both
legal values and ZIP64 sentinels; a field read at one offset and patched at
another; an error after half of the output is built; a program that saves the
document between the two passes of a signature; one function validating less
than the one that has to work on its output. `PROJECT.json` lists them under
`hazards`, each with the properties that watch it.

## The modules

Three granularities describe the same code, and each is tied to the next by a
refinement: bytes (`ByteZip`) implement cells (`C2paZip`), the loops
(`RebuildLoop`) implement the calls (`C2paZip`), and the calls implement what
the crate promises (`ManifestStore`).

**Cells.** `ZipCells` fixes the granularity of most modules. An archive is a
sequence of *cells*: a byte of data, or one whole structure (a local header with
its name, a directory header, an EOCD, one word of a data descriptor). Offsets
and lengths are counted in cells, from 0. This keeps every offset computation of
the code and drops the fixed lengths of the headers, which `ZipParse` and
`ZipBytes` have. The one number that would lose its meaning is the size of the
directory: a header takes up to 46 + 3 * 65535 bytes, so a directory can outgrow a
u32 in an archive where no count or offset does, and the parser does not bound
it. A directory header therefore carries its length in bytes (`len`), `CdHeaderLen`
is that of the header the crate writes, and `SizeOf` adds them up: what
`insert_zip_entry` and `remove_zip_entry` convert to a u32 is the size in bytes. A descriptor is three words, or four when its
signature comes first; a word is a number, so a CRC that equals the signature is
read as the code reads it. `Crc` is a constant operator: nothing is assumed of it
but that its values fit a u32. The widths `U16Max` and `U32Max` are constants, so
that the limits can be met, and every field has the width it has in the format
(`U16`, `U32`): a number is checked before it is written, or the types fail.

`ZipLayout` (the layout `parse_layout` yields and the ranges derived from it),
`ZipEdit` (insert, remove, fill, read, embed) and `CollectionBinding` (members,
directory ranges, `verify`) translate the functions. What is hashed of the directory is a sequence of
cells too (`DirectoryInput`): the four bytes left out keep their place in it, while
the code hands out the two ranges around them, which are hashed one after the
other. That two directories might differ only in where these bytes are left out
of the same string is below the granularity of this model. A function that returns a
`Result` is a pair of operators: a *verdict*, `"ok"` or the first error in the
order of the code's checks, and a value. The loops are written as sets and
quantifiers: the entry found first in the sorted list is the least under
`Before`, the boundary of an entry the least later offset.

`C2paZip` is the state machine: `doc`, the archive the caller holds, and `call`,
the last call with its verdict. `EmbedManifest`, `FillManifest` and
`RemoveManifest` are the functions of `writer.rs`, in any order; a refused call
leaves the document. The functions that only read are the operators in which
the properties are stated.

`ManifestStore` is what the crate promises, with no archive in sight: members
that nothing changes and at most one manifest, which a successful embed puts, a
successful fill replaces by one of the same length and a remove clears; a
refused call changes nothing. `C2paZip!KeepsPromise` is the refinement, with the
members and the manifest mapped to what the crate reads from `doc` and `call`
shared, so that an embed that has no effect is a violation and not a stutter.

`RebuildLoop` runs embed and remove step by step: one action for each iteration
of the two loops of `remove_zip_entry` and for each of the three parts that
`insert_zip_entry` appends, any of which may end in an error. `CallsAreAtomic`
says that it implements `C2paZip`, whose definition of the same calls has no
loop: same archive, same error of several, no trace of a call that failed.

`TwoPassSigning` composes `C2paZip` with the programs around it. A signer
reserves a placeholder, hashes, signs and fills (the sequence of
`writer.rs`' documentation and of the two-pass tests), and starts again with
more room when the store turns out longer; another program may save the document
with a change at any moment; a validator compares what it hashes with what was
signed. A digest is modelled by its input.

**Bytes.** `ZipBytes` has the functions of `zip.rs` with the field offsets and
record lengths of the code: what is read at `+28`, patched at `+42` or skipped
after 30. `ZipFormat` has the three records as tables of fields in archive
order, from which it derives the offsets, with a writer that follows them and
the archive of cells that a sequence of bytes stands for; it takes no offset from
the code, and finds the EOCD by its own tables too (`RecordsOf`). A number is
written without cutting off what is too large (`Le`), so that a conversion the code
forgets shows as a byte that is none. `ByteZip` is the state machine on bytes, with the history variable
`cells`; `CellsAreFaithful` is the refinement to `C2paZip`, which fails wherever
the code and the format, or one function of the code and another, disagree about
a field. `HostBindings` adds the conversions of `python.rs` and `wasm.rs`.

**Loops.** `ZipParse` is the parser's control flow, byte by byte: the backward
scan, the check of the EOCD, one step per directory header, the sort. Only the
length of the archive and the places of EOCD signatures are fixed beforehand;
every other field is read once and is chosen when it is read. `Crc32` is the
loop of `crc32`, on words of any width, run for two contents side by side.

`ZipWriters` builds archives as other programs do; `MCArchives` takes the inputs
of the runs from it, and the other `MC` modules instantiate a specification each.

The proofs are in modules of their own: `ZipParseProofs` about `ZipParse`;
`ZipEditProofs` (least elements and ranks in a strict order, the layout, the
order of the entries, the ranges, what the operations return), `RebuiltProofs`
(what they write, read again) and, on top of them, `C2paZipProofs`,
`RebuildLoopProofs` and `TwoPassSigningProofs`; `Crc32Proofs` about `Crc32`;
`ByteZipProofs` about `ByteZip`, `ZipBytes`, `ZipFormat` and `HostBindings`.

| Operation | Module | Action or operators |
|---|---|---|
| `find_eocd` | `ZipParse`; `ZipLayout`; `ZipBytes` | `FindEocd`; `EocdOffset`; `EocdOffsets` |
| `parse_layout` | `ZipParse`; `ZipLayout`; `ZipBytes` | `CheckEocd`, `WalkHeader`, `SortEntries`; `ParseVerdict`, `Entries`; `Layout`, `Walk`, `ByOffset` |
| `entry_content_range`, `entry_binding_range` | `ZipLayout`; `ZipBytes` | `ContentVerdict`, `BindingVerdict`, `BindingEnd`; `ContentRange`, `BindingRange` |
| `insert_zip_entry` | `ZipEdit`; `RebuildLoop`; `ZipBytes` | `InsertVerdict`, `InsertZipEntry`; `InsertFile`, `AppendDirectory`, `AppendEocd`; `InsertZipEntry` |
| `remove_zip_entry` | `ZipEdit`; `RebuildLoop`; `ZipBytes` | `RemoveVerdict`, `RemoveZipEntry`; `ParseForRemove`, `CopyEntry`, `EndCopy`, `CopyHeader`, `EndDirectory`; `RemoveZipEntry` |
| `embed_manifest`, `fill_manifest`, `remove_manifest` | `C2paZip`; `ByteZip` | `EmbedManifest`, `FillManifest`, `RemoveManifest`; `Embed`, `Fill`, `Clear` |
| `read_manifest`, `verify` | `ZipEdit`, `CollectionBinding`; `ZipBytes`, `HostBindings` | `ReadVerdict`, `ReadContent`, `Verify`; `ReadManifestEntry`, `HostRead`, `HostVerify` |
| `collection_members`, `central_directory_range(s)` | `CollectionBinding`; `ZipBytes` | `CollectionVerdict`, `CollectionInput`, `DirectoryInput`; `CollectionMembers`, `CentralDirectoryRanges`, `CentralDirectoryRange` |
| `write_local_header`, `write_cd_header`, `write_eocd` | `ZipBytes` | `WriteLocalHeader`, `WriteCdHeader`, `WriteEocd` |
| `crc32` | `Crc32` | `TakeByte`, `ShiftBit`, `Return` |
| ranges, errors and absence in Python and JavaScript | `HostBindings` | `Slice`, `Host`, `HostRead`, `HostMembers`, `HostDirectoryRanges` |

## What the runs check

Definitions called "Mutant" in a comment are deliberately wrong variants of the
definition after them; each property is violated under one of them, which is
how the project knows that the property can fail.

| Run | Inputs and bounds | Shows |
|---|---|---|
| `zip_parse` | archives of 0 to 6 bytes, u16 up to 3, u32 up to 5, EOCD of 2 bytes, headers of 1: the scan window is shorter than the longest archive, two headers fit | `ScanIsExact`, `HeadersInDirectory`, `WindowsDisjoint`, and that the parser stops |
| `canonical` | every compact archive of up to 3 of 5 files (stored, streamed with and without signature, empty, manifest); four stores | the refinement, `EmbedIsReversible`, that the two-pass hash survives, and that a comment changes nothing (`CommentsTolerated`) |
| `third_party` | every archive of up to 2 of 10 files, both directory orders, with and without comment; gaps, extra fields, the manifest path twice, deflated, encrypted and streamed manifests, a `../` name, a CRC that equals the descriptor signature; an archive inside a comment; two archives with any one field changed to a boundary value, the length of a header included, or cut anywhere | the same where the crate wrote nothing, and what is still accepted of a damaged archive is treated consistently: `EmbedReadsBack`, `MembersStayBound`, `StaysEditable`, `EmbedKeepsOffsets`, `RebuildCompacts`, ranges disjoint also where offsets collide (`RangesDisjoint`), and descriptors of both forms found whole (`DescriptorsAccepted`) |
| `limits` | the loops step by step on 59 archives: of up to 3 of 4 files, one of them as long as the limits leave room for; headers of up to 7 bytes, so that a directory is too large with the manifest's header, without it, or with the one to be written, or just fits; a manifest first, last, in the middle or none, streamed and not, gaps, an entry that must be refused before and after the manifest, one that is cut; u16 up to 4, u32 up to 12, so that a count and an offset reach and pass their limits, also half-way | the loops implement the calls (`CallsAreAtomic`), noted offsets stay true (`OffsetsLocateCopies`), every call returns (`CallsReturn`); every number written fits and is right, at the limit too (`EocdIsExact`); nothing but a limit refuses an embed, nothing but the directory's size a remove (`StaysEditable`) |
| `signing` | four documents (empty, with members, with a streamed manifest and gaps, with a `../` name); placeholders of 1 and 3 cells, stores of 1 and 2, so that some do not fit; one change: a member added, dropped or moved in the directory, everything saved anew, any one field damaged, at any point (what is no archive, has something between the directory and the EOCD, or leaves a manifest's header no room below the largest directory size, left out) | what is signed validates (`LateHashValidates`) and can be replaced again (`SignedStaysBindable`), changes are noticed (`ChangesNoticed`), the signer gets done (`SigningCompletes`) |
| `bytes` | 22 archives, with the record lengths of the format (22, 46, 30) and bytes of seven values, the fewest whose u16 holds these lengths; 20 have up to 3 files, and two 13 and 14 with names, extra fields and comments as long as can be, so that the directory is too large for its 4 bytes without its manifest too, or with the manifest it would get; both directory orders, comments, extra fields, gaps, descriptors with and without signature, flagged and compressed manifests, a store that is an EOCD | the byte-level refinement (`CellsAreFaithful`), that no number outgrows its field (`ByteTypeOK`), `MembersKeepBytes`, and, for hosts, `HashedOnce` and `AbsenceIsNoError` |
| `crc32` | words of 4 bits, bytes of 2, x^4 + x + 1, all pairs of contents of up to 3 bytes | what is returned is the remainder (`IsRemainder`) and notices changes (`BurstsDetected`) |

Two or three files are enough: every interaction in the code is between an entry
and its neighbour, the manifest, or the directory, and the third file gives the
manifest a neighbour on both sides. The state space closes after three or four
calls, because a document is determined by its members and its last store. One
change by the other program is enough to put it before, between and after each
pair of passes; a second change could only undo or repeat it. A remainder is
linear in the content and shifted by a bit per iteration, so contents longer than
the word already show every interaction of the loop.

### Fairness

`C2paZip` and `ByteZip` are checked for safety only: a caller need not make any
call. Three specifications have a program that runs to its end in one thread.
`ZipParse` has `WF_vars(Next)`: the parser. `RebuildLoop` has weak fairness of
`Rebuild`, the steps of a call under way, and none of `Start`: no caller need
start a call. `TwoPassSigning` has `WF_phase(SignerMoves)`: the signer leaves each
phase it can leave; there is no fairness of `Restart` or `Edit`, and
`SigningCompletes` is about documents no one changes any more.

`zip_parse`, `crc32` and `signing` have no deadlock check: the two loops stop
when they return, and a refused signer stops when no change is left.

### Disagreements between the code and its documentation

Each is a run that TLC ends with a counterexample.

- `count_sentinel`: the embed that makes the entry count 0xFFFF (65534 entries
  before it) succeeds, and the crate refuses the result as ZIP64. The same holds
  for a directory offset of 0xFFFFFFFF and, of a remove too, a directory size of
  0xFFFFFFFF. `WritesSentinel` names the case where
  the other properties except it.
- `trailing_record`: with a record between the last directory header and the
  EOCD (a digital signature, a header that is not counted), the new header is
  appended after it and never reached. The damaged inputs of `third_party` and the
  changes of `signing` leave this case out (`ExactDirectory`).
- `unchecked_member`: `remove_zip_entry` checks the ranges of all entries, but only
  if there is one to remove, and `insert_zip_entry` of none. An embed into an archive
  with a member whose local header disagrees with the directory, or whose
  descriptor is missing, succeeds, and no later embed or remove does.
  `StaysEditable` is about archives all of whose entries can be bound.
- `verify_unreadable`: `is_valid_zip` is false for an archive that parses when
  its manifest is compressed or encrypted.
- `reembed_hash`: embedding a second store of the same length is not "harmless"
  when the archive had a gap, or a directory in another order than its data.

Two more are exceptions that properties of passing runs name:

- `DescriptorsAccepted`: an entry whose descriptor has no signature and whose CRC
  has the signature's value is refused as malformed, although its descriptor is
  there and agrees, while `src/src/error.rs:22` says that the error means a
  "missing or inconsistent" one.
- `CommentsTolerated`: a record inside a comment whose own comment is the rest of
  it is the one found, and the archive is read as another one, while
  `src/README.md:90` says that "a trailing ZIP comment is tolerated".

Two limits that the documentation does not deny. An archive whose directory, the
manifest's header not counted, is larger than a u32 can be parsed, listed and
hashed, but neither embedded into nor relieved of its manifest; `StaysEditable`
states it, and that no rebuilt archive is one. And filling a manifest that some other
tool streamed leaves its data descriptor with the old CRC, after which members
can no longer be listed nor the manifest replaced. `SignedStaysBindable` says that
a signer who reserves with `embed_manifest` never gets there, however often it
starts again; `LateHashValidates` says that a document another program saved in
between either still validates or has such a manifest.

## What is proved

tlapm proves every step of the following, from the named assumptions of the
modules and nothing else.

**The parser** (`ZipParseProofs`, under `ParseAssumption`: widths and lengths are
naturals, records and headers are not empty). `TypeCorrect`, `ScanExact`,
`HeadersBounded` and `EntryWindowsDisjoint` are the four invariants of the run
`zip_parse`, for every width, every record length and archives of every length.
The inductive invariant is the conjunction of `TypeOK`, `ScanIsExact`, `Progress`
and `HeadersInDirectory`, proved one after the other, each with the ones before
it. `ScanIsExact` is inductive because the window is as long as the longest
comment: where the scan gives up, a comment that reached the end would not fit a
u16. `Progress` is needed since neither of the others says that the walk has
pushed what the count announces, nor what the sort establishes. That an
accepted list is `Sorted` gives `WindowsDisjoint` without another induction: the
windows of two entries are separated by the neighbour of the earlier one.

**The calls** (`C2paZipProofs`, under `WidthAssumption`, `NameAssumption`,
`PayloadAssumption` and `InputAssumption`: the manifest path is an ordinary name,
stores and inputs are sequences of cells, checksums fit a u32). `TypeOK` is
inductive as it stands, but what it says is not obvious: an operation returns an
archive only if every slice it takes is in bounds and every header it patches is
a header. That rests on these lemmas:

- `EocdFound`, `ParsedLayout`, `EntryProperties`: in an archive that parses the
  directory lies before the EOCD, every entry is a header in it and every local
  offset is before it.
- `BoundaryProperties`, `ContentLocated`, `BindingLocated`: an entry that passes
  the checks has its ranges between its local header and the next one.
- `BeforeOrders`, `FirstIsFirst`, `OrderedEntries`: `Before` orders the entries
  totally, so the CHOOSE of the model finds the entry it is to find.
- `CopiedStep`, `CopiedType`: the value of the loop of `remove_zip_entry`. Both
  argue from a least counterexample (`LeastNatural`), which stands in for
  induction.
- `FillCells`, `FillKeepsLayout`: `fill_manifest` writes between a local header
  and the directory, so an EOCD signature in the content is not the last one,
  and the layout read afterwards is the same.

`BoundRangesDisjoint` (`RangesDisjoint`) and `DescriptorsAreAccepted`
(`DescriptorsAccepted`) follow in every state that satisfies `TypeOK`,
`FillKeepsHash` (`FillKeepsDirectoryHash`) in every step from one.

**What a rebuilt archive says when it is read again** (`RebuiltProofs`, then
`C2paZipProofs`). The crate's functions share no state, so whether one call
leaves what the next one needs depends on what the parser makes of the bytes
the editor put together. Three descriptions carry the argument, each a predicate
with the lemmas that follow from it:

- `IsRebuilt` (data, then headers, then a record): `RebuiltCells` finds the EOCD
  that was written, since no later record can end the archive; `RebuiltParses`
  has the header-by-header conditions under which the parser accepts it, and
  `RebuiltRecord` that its record counts and measures what is there.
- `IsRemoval`, `IsInsertion`, `IsFilling`: `RemovedLayout`, `InsertedLayout` and
  `FilledLayout` say which entries are read again and where, `RemovedEntries`,
  `InsertedEntries` and `FilledEntries` that each is the entry it was.
- `IsMoved`, `MovedWhole`: an entry whose cells were copied somewhere else is
  found whole there, if the new neighbour leaves it room (`MovedContent`,
  `MovedBinding`). `MembersKept` chains this over calls, and `CollectionKept`
  draws the conclusion for what a caller hashes.

The theorems that rest on it are in `C2paZipProofs`: `MembersAreBound`
(`MembersStayBound`), `NoDeadEnd` (`StaysEditable`, with `RemoveRefusedForSize` and `EmbedRefusedForSize` for
the refusals and `RebuiltIsMeasurable` for what a rebuilt archive leaves possible),
`EmbedIsReadBack`
(`EmbedReadsBack`), `OffsetsStay` (`EmbedKeepsOffsets`), `RecordsAreExact`
(`EocdIsExact`), `RebuildsAreCompact` (`RebuildCompacts`), and `PromiseIsKept`:
the calls implement `ManifestStore` (`KeepsPromise`), with `CallAnswers` for what
the caller is told and `CallEffects` for what happens to the document. They have
up to two hypotheses beyond the named assumptions, and each excepts a
disagreement that a run exhibits, and nothing else:

- `ExactInputs`: in the archives the first call is given the directory ends at
  the EOCD. Without it an embed can write a directory it cannot read back (run
  `trailing_record`). That no call then leads to an archive where it does not is
  proved, not assumed: `DocumentStaysExact` is the inductive invariant.
- `[][~WritesSentinel]_vars`, in `EmbedIsReadBack` and `PromiseIsKept` only: no
  call writes a count, offset or size that fits and is the ZIP64 sentinel (run
  `count_sentinel`). The other properties name this exception themselves.

`EmbedIsUndone` (`EmbedIsReversible`) needs neither hypothesis: a compact archive
is exact, and the case of the sentinel is named in the property. Its argument is
that the order of the entries is the one the directory has (`CompactOrder`), so
that what `remove_zip_entry` copies, entry by entry, is a prefix of the archive
(`PrefixCopied`), which joins up with the headers and the record it writes
(`InsertionUndone`).

**The loops of the rebuild** (`RebuildLoopProofs`, same assumptions).
`RebuildTypeCorrect` and `OffsetsAreExact` say, for archives of any size, that no
step of a rebuild reads outside the archive it copies from, and that a noted
offset is that of its copy until the call returns. The inductive invariant
`LoopInv` has three parts. `StepInv` adds to the types what a step finds when it
is reached: an archive that parses in the loops, an embed in the steps of
`insert_zip_entry`. `CopiesInv` is what `OffsetsLocateCopies` says of the copies,
with two additions: the entries retained are entries the archive binds, without
which their cells would not be in bounds, and once the directory is begun the
copies end before `newCdStart`, not only before the end of the output. The
second is what makes the step from copies to headers sound. `HeadersInv` says that
the new directory is one header per entry handled, so that the next header lands
where `OffsetsLocateCopies` looks for it. That appending leaves what was written
(`AppendedAfter`, `AppendedAt`) then settles each step.

`CallsRunAtOnce` is the refinement: `RebuildSpec => CallsAreAtomic`, for every
archive, every store and every width, no hypothesis added. Its invariant
`AtomInv` adds to `LoopInv` how far the loops have come in the terms of
`C2paZip`. `JobInv` says what is being read: the document itself until
`remove_zip_entry` returns, then what it returns. `CopyingInv` says that no entry
handled so far is refused, so that the first refusal is the one
`RemoveVerdict` reports (`FirstRefused`), that what is retained lists the entries
handled, without the manifest's, in the archive's order, and that the output is
what `Copied` yields of that list. `CopiedInv`, `OffsetsInv` and `InsertingInv`
say the same of the directory and of the parts `insert_zip_entry` appends. A
list in the right order is the only one (`OrderIsUnique`), and one that grows at
its end leaves what was copied (`ListGrows`, `CopiedGrows`). The checks of offsets
and of the count in `remove_zip_entry` are dead code, as its model at once assumes:
what is copied is never longer than what is read, and of no more entries
(`CopiedFits`, `ListedFits`, `EndDirectoryRefines`). That of the directory's size is
not: the headers written are as long as those they were copied from
(`HeadersMeasured`), so the loops refuse at their end what `RemoveVerdict` refuses at
once, and likewise for an insert (`DirectoryMeasured`). Every step but the
returning one is then a stutter, and the returning one is a call
(`ReturnsAtOnce`). `StepsKeepThePromises` carries the theorems about the calls
over to the loops.

**Archives with a comment** (`C2paZipProofs`, same assumptions).
`CommentsAreTolerated` (`CommentsTolerated`): a comment of any length that fits its
field, added to any document the calls reach. Unless a record inside the comment
ends the archive, the record found is the one the comment was added to
(`CommentedCells`). The two archives then agree in every cell before it and in
what the record says of the directory, which is all a reader looks at
(`ReadsAlike`): so they have the same entries in the same order (`AlikeLayout`,
`AlikeEntry`, `AlikeFirst`), and every verdict and content is the same
(`AlikeReading`).

**Two-pass signing** (`TwoPassSigningProofs`). Beyond the assumptions of the calls:
lengths are naturals, some placeholder holds every store (`SizeAssumption`), the
signer passes what the calls accept (`SignerAssumption`). What the other program
does is left open, but for the hypothesis `ArchiveEdits`: it turns archives into
archives. The number of changes is any natural number.

- `SigningTypeCorrect` (`SigningTypeOK`), with `SignerInv`: the signer fills a
  placeholder with a store of its own.
- `ChangesAreNoticed` (`ChangesNoticed`). The invariant `HashedInv` remembers that
  the hashes were taken of *some* archive that had the members of `seen`; the
  document need no longer resemble it. The rest is `HashesDetermineMembers`: two
  archives with the same hashes have the same members. From the directory
  hash: the record that ends the one ends the other (`RecordCarried`), so both
  have the same entries and, but for the manifest's CRC, the same headers
  (`SameDirectoryLayout`). From the collection hash: each member's cells are the
  same, and as the local header that says where its content lies is among them,
  so is the content (`ContentAlike`). Neither
  hash suffices without the other.
- `LateHashesValidate` (`LateHashValidates`). `LateInv` says that from the hashing
  on, unless it was changed since, the document is the one that was hashed; a
  fill preserves both hashes (`FillLeavesHashes`) and puts the store where a reader
  finds it.
- `SignedAgain` (`SignedStaysBindable`), with the hypotheses `ExactInputs` and
  `ExactEdits`, the exception of the run `trailing_record` once more: archives
  whose directory ends at the EOCD, and a program that keeps it so. `PlainInv`
  says that the manifest in the document has no descriptor since the last reserve.
  It rests on `EmbeddedIsPlain`: the manifest found first in what
  `embed_manifest` writes is its own.

**The checksum** (`Crc32Proofs`, under `CrcAssumption`: any width, any byte width
up to it, any polynomial whose highest bit is set, contents of any length).
`TypeCorrect`: the words keep their width.

`ReturnsRemainder` (`IsRemainder`) is that the loop, which never divides, computes
the remainder. `Rest` is what is left to divide at any moment: the bits not yet
added, plus the checksum laid over the places from `Fed` on, the number of bits
shifted out. Taking a byte moves its bits from one to the other and leaves the
sum as it was (`RestStays`); an iteration subtracts the generator at place `Fed`
if the bit there is set (`RestShifts`), which is one step of long division. The
invariant `DividedInv` is that the bits dropped so far are a quotient which,
times the generator, makes up the dividend with what is left; one more iteration
is one more term (`ProductExtended`). When the loop ends, all that is left is the
checksum.

`BurstsAreDetected` (`BurstsDetected`) compares what is left of two contents. The
invariant `BurstInv` is that after any iteration the two differ somewhere, and
either just where the contents do or only at places the checksum covers. It is
kept because an iteration that drops a difference puts one at the highest place,
where `Poly` has a bit; without the second half a later place could have differed
already and cancel.

**Bytes** (`ByteZipProofs`, under `BaseAssumption`: any number of values of a byte
whose u16 holds a record length, any signatures of four bytes; `ByteAssumption`:
inputs, stores and the manifest path are sequences of bytes, checksums fit four of
them). `ByteTypeOK` is inductive, and all else is shown of any sequence of bytes,
damaged ones included, and so holds in every state.

- `BytesAreBytes` (`ByteTypeOK`) rests on `Walked`, the loop of `parse_layout`: as
  many headers as the count says, each starting where the one before ends, none
  behind the EOCD, each accepted (`Chain`, `GoodHeader`). The walk is a recursive
  function; `Iterated` and `AllUpTo` (a least counterexample) stand in for the
  induction. `LayoutFacts` and `EntryFacts` carry this over the sort to the layout,
  `ContentFacts` and `BindingFacts` to the ranges, and `Flattened` says that what is
  joined of bytes is bytes. A number is written as bytes only if it fits its field
  (`LeType`, `RecordType`): that is what the checks of the editors are for, the one of
  the directory's size among them (`FinishedType`, `InsertType`, `RebuiltType`).
- `AbsenceIsNeverAnError` (`AbsenceIsNoError`) compares the code with the format.
  The offsets the code names are those the tables add up to (`LocalFields`,
  `CentralFields`, `EocdFields`), so both read the same fields (`TableReads`), find
  the same EOCD records (`RecordsAre`), and the headers the tables lead to are those the walk accepted (`HeadersAre`).
- `EveryByteHashedOnce` (`HashedOnce`): once every entry can be bound, the
  ranges follow one another and end before the directory (`Disjoint`), and end where
  the tables say the entry does (`EndsAre`). The slices a host is given are then
  the members' ranges in ascending order, then the directory without a checksum
  (`SlicesCut`), and ascending ranges cover each byte at most once (`CutsCover`).
  For WebAssembly the archive is assumed no longer than a u32, as its addresses are.
- `FillsLeaveTheRest` (`FillsKeepPlaces`, stated in the proof module): the byte-level
  ground of two-pass signing. `FillRefills` says which bytes a fill writes,
  `RefilledShape` that they are the content and two checksums, apart from each other.
  `LayoutKept` is the heart of it: of two archives that agree from the directory
  on, but for the checksum in one header, the parser makes the same layout, since
  the last EOCD record is the same one and the walk goes by fields outside these
  four bytes. The rest is what is then read where: the content
  (`RefilledRead`), the other entries (`RefilledMember`), the directory
  (`RefilledDirectory`), and, unless the entry has a descriptor, the
  entry itself, whose two headers got the same checksum (`RefilledMembers`).

Only model-checked:

- Liveness (`ReachesVerdict`, `CallsReturn`, `SigningCompletes`), which is out of
  the prover's reach.
- `CellsAreFaithful`: the cells an archive of bytes stands for are built of sums
  over sets of parts; that every call on bytes yields the archive whose cells
  the call on cells yields is an argument of the size of all those above together.
- `MembersKeepBytes`: it reads the document by the tables alone, whether or not the
  crate accepts it, and for embeds and removes needs that argument again. Of fills,
  `FillsLeaveTheRest` proves it for archives whose members can be listed.

## What is not modelled, and why

- UTF-8 validation and the splitting of names at separators: a name is valid or
  not, has a `.` or `..` segment or not. No property depends on which.
- The digests a caller takes of the ranges: a digest stands for its input.
- The wording of errors and the conversion of an error to the text of an
  exception; that it is one exception is modelled.
- Allocation failure, and usize of 32 bits other than the conversion in
  `wasm.rs`.
- `lib.rs` re-exports names. The fuzz target reads arbitrary bytes and asks only
  that `read_manifest` returns. Of the integration tests, the archive builder is
  `BuildZip` in `ZipWriters` and the sequences of calls are behaviours of
  `C2paZip`; the fixture itself is not modelled.

## Plan

Done, in this order: `ZipCells`, `ZipLayout`, `ZipEdit`, `C2paZip` with
`ManifestStore`, `CollectionBinding`, the inputs and runs; `ZipParse` and its
proofs; the first theorems of `C2paZip`; descriptors as words; `TwoPassSigning`;
`RebuildLoop` and its proofs; bytes and host bindings; `Crc32` and its proofs;
`RebuiltProofs` and the theorems about sequences of calls, with the refinement of
`ManifestStore`; the refinement of the calls by the loops; the theorems about
signing, comments, and the remainder the checksum is; the theorems about bytes.

Every invariant that a run checks is now also a theorem, and so is every action
property and refinement but the two about bytes named above. Left are:

1. `MembersKeepBytes` for embeds and removes of archives whose members can be
   listed: what `Rebuilt` writes, read again, in the manner of `RebuiltProofs`.
2. On top of it `CellsAreFaithful`, one function of `ZipBytes` at a time.
