---------------------------- MODULE HostBindings ----------------------------
(***************************************************************************)
(* What the crate looks like from Python (python.rs) and from JavaScript   *)
(* (wasm.rs): ranges as a start and a length, absence as None or null,     *)
(* every error as one exception.  fill_manifest is in neither.             *)
(***************************************************************************)
EXTENDS ZipBytes

Hosts == {"python", "js"}

\* as u32, from the 32-bit usize of wasm32.
AsU32(n) == n % (U32Max + 1)

Slice(host, range) ==
  LET length == range.end - range.start
  IN IF host = "python" THEN [start |-> range.start, length |-> length]
     ELSE [start |-> AsU32(range.start), length |-> AsU32(length)]

\* What a call answers: a value, None (or null), or, by map_err and js_err, one
\* exception for every error.
Answer(kind, value) == [kind |-> kind, value |-> value]
Host(result, value) ==
  IF result.verdict = "ok" THEN Answer("value", value) ELSE Answer("exception", <<>>)

HostMembers(host, b) ==
  LET members == CollectionMembers(b)
  IN Host(members, [i \in DOMAIN members.value |->
                      Slice(host, members.value[i].content)])

HostDirectoryRanges(host, b) ==
  LET ranges == CentralDirectoryRanges(b)
  IN Host(ranges, [i \in DOMAIN ranges.value |-> Slice(host, ranges.value[i])])

HostDirectoryRange(host, b) ==
  LET range == CentralDirectoryRange(b) IN Host(range, Slice(host, range.value))

\* Mutant: every archive a manifest cannot be read from has none.
HostReadNoneOnError(b) ==
  LET read == ReadManifestEntry(b, ZIP_MANIFEST_PATH)
  IN Answer(IF read.verdict = "ok" THEN "value" ELSE "None", read.value)

HostRead(b) ==
  LET read == ReadManifestEntry(b, ZIP_MANIFEST_PATH)
  IN IF read.verdict = "none" THEN Answer("None", <<>>) ELSE Host(read, read.value)

\* verify never fails: an archive that cannot be read is reported.
HostVerify(b) ==
  LET read == ReadManifestEntry(b, ZIP_MANIFEST_PATH)
  IN [has_manifest |-> read.verdict = "ok", manifest_len |-> Len(read.value),
      is_valid_zip |-> read.verdict \in {"ok", "none"}]
=============================================================================
