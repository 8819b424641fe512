----------------------------- MODULE RebuildLoop ----------------------------
(***************************************************************************)
(* embed_manifest and remove_manifest step by step: the loops of           *)
(* remove_zip_entry, which copy the entries that stay and then their       *)
(* headers, and the three parts insert_zip_entry appends.  Any step may    *)
(* find an error.  The caller sees nothing of it until the call returns.   *)
(***************************************************************************)
EXTENDS C2paZip

VARIABLES
  pc,            \* the step the call in progress is at, or "idle"
  job,           \* its name and its store
  base,          \* the archive it reads
  done,          \* how many entries the current loop has handled
  out,           \* the archive it writes
  retained,      \* the entries copied, with their new offsets
  newCdStart     \* where the new directory starts

work == <<pc, job, base, done, out, retained, newCdStart>>

Steps == {"idle", "remove", "copy", "directory", "insert", "append", "close"}

RebuildInit ==
  /\ Init
  /\ pc = "idle" /\ job = [op |-> "none", store |-> <<>>] /\ base = <<>>
  /\ done = 0 /\ out = <<>> /\ retained = <<>> /\ newCdStart = 0

-----------------------------------------------------------------------------
(* Returning to the caller                                                 *)

\* An error leaves the function at once, with what it has built dropped.
Refuse(verdict) ==
  /\ Return(job.op, job.store, verdict, doc)
  /\ pc' = "idle" /\ done' = 0 /\ out' = <<>> /\ retained' = <<>>
  /\ base' = <<>> /\ newCdStart' = 0
  /\ UNCHANGED job

Finish(archive) ==
  /\ Return(job.op, job.store, "ok", archive)
  /\ pc' = "idle" /\ done' = 0 /\ out' = <<>> /\ retained' = <<>>
  /\ base' = <<>> /\ newCdStart' = 0
  /\ UNCHANGED job

\* remove_zip_entry returns, to the caller or to embed_manifest.
Removed(archive) ==
  IF job.op = "remove" THEN Finish(archive)
  ELSE /\ pc' = "insert" /\ base' = archive
       /\ done' = 0 /\ out' = <<>> /\ retained' = <<>> /\ newCdStart' = 0
       /\ UNCHANGED <<doc, call, job>>

Continue(step) == pc' = step /\ UNCHANGED <<doc, call, job, base>>

-----------------------------------------------------------------------------
(* remove_zip_entry                                                        *)

Start(op, store) ==
  /\ pc = "idle"
  /\ pc' = "remove"
  /\ job' = [op |-> op, store |-> store]
  /\ base' = doc
  /\ UNCHANGED <<doc, call, done, out, retained, newCdStart>>

ParseForRemove ==
  /\ pc = "remove"
  /\ IF ~Parses(base) THEN Refuse(ParseVerdict(base))
     ELSE IF Named(base, ManifestPath) = {} THEN Removed(base)
     ELSE Continue("copy") /\ UNCHANGED <<done, out, retained, newCdStart>>

\* The entry the copy loop is at.
Entry == InArchiveOrder(base, Entries(base))[done + 1]

\* Mutant: skipping does not move on.
SkipStays ==
  Continue("copy") /\ UNCHANGED <<done, out, retained, newCdStart>>

Skip ==
  /\ done' = done + 1
  /\ Continue("copy") /\ UNCHANGED <<out, retained, newCdStart>>

\* Mutant: the offset is noted after the copy.
CopyThenNote ==
  /\ done' = done + 1
  /\ out' = out \o EntryCells(base, Entry)
  /\ retained' = Append(retained, [header |-> Entry, offset |-> Len(out')])
  /\ Continue("copy") /\ UNCHANGED newCdStart

Copy ==
  /\ done' = done + 1
  /\ out' = out \o EntryCells(base, Entry)
  /\ retained' = Append(retained, [header |-> Entry, offset |-> Len(out)])
  /\ Continue("copy") /\ UNCHANGED newCdStart

\* Mutant: an entry that is skipped is not checked.
CopyEntrySkipFirst ==
  /\ pc = "copy" /\ done < Cardinality(Entries(base))
  /\ IF At(base, Entry).name = ManifestPath THEN Skip
     ELSE IF BindingVerdict(base, Entry) # "ok" THEN Refuse(BindingVerdict(base, Entry))
     ELSE IF Len(out) > U32Max THEN Refuse("Zip64Unsupported")
     ELSE Copy

CopyEntry ==
  /\ pc = "copy" /\ done < Cardinality(Entries(base))
  /\ IF BindingVerdict(base, Entry) # "ok" THEN Refuse(BindingVerdict(base, Entry))
     ELSE IF At(base, Entry).name = ManifestPath THEN Skip
     ELSE IF Len(out) > U32Max THEN Refuse("Zip64Unsupported")
     ELSE Copy

EndCopy ==
  /\ pc = "copy" /\ done = Cardinality(Entries(base))
  /\ IF Len(out) > U32Max THEN Refuse("Zip64Unsupported")
     ELSE /\ newCdStart' = Len(out) /\ done' = 0
          /\ Continue("directory") /\ UNCHANGED <<out, retained>>

CopyHeader ==
  /\ pc = "directory" /\ done < Len(retained)
  /\ LET r == retained[done + 1]
     IN out' = Append(out, [At(base, r.header) EXCEPT !.offset = r.offset])
  /\ done' = done + 1
  /\ Continue("directory") /\ UNCHANGED <<retained, newCdStart>>

EndDirectory ==
  /\ pc = "directory" /\ done = Len(retained)
  /\ LET size == SizeOf(out, newCdStart .. Len(out) - 1)
     IN IF size > U32Max THEN Refuse("Truncated")
        ELSE IF Len(retained) > U16Max THEN Refuse("Zip64Unsupported")
        ELSE Removed(Append(out, Eocd(Len(retained), size, newCdStart)))

-----------------------------------------------------------------------------
(* insert_zip_entry                                                        *)

InsertFile ==
  /\ pc = "insert"
  /\ IF ~Parses(base) THEN Refuse(ParseVerdict(base))
     ELSE IF Len(job.store) > U32Max THEN Refuse("Truncated")
     ELSE IF CdStart(base) > U32Max THEN Refuse("Zip64Unsupported")
     ELSE /\ out' = Slice(base, 0, CdStart(base))
                      \o <<LocalHeader(Crc(job.store), Len(job.store))>> \o job.store
          /\ Continue("append") /\ UNCHANGED <<done, retained, newCdStart>>

\* Mutants: the offset of the new directory is not checked; the new header
\* locates the end of the new file.
AppendDirectoryUnchecked ==
  /\ pc = "append"
  /\ newCdStart' = Len(out)
  /\ out' = out \o Slice(base, CdStart(base), EocdOffset(base))
                \o <<CdHeader(ManifestPath, Crc(job.store), Len(job.store),
                              CdStart(base))>>
  /\ Continue("close") /\ UNCHANGED <<done, retained>>
AppendDirectoryAtEnd ==
  /\ pc = "append"
  /\ IF Len(out) > U32Max THEN Refuse("Zip64Unsupported")
     ELSE /\ newCdStart' = Len(out)
          /\ out' = out \o Slice(base, CdStart(base), EocdOffset(base))
                        \o <<CdHeader(ManifestPath, Crc(job.store), Len(job.store),
                                      Len(out))>>
          /\ Continue("close") /\ UNCHANGED <<done, retained>>

AppendDirectory ==
  /\ pc = "append"
  /\ IF Len(out) > U32Max THEN Refuse("Zip64Unsupported")
     ELSE /\ newCdStart' = Len(out)
          /\ out' = out \o Slice(base, CdStart(base), EocdOffset(base))
                        \o <<CdHeader(ManifestPath, Crc(job.store), Len(job.store),
                                      CdStart(base))>>
          /\ Continue("close") /\ UNCHANGED <<done, retained>>

AppendEocd ==
  /\ pc = "close"
  /\ LET size  == SizeOf(out, newCdStart .. Len(out) - 1)
         count == Cardinality(Entries(base)) + 1
     IN IF size > U32Max THEN Refuse("Truncated")
        ELSE IF count > U16Max THEN Refuse("Zip64Unsupported")
        ELSE Finish(Append(out, Eocd(count, size, newCdStart)))

-----------------------------------------------------------------------------

Rebuild ==
  \/ ParseForRemove \/ CopyEntry \/ EndCopy \/ CopyHeader \/ EndDirectory
  \/ InsertFile \/ AppendDirectory \/ AppendEocd

RebuildNext ==
  \/ Start("remove", <<>>)
  \/ \E store \in Payloads :
       \/ Start("embed", store)
       \/ pc = "idle" /\ FillManifest(store) /\ UNCHANGED work
  \/ Rebuild

\* A call that was started runs to its end; no caller need start one.
RebuildSpec ==
  RebuildInit /\ [][RebuildNext]_<<vars, work>> /\ WF_<<vars, work>>(Rebuild)

-----------------------------------------------------------------------------
(* Properties                                                              *)

RebuildTypeOK ==
  /\ TypeOK
  /\ pc \in Steps
  /\ job \in [op : {"none", "embed", "remove"}, store : Payloads \cup {<<>>}]
  /\ base \in Archives /\ out \in Archives /\ done \in Nat /\ newCdStart \in Nat
  /\ retained \in Seq([header : Nat, offset : U32])

\* Step by step the calls do what C2paZip says they do at once: the loops yield
\* the same archive, and of several errors the same one is reported; a call
\* that fails half-way has changed nothing (embed_manifest, remove_manifest).
CallsAreAtomic == Spec

\* While the archive is rebuilt, the offset noted for each entry copied is that
\* of a copy of its local header, content and descriptor, whatever was skipped
\* and whatever has been appended since; and the header copied for it carries
\* that offset and is otherwise the old one (remove_zip_entry).
OffsetsLocateCopies ==
  pc \in {"copy", "directory"} =>
    \A k \in DOMAIN retained :
      LET h == retained[k].header
          at == retained[k].offset
          cells == EntryCells(base, h)
          new == newCdStart + k - 1
      IN /\ at + Len(cells) <= Len(out)
         /\ Slice(out, at, at + Len(cells)) = cells
         /\ pc = "directory" /\ k <= done =>
              At(out, new) = [At(base, h) EXCEPT !.offset = at]

\* Every call returns (remove_zip_entry, insert_zip_entry).
CallsReturn == pc # "idle" ~> pc = "idle"
=============================================================================
