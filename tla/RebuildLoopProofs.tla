-------------------------- MODULE RebuildLoopProofs -------------------------
(***************************************************************************)
(* Theorems about the rebuild step by step: what the loops of              *)
(* remove_zip_entry keep true while they run, for every archive, and that  *)
(* the calls do what C2paZip says they do at once.                         *)
(***************************************************************************)
EXTENDS RebuildLoop, C2paZipProofs

-----------------------------------------------------------------------------
(* The inductive invariant                                                 *)

Looping == pc \in {"copy", "directory"}

\* Everything RebuildTypeOK says, and which step has what to work with.
StepInv ==
  /\ RebuildTypeOK
  /\ pc # "idle" => \/ job.op = "remove"
                    \/ job.op = "embed" /\ job.store \in Payloads
  /\ pc \in {"insert", "append", "close"} => job.op = "embed"
  /\ pc \in {"idle", "remove"} => done = 0 /\ retained = <<>>
  /\ Looping \/ pc \in {"append", "close"} => Parses(base)
  /\ pc = "close" => newCdStart <= Len(out)
  /\ pc \in {"directory", "close"} => newCdStart <= U32Max
  /\ pc = "append" => Len(job.store) <= U32Max

\* The entries retained are entries the archive binds, and the copy of each is
\* where its new offset says, in the data: before the new directory, once that
\* is begun.
CopiesInv ==
  Looping =>
    \A k \in DOMAIN retained :
      LET h  == retained[k].header
          at == retained[k].offset
          to == at + Len(EntryCells(base, h))
      IN /\ h \in Entries(base) /\ BindingVerdict(base, h) = "ok"
         /\ to <= IF pc = "copy" THEN Len(out) ELSE newCdStart
         /\ Slice(out, at, to) = EntryCells(base, h)

\* The new directory is one header for each entry handled.
HeadersInv ==
  pc = "directory" =>
    /\ done <= Len(retained)
    /\ Len(out) = newCdStart + done
    /\ \A k \in 1 .. done :
         At(out, newCdStart + k - 1)
           = [At(base, retained[k].header) EXCEPT !.offset = retained[k].offset]

LoopInv == StepInv /\ CopiesInv /\ HeadersInv

-----------------------------------------------------------------------------
(* A header copied                                                         *)

\* The header copied for an entry is a header, whatever its new offset.
LEMMA MovedHeader ==
  ASSUME NEW b \in Archives, Parses(b), NEW h \in Entries(b), NEW at \in U32
  PROVE  [At(b, h) EXCEPT !.offset = at] \in Cells
<1>1. At(b, h) \in CdHeaders
  BY EntryProperties
<1>2. [At(b, h) EXCEPT !.offset = at] \in CdHeaders
  BY <1>1 DEF CdHeaders
<1> QED
  BY <1>2 DEF Cells

-----------------------------------------------------------------------------
(* Leaving a loop                                                          *)

\* A call that returns leaves nothing of its work behind.
LEMMA ReturningKeepsInv ==
  ASSUME LoopInv, NEW verdict \in Verdicts, NEW archive \in Archives,
         \/ Refuse(verdict)
         \/ Finish(archive)
  PROVE  LoopInv'
<1>1. doc \in Archives /\ call \in Calls
  BY DEF LoopInv, StepInv, RebuildTypeOK, TypeOK
<1>2. job \in [op : {"none", "embed", "remove"}, store : Payloads \cup {<<>>}]
  BY DEF LoopInv, StepInv, RebuildTypeOK
<1>3. doc' \in Archives /\ call' \in Calls
  BY <1>1, <1>2 DEF Refuse, Finish, Return, Calls, Verdicts
<1>4. /\ pc' = "idle" /\ job' = job /\ base' = <<>> /\ done' = 0 /\ out' = <<>>
      /\ retained' = <<>> /\ newCdStart' = 0
  BY DEF Refuse, Finish
<1>5. base' \in Archives /\ out' \in Archives
      /\ retained' \in Seq([header : Nat, offset : U32])
  BY <1>4, EmptySeq DEF Archives
<1>6. StepInv'
  BY <1>2, <1>3, <1>4, <1>5 DEF StepInv, RebuildTypeOK, TypeOK, Steps, Looping
<1> QED
  BY <1>4, <1>6 DEF LoopInv, CopiesInv, HeadersInv, Looping

\* remove_zip_entry returns an archive, to the caller or to embed_manifest.
LEMMA RemovedKeepsInv ==
  ASSUME LoopInv, pc # "idle", NEW archive \in Archives, Removed(archive)
  PROVE  LoopInv'
<1>1. CASE job.op = "remove"
  <2>1. "ok" \in Verdicts
    BY DEF Verdicts
  <2> QED
    BY <1>1, <2>1, ReturningKeepsInv DEF Removed
<1>2. CASE job.op # "remove"
  <2>1. /\ pc' = "insert" /\ base' = archive /\ done' = 0 /\ out' = <<>>
        /\ retained' = <<>> /\ newCdStart' = 0
        /\ UNCHANGED <<doc, call, job>>
    BY <1>2 DEF Removed
  <2>2. job.op = "embed" /\ job.store \in Payloads
    BY <1>2 DEF LoopInv, StepInv
  <2>3. out' \in Archives /\ retained' \in Seq([header : Nat, offset : U32])
    BY <2>1, EmptySeq DEF Archives
  <2>4. StepInv'
    BY <2>1, <2>2, <2>3 DEF LoopInv, StepInv, RebuildTypeOK, TypeOK, Steps, Looping
  <2> QED
    BY <2>1, <2>4 DEF LoopInv, CopiesInv, HeadersInv, Looping
<1> QED
  BY <1>1, <1>2

-----------------------------------------------------------------------------
(* The steps                                                               *)

\* A call that starts has written nothing yet.
LEMMA StartKeepsInv ==
  ASSUME LoopInv, NEW op, NEW store, Start(op, store),
         \/ op = "remove" /\ store = <<>>
         \/ op = "embed" /\ store \in Payloads
  PROVE  LoopInv'
<1>1. StepInv'
  BY DEF LoopInv, StepInv, RebuildTypeOK, TypeOK, Start, Steps, Looping
<1> QED
  BY <1>1 DEF LoopInv, CopiesInv, HeadersInv, Looping, Start

\* remove_zip_entry refuses what does not parse and returns what has no such
\* entry as it is; otherwise the copy loop starts on an archive that parses.
LEMMA ParseForRemoveKeepsInv ==
  ASSUME LoopInv, ParseForRemove
  PROVE  LoopInv'
<1>1. base \in Archives /\ pc = "remove" /\ retained = <<>> /\ done = 0
  BY DEF LoopInv, StepInv, RebuildTypeOK, ParseForRemove
<1>2. CASE ~Parses(base)
  BY <1>1, <1>2, LayoutVerdicts, ReturningKeepsInv DEF ParseForRemove
<1>3. CASE Parses(base) /\ Named(base, ManifestPath) = {}
  BY <1>1, <1>3, RemovedKeepsInv DEF ParseForRemove
<1>4. CASE Parses(base) /\ Named(base, ManifestPath) # {}
  <2>1. pc' = "copy" /\ UNCHANGED <<doc, call, job, base, done, out, retained, newCdStart>>
    BY <1>4 DEF ParseForRemove, Continue
  <2>2. StepInv'
    BY <1>1, <1>4, <2>1
    DEF LoopInv, StepInv, RebuildTypeOK, TypeOK, Steps, Looping, Parses
  <2> QED
    BY <1>1, <2>1, <2>2 DEF LoopInv, CopiesInv, HeadersInv, Looping
<1> QED
  BY <1>2, <1>3, <1>4

\* Skipping an entry or copying it, as the copy loop does.
LEMMA CopyEntryKeepsInv ==
  ASSUME LoopInv, CopyEntry
  PROVE  LoopInv'
<1>1. /\ base \in Archives /\ out \in Archives /\ Parses(base)
      /\ pc = "copy" /\ done \in Nat
      /\ retained \in Seq([header : Nat, offset : U32])
      /\ done < Cardinality(Entries(base))
  BY DEF LoopInv, StepInv, RebuildTypeOK, CopyEntry, Looping
<1>2. Entry \in Entries(base)
  <2>1. /\ InArchiveOrder(base, Entries(base)) \in Seq(Entries(base))
        /\ Len(InArchiveOrder(base, Entries(base))) = Cardinality(Entries(base))
        /\ Cardinality(Entries(base)) \in Nat
    BY <1>1, OrderedEntries, EntriesFinite
  <2>2. done + 1 \in 1 .. Len(InArchiveOrder(base, Entries(base)))
    BY <1>1, <2>1
  <2> QED
    BY <2>1, <2>2, ElementOfSeq DEF Entry
<1>3. CASE Refuse(BindingVerdict(base, Entry)) \/ Refuse("Zip64Unsupported")
  <2>1. "Zip64Unsupported" \in Verdicts
    BY DEF Verdicts
  <2> QED
    BY <1>1, <1>3, <2>1, LayoutVerdicts, ReturningKeepsInv
<1>4. CASE Skip
  <2>1. /\ pc' = "copy" /\ done' = done + 1
        /\ UNCHANGED <<doc, call, job, base, out, retained, newCdStart>>
    BY <1>4 DEF Skip, Continue
  <2>2. StepInv'
    BY <1>1, <2>1 DEF LoopInv, StepInv, RebuildTypeOK, TypeOK, Steps, Looping, Parses
  <2> QED
    BY <1>1, <2>1, <2>2 DEF LoopInv, CopiesInv, HeadersInv, Looping
<1>5. CASE BindingVerdict(base, Entry) = "ok" /\ ~(Len(out) > U32Max) /\ Copy
  <2> DEFINE cells == EntryCells(base, Entry)
             r     == [header |-> Entry, offset |-> Len(out)]
  <2>1. /\ pc' = "copy" /\ done' = done + 1
        /\ out' = out \o cells /\ retained' = Append(retained, r)
        /\ UNCHANGED <<doc, call, job, base, newCdStart>>
    BY <1>5 DEF Copy, Continue
  <2>2. /\ cells \in Archives /\ Len(out) \in Nat /\ Len(cells) \in Nat
        /\ r \in [header : Nat, offset : U32]
    <3>1. cells \in Archives /\ Len(out) \in Nat /\ Len(cells) \in Nat /\ Entry \in Nat
      BY <1>1, <1>2, <1>5, EntryCellsType, EntryProperties, ArchiveLength
    <3>2. Len(out) \in U32
      BY <1>5, <3>1, FieldsAreNaturals DEF U32
    <3> QED
      BY <3>1, <3>2
  <2> HIDE DEF cells
  <2>3. /\ out' \in Archives
        /\ Len(out') = Len(out) + Len(cells)
        /\ \A from, to \in Nat :
             from <= to /\ to <= Len(out) => Slice(out', from, to) = Slice(out, from, to)
        /\ Slice(out', Len(out), Len(out) + Len(cells)) = cells
    BY <1>1, <2>1, <2>2, AppendedAfter, AppendedAt
  <2>4. /\ retained' \in Seq([header : Nat, offset : U32])
        /\ Len(retained') = Len(retained) + 1
        /\ DOMAIN retained' = 1 .. Len(retained) + 1
        /\ DOMAIN retained = 1 .. Len(retained) /\ Len(retained) \in Nat
        /\ \A k \in 1 .. Len(retained) : retained'[k] = retained[k]
        /\ retained'[Len(retained) + 1] = r
    BY <1>1, <2>1, <2>2, AppendProperties, LenProperties
  <2>5. StepInv'
    BY <1>1, <2>1, <2>3, <2>4
    DEF LoopInv, StepInv, RebuildTypeOK, TypeOK, Steps, Looping, Parses
  <2>6. CopiesInv'
    <3> SUFFICES ASSUME NEW k \in DOMAIN retained'
                 PROVE  LET h  == retained'[k].header
                            at == retained'[k].offset
                            to == at + Len(EntryCells(base, h))
                        IN /\ h \in Entries(base) /\ BindingVerdict(base, h) = "ok"
                           /\ to <= Len(out')
                           /\ Slice(out', at, to) = EntryCells(base, h)
      BY <2>1 DEF CopiesInv, Looping
    <3>1. CASE k = Len(retained) + 1
      <4>1. retained'[k].header = Entry /\ retained'[k].offset = Len(out)
        BY <2>4, <3>1
      <4>2. /\ Len(out) + Len(cells) <= Len(out')
            /\ Slice(out', Len(out), Len(out) + Len(cells)) = cells
        BY <2>2, <2>3
      <4> QED
        BY <1>2, <1>5, <4>1, <4>2 DEF cells
    <3>2. CASE k \in 1 .. Len(retained)
      <4>1. retained'[k] = retained[k] /\ retained[k] \in [header : Nat, offset : U32]
        BY <1>1, <2>4, <3>2, ElementOfSeq
      <4> DEFINE h  == retained[k].header
                 at == retained[k].offset
                 to == at + Len(EntryCells(base, h))
      <4>2. /\ h \in Entries(base) /\ BindingVerdict(base, h) = "ok"
            /\ to <= Len(out)
            /\ Slice(out, at, to) = EntryCells(base, h)
        BY <1>1, <2>4, <3>2 DEF LoopInv, CopiesInv, Looping
      <4>3. at \in Nat /\ Len(EntryCells(base, h)) \in Nat
        BY <1>1, <4>1, <4>2, EntryCellsType, ArchiveLength, FieldsAreNaturals
      <4>4. at \in Nat /\ to \in Nat /\ at <= to
        BY <4>3
      <4>5. Slice(out', at, to) = Slice(out, at, to)
        BY <2>3, <4>2, <4>4
      <4>6. to <= Len(out')
        BY <2>2, <2>3, <4>2, <4>4
      <4> QED
        BY <4>1, <4>2, <4>5, <4>6
    <3> QED
      BY <2>4, <3>1, <3>2
  <2> QED
    BY <2>1, <2>5, <2>6 DEF LoopInv, HeadersInv
<1> QED
  BY <1>3, <1>4, <1>5 DEF CopyEntry

\* All entries have been handled: the new directory starts where the data ends,
\* behind every copy.
LEMMA EndCopyKeepsInv ==
  ASSUME LoopInv, EndCopy
  PROVE  LoopInv'
<1>1. /\ base \in Archives /\ out \in Archives /\ Parses(base)
      /\ pc = "copy" /\ Len(out) \in Nat
      /\ retained \in Seq([header : Nat, offset : U32]) /\ Len(retained) \in Nat
  BY ArchiveLength, LenProperties DEF LoopInv, StepInv, RebuildTypeOK, EndCopy, Looping
<1>2. CASE Refuse("Zip64Unsupported")
  <2>1. "Zip64Unsupported" \in Verdicts
    BY DEF Verdicts
  <2> QED
    BY <1>1, <1>2, <2>1, ReturningKeepsInv
<1>3. CASE ~(Len(out) > U32Max) /\ newCdStart' = Len(out) /\ done' = 0
             /\ Continue("directory") /\ UNCHANGED <<out, retained>>
  <2>1. /\ pc' = "directory" /\ UNCHANGED <<doc, call, job, base>>
    BY <1>3 DEF Continue
  <2>2. StepInv'
    BY <1>1, <1>3, <2>1, FieldsAreNaturals
    DEF LoopInv, StepInv, RebuildTypeOK, TypeOK, Steps, Looping, Parses
  <2>3. CopiesInv'
    BY <1>1, <1>3, <2>1 DEF LoopInv, CopiesInv, Looping
  <2>4. HeadersInv'
    BY <1>1, <1>3, <2>1 DEF HeadersInv
  <2> QED
    BY <2>2, <2>3, <2>4 DEF LoopInv
<1> QED
  BY <1>2, <1>3 DEF EndCopy

\* One header more, with the offset noted for its entry; the copies and the
\* headers before it stay where they are.
LEMMA CopyHeaderKeepsInv ==
  ASSUME LoopInv, CopyHeader
  PROVE  LoopInv'
<1> DEFINE r == retained[done + 1]
           c == [At(base, r.header) EXCEPT !.offset = r.offset]
<1>1. /\ base \in Archives /\ out \in Archives /\ Parses(base)
      /\ pc = "directory" /\ done \in Nat /\ done < Len(retained)
      /\ newCdStart \in Nat /\ Len(out) \in Nat
      /\ retained \in Seq([header : Nat, offset : U32]) /\ Len(retained) \in Nat
      /\ DOMAIN retained = 1 .. Len(retained)
      /\ Len(out) = newCdStart + done
  BY ArchiveLength, LenProperties
  DEF LoopInv, StepInv, HeadersInv, RebuildTypeOK, CopyHeader, Looping
<1>2. done + 1 \in DOMAIN retained /\ r \in [header : Nat, offset : U32]
  <2>1. done + 1 \in 1 .. Len(retained)
    BY <1>1
  <2> QED
    BY <1>1, <2>1, ElementOfSeq
<1>3. r.header \in Entries(base)
  BY <1>1, <1>2 DEF LoopInv, CopiesInv, Looping
<1>4. <<c>> \in Archives /\ Len(<<c>>) = 1 /\ c \in Cells
  BY <1>1, <1>2, <1>3, MovedHeader, OneCell
<1>5. /\ pc' = "directory" /\ done' = done + 1
      /\ out' = Append(out, c)
      /\ UNCHANGED <<doc, call, job, base, retained, newCdStart>>
  BY DEF CopyHeader, Continue
<1> HIDE DEF c
<1>6. out' = out \o <<c>>
  BY <1>1, <1>4, <1>5, AppendIsConcat DEF Archives
<1>7. /\ out' \in Archives /\ Len(out') = Len(out) + 1
      /\ \A p \in Nat : p < Len(out) => At(out', p) = At(out, p)
      /\ \A from, to \in Nat :
           from <= to /\ to <= Len(out) => Slice(out', from, to) = Slice(out, from, to)
  <2>1. /\ out \o <<c>> \in Archives /\ Len(out \o <<c>>) = Len(out) + Len(<<c>>)
        /\ \A p \in Nat : p < Len(out) => At(out \o <<c>>, p) = At(out, p)
        /\ \A from, to \in Nat :
             from <= to /\ to <= Len(out)
               => Slice(out \o <<c>>, from, to) = Slice(out, from, to)
    BY <1>1, <1>4, AppendedAfter
  <2> QED
    BY <1>4, <1>6, <2>1, Zenon
<1>8. At(out', Len(out)) = c
  BY <1>1, <1>4, <1>5, AppendProperties DEF At, Archives
<1>9. StepInv'
  BY <1>1, <1>5, <1>7
  DEF LoopInv, StepInv, RebuildTypeOK, TypeOK, Steps, Looping, Parses
<1>10. CopiesInv'
  <2> SUFFICES ASSUME NEW k \in DOMAIN retained
               PROVE  LET h  == retained[k].header
                          at == retained[k].offset
                          to == at + Len(EntryCells(base, h))
                      IN /\ h \in Entries(base) /\ BindingVerdict(base, h) = "ok"
                         /\ to <= newCdStart
                         /\ Slice(out', at, to) = EntryCells(base, h)
    BY <1>5 DEF CopiesInv, Looping
  <2> DEFINE h  == retained[k].header
             at == retained[k].offset
             to == at + Len(EntryCells(base, h))
  <2>1. /\ h \in Entries(base) /\ BindingVerdict(base, h) = "ok"
        /\ to <= newCdStart
        /\ Slice(out, at, to) = EntryCells(base, h)
    BY <1>1 DEF LoopInv, CopiesInv, Looping
  <2>2. at \in Nat
    <3>1. k \in 1 .. Len(retained)
      BY <1>1
    <3>2. retained[k] \in [header : Nat, offset : U32]
      BY <1>1, <3>1, ElementOfSeq
    <3> QED
      BY <3>2, FieldsAreNaturals
  <2>3. Len(EntryCells(base, h)) \in Nat
    BY <1>1, <2>1, EntryCellsType, ArchiveLength
  <2>4. at \in Nat /\ to \in Nat /\ at <= to /\ to <= Len(out)
    BY <1>1, <2>1, <2>2, <2>3
  <2>5. Slice(out', at, to) = Slice(out, at, to)
    BY <1>7, <2>4
  <2> QED
    BY <2>1, <2>5
<1>11. HeadersInv'
  <2> SUFFICES ASSUME NEW k \in 1 .. done + 1
               PROVE  At(out', newCdStart + k - 1)
                        = [At(base, retained[k].header)
                             EXCEPT !.offset = retained[k].offset]
    BY <1>1, <1>5, <1>7 DEF HeadersInv
  <2>1. CASE k = done + 1
    <3>1. newCdStart + k - 1 = Len(out)
      BY <1>1, <2>1
    <3> QED
      BY <1>8, <2>1, <3>1 DEF c
  <2>2. CASE k \in 1 .. done
    <3>1. newCdStart + k - 1 \in Nat /\ newCdStart + k - 1 < Len(out)
      BY <1>1, <2>2
    <3>2. At(out', newCdStart + k - 1) = At(out, newCdStart + k - 1)
      BY <1>7, <3>1
    <3> QED
      BY <1>1, <2>2, <3>2 DEF LoopInv, HeadersInv
  <2> QED
    BY <1>1, <2>1, <2>2
<1> QED
  BY <1>9, <1>10, <1>11 DEF LoopInv

\* What is written of the new directory has a size.
LEMMA WrittenSizeIsNatural ==
  ASSUME out \in Archives, newCdStart \in Nat
  PROVE  SizeOf(out, newCdStart .. Len(out) - 1) \in Nat
<1>1. newCdStart .. Len(out) - 1 \subseteq 0 .. Len(out) - 1
  BY ArchiveLength
<1> QED
  BY <1>1, SizeIsNatural

\* remove_zip_entry closes the archive and leaves the loops.
LEMMA EndDirectoryKeepsInv ==
  ASSUME LoopInv, EndDirectory
  PROVE  LoopInv'
<1> DEFINE size == SizeOf(out, newCdStart .. Len(out) - 1)
           eocd == Eocd(Len(retained), size, newCdStart)
<1>1. /\ out \in Archives /\ pc = "directory"
      /\ newCdStart \in Nat /\ Len(retained) \in Nat
  BY LenProperties DEF LoopInv, StepInv, RebuildTypeOK, EndDirectory
<1>0. size \in Nat
  BY <1>1, WrittenSizeIsNatural
<1>2. newCdStart \in U32
  BY <1>1, FieldsAreNaturals DEF LoopInv, StepInv, U32
<1>3. "Truncated" \in Verdicts /\ "Zip64Unsupported" \in Verdicts
  BY DEF Verdicts
<1>4. ASSUME ~(size > U32Max), ~(Len(retained) > U16Max)
      PROVE  Append(out, eocd) \in Archives
  <2>1. eocd \in Cells
    <3>1. size \in U32 /\ Len(retained) \in U16
      BY <1>0, <1>1, <1>4, FieldsAreNaturals DEF U16, U32
    <3> QED
      BY <1>2, <3>1, EocdType
  <2> HIDE DEF eocd
  <2> QED
    BY <1>1, <2>1, AppendProperties DEF Archives
<1>5. CASE Refuse("Truncated") \/ Refuse("Zip64Unsupported")
  BY <1>1, <1>3, <1>5, ReturningKeepsInv
<1>6. CASE ~(size > U32Max) /\ ~(Len(retained) > U16Max) /\ Removed(Append(out, eocd))
  BY <1>1, <1>4, <1>6, RemovedKeepsInv
<1> QED
  BY <1>5, <1>6 DEF EndDirectory

\* The three parts of insert_zip_entry.
LEMMA InsertKeepsInv ==
  ASSUME LoopInv, InsertFile \/ AppendDirectory \/ AppendEocd
  PROVE  LoopInv'
<1>1. /\ base \in Archives /\ out \in Archives /\ Len(out) \in Nat
      /\ newCdStart \in Nat
      /\ pc \in {"insert", "append", "close"} /\ pc # "idle" /\ ~Looping
      /\ job.op = "embed" /\ job.store \in Payloads
  BY ArchiveLength
  DEF LoopInv, StepInv, RebuildTypeOK, Looping, InsertFile, AppendDirectory, AppendEocd
<1>2. /\ job.store \in Archives /\ Crc(job.store) \in U32 /\ Len(job.store) \in Nat
  BY <1>1, PayloadAssumption, ArchiveLength
<1>3. /\ "Truncated" \in Verdicts /\ "Zip64Unsupported" \in Verdicts
      /\ "ok" \in Verdicts /\ ParseVerdict(base) \in Verdicts
  BY LayoutVerdicts DEF Verdicts
<1>4. ASSUME NEW verdict \in Verdicts, Refuse(verdict)
      PROVE  LoopInv'
  BY <1>1, <1>4, ReturningKeepsInv
<1>5. ASSUME Parses(base)
      PROVE  /\ CdStart(base) \in Nat /\ CdStart(base) \in U32
             /\ Slice(base, 0, CdStart(base)) \in Archives
             /\ Slice(base, CdStart(base), EocdOffset(base)) \in Archives
  <2>1. /\ CdStart(base) \in Nat /\ EocdOffset(base) \in Nat /\ Len(base) \in Nat
        /\ CdStart(base) <= EocdOffset(base) /\ EocdOffset(base) < Len(base)
    BY <1>1, <1>5, ParsedLayout, ArchiveLength
  <2>2. CdStart(base) \in U32
    BY <1>1, <1>5, ParsedRecord
  <2>3. Slice(base, 0, CdStart(base)) \in Archives
    BY <1>1, <2>1, SliceProperties
  <2>4. EocdOffset(base) <= Len(base)
    BY <2>1
  <2>5. Slice(base, CdStart(base), EocdOffset(base)) \in Archives
    BY <1>1, <2>1, <2>4, SliceProperties
  <2> QED
    BY <2>1, <2>3, <2>5, <2>2
<1>6. ASSUME InsertFile, Parses(base), ~(Len(job.store) > U32Max),
             out' = Slice(base, 0, CdStart(base))
                      \o <<LocalHeader(Crc(job.store), Len(job.store))>> \o job.store,
             Continue("append"), UNCHANGED <<done, retained, newCdStart>>
      PROVE  LoopInv'
  <2>1. Len(job.store) \in U32
    BY <1>2, <1>6, FieldsAreNaturals DEF U32
  <2>2. LocalHeader(Crc(job.store), Len(job.store)) \in Cells
    BY <1>2, <2>1, FieldsAreNaturals DEF LocalHeader, LocalHeaders, U16, Cells
  <2>3. out' \in Archives
    BY <1>2, <1>5, <1>6, <2>2, OneCell, ConcatProperties DEF Archives
  <2>4. pc' = "append" /\ UNCHANGED <<doc, call, job, base>>
    BY <1>6 DEF Continue
  <2>5. StepInv'
    BY <1>1, <1>2, <1>6, <2>3, <2>4, FieldsAreNaturals
    DEF LoopInv, StepInv, RebuildTypeOK, TypeOK, Steps, Looping, Parses
  <2> QED
    BY <2>4, <2>5 DEF LoopInv, CopiesInv, HeadersInv, Looping
<1>7. ASSUME AppendDirectory, ~(Len(out) > U32Max), newCdStart' = Len(out),
             out' = out \o Slice(base, CdStart(base), EocdOffset(base))
                        \o <<CdHeader(ManifestPath, Crc(job.store), Len(job.store),
                                      CdStart(base))>>,
             Continue("close"), UNCHANGED <<done, retained>>
      PROVE  LoopInv'
  <2>1. Parses(base) /\ pc = "append"
    BY <1>7 DEF LoopInv, StepInv, AppendDirectory
  <2> DEFINE header == CdHeader(ManifestPath, Crc(job.store), Len(job.store),
                                CdStart(base))
             more   == Slice(base, CdStart(base), EocdOffset(base)) \o <<header>>
  <2>2. header \in Cells
    <3>1. Len(job.store) \in U32
      BY <1>2, <2>1, FieldsAreNaturals DEF LoopInv, StepInv, U32
    <3> QED
      BY <1>2, <1>5, <2>1, <3>1, NameAssumption, FieldsAreNaturals
      DEF CdHeader, CdHeaders, U16, Cells
  <2>3. more \in Archives
    <3> HIDE DEF header
    <3> QED
      BY <1>5, <2>1, <2>2, OneCell, ConcatProperties DEF Archives
  <2>4. out' = out \o more
    <3>1. <<header>> \in Archives
      BY <2>2, OneCell
    <3> QED
      <4> DEFINE old == Slice(base, CdStart(base), EocdOffset(base))
      <4>1. out \in Seq(Cells) /\ old \in Seq(Cells) /\ <<header>> \in Seq(Cells)
        BY <1>1, <1>5, <2>1, <3>1 DEF Archives
      <4>2. out' = out \o old \o <<header>> /\ more = old \o <<header>>
        BY <1>7
      <4> HIDE DEF old, header, more
      <4> QED
        BY <4>1, <4>2
  <2>5. /\ out' \in Archives /\ Len(out') = Len(out) + Len(more) /\ Len(more) \in Nat
    BY <1>1, <2>3, <2>4, AppendedAfter, ArchiveLength
  <2>6. pc' = "close" /\ UNCHANGED <<doc, call, job, base>>
    BY <1>7 DEF Continue
  <2>7. newCdStart' \in Nat /\ newCdStart' <= Len(out') /\ newCdStart' <= U32Max
    BY <1>1, <1>7, <2>5, FieldsAreNaturals
  <2>8. StepInv'
    BY <1>1, <1>7, <2>1, <2>5, <2>6, <2>7
    DEF LoopInv, StepInv, RebuildTypeOK, TypeOK, Steps, Looping, Parses
  <2> QED
    BY <2>6, <2>8 DEF LoopInv, CopiesInv, HeadersInv, Looping
<1>8. ASSUME AppendEocd, ~(SizeOf(out, newCdStart .. Len(out) - 1) > U32Max),
             ~(Cardinality(Entries(base)) + 1 > U16Max),
             Finish(Append(out, Eocd(Cardinality(Entries(base)) + 1,
                                     SizeOf(out, newCdStart .. Len(out) - 1),
                                     newCdStart)))
      PROVE  LoopInv'
  <2> DEFINE size == SizeOf(out, newCdStart .. Len(out) - 1)
             eocd == Eocd(Cardinality(Entries(base)) + 1, size, newCdStart)
  <2>1. Parses(base) /\ newCdStart \in Nat /\ newCdStart <= U32Max
    BY <1>8 DEF LoopInv, StepInv, RebuildTypeOK, AppendEocd
  <2>2. /\ Cardinality(Entries(base)) + 1 \in U16
        /\ size \in U32
        /\ newCdStart \in U32
    <3>1. Cardinality(Entries(base)) \in Nat
      BY <1>1, <2>1, EntriesFinite
    <3>2. size \in Nat
      BY <1>1, <2>1, WrittenSizeIsNatural
    <3> QED
      BY <1>1, <1>8, <2>1, <3>1, <3>2, FieldsAreNaturals DEF U16, U32
  <2>3. eocd \in Cells
    BY <1>1, <2>2, EocdType
  <2> HIDE DEF eocd
  <2>4. Append(out, eocd) \in Archives
    BY <1>1, <2>3, AppendProperties DEF Archives
  <2> QED
    BY <1>3, <1>8, <2>4, ReturningKeepsInv DEF eocd
<1>9. CASE InsertFile
  BY <1>3, <1>4, <1>6, <1>9 DEF InsertFile
<1>10. CASE AppendDirectory
  BY <1>3, <1>4, <1>7, <1>10 DEF AppendDirectory
<1>11. CASE AppendEocd
  BY <1>3, <1>4, <1>8, <1>11 DEF AppendEocd
<1> QED
  BY <1>9, <1>10, <1>11

\* fill_manifest runs at once, while no rebuild is under way.
LEMMA FillKeepsInv ==
  ASSUME LoopInv, NEW store \in Payloads, pc = "idle", FillManifest(store),
         UNCHANGED work
  PROVE  LoopInv'
<1>1. doc \in Archives /\ call \in Calls
  BY DEF LoopInv, StepInv, RebuildTypeOK, TypeOK
<1>2. /\ FillVerdict(doc, ManifestPath, store) \in Verdicts
      /\ FillVerdict(doc, ManifestPath, store) = "ok"
           => FillZipEntry(doc, ManifestPath, store) \in Archives
  BY <1>1, CallVerdicts, FillCells
<1>3. doc' \in Archives /\ call' \in Calls
  BY <1>1, <1>2 DEF FillManifest, Return, Calls
<1>4. StepInv'
  BY <1>3 DEF LoopInv, StepInv, RebuildTypeOK, TypeOK, Looping, work
<1> QED
  BY <1>4 DEF LoopInv, CopiesInv, HeadersInv, Looping, work

-----------------------------------------------------------------------------
(* The theorems                                                            *)

\* Before the first call there is no work in progress.
LEMMA InitHoldsInv ==
  ASSUME RebuildInit
  PROVE  LoopInv
<1>1. doc \in Archives /\ call \in Calls
  BY InputAssumption DEF RebuildInit, Init, Calls, Verdicts
<1>2. <<>> \in Archives /\ <<>> \in Seq([header : Nat, offset : U32])
  BY EmptySeq DEF Archives
<1>3. StepInv
  BY <1>1, <1>2 DEF RebuildInit, StepInv, RebuildTypeOK, TypeOK, Steps, Looping
<1> QED
  BY <1>3 DEF LoopInv, CopiesInv, HeadersInv, Looping, RebuildInit

\* What the loops keep true holds at every step of every call.
THEOREM LoopInvariant == RebuildSpec => []LoopInv
<1>1. RebuildInit => LoopInv
  BY InitHoldsInv
<1>2. LoopInv /\ [RebuildNext]_<<vars, work>> => LoopInv'
  <2> SUFFICES ASSUME LoopInv, [RebuildNext]_<<vars, work>>
               PROVE  LoopInv'
    OBVIOUS
  <2>1. CASE Start("remove", <<>>)
    BY <2>1, StartKeepsInv
  <2>2. ASSUME NEW store \in Payloads, Start("embed", store)
        PROVE  LoopInv'
    BY <2>2, StartKeepsInv
  <2>3. ASSUME NEW store \in Payloads,
               pc = "idle" /\ FillManifest(store) /\ UNCHANGED work
        PROVE  LoopInv'
    BY <2>3, FillKeepsInv
  <2>4. CASE Rebuild
    BY <2>4, ParseForRemoveKeepsInv, CopyEntryKeepsInv, EndCopyKeepsInv,
       CopyHeaderKeepsInv, EndDirectoryKeepsInv, InsertKeepsInv DEF Rebuild
  <2>5. CASE UNCHANGED <<vars, work>>
    BY <2>5 DEF vars, work, LoopInv, StepInv, CopiesInv, HeadersInv, Looping,
                RebuildTypeOK, TypeOK
  <2> QED
    BY <2>1, <2>2, <2>3, <2>4, <2>5 DEF RebuildNext
<1> QED
  BY <1>1, <1>2, PTL DEF RebuildSpec

\* Every step of a rebuild, for every archive and every store, leaves values of
\* the right kind: no step reads outside the archive it copies from or appends
\* what is not a cell (remove_zip_entry, insert_zip_entry).
THEOREM RebuildTypeCorrect == RebuildSpec => []RebuildTypeOK
<1>1. LoopInv => RebuildTypeOK
  BY DEF LoopInv, StepInv
<1> QED
  BY <1>1, LoopInvariant, PTL

\* However long the archive and wherever the copy loop is, the offset noted for
\* each entry is that of its copy, and the header already copied for it says so
\* (remove_zip_entry).
THEOREM OffsetsAreExact == RebuildSpec => []OffsetsLocateCopies
<1>1. LoopInv => OffsetsLocateCopies
  <2> SUFFICES ASSUME LoopInv, Looping, NEW k \in DOMAIN retained
               PROVE  LET h == retained[k].header
                          at == retained[k].offset
                          cells == EntryCells(base, h)
                          new == newCdStart + k - 1
                      IN /\ at + Len(cells) <= Len(out)
                         /\ Slice(out, at, at + Len(cells)) = cells
                         /\ pc = "directory" /\ k <= done =>
                              At(out, new) = [At(base, h) EXCEPT !.offset = at]
    BY DEF OffsetsLocateCopies, Looping
  <2> DEFINE h  == retained[k].header
             at == retained[k].offset
             to == at + Len(EntryCells(base, h))
  <2>1. /\ h \in Entries(base) /\ BindingVerdict(base, h) = "ok"
        /\ to <= IF pc = "copy" THEN Len(out) ELSE newCdStart
        /\ Slice(out, at, to) = EntryCells(base, h)
    BY DEF LoopInv, CopiesInv
  <2>2. /\ base \in Archives /\ Parses(base) /\ out \in Archives
        /\ newCdStart \in Nat /\ done \in Nat
        /\ retained \in Seq([header : Nat, offset : U32])
    BY DEF LoopInv, StepInv, RebuildTypeOK
  <2>3. k \in 1 .. Len(retained) /\ k \in Nat /\ retained[k] \in [header : Nat, offset : U32]
    <3>1. k \in 1 .. Len(retained) /\ Len(retained) \in Nat
      BY <2>2, LenProperties
    <3>2. retained[k] \in [header : Nat, offset : U32]
      BY <2>2, <3>1, ElementOfSeq
    <3> QED
      BY <3>1, <3>2
  <2>4. at \in Nat /\ to \in Nat /\ Len(out) \in Nat
    <3>1. at \in Nat
      BY <2>3, FieldsAreNaturals
    <3>2. Len(EntryCells(base, h)) \in Nat /\ Len(out) \in Nat
      BY <2>1, <2>2, EntryCellsType, ArchiveLength
    <3> QED
      BY <3>1, <3>2
  <2>5. to <= Len(out)
    <3>1. CASE pc = "copy"
      BY <2>1, <3>1
    <3>2. CASE pc = "directory"
      <4>1. Len(out) = newCdStart + done
        BY <3>2 DEF LoopInv, HeadersInv
      <4> QED
        BY <2>1, <2>2, <2>4, <3>2, <4>1
    <3> QED
      BY <3>1, <3>2 DEF Looping
  <2>6. ASSUME pc = "directory", k <= done
        PROVE  At(out, newCdStart + k - 1) = [At(base, h) EXCEPT !.offset = at]
    <3>1. k \in 1 .. done
      BY <2>2, <2>3, <2>6
    <3> QED
      BY <2>6, <3>1 DEF LoopInv, HeadersInv
  <2> QED
    BY <2>1, <2>5, <2>6
<1> QED
  BY <1>1, LoopInvariant, PTL
-----------------------------------------------------------------------------
(* Lists that grow                                                         *)

\* t is s and one more.
LongerByOne(s, t) ==
  /\ Len(s) \in Nat
  /\ Len(t) = Len(s) + 1
  /\ \A k \in 1 .. Len(s) : t[k] = s[k]

\* A longer list is copied as the shorter is, as far as that goes.
LEMMA CopiedGrows ==
  ASSUME NEW b, NEW s, NEW t, LongerByOne(s, t)
  PROVE  /\ \A k \in 0 .. Len(s) : Copied(b, t)[k] = Copied(b, s)[k]
         /\ Copied(b, t)[Len(t)] = Copied(b, s)[Len(s)] \o EntryCells(b, t[Len(t)])
<1> DEFINE x == Copied(b, s)
           y == Copied(b, t)
           n == Len(s)
           bad == {k \in 0 .. n : y[k] # x[k]}
<1>1. \A k \in 0 .. n : x[k] = IF k = 0 THEN <<>> ELSE x[k - 1] \o EntryCells(b, s[k])
  BY CopiedStep
<1>2. \A k \in 0 .. n + 1 : y[k] = IF k = 0 THEN <<>> ELSE y[k - 1] \o EntryCells(b, t[k])
  BY CopiedStep DEF LongerByOne
<1>3. n \in Nat /\ Len(t) = n + 1
  BY DEF LongerByOne
<1> HIDE DEF x, y, n
<1>4. bad \subseteq Nat /\ \A k \in 0 .. n : k \in bad <=> y[k] # x[k]
  OBVIOUS
<1> HIDE DEF bad
<1>5. bad = {}
  <2> SUFFICES ASSUME bad # {}
               PROVE  FALSE
    OBVIOUS
  <2>1. PICK k \in bad : \A i \in bad : k <= i
    BY <1>4, LeastNatural
  <2>2. k \in 0 .. n /\ y[k] # x[k]
    BY <1>4, <2>1 DEF bad
  <2>3. k # 0
    BY <1>1, <1>2, <1>3, <2>2
  <2>4. k - 1 \in 0 .. n /\ ~(k <= k - 1) /\ k \in 1 .. n /\ k \in 0 .. n + 1
    BY <1>3, <2>2, <2>3
  <2>5. y[k - 1] = x[k - 1]
    BY <1>4, <2>1, <2>4
  <2>6. t[k] = s[k]
    BY <2>4 DEF n, LongerByOne
  <2>7. y[k] = y[k - 1] \o EntryCells(b, t[k])
    BY <1>2, <2>3, <2>4
  <2>8. x[k] = x[k - 1] \o EntryCells(b, s[k])
    BY <1>1, <2>2, <2>3
  <2> QED
    BY <2>2, <2>5, <2>6, <2>7, <2>8
<1>6. y[n + 1] = y[n] \o EntryCells(b, t[n + 1])
  <2> DEFINE i == n + 1
  <2>1. i \in 0 .. n + 1 /\ i # 0 /\ i - 1 = n
    BY <1>3
  <2> HIDE DEF i
  <2>2. y[i] = y[n] \o EntryCells(b, t[i])
    BY <1>2, <2>1
  <2> QED
    BY <2>2 DEF i
<1>7. n \in 0 .. n
  BY <1>3
<1> QED
  BY <1>3, <1>4, <1>5, <1>6, <1>7 DEF x, y, n

\* An entry behind all that are listed goes to the end of the list.
LEMMA ListGrows ==
  ASSUME NEW b, NEW hs, NEW m, NEW s, ListsInOrder(b, hs, m, s), NEW h,
         \A g \in hs : Before(b, g, h),
         NEW t, t = [k \in 1 .. m + 1 |-> IF k = m + 1 THEN h ELSE s[k]]
  PROVE  ListsInOrder(b, hs \cup {h}, m + 1, t)
<1>1. /\ m \in Nat /\ s \in [1 .. m -> hs]
      /\ \A j, k \in 1 .. m : j < k => Before(b, s[j], s[k])
      /\ \A g \in hs : \E k \in 1 .. m : s[k] = g
  BY DEF ListsInOrder
<1>2. /\ m + 1 \in 1 .. m + 1 /\ t[m + 1] = h
      /\ \A k \in 1 .. m : k \in 1 .. m + 1 /\ t[k] = s[k]
      /\ \A k \in 1 .. m + 1 : k = m + 1 \/ k \in 1 .. m
  BY <1>1
<1>3. t \in [1 .. m + 1 -> hs \cup {h}]
  BY <1>1
<1>4. ASSUME NEW j \in 1 .. m + 1, NEW k \in 1 .. m + 1, j < k
      PROVE  Before(b, t[j], t[k])
  <2>1. j \in 1 .. m
    BY <1>1, <1>4
  <2>2. CASE k = m + 1
    BY <1>1, <1>2, <2>1, <2>2
  <2>3. CASE k \in 1 .. m
    BY <1>1, <1>2, <1>4, <2>1, <2>3
  <2> QED
    BY <1>2, <2>2, <2>3
<1>5. \A g \in hs \cup {h} : \E k \in 1 .. m + 1 : t[k] = g
  BY <1>1, <1>2
<1> QED
  BY <1>1, <1>3, <1>4, <1>5 DEF ListsInOrder

\* What has been copied of entries listed in order fits before the directory.
LEMMA ListedFits ==
  ASSUME NEW b \in Archives, Parses(b), NEW hs, hs \subseteq Entries(b),
         \A h \in hs : BindingVerdict(b, h) = "ok",
         NEW m, NEW s, ListsInOrder(b, hs, m, s)
  PROVE  ~(Len(Copied(b, s)[m]) > U32Max)
<1>1. m = Cardinality(hs) /\ InArchiveOrder(b, hs) = s
  BY OrderIsUnique
<1>2. Len(s) = m /\ s \in Seq(hs) /\ m \in Nat
  BY <1>1, OrderedEntries DEF ListsInOrder
<1>3. Len(Copied(b, s)[m]) <= CdStart(b)
  BY <1>1, <1>2, CopiedFits
<1>4. CdStart(b) \in 0 .. U32Max /\ U32Max \in Nat
  BY ParsedRecord, FieldsAreNaturals DEF U32
<1>5. Len(Copied(b, s)[m]) \in Nat
  <2>1. \A h \in hs : EntryCells(b, h) \in Archives
    BY EntryCellsType
  <2>2. m \in 0 .. m
    BY <1>2
  <2> QED
    BY <1>2, <2>1, <2>2, CopiedType, ArchiveLength
<1> QED
  BY <1>3, <1>4, <1>5

\* Entry k in archive order is the first that cannot be bound.
RefusesAt(b, k) ==
  LET order == InArchiveOrder(b, Entries(b))
  IN /\ k \in 1 .. Cardinality(Entries(b))
     /\ \A j \in 1 .. k - 1 : BindingVerdict(b, order[j]) = "ok"
     /\ BindingVerdict(b, order[k]) # "ok"

\* The first entry in archive order that cannot be bound is the one refused.
LEMMA FirstRefused ==
  ASSUME NEW b \in Archives, Parses(b), Named(b, ManifestPath) # {},
         NEW k, RefusesAt(b, k)
  PROVE  RemoveVerdict(b, ManifestPath)
           = BindingVerdict(b, InArchiveOrder(b, Entries(b))[k])
<1> DEFINE order   == InArchiveOrder(b, Entries(b))
           n       == Cardinality(Entries(b))
           refused == {h \in Entries(b) : BindingVerdict(b, h) # "ok"}
<1>1. /\ n \in Nat /\ order \in [1 .. n -> Entries(b)]
      /\ \A i, j \in 1 .. n : i < j <=> Before(b, order[i], order[j])
      /\ \A h \in Entries(b) : \E j \in 1 .. n : order[j] = h
  BY ArchiveOrder
<1>2. /\ k \in 1 .. n
      /\ \A j \in 1 .. k - 1 : BindingVerdict(b, order[j]) = "ok"
      /\ BindingVerdict(b, order[k]) # "ok"
  BY DEF RefusesAt
<1> HIDE DEF order, n
<1>3. k \in 1 .. n /\ order[k] \in refused /\ refused \subseteq Entries(b)
  BY <1>1, <1>2
<1>4. \A h \in refused : h = order[k] \/ Before(b, order[k], h)
  <2> SUFFICES ASSUME NEW j \in 1 .. n, order[j] \in refused
               PROVE  order[j] = order[k] \/ Before(b, order[k], order[j])
    BY <1>1, <1>3
  <2>1. ~(j \in 1 .. k - 1)
    BY <1>2
  <2>2. j = k \/ k < j
    BY <1>1, <1>3, <2>1
  <2> QED
    BY <1>1, <1>3, <2>2
<1>5. FirstOf(b, refused) = order[k]
  <2>1. /\ FirstOf(b, refused) \in refused
        /\ \A g \in refused \ {FirstOf(b, refused)} : Before(b, FirstOf(b, refused), g)
    BY <1>3, FirstIsFirst
  <2>2. \A g, h \in Entries(b) : ~(Before(b, g, h) /\ Before(b, h, g))
    <3>1. \A g \in Entries(b) : g \in Nat /\ At(b, g).offset \in Nat
      BY EntryProperties
    <3> QED
      BY <3>1 DEF Before
  <2> HIDE DEF refused
  <2> QED
    BY <1>3, <1>4, <2>1, <2>2
<1> QED
  BY <1>3, <1>5 DEF RemoveVerdict, order

-----------------------------------------------------------------------------
(* The calls run at once                                                   *)

\* The entries retained, and those that should be: all handled so far but the
\* ones at the manifest path.
Heads == [k \in 1 .. Len(retained) |-> retained[k].header]
Ordered == InArchiveOrder(base, Entries(base))
Seen == {Ordered[j] : j \in 1 .. done} \ Named(base, ManifestPath)

\* What the call in progress reads, and what has been decided of it.
JobInv ==
  /\ pc \in {"idle", "remove"} => out = <<>>
  /\ pc # "idle" /\ job.op = "remove" => job.store = <<>>
  /\ pc \in {"remove", "copy", "directory"} => base = doc
  /\ Looping => Named(base, ManifestPath) # {}
  /\ pc \in {"insert", "append", "close"} =>
       /\ RemoveVerdict(doc, ManifestPath) = "ok"
       /\ base = RemoveZipEntry(doc, ManifestPath)

\* The copy loop has found no entry it cannot bind and has written what
\* RemoveZipEntry writes of those it has handled.
CopyingInv ==
  pc = "copy" =>
    /\ done <= Cardinality(Entries(base))
    /\ \A j \in 1 .. done : BindingVerdict(base, Ordered[j]) = "ok"
    /\ ListsInOrder(base, Seen, Len(retained), Heads)
    /\ out = Copied(base, Heads)[Len(retained)]

\* When it ends it has written all the data; the headers come behind it.
CopiedInv ==
  pc = "directory" =>
    /\ \A h \in Entries(base) : BindingVerdict(base, h) = "ok"
    /\ ListsInOrder(base, Kept(base, ManifestPath), Len(retained), Heads)
    /\ newCdStart = Len(Copied(base, Heads)[Len(retained)])
    /\ Slice(out, 0, newCdStart) = Copied(base, Heads)[Len(retained)]

\* The offset noted for an entry is the length of what was copied before it.
OffsetsInv ==
  Looping =>
    \A k \in 1 .. Len(retained) :
      retained[k].offset = Len(Copied(base, Heads)[k - 1])

\* insert_zip_entry has written what InsertZipEntry writes, but for the end.
InsertingInv ==
  /\ pc = "append" => out = InsertedData(base, job.store)
  /\ pc = "close" =>
       /\ Len(job.store) <= U32Max
       /\ newCdStart = Len(InsertedData(base, job.store))
       /\ out = InsertedData(base, job.store)
                  \o InsertedDirectory(base, ManifestPath, job.store)

AtomInv ==
  LoopInv /\ JobInv /\ CopyingInv /\ CopiedInv /\ OffsetsInv /\ InsertingInv

\* The answer of the call in progress, had it run at once.
JobVerdict == IF job.op = "remove" THEN RemoveVerdict(doc, ManifestPath)
              ELSE EmbedVerdict(doc, job.store)
JobArchive == IF job.op = "remove" THEN RemoveZipEntry(doc, ManifestPath)
              ELSE Embed(doc, job.store)

\* A call returns what it would have returned at once.
LEMMA ReturnsAtOnce ==
  ASSUME AtomInv, pc # "idle", LoopInv',
         \/ JobVerdict # "ok" /\ Refuse(JobVerdict)
         \/ JobVerdict = "ok" /\ Finish(JobArchive)
  PROVE  AtomInv' /\ Next
<1>1. AtomInv'
  <2>1. pc' = "idle" /\ out' = <<>>
    BY DEF Refuse, Finish
  <2> QED
    BY <2>1 DEF AtomInv, JobInv, CopyingInv, CopiedInv, OffsetsInv, InsertingInv, Looping
<1>2. \/ job.op = "remove" /\ job.store = <<>>
      \/ job.op = "embed" /\ job.store \in Payloads
  BY DEF AtomInv, LoopInv, StepInv, JobInv
<1>3. Return(job.op, job.store, JobVerdict, JobArchive)
  BY DEF Refuse, Finish, Return
<1>4. ASSUME job.op = "remove", job.store = <<>>
      PROVE  Next
  <2>1. /\ JobVerdict = RemoveVerdict(doc, ManifestPath)
        /\ JobArchive = RemoveZipEntry(doc, ManifestPath)
    BY <1>4 DEF JobVerdict, JobArchive
  <2>2. RemoveManifest
    BY <1>3, <1>4, <2>1 DEF RemoveManifest
  <2> QED
    BY <2>2 DEF Next
<1>5. ASSUME job.op = "embed", job.store \in Payloads
      PROVE  Next
  <2>1. /\ JobVerdict = EmbedVerdict(doc, job.store)
        /\ JobArchive = Embed(doc, job.store)
    BY <1>5 DEF JobVerdict, JobArchive
  <2>2. EmbedManifest(job.store)
    BY <1>3, <1>5, <2>1 DEF EmbedManifest
  <2> QED
    BY <1>5, <2>2 DEF Next
<1> QED
  BY <1>1, <1>2, <1>4, <1>5

\* An error of remove_zip_entry is the answer of the call, whichever it is.
LEMMA RemoveRefuses ==
  ASSUME AtomInv, pc # "idle", LoopInv', NEW verdict,
         verdict = RemoveVerdict(doc, ManifestPath), verdict # "ok", Refuse(verdict)
  PROVE  AtomInv' /\ Next
<1>1. JobVerdict = verdict
  BY DEF JobVerdict, EmbedVerdict
<1> QED
  BY <1>1, ReturnsAtOnce

\* What it returns is the answer of remove_manifest; embed_manifest goes on.
LEMMA RemoveReturns ==
  ASSUME AtomInv, pc # "idle", LoopInv', NEW archive,
         RemoveVerdict(doc, ManifestPath) = "ok",
         archive = RemoveZipEntry(doc, ManifestPath), Removed(archive)
  PROVE  AtomInv' /\ [Next]_vars
<1>1. CASE job.op = "remove"
  <2>1. JobVerdict = "ok" /\ JobArchive = archive /\ Finish(archive)
    BY <1>1 DEF JobVerdict, JobArchive, Removed
  <2> QED
    BY <2>1, ReturnsAtOnce
<1>2. CASE job.op # "remove"
  <2>1. pc' = "insert" /\ base' = archive /\ UNCHANGED <<doc, call, job>>
    BY <1>2 DEF Removed
  <2>2. JobInv'
    BY <1>2, <2>1 DEF JobInv, Looping
  <2> QED
    BY <2>1, <2>2
    DEF AtomInv, CopyingInv, CopiedInv, OffsetsInv, InsertingInv, Looping, vars
<1> QED
  BY <1>1, <1>2

\* remove_zip_entry before its loops.
LEMMA ParseForRemoveRefines ==
  ASSUME AtomInv, ParseForRemove
  PROVE  AtomInv' /\ [Next]_vars
<1>1. LoopInv' /\ pc = "remove" /\ pc # "idle" /\ base = doc /\ base \in Archives
      /\ done = 0 /\ retained = <<>> /\ out = <<>>
  BY ParseForRemoveKeepsInv
  DEF AtomInv, JobInv, ParseForRemove, LoopInv, StepInv, RebuildTypeOK
<1>2. CASE ~Parses(base)
  <2>1. /\ Refuse(ParseVerdict(base)) /\ ParseVerdict(base) # "ok"
        /\ RemoveVerdict(doc, ManifestPath) = ParseVerdict(base)
    BY <1>1, <1>2 DEF ParseForRemove, RemoveVerdict, Parses
  <2> QED
    BY <1>1, <2>1, RemoveRefuses
<1>3. CASE Parses(base) /\ Named(base, ManifestPath) = {}
  <2>1. /\ Removed(base) /\ RemoveVerdict(doc, ManifestPath) = "ok"
        /\ RemoveZipEntry(doc, ManifestPath) = base
    BY <1>1, <1>3 DEF ParseForRemove, RemoveVerdict, RemoveZipEntry
  <2> QED
    BY <1>1, <2>1, RemoveReturns
<1>4. CASE Parses(base) /\ Named(base, ManifestPath) # {}
  <2>1. /\ pc' = "copy"
        /\ UNCHANGED <<doc, call, job, base, done, out, retained, newCdStart>>
    BY <1>4 DEF ParseForRemove, Continue
  <2>2. Len(retained) = 0 /\ 1 .. 0 = {} /\ Heads = <<>> /\ Seen = {} /\ Len(Heads) = 0
    BY <1>1 DEF Heads, Seen
  <2>3. Heads' = Heads /\ Seen' = Seen
    BY <2>1 DEF Heads, Seen, Ordered
  <2>4. ListsInOrder(base, Seen, Len(retained), Heads)
    BY <2>2 DEF ListsInOrder
  <2>5. out = Copied(base, Heads)[Len(retained)]
    <3>1. Copied(base, Heads)[0] = <<>>
      BY <2>2, CopiedStep
    <3>2. out = <<>>
      BY <1>1
    <3> QED
      BY <2>2, <3>1, <3>2
  <2>6. done <= Cardinality(Entries(base))
    BY <1>1, <1>4, EntriesFinite
  <2>7. CopyingInv'
    BY <1>1, <2>1, <2>2, <2>3, <2>4, <2>5, <2>6 DEF CopyingInv
  <2>8. OffsetsInv'
    BY <2>1, <2>2 DEF OffsetsInv
  <2>9. JobInv'
    BY <1>1, <1>4, <2>1 DEF AtomInv, JobInv, Looping
  <2> QED
    BY <1>1, <2>1, <2>7, <2>8, <2>9 DEF AtomInv, CopiedInv, InsertingInv, vars
<1> QED
  BY <1>2, <1>3, <1>4

\* What the copy loop works with.
LEMMA Copying ==
  ASSUME AtomInv, pc = "copy"
  PROVE  /\ base \in Archives /\ Parses(base) /\ base = doc
         /\ Named(base, ManifestPath) # {}
         /\ retained \in Seq([header : Nat, offset : U32]) /\ Len(retained) \in Nat
         /\ Len(Heads) = Len(retained)
         /\ \A k \in 1 .. Len(retained) : Heads[k] = retained[k].header
         /\ Cardinality(Entries(base)) \in Nat
         /\ done \in Nat /\ done <= Cardinality(Entries(base))
         /\ Ordered \in [1 .. Cardinality(Entries(base)) -> Entries(base)]
         /\ \A j, k \in 1 .. Cardinality(Entries(base)) :
              j < k <=> Before(base, Ordered[j], Ordered[k])
         /\ \A h \in Entries(base) :
              \E k \in 1 .. Cardinality(Entries(base)) : Ordered[k] = h
         /\ \A j \in 1 .. done : BindingVerdict(base, Ordered[j]) = "ok"
         /\ Seen \subseteq Entries(base)
         /\ \A h \in Seen : BindingVerdict(base, h) = "ok"
         /\ ~(Len(out) > U32Max)
<1>1. /\ base \in Archives /\ Parses(base) /\ base = doc /\ Named(base, ManifestPath) # {}
      /\ done \in Nat /\ done <= Cardinality(Entries(base))
      /\ \A j \in 1 .. done : BindingVerdict(base, Ordered[j]) = "ok"
      /\ ListsInOrder(base, Seen, Len(retained), Heads)
      /\ out = Copied(base, Heads)[Len(retained)]
      /\ retained \in Seq([header : Nat, offset : U32])
  BY DEF AtomInv, LoopInv, StepInv, RebuildTypeOK, JobInv, CopyingInv, Looping
<1>2. Len(retained) \in Nat
  BY <1>1, LenProperties
<1>3. /\ Len(Heads) = Len(retained)
      /\ \A k \in 1 .. Len(retained) : Heads[k] = retained[k].header
  BY <1>2 DEF Heads
<1>4. /\ Cardinality(Entries(base)) \in Nat
      /\ Ordered \in [1 .. Cardinality(Entries(base)) -> Entries(base)]
      /\ \A j, k \in 1 .. Cardinality(Entries(base)) :
           j < k <=> Before(base, Ordered[j], Ordered[k])
      /\ \A h \in Entries(base) :
           \E k \in 1 .. Cardinality(Entries(base)) : Ordered[k] = h
  BY <1>1, ArchiveOrder DEF Ordered
<1>5. Seen \subseteq Entries(base) /\ \A h \in Seen : BindingVerdict(base, h) = "ok"
  <2>1. \A j \in 1 .. done : j \in 1 .. Cardinality(Entries(base))
    BY <1>1, <1>4
  <2> QED
    BY <1>1, <1>4, <2>1 DEF Seen
<1>6. ~(Len(out) > U32Max)
  BY <1>1, <1>5, ListedFits
<1> QED
  BY <1>1, <1>2, <1>3, <1>4, <1>5, <1>6

\* An entry of the copy loop: skipped, copied, or the first that cannot be
\* bound, which is the error the call answers with.
LEMMA CopyEntryRefines ==
  ASSUME AtomInv, CopyEntry
  PROVE  AtomInv' /\ [Next]_vars
<1> DEFINE n == Cardinality(Entries(base))
           m == Len(retained)
<1>1. LoopInv' /\ pc = "copy" /\ pc # "idle" /\ done < n
  BY CopyEntryKeepsInv DEF AtomInv, CopyEntry
<1>2. /\ base \in Archives /\ Parses(base) /\ base = doc
      /\ Named(base, ManifestPath) # {}
      /\ retained \in Seq([header : Nat, offset : U32]) /\ m \in Nat
      /\ Len(Heads) = m
      /\ \A k \in 1 .. m : Heads[k] = retained[k].header
      /\ n \in Nat /\ done \in Nat
      /\ Ordered \in [1 .. n -> Entries(base)]
      /\ \A j, k \in 1 .. n : j < k <=> Before(base, Ordered[j], Ordered[k])
      /\ \A j \in 1 .. done : BindingVerdict(base, Ordered[j]) = "ok"
      /\ ~(Len(out) > U32Max)
  BY <1>1, Copying
<1>3. /\ Entry = Ordered[done + 1] /\ done + 1 \in 1 .. n /\ Entry \in Entries(base)
      /\ 1 .. (done + 1) = (1 .. done) \cup {done + 1}
      /\ \A j \in 1 .. done : j \in 1 .. n /\ j < done + 1
  BY <1>1, <1>2 DEF Entry, Ordered
<1>4. CASE BindingVerdict(base, Entry) # "ok"
  <2>1. Refuse(BindingVerdict(base, Entry))
    BY <1>4 DEF CopyEntry
  <2>2. RefusesAt(base, done + 1)
    <3>1. done + 1 - 1 = done
      BY <1>2
    <3> QED
      BY <1>2, <1>3, <1>4, <3>1 DEF RefusesAt, Ordered
  <2>3. RemoveVerdict(base, ManifestPath) = BindingVerdict(base, Entry)
    BY <1>2, <1>3, <2>2, FirstRefused DEF Ordered
  <2> QED
    BY <1>1, <1>2, <1>4, <2>1, <2>3, RemoveRefuses
<1>5. CASE BindingVerdict(base, Entry) = "ok" /\ At(base, Entry).name = ManifestPath
  <2>1. /\ done' = done + 1 /\ pc' = "copy"
        /\ UNCHANGED <<doc, call, job, base, out, retained, newCdStart>>
    BY <1>5 DEF CopyEntry, Skip, Continue
  <2>2. Entry \in Named(base, ManifestPath)
    BY <1>3, <1>5 DEF Named
  <2>3. Heads' = Heads /\ Ordered' = Ordered
    BY <2>1 DEF Heads, Ordered
  <2>4. Seen' = Seen
    <3>1. Seen' = {Ordered[j] : j \in 1 .. (done + 1)} \ Named(base, ManifestPath)
      BY <2>1, <2>3 DEF Seen
    <3> QED
      BY <1>3, <2>2, <3>1 DEF Seen
  <2>5. done' <= n /\ \A j \in 1 .. done' : BindingVerdict(base, Ordered[j]) = "ok"
    BY <1>1, <1>2, <1>3, <1>5, <2>1
  <2>6. CopyingInv'
    BY <1>1, <2>1, <2>3, <2>4, <2>5 DEF AtomInv, CopyingInv
  <2>7. OffsetsInv'
    BY <1>1, <2>1, <2>3 DEF AtomInv, OffsetsInv, Looping
  <2>8. JobInv'
    BY <1>1, <2>1 DEF AtomInv, JobInv, Looping
  <2> QED
    BY <1>1, <2>1, <2>6, <2>7, <2>8 DEF AtomInv, CopiedInv, InsertingInv, vars
<1>6. CASE BindingVerdict(base, Entry) = "ok" /\ At(base, Entry).name # ManifestPath
  <2> DEFINE r == [header |-> Entry, offset |-> Len(out)]
             t == [k \in 1 .. m + 1 |-> IF k = m + 1 THEN Entry ELSE Heads[k]]
  <2>1. /\ done' = done + 1 /\ pc' = "copy"
        /\ out' = out \o EntryCells(base, Entry)
        /\ retained' = Append(retained, r)
        /\ UNCHANGED <<doc, call, job, base, newCdStart>>
    BY <1>2, <1>6 DEF CopyEntry, Copy, Continue
  <2>2. /\ Len(retained') = m + 1 /\ retained'[m + 1] = r
        /\ \A k \in 1 .. m : retained'[k] = retained[k]
    BY <1>2, <2>1
  <2>3. Heads' = t
    <3>1. Heads' = [k \in 1 .. m + 1 |-> retained'[k].header]
      BY <2>2 DEF Heads
    <3>2. ASSUME NEW k \in 1 .. m + 1
          PROVE  retained'[k].header = t[k]
      <4>1. CASE k = m + 1
        BY <2>2, <4>1
      <4>2. CASE k # m + 1
        <5>1. k \in 1 .. m
          BY <1>2, <4>2
        <5> QED
          BY <1>2, <2>2, <4>2, <5>1
      <4> QED
        BY <4>1, <4>2
    <3> QED
      BY <3>1, <3>2
  <2>4. Ordered' = Ordered
    BY <2>1 DEF Ordered
  <2>5. Entry \notin Named(base, ManifestPath)
    BY <1>6 DEF Named
  <2>6. Seen' = Seen \cup {Entry}
    <3>1. Seen' = {Ordered[j] : j \in 1 .. (done + 1)} \ Named(base, ManifestPath)
      BY <2>1, <2>4 DEF Seen
    <3> QED
      BY <1>3, <2>5, <3>1 DEF Seen
  <2>7. /\ ListsInOrder(base, Seen, m, Heads) /\ out = Copied(base, Heads)[m]
        /\ \A k \in 1 .. m : retained[k].offset = Len(Copied(base, Heads)[k - 1])
    BY <1>1 DEF AtomInv, CopyingInv, OffsetsInv, Looping
  <2>8. \A g \in Seen : Before(base, g, Entry)
    BY <1>2, <1>3 DEF Seen
  <2>9. ListsInOrder(base, Seen \cup {Entry}, m + 1, t)
    BY <2>7, <2>8, ListGrows
  <2>10. Len(t) = m + 1 /\ t[m + 1] = Entry /\ \A k \in 1 .. m : t[k] = Heads[k]
    BY <1>2
  <2> HIDE DEF t, m, n
  <2>11. /\ \A k \in 0 .. m : Copied(base, t)[k] = Copied(base, Heads)[k]
         /\ Copied(base, t)[m + 1] = Copied(base, Heads)[m] \o EntryCells(base, Entry)
    <3>1. LongerByOne(Heads, t)
      BY <1>2, <2>10 DEF LongerByOne
    <3>2. /\ \A k \in 0 .. Len(Heads) : Copied(base, t)[k] = Copied(base, Heads)[k]
          /\ Copied(base, t)[Len(t)]
               = Copied(base, Heads)[Len(Heads)] \o EntryCells(base, t[Len(t)])
      BY <3>1, CopiedGrows, ZenonT(30)
    <3> QED
      BY <1>2, <2>10, <3>2
  <2>12. ASSUME NEW k \in 1 .. m + 1
         PROVE  retained'[k].offset = Len(Copied(base, t)[k - 1])
    <3>1. CASE k = m + 1
      <4>1. k - 1 = m /\ m \in 0 .. m
        BY <1>2, <3>1
      <4> QED
        BY <2>2, <2>7, <2>11, <3>1, <4>1
    <3>2. CASE k # m + 1
      <4>1. k \in 1 .. m /\ k - 1 \in 0 .. m
        BY <1>2, <3>2
      <4> QED
        BY <2>2, <2>7, <2>11, <4>1
    <3> QED
      BY <3>1, <3>2
  <2>13. done' <= n /\ \A j \in 1 .. done' : BindingVerdict(base, Ordered[j]) = "ok"
    BY <1>1, <1>2, <1>3, <1>6, <2>1
  <2>14. CopyingInv'
    BY <2>1, <2>2, <2>3, <2>4, <2>6, <2>7, <2>9, <2>11, <2>13 DEF CopyingInv, n
  <2>15. OffsetsInv'
    BY <2>1, <2>2, <2>3, <2>12 DEF OffsetsInv
  <2>16. JobInv'
    BY <1>1, <2>1 DEF AtomInv, JobInv, Looping
  <2> QED
    BY <1>1, <2>1, <2>14, <2>15, <2>16 DEF AtomInv, CopiedInv, InsertingInv, vars
<1> QED
  BY <1>4, <1>5, <1>6

\* All entries have been handled, and none refused: the data is complete.
LEMMA EndCopyRefines ==
  ASSUME AtomInv, EndCopy
  PROVE  AtomInv' /\ [Next]_vars
<1> DEFINE n == Cardinality(Entries(base))
<1>1. LoopInv' /\ pc = "copy" /\ pc # "idle" /\ done = n
  BY EndCopyKeepsInv DEF AtomInv, EndCopy
<1>2. /\ ~(Len(out) > U32Max) /\ out \in Archives
      /\ Ordered \in [1 .. n -> Entries(base)]
      /\ \A h \in Entries(base) : \E k \in 1 .. n : Ordered[k] = h
      /\ \A j \in 1 .. done : BindingVerdict(base, Ordered[j]) = "ok"
  BY <1>1, Copying DEF AtomInv, LoopInv, StepInv, RebuildTypeOK
<1>3. /\ ListsInOrder(base, Seen, Len(retained), Heads)
      /\ out = Copied(base, Heads)[Len(retained)]
  BY <1>1 DEF AtomInv, CopyingInv
<1>4. /\ newCdStart' = Len(out) /\ done' = 0 /\ pc' = "directory"
      /\ UNCHANGED <<doc, call, job, base, out, retained>>
  BY <1>2 DEF EndCopy, Continue
<1>5. Seen = Kept(base, ManifestPath)
  <2>1. {Ordered[j] : j \in 1 .. done} = Entries(base)
    BY <1>1, <1>2
  <2> QED
    BY <2>1 DEF Seen, Kept
<1>6. \A h \in Entries(base) : BindingVerdict(base, h) = "ok"
  BY <1>1, <1>2
<1>7. Heads' = Heads
  BY <1>4 DEF Heads
<1>8. Slice(out, 0, Len(out)) = out
  BY <1>2, WholeSlice
<1>9. CopiedInv'
  BY <1>3, <1>4, <1>5, <1>6, <1>7, <1>8 DEF CopiedInv
<1>10. OffsetsInv'
  BY <1>1, <1>4, <1>7 DEF AtomInv, OffsetsInv, Looping
<1>11. JobInv'
  BY <1>1, <1>4 DEF AtomInv, JobInv, Looping
<1> QED
  BY <1>1, <1>4, <1>9, <1>10, <1>11 DEF AtomInv, CopyingInv, InsertingInv, vars

\* A header more behind the data.
LEMMA CopyHeaderRefines ==
  ASSUME AtomInv, CopyHeader
  PROVE  AtomInv' /\ [Next]_vars
<1> DEFINE r == retained[done + 1]
           c == [At(base, r.header) EXCEPT !.offset = r.offset]
<1>1. LoopInv' /\ pc = "directory"
  BY CopyHeaderKeepsInv DEF AtomInv, CopyHeader
<1>2. /\ base \in Archives /\ Parses(base) /\ out \in Archives
      /\ done \in Nat /\ done < Len(retained) /\ newCdStart \in Nat
      /\ retained \in Seq([header : Nat, offset : U32]) /\ Len(retained) \in Nat
      /\ Len(out) = newCdStart + done
  BY <1>1, LenProperties
  DEF AtomInv, LoopInv, StepInv, HeadersInv, RebuildTypeOK, CopyHeader, Looping
<1>3. <<c>> \in Archives /\ c \in Cells
  <2>1. done + 1 \in 1 .. Len(retained) /\ DOMAIN retained = 1 .. Len(retained)
    BY <1>2
  <2>2. r.header \in Entries(base)
    BY <1>1, <2>1 DEF AtomInv, LoopInv, CopiesInv, Looping
  <2>3. r.offset \in U32
    <3>1. r \in [header : Nat, offset : U32]
      BY <1>2, <2>1, ElementOfSeq
    <3> QED
      BY <3>1
  <2> QED
    BY <1>2, <2>2, <2>3, MovedHeader, OneCell
<1>4. /\ pc' = "directory" /\ done' = done + 1 /\ out' = Append(out, c)
      /\ UNCHANGED <<doc, call, job, base, retained, newCdStart>>
  BY DEF CopyHeader, Continue
<1> HIDE DEF c
<1>5. out' = out \o <<c>>
  BY <1>2, <1>3, <1>4, AppendIsConcat DEF Archives
<1>6. Slice(out', 0, newCdStart) = Slice(out, 0, newCdStart)
  <2>1. \A from, to \in Nat :
          from <= to /\ to <= Len(out) => Slice(out \o <<c>>, from, to) = Slice(out, from, to)
    BY <1>2, <1>3, AppendedAfter
  <2>2. 0 \in Nat /\ 0 <= newCdStart /\ newCdStart <= Len(out)
    BY <1>2
  <2> QED
    BY <1>2, <1>5, <2>1, <2>2, Zenon
<1>7. Heads' = Heads
  BY <1>4 DEF Heads
<1>8. CopiedInv'
  BY <1>1, <1>4, <1>6, <1>7 DEF AtomInv, CopiedInv
<1>9. OffsetsInv'
  BY <1>1, <1>4, <1>7 DEF AtomInv, OffsetsInv, Looping
<1>10. JobInv'
  BY <1>1, <1>4 DEF AtomInv, JobInv, Looping
<1> QED
  BY <1>1, <1>4, <1>8, <1>9, <1>10 DEF AtomInv, CopyingInv, InsertingInv, vars

\* dir is the headers hs of b in the order of s, with other offsets.
Relocates(dir, b, hs, m, s) ==
  /\ b \in Archives /\ Parses(b) /\ hs \subseteq Entries(b)
  /\ m \in Nat /\ ListsInOrder(b, hs, m, s)
  /\ dir \in Archives /\ Len(dir) = m
  /\ \A k \in 1 .. m : \E at : dir[k] = [At(b, s[k]) EXCEPT !.offset = at]

\* Such headers have the sizes of those they were copied from.
LEMMA HeadersMeasured ==
  ASSUME NEW dir, NEW b, NEW hs, NEW m, NEW s, Relocates(dir, b, hs, m, s)
  PROVE  SizeOf(dir, 0 .. Len(dir) - 1) = SizeOf(b, hs)
<1> DEFINE ps == 0 .. m - 1
           f  == [p \in ps |-> s[p + 1]]
<1> USE DEF Relocates
<1>1. /\ s \in [1 .. m -> hs]
      /\ \A j, k \in 1 .. m : j < k => Before(b, s[j], s[k])
      /\ \A h \in hs : \E k \in 1 .. m : s[k] = h
  BY DEF ListsInOrder
<1>2. \A h \in Entries(b) : ~Before(b, h, h) /\ At(b, h) \in CdHeaders
  BY EntryProperties DEF Before
<1>3. ASSUME NEW j \in 1 .. m, NEW k \in 1 .. m, s[j] = s[k]
      PROVE  j = k
  <2>1. s[j] \in Entries(b) /\ ~(j < k) /\ ~(k < j)
    BY <1>1, <1>2, <1>3
  <2> QED
    BY <2>1
<1>4. \A p \in ps : p + 1 \in 1 .. m
  OBVIOUS
<1>5. f \in Bijection(ps, hs)
  <2>1. \A p \in ps : s[p + 1] \in hs
    BY <1>1, <1>4
  <2>2. \A p, q \in ps : s[p + 1] = s[q + 1] => p = q
    <3> SUFFICES ASSUME NEW p \in ps, NEW q \in ps, s[p + 1] = s[q + 1]
                 PROVE  p = q
      OBVIOUS
    <3>1. p + 1 = q + 1
      BY <1>3, <1>4
    <3> QED
      BY <3>1
  <2>3. ASSUME NEW h \in hs
        PROVE  \E p \in ps : s[p + 1] = h
    <3>1. PICK k \in 1 .. m : s[k] = h
      BY <1>1
    <3>2. k - 1 \in ps /\ k - 1 + 1 = k
      OBVIOUS
    <3> QED
      BY <3>1, <3>2
  <2> HIDE DEF ps
  <2> QED
    BY <2>1, <2>2, <2>3 DEF Bijection, Injection, Surjection, IsInjective
<1>6. ASSUME NEW p \in ps
      PROVE  CellSize(b, f[p]) = CellSize(dir, p)
  <2>1. PICK at : dir[p + 1] = [At(b, s[p + 1]) EXCEPT !.offset = at]
    BY <1>4
  <2>2. At(b, s[p + 1]) \in CdHeaders
    BY <1>1, <1>2, <1>4
  <2>3. At(dir, p) = [At(b, f[p]) EXCEPT !.offset = at]
    BY <2>1 DEF At
  <2> QED
    BY <2>2, <2>3 DEF CellSize, CdHeaders
<1>7. ps \subseteq 0 .. Len(dir) - 1
  OBVIOUS
<1> HIDE DEF ps, f
<1>8. SizeOf(b, hs) = SizeOf(dir, ps)
  <2>1. SameSizes(dir, ps, b, hs, f)
    BY <1>5, <1>6, <1>7 DEF SameSizes
  <2> QED
    BY <2>1, SizeMoved
<1> QED
  BY <1>8 DEF ps

\* The data and the headers written are RemoveZipEntry's, of the size the call
\* at once refuses if it is too large: the loops end with its verdict and its
\* archive.
LEMMA EndDirectoryRefines ==
  ASSUME AtomInv, EndDirectory
  PROVE  AtomInv' /\ [Next]_vars
<1> DEFINE m == Len(retained)
           kept == InArchiveOrder(base, Kept(base, ManifestPath))
           copied == Copied(base, kept)
           header(k) == [At(base, kept[k]) EXCEPT !.offset = Len(copied[k - 1])]
           dir == [k \in 1 .. m |-> header(k)]
           size == SizeOf(out, newCdStart .. Len(out) - 1)
           eocd == Eocd(m, size, newCdStart)
<1>1. LoopInv' /\ pc = "directory" /\ pc # "idle" /\ done = m
  BY EndDirectoryKeepsInv DEF AtomInv, EndDirectory
<1>2. /\ base \in Archives /\ Parses(base) /\ base = doc /\ out \in Archives
      /\ Named(base, ManifestPath) # {}
      /\ newCdStart \in Nat /\ newCdStart <= U32Max /\ m \in Nat
      /\ Len(out) = newCdStart + m
      /\ \A k \in 1 .. m : At(out, newCdStart + k - 1)
           = [At(base, retained[k].header) EXCEPT !.offset = retained[k].offset]
  BY <1>1, LenProperties
  DEF AtomInv, LoopInv, StepInv, HeadersInv, JobInv, RebuildTypeOK, Looping
<1>3. /\ \A h \in Entries(base) : BindingVerdict(base, h) = "ok"
      /\ ListsInOrder(base, Kept(base, ManifestPath), m, Heads)
      /\ newCdStart = Len(Copied(base, Heads)[m])
      /\ Slice(out, 0, newCdStart) = Copied(base, Heads)[m]
      /\ \A k \in 1 .. m : retained[k].offset = Len(Copied(base, Heads)[k - 1])
  BY <1>1 DEF AtomInv, CopiedInv, OffsetsInv, Looping
<1>4. Kept(base, ManifestPath) \subseteq Entries(base)
  BY DEF Kept
<1>5. m = Cardinality(Kept(base, ManifestPath)) /\ kept = Heads
  BY <1>2, <1>3, <1>4, OrderIsUnique
<1>6. Len(kept) = m /\ \A k \in 1 .. m : kept[k] = retained[k].header
  <2>1. Heads = [k \in 1 .. m |-> retained[k].header]
    BY DEF Heads
  <2> QED
    BY <1>2, <1>5, <2>1
<1>7. /\ newCdStart = Len(copied[m]) /\ Slice(out, 0, newCdStart) = copied[m]
      /\ \A k \in 1 .. m : At(out, newCdStart + k - 1) = header(k)
  BY <1>2, <1>3, <1>5, <1>6
<1>8. m <= U16Max
  <2>1. /\ Cardinality(Kept(base, ManifestPath)) <= Cardinality(Entries(base))
        /\ Cardinality(Entries(base)) \in U16
    BY <1>2, <1>4, BeforeOrders, EntriesFinite, ParsedRecord
  <2> QED
    BY <1>2, <1>5, <2>1, FieldsAreNaturals DEF U16
<1>9. ~(m > U16Max)
  BY <1>2, <1>8, FieldsAreNaturals
<1> HIDE DEF kept, copied, header
<1>10. Slice(out, newCdStart, Len(out)) = dir
  <2> DEFINE s == Slice(out, newCdStart, Len(out))
  <2>1. newCdStart <= Len(out) /\ Len(out) <= Len(out) /\ Len(out) \in Nat
    BY <1>2
  <2>2. s \in Archives /\ Len(s) = m
    BY <1>2, <1>9, <2>1, SliceProperties
  <2>3. s = [k \in 1 .. m |-> s[k]]
    BY <2>2, SeqDef DEF Archives
  <2>4. ASSUME NEW k \in 1 .. m
        PROVE  s[k] = header(k)
    <3> DEFINE i == k - 1
    <3>1. /\ i \in Nat /\ newCdStart + i < Len(out) /\ k = i + 1
          /\ newCdStart + k - 1 = newCdStart + i
      BY <1>2
    <3> HIDE DEF i
    <3>2. s[i + 1] = At(out, newCdStart + i)
      BY <1>2, <2>1, <3>1, SliceAt
    <3> QED
      BY <1>7, <3>1, <3>2
  <2> QED
    BY <2>3, <2>4
<1>11. out = copied[m] \o dir
  <2> DEFINE z == 0
  <2>1. z \in Nat /\ z <= newCdStart /\ newCdStart <= Len(out) /\ Len(out) <= Len(out)
        /\ Len(out) \in Nat /\ z = 0
    BY <1>2
  <2> HIDE DEF z
  <2>2. Slice(out, z, newCdStart) \o Slice(out, newCdStart, Len(out)) = Slice(out, z, Len(out))
    <3>1. /\ out \in Archives /\ z \in Nat /\ newCdStart \in Nat /\ Len(out) \in Nat
          /\ z <= newCdStart /\ newCdStart <= Len(out) /\ Len(out) <= Len(out)
      BY <1>2, <2>1
    <3> QED
      BY <3>1, SlicesJoin
  <2> QED
    BY <1>2, <1>7, <1>10, <2>1, <2>2, WholeSlice
<1>12. size = SizeOf(base, Kept(base, ManifestPath))
  <2>1. dir \in Archives /\ Len(dir) = m
    <3>1. newCdStart <= Len(out) /\ Len(out) <= Len(out) /\ Len(out) \in Nat
      BY <1>2
    <3>2. /\ Slice(out, newCdStart, Len(out)) \in Archives
          /\ Len(Slice(out, newCdStart, Len(out))) = Len(out) - newCdStart
      BY <1>2, <3>1, SliceProperties
    <3> HIDE DEF dir
    <3> QED
      BY <1>2, <1>10, <3>2
  <2>2. \A k \in 1 .. m : dir[k] = [At(base, Heads[k]) EXCEPT !.offset = Len(copied[k - 1])]
    BY <1>5 DEF header
  <2> HIDE DEF dir
  <2>3. SizeOf(dir, 0 .. Len(dir) - 1) = SizeOf(base, Kept(base, ManifestPath))
    <3>1. Relocates(dir, base, Kept(base, ManifestPath), m, Heads)
      BY <1>2, <1>3, <1>4, <2>1, <2>2 DEF Relocates
    <3> QED
      BY <3>1, HeadersMeasured
  <2>4. SizeOf(out, newCdStart .. newCdStart + m - 1) = SizeOf(dir, 0 .. 0 + m - 1)
    <3>1. copied[m] \in Archives
      BY <1>2, <1>7, SliceProperties
    <3>2. \A i \in Nat : i < m => At(out, newCdStart + i) = At(dir, 0 + i)
      <4> SUFFICES ASSUME NEW i \in Nat, i < m
                   PROVE  At(out, newCdStart + i) = At(dir, i)
        OBVIOUS
      <4>1. At(copied[m] \o dir, Len(copied[m]) + i) = At(dir, i)
        BY <2>1, <3>1, AppendedCells
      <4> QED
        BY <1>7, <1>11, <4>1
    <3>3. 0 \in Nat /\ 0 + m <= Len(dir)
      BY <1>2, <2>1
    <3>4. Repeats(dir, 0, out, newCdStart, m)
      BY <1>2, <2>1, <3>2, <3>3 DEF Repeats
    <3> QED
      BY <3>4, SizeShifted
  <2>5. Len(out) - 1 = newCdStart + m - 1 /\ 0 + m - 1 = Len(dir) - 1
    BY <1>2, <2>1
  <2> QED
    BY <2>3, <2>4, <2>5
<1>13. size \in Nat /\ U32Max \in Nat
  BY <1>2, WrittenSizeIsNatural, FieldsAreNaturals
<1>14. {h \in Entries(base) : BindingVerdict(base, h) # "ok"} = {}
  BY <1>3
<1> HIDE DEF size
<1>15. CASE size > U32Max
  <2>1. RemoveVerdict(doc, ManifestPath) = "Truncated"
    BY <1>2, <1>12, <1>14, <1>15 DEF RemoveVerdict
  <2>2. Refuse("Truncated")
    BY <1>15 DEF EndDirectory, size
  <2> QED
    BY <1>1, <2>1, <2>2, RemoveRefuses
<1>16. CASE ~(size > U32Max)
  <2>1. Append(out, eocd) = out \o <<eocd>>
    <3>1. eocd \in Cells
      <4>1. m \in U16 /\ size \in U32 /\ newCdStart \in U32
        BY <1>2, <1>8, <1>13, <1>16, FieldsAreNaturals DEF U16, U32
      <4> QED
        BY <4>1, EocdType
    <3> HIDE DEF eocd
    <3> QED
      BY <1>2, <3>1, AppendIsConcat DEF Archives
  <2>2. RemoveZipEntry(base, ManifestPath) = copied[m] \o dir \o <<eocd>>
    BY <1>2, <1>6, <1>7, <1>12 DEF RemoveZipEntry, kept, copied, header
  <2>3. Append(out, eocd) = RemoveZipEntry(doc, ManifestPath)
    BY <1>2, <1>11, <2>1, <2>2
  <2>4. RemoveVerdict(doc, ManifestPath) = "ok"
    BY <1>2, <1>12, <1>14, <1>16 DEF RemoveVerdict
  <2>5. Removed(Append(out, eocd))
    BY <1>9, <1>16 DEF EndDirectory, size
  <2> QED
    BY <1>1, <2>3, <2>4, <2>5, RemoveReturns
<1> QED
  BY <1>15, <1>16

\* What insert_zip_entry works with, and what the call answers from here on.
LEMMA Inserting ==
  ASSUME AtomInv, pc \in {"insert", "append", "close"}
  PROVE  /\ pc # "idle" /\ ~Looping /\ base \in Archives
         /\ job.store \in Payloads
         /\ JobVerdict = InsertVerdict(base, ManifestPath, job.store)
         /\ JobArchive = InsertZipEntry(base, ManifestPath, job.store)
         /\ Parses(base) => /\ CdStart(base) \in U32
                            /\ ~(CdStart(base) > U32Max)
<1>1. /\ pc # "idle" /\ ~Looping /\ base \in Archives
      /\ job.op = "embed" /\ job.store \in Payloads
      /\ RemoveVerdict(doc, ManifestPath) = "ok"
      /\ base = RemoveZipEntry(doc, ManifestPath)
  BY DEF AtomInv, LoopInv, StepInv, JobInv, RebuildTypeOK, Looping
<1>2. /\ JobVerdict = InsertVerdict(base, ManifestPath, job.store)
      /\ JobArchive = InsertZipEntry(base, ManifestPath, job.store)
  BY <1>1 DEF JobVerdict, JobArchive, EmbedVerdict, Embed
<1>3. ASSUME Parses(base)
      PROVE  CdStart(base) \in U32 /\ ~(CdStart(base) > U32Max)
  <2>1. CdStart(base) \in U32
    BY <1>1, <1>3, ParsedRecord
  <2> QED
    BY <2>1, FieldsAreNaturals DEF U32
<1> QED
  BY <1>1, <1>2, <1>3

\* The new file goes behind the data.
LEMMA InsertFileRefines ==
  ASSUME AtomInv, InsertFile
  PROVE  AtomInv' /\ [Next]_vars
<1>1. LoopInv' /\ pc = "insert"
  BY InsertKeepsInv DEF AtomInv, InsertFile
<1>2. /\ pc # "idle" /\ JobVerdict = InsertVerdict(base, ManifestPath, job.store)
      /\ Parses(base) => ~(CdStart(base) > U32Max)
  BY <1>1, Inserting
<1>3. CASE ~Parses(base)
  <2>1. /\ Refuse(ParseVerdict(base)) /\ ParseVerdict(base) # "ok"
        /\ JobVerdict = ParseVerdict(base)
    BY <1>2, <1>3 DEF InsertFile, InsertVerdict, Parses
  <2> QED
    BY <1>1, <1>2, <2>1, ReturnsAtOnce
<1>4. CASE Parses(base) /\ Len(job.store) > U32Max
  <2>1. Refuse("Truncated") /\ JobVerdict = "Truncated"
    BY <1>2, <1>4 DEF InsertFile, InsertVerdict
  <2> QED
    BY <1>1, <1>2, <2>1, ReturnsAtOnce
<1>5. CASE Parses(base) /\ ~(Len(job.store) > U32Max)
  <2>1. /\ out' = InsertedData(base, job.store) /\ pc' = "append"
        /\ UNCHANGED <<doc, call, job, base>>
    BY <1>2, <1>5 DEF InsertFile, InsertedData, Continue
  <2>2. InsertingInv'
    BY <2>1 DEF InsertingInv
  <2>3. JobInv'
    BY <1>1, <2>1 DEF AtomInv, JobInv, Looping
  <2> QED
    BY <1>1, <2>1, <2>2, <2>3
    DEF AtomInv, CopyingInv, CopiedInv, OffsetsInv, Looping, vars
<1> QED
  BY <1>3, <1>4, <1>5

\* The old directory and the new header go behind it, if it does not end too
\* late for them.
LEMMA AppendDirectoryRefines ==
  ASSUME AtomInv, AppendDirectory
  PROVE  AtomInv' /\ [Next]_vars
<1> DEFINE old == Slice(base, CdStart(base), EocdOffset(base))
           header == CdHeader(ManifestPath, Crc(job.store), Len(job.store),
                              CdStart(base))
<1>1. /\ LoopInv' /\ pc = "append" /\ out \in Archives /\ Parses(base)
      /\ Len(job.store) <= U32Max /\ out = InsertedData(base, job.store)
  BY InsertKeepsInv
  DEF AtomInv, LoopInv, StepInv, RebuildTypeOK, InsertingInv, AppendDirectory
<1>2. /\ pc # "idle" /\ base \in Archives /\ job.store \in Payloads
      /\ JobVerdict = InsertVerdict(base, ManifestPath, job.store)
      /\ CdStart(base) \in U32
  BY <1>1, Inserting
<1>3. ~(Len(job.store) > U32Max) /\ Len(job.store) \in U32 /\ Crc(job.store) \in U32
  <2>1. Len(job.store) \in Nat
    BY <1>2, PayloadAssumption, ArchiveLength
  <2> QED
    BY <1>1, <1>2, <2>1, PayloadAssumption, FieldsAreNaturals DEF U32
<1>4. CASE Len(out) > U32Max
  <2>1. Refuse("Zip64Unsupported") /\ JobVerdict = "Zip64Unsupported"
    BY <1>1, <1>2, <1>3, <1>4 DEF AppendDirectory, InsertVerdict
  <2> QED
    BY <1>1, <1>2, <2>1, ReturnsAtOnce
<1>5. CASE ~(Len(out) > U32Max)
  <2>1. /\ newCdStart' = Len(out) /\ out' = out \o old \o <<header>>
        /\ pc' = "close" /\ UNCHANGED <<doc, call, job, base>>
    BY <1>5 DEF AppendDirectory, Continue
  <2>2. old \in Archives
    <3>1. /\ CdStart(base) \in Nat /\ EocdOffset(base) \in Nat /\ Len(base) \in Nat
          /\ CdStart(base) <= EocdOffset(base) /\ EocdOffset(base) < Len(base)
      BY <1>1, <1>2, ParsedLayout, ArchiveLength
    <3>2. EocdOffset(base) <= Len(base)
      BY <3>1
    <3> QED
      BY <1>2, <3>1, <3>2, SliceProperties
  <2>3. <<header>> \in Archives
    <3>1. 0 \in U16
      BY FieldsAreNaturals DEF U16
    <3>2. header \in CdHeaders
      BY <1>2, <1>3, <3>1, NameAssumption DEF CdHeader, CdHeaders
    <3>3. header \in Cells
      BY <3>2 DEF Cells
    <3> QED
      BY <3>3, OneCell
  <2>4. InsertedDirectory(base, ManifestPath, job.store) = old \o <<header>>
    BY DEF InsertedDirectory
  <2> HIDE DEF old, header
  <2>5. out' = out \o (old \o <<header>>)
    BY <1>1, <2>1, <2>2, <2>3 DEF Archives
  <2>6. InsertingInv'
    BY <1>1, <2>1, <2>4, <2>5 DEF InsertingInv
  <2>7. JobInv'
    BY <1>1, <2>1 DEF AtomInv, JobInv, Looping
  <2> QED
    BY <1>1, <2>1, <2>6, <2>7
    DEF AtomInv, CopyingInv, CopiedInv, OffsetsInv, Looping, vars
<1> QED
  BY <1>4, <1>5

\* The bytes InsertVerdict counts are those of the directory it writes.
LEMMA DirectoryMeasured ==
  ASSUME NEW b \in Archives, Parses(b), NEW content \in Payloads, Len(content) <= U32Max
  PROVE  LET dir == InsertedDirectory(b, ManifestPath, content)
         IN SizeOf(dir, 0 .. Len(dir) - 1) = InsertedSize(b, ManifestPath)
<1> DEFINE s    == CdStart(b)
           n    == EocdOffset(b) - CdStart(b)
           old  == Slice(b, s, EocdOffset(b))
           last == CdHeader(ManifestPath, Crc(content), Len(content), s)
           dir  == InsertedDirectory(b, ManifestPath, content)
<1>1. /\ s \in Nat /\ n \in Nat /\ EocdOffset(b) \in Nat /\ Len(b) \in Nat
      /\ s + n = EocdOffset(b) /\ s <= EocdOffset(b) /\ EocdOffset(b) <= Len(b)
  BY ParsedLayout, ArchiveLength
<1>2. old \in Archives /\ Len(old) = n
  BY <1>1, SliceProperties
<1>3. last \in Cells
  <2>1. /\ Len(content) \in U32 /\ Crc(content) \in U32 /\ s \in U32 /\ 0 \in U16
    BY PayloadAssumption, ArchiveLength, ParsedRecord, FieldsAreNaturals DEF U16, U32
  <2>2. last \in CdHeaders
    BY <2>1, NameAssumption DEF CdHeader, CdHeaders
  <2> QED
    BY <2>2 DEF Cells
<1>4. CellSize(<<last>>, 0) = CdHeaderLen(ManifestPath)
  BY DEF CellSize, At, CdHeader
<1>5. dir = old \o <<last>>
  BY DEF InsertedDirectory
<1> HIDE DEF last, dir
<1>6. <<last>> \in Archives /\ Len(<<last>>) = 1
  BY <1>3, OneCell
<1>7. /\ dir \in Archives /\ Len(dir) = n + 1
      /\ \A p \in Nat : p < n => At(dir, p) = At(old, p)
      /\ At(dir, n + 0) = At(<<last>>, 0)
  <2>1. /\ dir \in Archives /\ Len(dir) = n + 1
        /\ \A p \in Nat : p < n => At(dir, p) = At(old, p)
    BY <1>2, <1>5, <1>6, AppendedAfter
  <2>2. 0 \in Nat /\ 0 < Len(<<last>>)
    BY <1>6
  <2>3. At(dir, n + 0) = At(<<last>>, 0)
    BY <1>2, <1>5, <1>6, <2>2, AppendedCells
  <2> QED
    BY <2>1, <2>3
<1>8. \A p \in Nat : p < n => At(dir, 0 + p) = At(b, s + p)
  <2> SUFFICES ASSUME NEW p \in Nat, p < n
               PROVE  At(dir, 0 + p) = At(b, s + p)
    OBVIOUS
  <2>1. s + p < EocdOffset(b)
    BY <1>1
  <2>2. old[p + 1] = At(b, s + p)
    BY <1>1, <2>1, SliceAt
  <2>3. At(old, p) = At(b, s + p) /\ 0 + p = p
    BY <2>2 DEF At
  <2> QED
    BY <1>7, <2>3
<1> HIDE DEF old, n, s
<1>9. SizeOf(dir, 0 .. 0 + n - 1) = SizeOf(b, s .. s + n - 1)
  <2>1. 0 \in Nat /\ s + n <= Len(b)
    BY <1>1
  <2>2. Repeats(b, s, dir, 0, n)
    BY <1>1, <1>8, <2>1 DEF Repeats
  <2> QED
    BY <2>2, SizeShifted
<1>10. SizeOf(dir, (0 .. n - 1) \cup {n}) = SizeOf(dir, 0 .. n - 1) + CellSize(dir, n)
  <2>1. /\ 0 .. n - 1 \subseteq 0 .. Len(dir) - 1
        /\ n \in 0 .. Len(dir) - 1 /\ n \notin 0 .. n - 1
    BY <1>1, <1>7
  <2> QED
    BY <1>7, <2>1, SizeExtended
<1>11. CellSize(dir, n) = CdHeaderLen(ManifestPath)
  <2>1. At(dir, n) = At(<<last>>, 0)
    BY <1>1, <1>7
  <2> QED
    BY <1>4, <2>1 DEF CellSize
<1>12. /\ (0 .. n - 1) \cup {n} = 0 .. Len(dir) - 1 /\ 0 + n - 1 = n - 1
       /\ s + n - 1 = EocdOffset(b) - 1
  BY <1>1, <1>7
<1> QED
  BY <1>9, <1>10, <1>11, <1>12 DEF InsertedSize, s, dir

\* The record ends it: the sizes checked are those InsertVerdict checks.
LEMMA AppendEocdRefines ==
  ASSUME AtomInv, AppendEocd
  PROVE  AtomInv' /\ [Next]_vars
<1> DEFINE data == InsertedData(base, job.store)
           dir == InsertedDirectory(base, ManifestPath, job.store)
           size == SizeOf(out, newCdStart .. Len(out) - 1)
           count == Cardinality(Entries(base)) + 1
           eocd == Eocd(count, size, newCdStart)
<1>1. /\ LoopInv' /\ pc = "close" /\ out \in Archives /\ Parses(base)
      /\ newCdStart \in Nat /\ newCdStart <= U32Max
      /\ Len(job.store) <= U32Max
      /\ newCdStart = Len(data) /\ out = data \o dir
  BY InsertKeepsInv
  DEF AtomInv, LoopInv, StepInv, RebuildTypeOK, InsertingInv, AppendEocd
<1>2. /\ pc # "idle" /\ base \in Archives /\ job.store \in Payloads
      /\ JobVerdict = InsertVerdict(base, ManifestPath, job.store)
      /\ JobArchive = InsertZipEntry(base, ManifestPath, job.store)
  BY <1>1, Inserting
<1>3. data \in Archives /\ dir \in Archives
  BY <1>1, <1>2, NameAssumption, InsertedType
<1>4. Len(data) \in Nat /\ Len(dir) \in Nat /\ Len(out) = Len(data) + Len(dir)
  BY <1>1, <1>3, AppendedAfter, ArchiveLength
<1>5. size = InsertedSize(base, ManifestPath) /\ size \in Nat
  <2>1. size \in Nat
    BY <1>1, WrittenSizeIsNatural
  <2>2. SizeOf(dir, 0 .. Len(dir) - 1) = InsertedSize(base, ManifestPath)
    BY <1>1, <1>2, DirectoryMeasured
  <2>3. 0 \in Nat /\ 0 + Len(dir) <= Len(dir)
    BY <1>4
  <2>4. \A i \in Nat : i < Len(dir) => At(out, newCdStart + i) = At(dir, 0 + i)
    BY <1>1, <1>3, AppendedCells
  <2>5. Repeats(dir, 0, out, newCdStart, Len(dir))
    BY <1>1, <1>3, <1>4, <2>3, <2>4 DEF Repeats
  <2>6. SizeOf(out, newCdStart .. newCdStart + Len(dir) - 1)
          = SizeOf(dir, 0 .. 0 + Len(dir) - 1)
    BY <2>5, SizeShifted
  <2>7. newCdStart + Len(dir) - 1 = Len(out) - 1 /\ 0 + Len(dir) - 1 = Len(dir) - 1
    BY <1>1, <1>4
  <2> QED
    BY <2>1, <2>2, <2>6, <2>7
<1>6. ~(Len(job.store) > U32Max) /\ ~(Len(data) > U32Max)
  <2>1. Len(job.store) \in Nat
    BY <1>2, PayloadAssumption, ArchiveLength
  <2> QED
    BY <1>1, <2>1, FieldsAreNaturals
<1>7. JobVerdict = IF size > U32Max THEN "Truncated"
                   ELSE IF count > U16Max THEN "Zip64Unsupported" ELSE "ok"
  BY <1>1, <1>2, <1>5, <1>6 DEF InsertVerdict
<1>8. ASSUME ~(size > U32Max), ~(count > U16Max)
      PROVE  Append(out, eocd) = JobArchive
  <2>1. count \in Nat
    BY <1>1, <1>2, EntriesFinite
  <2>2. count \in U16 /\ size \in U32 /\ newCdStart \in U32
    BY <1>1, <1>4, <1>5, <1>8, <2>1, FieldsAreNaturals DEF U16, U32
  <2>3. eocd \in Cells
    BY <2>2, EocdType
  <2>4. JobArchive = data \o dir \o <<eocd>>
    BY <1>1, <1>2, <1>5 DEF InsertZipEntry
  <2> HIDE DEF eocd, data, dir
  <2> QED
    BY <1>1, <2>3, <2>4, AppendIsConcat DEF Archives
<1>9. CASE JobVerdict # "ok"
  <2>1. Refuse(JobVerdict)
    BY <1>7, <1>9 DEF AppendEocd
  <2> QED
    BY <1>1, <1>2, <1>9, <2>1, ReturnsAtOnce
<1>10. CASE JobVerdict = "ok"
  <2>1. ~(size > U32Max) /\ ~(count > U16Max)
    BY <1>7, <1>10
  <2>2. Finish(Append(out, eocd))
    BY <2>1 DEF AppendEocd
  <2> QED
    BY <1>1, <1>2, <1>8, <1>10, <2>1, <2>2, ReturnsAtOnce
<1> QED
  BY <1>9, <1>10

\* A call that starts has changed nothing yet.
LEMMA StartRefines ==
  ASSUME AtomInv, NEW op, NEW store, Start(op, store),
         \/ op = "remove" /\ store = <<>>
         \/ op = "embed" /\ store \in Payloads
  PROVE  AtomInv' /\ [Next]_vars
<1>1. LoopInv' /\ pc = "idle"
  BY StartKeepsInv DEF AtomInv, Start
<1>2. /\ pc' = "remove" /\ job' = [op |-> op, store |-> store] /\ base' = doc
      /\ UNCHANGED <<doc, call, out>>
  BY DEF Start
<1>3. JobInv'
  BY <1>1, <1>2 DEF AtomInv, JobInv, Looping
<1> QED
  BY <1>1, <1>2, <1>3
  DEF AtomInv, CopyingInv, CopiedInv, OffsetsInv, InsertingInv, Looping, vars

\* fill_manifest is one step of both.
LEMMA FillRefines ==
  ASSUME AtomInv, NEW store \in Payloads, pc = "idle", FillManifest(store),
         UNCHANGED work
  PROVE  AtomInv' /\ [Next]_vars
<1>1. LoopInv'
  BY FillKeepsInv DEF AtomInv
<1>2. pc' = "idle" /\ out' = out
  BY DEF work
<1>3. JobInv'
  BY <1>2 DEF AtomInv, JobInv, Looping
<1>4. Next
  BY DEF Next
<1> QED
  BY <1>1, <1>2, <1>3, <1>4
  DEF AtomInv, CopyingInv, CopiedInv, OffsetsInv, InsertingInv, Looping

\* No caller can tell that a rebuild is many steps: whatever the archive and the
\* store, a call that runs to its end has put in the caller's hands the archive
\* and the answer C2paZip computes at once, with the entries copied in the
\* archive's order and the first error in that order reported, and one that
\* fails half-way has left the document as it was (embed_manifest,
\* remove_manifest, remove_zip_entry, insert_zip_entry).
THEOREM CallsRunAtOnce == RebuildSpec => CallsAreAtomic
<1>1. RebuildInit => AtomInv /\ Init
  <2> SUFFICES ASSUME RebuildInit
               PROVE  AtomInv /\ Init
    OBVIOUS
  <2>1. LoopInv
    BY InitHoldsInv
  <2>2. pc = "idle" /\ out = <<>> /\ Init
    BY DEF RebuildInit
  <2> QED
    BY <2>1, <2>2
    DEF AtomInv, JobInv, CopyingInv, CopiedInv, OffsetsInv, InsertingInv, Looping
<1>2. AtomInv /\ [RebuildNext]_<<vars, work>> => AtomInv' /\ [Next]_vars
  <2> SUFFICES ASSUME AtomInv, [RebuildNext]_<<vars, work>>
               PROVE  AtomInv' /\ [Next]_vars
    OBVIOUS
  <2>1. CASE Start("remove", <<>>)
    BY <2>1, StartRefines
  <2>2. ASSUME NEW store \in Payloads, Start("embed", store)
        PROVE  AtomInv' /\ [Next]_vars
    BY <2>2, StartRefines
  <2>3. ASSUME NEW store \in Payloads,
               pc = "idle" /\ FillManifest(store) /\ UNCHANGED work
        PROVE  AtomInv' /\ [Next]_vars
    BY <2>3, FillRefines
  <2>4. CASE Rebuild
    BY <2>4, ParseForRemoveRefines, CopyEntryRefines, EndCopyRefines,
       CopyHeaderRefines, EndDirectoryRefines, InsertFileRefines,
       AppendDirectoryRefines, AppendEocdRefines DEF Rebuild
  <2>5. CASE UNCHANGED <<vars, work>>
    <3>1. LoopInv'
      BY <2>5 DEF vars, work, AtomInv, LoopInv, StepInv, CopiesInv, HeadersInv,
                  Looping, RebuildTypeOK, TypeOK
    <3>2. Heads' = Heads /\ Ordered' = Ordered /\ Seen' = Seen
      BY <2>5 DEF vars, work, Heads, Ordered, Seen
    <3>3. JobInv' /\ InsertingInv'
      BY <2>5 DEF vars, work, AtomInv, JobInv, InsertingInv, Looping
    <3>4. CopyingInv' /\ CopiedInv' /\ OffsetsInv'
      BY <2>5, <3>2 DEF vars, work, AtomInv, CopyingInv, CopiedInv, OffsetsInv, Looping
    <3> QED
      BY <2>5, <3>1, <3>3, <3>4 DEF AtomInv, vars
  <2> QED
    BY <2>1, <2>2, <2>3, <2>4, <2>5 DEF RebuildNext
<1> QED
  BY <1>1, <1>2, PTL DEF RebuildSpec, CallsAreAtomic, Spec

\* So what is proved of the calls at once holds of them step by step: whichever
\* loop fails, and when, no member of the archive is left unbound, no call is
\* shut out and every EOCD record written counts what the directory holds.
COROLLARY StepsKeepThePromises ==
  ASSUME ExactInputs
  PROVE  RebuildSpec => MembersStayBound /\ StaysEditable /\ EocdIsExact
<1>1. Spec => MembersStayBound
  BY MembersAreBound
<1>2. Spec => StaysEditable
  BY NoDeadEnd
<1>3. Spec => EocdIsExact
  BY RecordsAreExact
<1> QED
  BY <1>1, <1>2, <1>3, CallsRunAtOnce, PTL DEF CallsAreAtomic
=============================================================================
