--------------------------- MODULE ZipParseProofs ---------------------------
(***************************************************************************)
(* What ZipParse guarantees for every width, record length and archive.    *)
(***************************************************************************)
EXTENDS ZipParse, TLAPS

\* What it means for the list of entries to have its type.
LEMMA EntryFields ==
  ASSUME NEW s \in Seq(Entry)
  PROVE  /\ Len(s) \in Nat
         /\ DOMAIN s = 1 .. Len(s)
         /\ \A i \in DOMAIN s : /\ s[i] \in Entry
                               /\ s[i].header \in Nat
                               /\ s[i].end \in Nat
                               /\ s[i].offset \in Nat
<1>1. Len(s) \in Nat /\ DOMAIN s = 1 .. Len(s)
  OBVIOUS
<1>2. \A i \in DOMAIN s : s[i] \in Entry
  OBVIOUS
<1> QED
  BY <1>1, <1>2 DEF Entry

-----------------------------------------------------------------------------
(* Types                                                                   *)

\* Every variable keeps its type through the scan, the walk and the sort.
THEOREM TypeCorrect == Spec => []TypeOK
<1> USE ParseAssumption
<1>1. Init => TypeOK
  BY DEF Init, TypeOK, Positions, Entry, Errors
<1>2. TypeOK /\ [Next]_vars => TypeOK'
  <2> SUFFICES ASSUME TypeOK, [Next]_vars
               PROVE  TypeOK'
    OBVIOUS
  <2> USE DEF TypeOK, Errors
  <2>1. CASE FindEocd
    BY <2>1 DEF FindEocd, ScanFound, ScanBack, ScanExhausted, Stop, archive
  <2>2. CASE CheckEocd
    BY <2>2 DEF CheckEocd, EnterWalk, Stop, archive
  <2>3. CASE WalkHeader
    <3>1. PICK h \in Headers :
            \/ HeaderVerdict(h) = "ok" /\ Push(h)
            \/ HeaderVerdict(h) # "ok" /\ Stop(HeaderVerdict(h))
      BY <2>3 DEF WalkHeader
    <3>2. UNCHANGED archive
      BY <2>3 DEF WalkHeader
    <3>3. CASE Push(h)
      <4>1. NextHeader(h) \in Nat /\ h.offset \in Nat
        BY <3>1 DEF Headers, NextHeader, NameEnd
      <4>2. [header |-> cursor, end |-> NextHeader(h), offset |-> h.offset] \in Entry
        BY <4>1 DEF Entry
      <4> QED
        BY <3>2, <3>3, <4>1, <4>2 DEF Push, archive
    <3>4. CASE HeaderVerdict(h) # "ok" /\ Stop(HeaderVerdict(h))
      <4>1. HeaderVerdict(h) \in Errors
        BY <3>4 DEF HeaderVerdict
      <4> QED
        BY <3>2, <3>4, <4>1 DEF Stop, archive
    <3> QED
      BY <3>1, <3>3, <3>4
  <2>4. CASE SortEntries
    <3>1. PICK p \in [DOMAIN entries -> DOMAIN entries] :
            entries' = [i \in DOMAIN entries |-> entries[p[i]]]
      BY <2>4 DEF SortEntries
    <3>2. entries' \in Seq(Entry)
      BY <3>1
    <3> QED
      BY <2>4, <3>2 DEF SortEntries, archive
  <2>5. CASE UNCHANGED vars
    BY <2>5 DEF vars
  <2> QED
    BY <2>1, <2>2, <2>3, <2>4, <2>5 DEF Next
<1> QED
  BY <1>1, <1>2, PTL DEF Spec

-----------------------------------------------------------------------------
(* The scan                                                                *)

\* The scan is exact.  An EOCD below the window would need a comment longer
\* than a u16 counts, so stopping there gives nothing up.
THEOREM ScanExact == Spec => []ScanIsExact
<1> USE ParseAssumption
<1>1. Init => ScanIsExact
  BY DEF Init, ScanIsExact, Positions, Errors
<1>2. TypeOK /\ ScanIsExact /\ [Next]_vars => ScanIsExact'
  <2> SUFFICES ASSUME TypeOK, ScanIsExact, [Next]_vars
               PROVE  ScanIsExact'
    OBVIOUS
  <2> USE DEF TypeOK, ScanIsExact, EndsArchive, Errors
  <2>1. CASE FindEocd /\ ScanFound
    BY <2>1 DEF FindEocd, ScanFound, archive
  <2>2. CASE FindEocd /\ ScanBack
    <3>1. /\ pc = "scan" /\ pos' = pos - 1
          /\ UNCHANGED <<pc, len, comment>>
          /\ ~EndsArchive(pos)
      BY <2>2 DEF FindEocd, ScanBack, archive
    <3>2. \A p \in DOMAIN comment : p > pos - 1 => ~EndsArchive(p)
      <4> TAKE p \in DOMAIN comment
      <4> HAVE p > pos - 1
      <4>1. p = pos \/ p > pos
        OBVIOUS
      <4> QED
        BY <3>1, <4>1
    <3> QED
      BY <3>1, <3>2
  <2>3. CASE FindEocd /\ ScanExhausted
    <3>1. \A p \in DOMAIN comment : ~EndsArchive(p)
      BY <2>3 DEF ScanExhausted, ScanStart
    <3> QED
      BY <2>3, <3>1 DEF FindEocd, ScanExhausted, Stop, archive
  <2>4. CASE CheckEocd
    BY <2>4 DEF CheckEocd, EnterWalk, Stop, archive
  <2>5. CASE WalkHeader
    <3>1. pc' # "NoEocd" /\ UNCHANGED <<len, comment, pos>>
      BY <2>5 DEF WalkHeader, Push, Stop, HeaderVerdict, archive
    <3> QED
      BY <2>5, <3>1 DEF WalkHeader
  <2>6. CASE SortEntries
    BY <2>6 DEF SortEntries, archive
  <2>7. CASE UNCHANGED vars
    BY <2>7 DEF vars
  <2> QED
    BY <2>1, <2>2, <2>3, <2>4, <2>5, <2>6, <2>7 DEF Next, FindEocd
<1> QED
  BY <1>1, <1>2, TypeCorrect, PTL DEF Spec

-----------------------------------------------------------------------------
(* The walk and the sort                                                   *)

\* What HeadersInDirectory and WindowsDisjoint need to be inductive: nothing
\* is pushed before the walk, which pushes no more than total entries, and an
\* accepted list is in the order of the offsets.
Sorted ==
  \A i, j \in DOMAIN entries : i < j => entries[i].offset <= entries[j].offset

Progress ==
  /\ pc \in {"scan", "check"} => entries = <<>>
  /\ pc = "walk" => Len(entries) <= total
  /\ pc = "ok" => Len(entries) = total /\ Sorted

\* The walk pushes no more entries than the record counts, and an accepted
\* archive has them all, sorted.
THEOREM WalkProgress == Spec => []Progress
<1> USE ParseAssumption
<1>1. Init => Progress
  BY DEF Init, Progress
<1>2. TypeOK /\ Progress /\ [Next]_vars => Progress'
  <2> SUFFICES ASSUME TypeOK, Progress, [Next]_vars
               PROVE  Progress'
    OBVIOUS
  <2> USE DEF Progress, Sorted
  <2>1. CASE FindEocd
    BY <2>1 DEF FindEocd, ScanFound, ScanBack, ScanExhausted, Stop
  <2>2. CASE CheckEocd
    BY <2>2 DEF CheckEocd, EnterWalk, Stop
  <2>3. CASE WalkHeader
    <3>1. /\ pc = "walk" /\ total' = total
          /\ Len(entries') <= total \/ pc' \in Errors
          /\ pc' \in {"walk"} \cup Errors
      BY <2>3 DEF WalkHeader, Push, Stop, HeaderVerdict, TypeOK, Errors
    <3> QED
      BY <3>1 DEF Errors
  <2>4. CASE SortEntries
    <3>1. PICK p \in [DOMAIN entries -> DOMAIN entries] :
            /\ SortsStably(p, entries)
            /\ entries' = [i \in DOMAIN entries |-> entries[p[i]]]
      BY <2>4 DEF SortEntries
    <3>2. /\ pc' = "ok" /\ total' = total
          /\ Len(entries) = total
          /\ DOMAIN entries = 1 .. Len(entries)
          /\ Len(entries) \in Nat
      BY <2>4 DEF SortEntries, TypeOK
    <3>3. DOMAIN entries' = DOMAIN entries /\ Len(entries') = total
      BY <3>1, <3>2
    <3>4. ASSUME NEW i \in DOMAIN entries, NEW j \in DOMAIN entries, i < j
          PROVE  entries'[i].offset <= entries'[j].offset
      <4>1. /\ entries'[i] = entries[p[i]] /\ entries'[j] = entries[p[j]]
            /\ entries[p[i]] \in Entry /\ entries[p[j]] \in Entry
        BY <3>1 DEF TypeOK
      <4>2. entries[p[i]].offset <= entries[p[j]].offset
        BY <3>1, <3>2, <3>4, <4>1 DEF SortsStably, Entry
      <4> QED
        BY <4>1, <4>2
    <3> QED
      BY <3>2, <3>3, <3>4
  <2>5. CASE UNCHANGED vars
    BY <2>5 DEF vars
  <2> QED
    BY <2>1, <2>2, <2>3, <2>4, <2>5 DEF Next
<1> QED
  BY <1>1, <1>2, TypeCorrect, PTL DEF Spec

\* Every header the walk accepts, and every offset it hands on, is in bounds.
THEOREM HeadersBounded == Spec => []HeadersInDirectory
<1> USE ParseAssumption
<1>1. Init => HeadersInDirectory
  BY DEF Init, HeadersInDirectory
<1>2. /\ TypeOK /\ ScanIsExact /\ Progress /\ HeadersInDirectory /\ [Next]_vars
      => HeadersInDirectory'
  <2> SUFFICES ASSUME TypeOK, ScanIsExact, Progress, HeadersInDirectory,
                      [Next]_vars
               PROVE  HeadersInDirectory'
    OBVIOUS
  <2>1. CASE FindEocd
    BY <2>1 DEF FindEocd, ScanFound, ScanBack, ScanExhausted, Stop, HeadersInDirectory
  <2>2. CASE CheckEocd
    <3>1. entries = <<>> /\ pos \in Int /\ len \in Nat /\ pos < len
      BY <2>2 DEF CheckEocd, Progress, ScanIsExact, EndsArchive, TypeOK
    <3>2. /\ pc' = "walk" => cdStart' = cursor' /\ cdStart' <= pos /\ cdStart' \in Nat
          /\ pc' # "ok" /\ UNCHANGED <<len, pos, entries>>
      BY <2>2, <3>1 DEF CheckEocd, EnterWalk, Stop, archive
    <3> QED
      BY <3>1, <3>2 DEF HeadersInDirectory
  <2>3. CASE WalkHeader
    <3>1. PICK h \in Headers :
            \/ HeaderVerdict(h) = "ok" /\ Push(h)
            \/ HeaderVerdict(h) # "ok" /\ Stop(HeaderVerdict(h))
      BY <2>3 DEF WalkHeader
    <3>2. pc = "walk" /\ len' = len
      BY <2>3 DEF WalkHeader, archive
    <3>3. CASE HeaderVerdict(h) # "ok" /\ Stop(HeaderVerdict(h))
      BY <3>3 DEF Stop, HeaderVerdict, HeadersInDirectory
    <3>4. CASE HeaderVerdict(h) = "ok" /\ Push(h)
      <4> DEFINE n == Len(entries) + 1
                 e == [header |-> cursor, end |-> NextHeader(h), offset |-> h.offset]
      <4>1. /\ h.offset < cdStart /\ NextHeader(h) <= pos
            /\ cursor + CdHeaderFixedLen <= NextHeader(h)
            /\ NextHeader(h) \in Nat /\ h.offset \in Nat
        BY <3>4 DEF HeaderVerdict, Headers, NextHeader, NameEnd, TypeOK
      <4>2. /\ UNCHANGED <<pc, pos, cdStart>> /\ cursor' = NextHeader(h)
            /\ entries' = Append(entries, e)
        BY <3>4 DEF Push
      <4>3. /\ Len(entries) \in Nat
            /\ DOMAIN entries = 1 .. Len(entries)
            /\ DOMAIN entries' = DOMAIN entries \cup {n}
            /\ \A i \in DOMAIN entries : entries'[i] = entries[i]
            /\ entries'[n] = e
            /\ \A i \in DOMAIN entries : entries[i] \in Entry
        <5>1. entries \in Seq(Entry)
          BY DEF TypeOK
        <5> QED
          BY <4>2, <5>1
      <4>4. \A i \in DOMAIN entries :
              /\ cdStart <= entries[i].header
              /\ entries[i].header + CdHeaderFixedLen <= entries[i].end
              /\ entries[i].end <= cursor
              /\ entries[i].offset < cdStart
        BY <3>2 DEF HeadersInDirectory
      <4>5. cdStart <= cursor /\ cursor <= pos /\ pos < len
        BY <3>2 DEF HeadersInDirectory
      <4>6. \A i \in DOMAIN entries' :
              /\ cdStart <= entries'[i].header
              /\ entries'[i].header + CdHeaderFixedLen <= entries'[i].end
              /\ entries'[i].end <= NextHeader(h)
              /\ entries'[i].offset < cdStart
        <5>1. \A i \in DOMAIN entries : entries[i].end \in Nat
          BY EntryFields DEF TypeOK
        <5>2. cursor \in Nat /\ cursor <= NextHeader(h)
          BY <4>1 DEF TypeOK
        <5>3. ASSUME NEW i \in DOMAIN entries
              PROVE  entries[i].end <= NextHeader(h)
          BY <4>1, <4>4, <5>1, <5>2
        <5> QED
          BY <4>1, <4>3, <4>4, <4>5, <5>3
      <4>7. ASSUME NEW i \in DOMAIN entries', NEW j \in DOMAIN entries', i # j
            PROVE  \/ entries'[i].end <= entries'[j].header
                   \/ entries'[j].end <= entries'[i].header
        <5>1. CASE i \in DOMAIN entries /\ j \in DOMAIN entries
          BY <3>2, <4>3, <4>7, <5>1 DEF HeadersInDirectory
        <5>2. CASE i = n \/ j = n
          BY <4>3, <4>4, <4>7, <5>2
        <5> QED
          BY <4>3, <5>1, <5>2
      <4>8. NextHeader(h) <= pos /\ cdStart <= NextHeader(h)
        BY <4>1, <4>5 DEF TypeOK
      <4> QED
        BY <3>2, <4>2, <4>5, <4>6, <4>7, <4>8 DEF HeadersInDirectory
    <3> QED
      BY <3>1, <3>3, <3>4
  <2>4. CASE SortEntries
    <3>1. PICK p \in [DOMAIN entries -> DOMAIN entries] :
            /\ Permutes(p, Len(entries))
            /\ entries' = [i \in DOMAIN entries |-> entries[p[i]]]
      BY <2>4 DEF SortEntries, SortsStably
    <3>2. pc = "walk" /\ UNCHANGED <<len, pos, cdStart, cursor>>
      BY <2>4 DEF SortEntries, archive
    <3>3. /\ DOMAIN entries' = DOMAIN entries
          /\ \A i \in DOMAIN entries : entries'[i] = entries[p[i]] /\ p[i] \in DOMAIN entries
          /\ \A i, j \in DOMAIN entries : i # j => p[i] # p[j]
      BY <3>1 DEF Permutes, TypeOK
    <3> QED
      BY <3>2, <3>3 DEF HeadersInDirectory
  <2>5. CASE UNCHANGED vars
    BY <2>5 DEF vars, HeadersInDirectory
  <2> QED
    BY <2>1, <2>2, <2>3, <2>4, <2>5 DEF Next
<1> QED
  BY <1>1, <1>2, TypeCorrect, ScanExact, WalkProgress, PTL DEF Spec

-----------------------------------------------------------------------------
(* The windows                                                             *)

\* The windows of the entries of an accepted archive partition its data: they
\* are disjoint and end where the directory starts, even when two entries
\* claim the same offset.
THEOREM EntryWindowsDisjoint == Spec => []WindowsDisjoint
<1>1. TypeOK /\ Progress /\ HeadersInDirectory => WindowsDisjoint
  <2> SUFFICES ASSUME TypeOK, Progress, HeadersInDirectory, pc = "ok"
               PROVE  /\ Len(entries) = total
                      /\ \A i \in DOMAIN entries :
                           entries[i].offset <= Boundary(i) /\ Boundary(i) <= cdStart
                      /\ \A i, j \in DOMAIN entries :
                           i # j => \/ Boundary(i) <= entries[j].offset
                                    \/ Boundary(j) <= entries[i].offset
    BY DEF WindowsDisjoint
  <2>1. /\ Len(entries) = total /\ Sorted
        /\ \A i \in DOMAIN entries : entries[i].offset < cdStart
    BY DEF Progress, HeadersInDirectory
  <2>2. /\ Len(entries) \in Nat /\ cdStart \in Nat
        /\ DOMAIN entries = 1 .. Len(entries)
        /\ \A i \in DOMAIN entries : entries[i].offset \in Nat
    BY EntryFields DEF TypeOK
  <2>3. \A i \in DOMAIN entries :
          entries[i].offset <= Boundary(i) /\ Boundary(i) <= cdStart
    BY <2>1, <2>2 DEF Boundary, Sorted
  <2>4. ASSUME NEW i \in DOMAIN entries, NEW j \in DOMAIN entries, i < j
        PROVE  Boundary(i) <= entries[j].offset
    <3>1. i + 1 \in DOMAIN entries /\ (i + 1 = j \/ i + 1 < j)
      BY <2>2, <2>4
    <3>2. entries[i + 1].offset <= entries[j].offset
      BY <2>1, <2>2, <3>1 DEF Sorted
    <3> QED
      BY <3>1, <3>2 DEF Boundary
  <2>5. \A i, j \in DOMAIN entries : i # j => i < j \/ j < i
    BY <2>2
  <2> QED
    BY <2>1, <2>3, <2>4, <2>5
<1> QED
  BY <1>1, TypeCorrect, WalkProgress, HeadersBounded, PTL
=============================================================================
