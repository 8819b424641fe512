------------------------------ MODULE ZipParse ------------------------------
(***************************************************************************)
(* The loops of find_eocd and parse_layout (zip.rs), byte by byte: the     *)
(* backward scan for the end-of-central-directory record (EOCD), the check *)
(* of its fields, the walk over the central-directory headers and the sort *)
(* of the entries.                                                         *)
(*                                                                         *)
(* Of the archive only its length and the places where the EOCD signature  *)
(* occurs are fixed at the start; every other field is read at one place,  *)
(* once, so what it holds is chosen when the code reads it.                *)
(***************************************************************************)
EXTENDS Integers, Sequences

CONSTANTS
  U16Max,           \* largest u16, also the ZIP64 sentinel of a u16 field
  U32Max,           \* largest u32, also the ZIP64 sentinel of a u32 field
  EocdMinLen,       \* EOCD_MIN_LEN
  CdHeaderFixedLen, \* CD_HEADER_FIXED_LEN
  Lengths           \* the lengths of the archives considered

ASSUME ParseAssumption ==
  /\ U16Max \in Nat
  /\ U32Max \in Nat
  /\ EocdMinLen \in Nat \ {0}
  /\ CdHeaderFixedLen \in Nat \ {0}
  /\ Lengths \subseteq Nat

VARIABLES
  pc,        \* "scan", "check", "walk", or the verdict: "ok" or an error
  len,       \* bytes.len()
  comment,   \* where the EOCD signature occurs, the comment length that follows
  pos,       \* the position scanned; the EOCD's once it is found
  total,     \* total_entries
  cdStart,   \* cd_start
  cursor,    \* where the next header is read
  entries    \* the entries pushed so far

vars == <<pc, len, comment, pos, total, cdStart, cursor, entries>>
archive == <<len, comment>>

Errors == {"NoEocd", "Zip64Unsupported", "BadOffset", "Truncated", "NonUtf8Name"}

\* A CdEntry: its header's range and its local header's offset.
Entry == [header : Nat, end : Nat, offset : Nat]

TypeOK ==
  /\ pc \in {"scan", "check", "walk", "ok"} \cup Errors
  /\ len \in Nat
  /\ DOMAIN comment \subseteq Nat
  /\ \A p \in DOMAIN comment : comment[p] \in 0 .. U16Max
  /\ pos \in Int
  /\ total \in Nat /\ cdStart \in Nat /\ cursor \in Nat
  /\ entries \in Seq(Entry)

-----------------------------------------------------------------------------
(* find_eocd                                                               *)

\* The signature can only be followed by a whole record up to here.
Positions(n) == 0 .. n - EocdMinLen

Init ==
  /\ pc = "scan"
  /\ len \in Lengths
  /\ \E S \in SUBSET Positions(len) : comment \in [S -> 0 .. U16Max]
  /\ pos = len - EocdMinLen
  /\ total = 0 /\ cdStart = 0 /\ cursor = 0
  /\ entries = <<>>

\* Mutant: the record's own length is forgotten.
ScanStartLate == IF len < U16Max THEN 0 ELSE len - U16Max

\* The first position scanned last: saturating_sub.
ScanStart == IF len < EocdMinLen + U16Max THEN 0 ELSE len - (EocdMinLen + U16Max)

\* The record at p has a comment that ends the archive.
EndsArchive(p) == p \in DOMAIN comment /\ p + EocdMinLen + comment[p] = len

Stop(verdict) ==
  pc' = verdict /\ UNCHANGED <<pos, total, cdStart, cursor, entries>>

ScanFound ==
  /\ pos >= ScanStart /\ EndsArchive(pos)
  /\ pc' = "check"
  /\ UNCHANGED <<pos, total, cdStart, cursor, entries>>

\* Mutant: the position is not moved.
ScanBackStuck ==
  /\ pos >= ScanStart /\ ~EndsArchive(pos)
  /\ UNCHANGED <<pc, pos, total, cdStart, cursor, entries>>

ScanBack ==
  /\ pos >= ScanStart /\ ~EndsArchive(pos)
  /\ pos' = pos - 1
  /\ UNCHANGED <<pc, total, cdStart, cursor, entries>>

\* Also the early return when there is no room for a record: pos is negative.
ScanExhausted == pos < ScanStart /\ Stop("NoEocd")

FindEocd ==
  /\ pc = "scan"
  /\ ScanFound \/ ScanBack \/ ScanExhausted
  /\ UNCHANGED archive

-----------------------------------------------------------------------------
(* parse_layout, up to the walk.  Its second comparison, of the end of the *)
(* record with the length, cannot fail after find_eocd; it is kept.        *)

\* Mutant: one header too few.
EnterWalkOneLess(count, offset) ==
  /\ pc' = "walk"
  /\ total' = count - 1 /\ cdStart' = offset /\ cursor' = offset
  /\ UNCHANGED <<pos, entries>>

EnterWalk(count, offset) ==
  /\ pc' = "walk"
  /\ total' = count /\ cdStart' = offset /\ cursor' = offset
  /\ UNCHANGED <<pos, entries>>

CheckEocd ==
  /\ pc = "check"
  /\ \E count \in 0 .. U16Max, size \in {0, U32Max}, offset \in 0 .. U32Max :
       LET zip64   == count = U16Max \/ U32Max \in {size, offset}
           outside == offset > pos \/ pos + EocdMinLen + comment[pos] > len
       IN \/ zip64 /\ Stop("Zip64Unsupported")
          \/ ~zip64 /\ outside /\ Stop("BadOffset")
          \/ ~zip64 /\ ~outside /\ EnterWalk(count, offset)
  /\ UNCHANGED archive

-----------------------------------------------------------------------------
(* One iteration of the walk.  rest: the lengths of a header's extra field *)
(* and comment together; size: the larger of its two sizes.                *)

Headers ==
  [sig : BOOLEAN, name : 0 .. U16Max, utf8 : BOOLEAN, rest : 0 .. 2 * U16Max,
   offset : 0 .. U32Max, size : {0, U32Max}]

NameEnd(h) == cursor + CdHeaderFixedLen + h.name
NextHeader(h) == NameEnd(h) + h.rest

\* Mutant: a header may run past the EOCD.
HeaderVerdictNoEnd(h) ==
  IF ~h.sig \/ NameEnd(h) > len THEN "Truncated"
  ELSE IF U32Max \in {h.offset, h.size} THEN "Zip64Unsupported"
  ELSE IF ~h.utf8 THEN "NonUtf8Name"
  ELSE IF h.offset >= cdStart THEN "BadOffset"
  ELSE "ok"

HeaderVerdict(h) ==
  IF ~h.sig \/ cursor + CdHeaderFixedLen > len THEN "Truncated"
  ELSE IF U32Max \in {h.offset, h.size} THEN "Zip64Unsupported"
  ELSE IF NameEnd(h) > len THEN "Truncated"
  ELSE IF ~h.utf8 THEN "NonUtf8Name"
  ELSE IF h.offset >= cdStart THEN "BadOffset"
  ELSE IF NextHeader(h) > pos THEN "Truncated"
  ELSE "ok"

Push(h) ==
  /\ entries' = Append(entries, [header |-> cursor, end |-> NextHeader(h),
                                 offset |-> h.offset])
  /\ cursor' = NextHeader(h)
  /\ UNCHANGED <<pc, pos, total, cdStart>>

WalkHeader ==
  /\ pc = "walk" /\ Len(entries) < total
  /\ \E h \in Headers :
       \/ HeaderVerdict(h) = "ok" /\ Push(h)
       \/ HeaderVerdict(h) # "ok" /\ Stop(HeaderVerdict(h))
  /\ UNCHANGED archive

-----------------------------------------------------------------------------
(* sort_by_key: the permutation p that orders s by offset, and leaves the  *)
(* entries with equal offsets in the order of their headers.               *)

Permutes(p, n) ==
  /\ p \in [1 .. n -> 1 .. n]
  /\ \A i, j \in 1 .. n : p[i] = p[j] => i = j

\* Mutant: the entries stay in directory order.
KeepsOrder(p, s) == Permutes(p, Len(s)) /\ \A i \in 1 .. Len(s) : p[i] = i

SortsStably(p, s) ==
  /\ Permutes(p, Len(s))
  /\ \A i, j \in 1 .. Len(s) :
       i < j => \/ s[p[i]].offset < s[p[j]].offset
                \/ s[p[i]].offset = s[p[j]].offset /\ p[i] < p[j]

SortEntries ==
  /\ pc = "walk" /\ Len(entries) = total
  /\ \E p \in [DOMAIN entries -> DOMAIN entries] :
       /\ SortsStably(p, entries)
       /\ entries' = [i \in DOMAIN entries |-> entries[p[i]]]
  /\ pc' = "ok"
  /\ UNCHANGED <<pos, total, cdStart, cursor>>
  /\ UNCHANGED archive

Next == FindEocd \/ CheckEocd \/ WalkHeader \/ SortEntries

\* One thread runs the loops to their end.
Spec == Init /\ [][Next]_vars /\ WF_vars(Next)

-----------------------------------------------------------------------------
(* Properties                                                              *)

\* The bounded backward scan misses nothing and settles for nothing earlier:
\* no record later than the position reached ends the archive, NoEocd is
\* returned only when none does at all, and the record the walk relies on
\* does (find_eocd's window of EOCD_MIN_LEN + 65535 bytes).
ScanIsExact ==
  /\ \A p \in DOMAIN comment : p > pos => ~EndsArchive(p)
  /\ pc = "NoEocd" => \A p \in DOMAIN comment : ~EndsArchive(p)
  /\ pc \notin {"scan", "NoEocd"} => EndsArchive(pos)

\* Of an archive being walked or accepted: the directory starts before the
\* EOCD, the headers follow one another from there without overlap and end
\* before the EOCD, and every local header is before the directory.  This is
\* what lets the callers slice by these offsets without a check of their own
\* (insert_zip_entry, fill_manifest, central_directory_ranges).
HeadersInDirectory ==
  pc \in {"walk", "ok"} =>
    /\ cdStart <= cursor /\ cursor <= pos /\ pos < len
    /\ \A i \in DOMAIN entries :
         /\ cdStart <= entries[i].header
         /\ entries[i].header + CdHeaderFixedLen <= entries[i].end
         /\ entries[i].end <= cursor
         /\ entries[i].offset < cdStart
    /\ \A i, j \in DOMAIN entries :
         i # j => \/ entries[i].end <= entries[j].header
                  \/ entries[j].end <= entries[i].header

\* entry_boundary of the i-th entry: the next local header or the directory.
Boundary(i) ==
  IF i + 1 \in DOMAIN entries THEN entries[i + 1].offset ELSE cdStart

\* In an accepted archive the window each entry's content is confined to, from
\* its local header to its boundary, is disjoint from every other's and ends
\* before the directory: the sort makes the neighbour in the list the neighbour
\* in the file (entry_boundary, sort_by_key).
WindowsDisjoint ==
  pc = "ok" =>
    /\ Len(entries) = total
    /\ \A i \in DOMAIN entries :
         entries[i].offset <= Boundary(i) /\ Boundary(i) <= cdStart
    /\ \A i, j \in DOMAIN entries :
         i # j => \/ Boundary(i) <= entries[j].offset
                  \/ Boundary(j) <= entries[i].offset

\* Whatever the bytes, the parser comes to a verdict (find_eocd, parse_layout).
ReachesVerdict == <>(pc \in {"ok"} \cup Errors)
=============================================================================
