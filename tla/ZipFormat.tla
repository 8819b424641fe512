------------------------------ MODULE ZipFormat -----------------------------
(***************************************************************************)
(* The records of the ZIP format as tables of fields, in the order they    *)
(* have in an archive, a writer that follows the tables, and the archive   *)
(* of cells that a sequence of bytes stands for.  Nothing here takes an    *)
(* offset of a field from the code.                                        *)
(***************************************************************************)
EXTENDS ZipBytes

Format ==
  [local |-> <<<<"sig", 4>>, <<"needed", 2>>, <<"flags", 2>>, <<"method", 2>>,
               <<"time", 2>>, <<"date", 2>>, <<"crc", 4>>, <<"csize", 4>>,
               <<"usize", 4>>, <<"name", 2>>, <<"extra", 2>>>>,
   central |-> <<<<"sig", 4>>, <<"made", 2>>, <<"needed", 2>>, <<"flags", 2>>,
                 <<"method", 2>>, <<"time", 2>>, <<"date", 2>>, <<"crc", 4>>,
                 <<"csize", 4>>, <<"usize", 4>>, <<"name", 2>>, <<"extra", 2>>,
                 <<"comment", 2>>, <<"disk", 2>>, <<"internal", 2>>,
                 <<"external", 4>>, <<"offset", 4>>>>,
   eocd |-> <<<<"sig", 4>>, <<"disk", 2>>, <<"cddisk", 2>>, <<"here", 2>>,
              <<"count", 2>>, <<"cdsize", 4>>, <<"cdoffset", 4>>, <<"comment", 2>>>>]

FieldsOf(table) == {table[k][1] : k \in DOMAIN table}
IndexOf(table, field) == CHOOSE k \in DOMAIN table : table[k][1] = field

\* The width of the first n fields.
WidthOf(table, n) ==
  LET width[k \in 0 .. Len(table)] == IF k = 0 THEN 0 ELSE width[k - 1] + table[k][2]
  IN width[n]

\* Where each field of each record lies, and the width of the whole record.
Start ==
  [r \in DOMAIN Format |->
     [f \in FieldsOf(Format[r]) |->
        WidthOf(Format[r], IndexOf(Format[r], f) - 1)]]
Width ==
  [r \in DOMAIN Format |->
     [f \in FieldsOf(Format[r]) |-> Format[r][IndexOf(Format[r], f)][2]]]
Size == [r \in DOMAIN Format |-> WidthOf(Format[r], Len(Format[r]))]

\* The field of the record that starts at p.
Get(b, p, record, field) ==
  LET at == p + Start[record][field]
  IN IF Width[record][field] = 2 THEN ReadU16(b, at) ELSE ReadU32(b, at)

-----------------------------------------------------------------------------
(* Reading an archive by the tables                                        *)

\* The offsets of the records whose comment ends the archive; the last one
\* counts.
RecordsOf(b) ==
  {p \in 0 .. Len(b) - Size.eocd :
     /\ Get(b, p, "eocd", "sig") = EOCD_SIG
     /\ p + Size.eocd + Get(b, p, "eocd", "comment") = Len(b)}

EocdOf(b) == Max(RecordsOf(b))
CdStartOf(b) == Get(b, EocdOf(b), "eocd", "cdoffset")

HeaderSize(b, h) ==
  Size.central + Get(b, h, "central", "name") + Get(b, h, "central", "extra")
    + Get(b, h, "central", "comment")

\* The offsets of the directory headers, in directory order.
HeadersOf(b) ==
  LET headers[k \in 0 .. Get(b, EocdOf(b), "eocd", "count")] ==
        IF k = 0 THEN <<>>
        ELSE LET hs == headers[k - 1]
             IN Append(hs, IF hs = <<>> THEN CdStartOf(b)
                           ELSE Last(hs) + HeaderSize(b, Last(hs)))
  IN headers[Get(b, EocdOf(b), "eocd", "count")]

LocalOf(b, h) == Get(b, h, "central", "offset")
NameIn(b, h) ==
  Bytes(b, h + Size.central, h + Size.central + Get(b, h, "central", "name"))
LocalSize(b, h) == Size.local + Get(b, LocalOf(b, h), "local", "name")
DataEnd(b, h) ==
  LocalOf(b, h) + LocalSize(b, h) + Get(b, LocalOf(b, h), "local", "extra")
    + Get(b, h, "central", "csize")

\* Where the next local header or the directory starts.
NextOf(b, h) ==
  LET later == {LocalOf(b, g) : g \in {g \in ToSet(HeadersOf(b)) :
                                        LocalOf(b, g) > LocalOf(b, h)}}
  IN Min(later \cup {CdStartOf(b)})

\* The number of 4-byte words after the content: three, or four when there is
\* room for the signature that comes first.
WordsOf(b, h) ==
  IF (Get(b, h, "central", "flags") \div 8) % 2 = 0 THEN 0
  ELSE IF /\ ReadU32(b, DataEnd(b, h)) = DATA_DESCRIPTOR_SIG
          /\ DataEnd(b, h) + 16 <= NextOf(b, h)
  THEN 4 ELSE 3

EntryEnd(b, h) == DataEnd(b, h) + 4 * WordsOf(b, h)

-----------------------------------------------------------------------------
(* The archive of cells                                                    *)

FlagSet(v) == (IF v % 2 = 1 THEN {"encrypted"} ELSE {})
                \cup (IF (v \div 8) % 2 = 1 THEN {"streamed"} ELSE {})

DataCell(v) == [sig |-> "DATA", v |-> v]
Data(bytes) == [i \in DOMAIN bytes |-> DataCell(bytes[i])]

\* The bytes one cell stands for and the cell, its offsets still in bytes.
Part(at, size, cell) == [at |-> at, size |-> size, cell |-> cell]

LocalPart(b, lh, size) ==
  Part(lh, size,
       [sig |-> "LOCAL", flags |-> FlagSet(Get(b, lh, "local", "flags")),
        crc |-> Get(b, lh, "local", "crc"), csize |-> Get(b, lh, "local", "csize"),
        usize |-> Get(b, lh, "local", "usize"), extra |-> Get(b, lh, "local", "extra")])

WordParts(b, h) ==
  {Part(at, 4, [sig |-> "WORD", v |-> ReadU32(b, at)]) :
     at \in {DataEnd(b, h) + 4 * (k - 1) : k \in 1 .. WordsOf(b, h)}}

HeaderPart(b, h) ==
  Part(h, HeaderSize(b, h),
       [sig |-> "CENTRAL", name |-> NameIn(b, h),
        flags |-> FlagSet(Get(b, h, "central", "flags")),
        method |-> Get(b, h, "central", "method"), crc |-> Get(b, h, "central", "crc"),
        csize |-> Get(b, h, "central", "csize"), usize |-> Get(b, h, "central", "usize"),
        offset |-> LocalOf(b, h), len |-> HeaderSize(b, h)])

EocdPart(b, p) ==
  Part(p, Size.eocd,
       [sig |-> "EOCD", count |-> Get(b, p, "eocd", "count"),
        cdsize |-> Get(b, p, "eocd", "cdsize"), cdoffset |-> Get(b, p, "eocd", "cdoffset"),
        comment |-> Get(b, p, "eocd", "comment")])

PartsOf(b) ==
  {EocdPart(b, EocdOf(b))}
    \cup UNION {{HeaderPart(b, h), LocalPart(b, LocalOf(b, h), LocalSize(b, h))}
                  \cup WordParts(b, h) : h \in ToSet(HeadersOf(b))}

\* The number of cells before the cell that starts at p.
CellIndex(parts, p) ==
  p - MapThenSumSet(LAMBDA q : q.size - 1, {q \in parts : q.at < p})

CellOf(parts, c) ==
  CASE c.sig = "CENTRAL" -> [c EXCEPT !.offset = CellIndex(parts, @)]
    [] c.sig = "EOCD" -> [c EXCEPT !.cdoffset = CellIndex(parts, @)]
    [] OTHER -> c

\* The cell that starts at p, given the parts that start there: one or none.
CellAt(b, parts, p, here) ==
  IF here = {} THEN DataCell(b[p + 1])
  ELSE CellOf(parts, (CHOOSE q \in here : TRUE).cell)

CellsFrom(b, parts, inside) ==
  LET starts == SelectSeq([i \in DOMAIN b |-> i - 1], LAMBDA p : p \notin inside)
  IN [k \in DOMAIN starts |->
        CellAt(b, parts, starts[k], {q \in parts : q.at = starts[k]})]

\* The positions inside a part, behind its first.
InsideOf(parts) == UNION {q.at + 1 .. q.at + q.size - 1 : q \in parts}

\* An archive with no record at its end is data.
CellsOf(b) ==
  IF RecordsOf(b) = {} THEN Data(b) ELSE CellsFrom(b, PartsOf(b), InsideOf(PartsOf(b)))

-----------------------------------------------------------------------------
(* A writer that follows the tables                                        *)

\* A number in so many bytes, least significant first.
Digits(v, width) == [i \in 1 .. width |-> (v \div Weight[i]) % Base]

\* The fields r does not give a value hold something no other field should.
Encode(record, r) ==
  FlattenSeq([k \in DOMAIN Format[record] |->
    LET f == Format[record][k][1]
    IN Digits(IF f \in DOMAIN r THEN r[f] ELSE 7, Format[record][k][2])])

\* A file as a writer is told to store it.  gap: bytes before its local header;
\* extra and comment: the fields of that name of its headers; words: those
\* after its content, if it is streamed.
File(name, content) ==
  [name |-> name, content |-> content, flags |-> 0, method |-> 0,
   usize |-> Len(content), gap |-> <<>>, extra |-> <<>>, comment |-> <<>>,
   marked |-> FALSE]

StreamedFile(f) == (f.flags \div 8) % 2 = 1

FileBytes(f) ==
  LET sum(v) == IF StreamedFile(f) THEN 0 ELSE v
  IN f.gap
     \o Encode("local", [sig |-> LOCAL_HEADER_SIG, flags |-> f.flags,
                         method |-> f.method, crc |-> sum(Crc32(f.content)),
                         csize |-> sum(Len(f.content)), usize |-> sum(f.usize),
                         name |-> Len(f.name), extra |-> Len(f.extra)])
     \o f.name \o f.extra \o f.content
     \o (IF StreamedFile(f) /\ f.marked THEN Digits(DATA_DESCRIPTOR_SIG, 4) ELSE <<>>)
     \o (IF StreamedFile(f)
         THEN Digits(Crc32(f.content), 4) \o Digits(Len(f.content), 4) \o Digits(f.usize, 4)
         ELSE <<>>)

HeaderBytes(f, offset) ==
  Encode("central", [sig |-> CD_HEADER_SIG, flags |-> f.flags, method |-> f.method,
                     crc |-> Crc32(f.content), csize |-> Len(f.content),
                     usize |-> f.usize, name |-> Len(f.name), extra |-> Len(f.extra),
                     comment |-> Len(f.comment), offset |-> offset])
    \o f.name \o f.extra \o f.comment

\* The directory lists the files in the order given, or in the reverse one.
WriteBytes(files, reversed, comment) ==
  LET data == [k \in 0 .. Len(files) |->
                 FlattenSeq([i \in 1 .. k |-> FileBytes(files[i])])]
      headers == [i \in DOMAIN files |->
                    HeaderBytes(files[i], Len(data[i - 1]) + Len(files[i].gap))]
      dir == FlattenSeq(IF reversed THEN Reverse(headers) ELSE headers)
  IN data[Len(files)] \o dir
       \o Encode("eocd", [sig |-> EOCD_SIG, disk |-> 0, cddisk |-> 0,
                          here |-> Len(files), count |-> Len(files),
                          cdsize |-> Len(dir), cdoffset |-> Len(data[Len(files)]),
                          comment |-> Len(comment)])
       \o comment
=============================================================================
