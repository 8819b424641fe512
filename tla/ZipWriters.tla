----------------------------- MODULE ZipWriters -----------------------------
(***************************************************************************)
(* The archives the crate is given: what ZIP writers produce, from the     *)
(* fixtures of the tests (build_zip, the streamed entry, the trailing      *)
(* comment) to the layouts other tools write.                              *)
(***************************************************************************)
EXTENDS ZipEdit

Byte(v) == [sig |-> "DATA", v |-> v]

\* A file as a writer is told to store it.  gap: cells before its local
\* header that belong to no entry; extra: its local extra field; marked:
\* whether its data descriptor, if streamed, starts with a signature; more: the
\* bytes of the extra field and the comment of its directory header.
StoredFile(name, data) ==
  [name |-> name, data |-> data, flags |-> {}, method |-> 0, usize |-> Len(data),
   gap |-> <<>>, extra |-> <<>>, marked |-> FALSE, more |-> 0]

Word(v) == [sig |-> "WORD", v |-> v]

Descriptor(f) ==
  (IF f.marked THEN <<Word(DescriptorSig)>> ELSE <<>>)
    \o <<Word(Crc(f.data)), Word(Len(f.data)), Word(f.usize)>>

\* A streamed entry has zero sums in its local header and a descriptor.
FileCells(f) ==
  LET streamed == "streamed" \in f.flags
  IN << [sig |-> "LOCAL", flags |-> f.flags,
         crc   |-> IF streamed THEN 0 ELSE Crc(f.data),
         csize |-> IF streamed THEN 0 ELSE Len(f.data),
         usize |-> IF streamed THEN 0 ELSE f.usize,
         extra |-> Len(f.extra)] >>
     \o f.extra \o f.data
     \o (IF streamed THEN Descriptor(f) ELSE <<>>)

FileHeader(f, offset) ==
  [sig |-> "CENTRAL", name |-> f.name, flags |-> f.flags, method |-> f.method,
   crc |-> Crc(f.data), csize |-> Len(f.data), usize |-> f.usize,
   offset |-> offset, len |-> CdHeaderLen(f.name) + f.more]

\* The files in the order of their data; the directory lists them in the
\* order cdOrder.  trailing: records between the last header and the EOCD.  A
\* writer that does not check the size of its directory cuts it off.
WriteZip(files, cdOrder, trailing, comment) ==
  LET Region(i) == files[i].gap \o FileCells(files[i])
      Upto(k)   == FlattenSeq([i \in 1 .. k |-> Region(i)])
      Start(i)  == Len(Upto(i - 1)) + Len(files[i].gap)
      data      == Upto(Len(files))
      dir       == [k \in 1 .. Len(files) |->
                      FileHeader(files[cdOrder[k]], Start(cdOrder[k]))]
      size      == SizeOf(dir, 0 .. Len(dir) - 1) % (U32Max + 1)
  IN data \o dir \o trailing
       \o <<[Eocd(Len(files), size, Len(data)) EXCEPT !.comment = Len(comment)]>>
       \o comment

\* The fixture of the tests: contiguous stored entries, listed in order.
BuildZip(files) == WriteZip(files, [i \in 1 .. Len(files) |-> i], <<>>, <<>>)

\* An archive without a comment is given one.
WithComment(b, comment) ==
  [b EXCEPT ![Len(b)].comment = Len(comment)] \o comment
=============================================================================
