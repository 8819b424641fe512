------------------------------ MODULE ZipCells ------------------------------
(***************************************************************************)
(* The bytes of a ZIP archive, at the granularity the crate reasons at.    *)
(*                                                                         *)
(* An archive is a sequence of cells.  A cell is one byte of file data, one *)
(* 4-byte word of a data descriptor, or one whole structure: a local file  *)
(* header with its name (its extra field follows, one cell a byte), a      *)
(* central-directory header with its name, extra field and comment, or an  *)
(* end-of-central-directory record (EOCD).  The unit of every offset and   *)
(* length is the cell; offsets count from 0, as in the code.  The size of  *)
(* the directory alone, which is never an offset, is counted in bytes: one *)
(* header may take a hundred thousand.  Reading a structure at an offset   *)
(* where no such structure begins yields a cell with another signature.    *)
(***************************************************************************)
EXTENDS Integers, Sequences, FiniteSets

CONSTANTS
  U16Max,        \* largest u16, also the ZIP64 sentinel of a u16 field
  U32Max,        \* largest u32, also the ZIP64 sentinel of a u32 field
  ManifestPath,  \* ZIP_MANIFEST_PATH
  Names,         \* entry names, ManifestPath among them
  NonUtf8Names,  \* the names that are not UTF-8
  DotNames,      \* the names with a "." or ".." segment
  DescriptorSig, \* DATA_DESCRIPTOR_SIG, a number like any other
  Payloads,      \* the contents callers embed: sequences of cells
  CdHeaderLen(_), \* bytes of the directory header the crate writes for a name
  Crc(_)         \* CRC-32 of a sequence of cells

\* What fits a field of two and of four bytes.
U16 == 0 .. U16Max
U32 == 0 .. U32Max

ASSUME WidthAssumption == /\ U16Max \in Nat /\ U32Max \in Nat
                          /\ U16Max < U32Max
                          /\ DescriptorSig \in U32
ASSUME NameAssumption == /\ ManifestPath \in Names \ (NonUtf8Names \cup DotNames)
                         /\ NonUtf8Names \cup DotNames \subseteq Names
                         /\ \A name \in Names : CdHeaderLen(name) \in Nat

\* General-purpose flag bits the crate looks at: 0 and 3.
FlagBits == {"encrypted", "streamed"}

LocalHeaders ==
  [sig : {"LOCAL"}, flags : SUBSET FlagBits, crc : U32, csize : U32,
   usize : U32, extra : U16]
\* len: the bytes of the header (cd_header_len).
CdHeaders ==
  [sig : {"CENTRAL"}, name : Names, flags : SUBSET FlagBits, method : U16,
   crc : U32, csize : U32, usize : U32, offset : U32, len : Nat]
EocdRecords ==
  [sig : {"EOCD"}, count : U16, cdsize : U32, cdoffset : U32, comment : U16]

Cells == LocalHeaders \cup CdHeaders \cup EocdRecords
           \cup [sig : {"DATA"}, v : Nat] \cup [sig : {"WORD"}, v : U32]

Archives == Seq(Cells)

ASSUME PayloadAssumption == /\ Payloads \subseteq Archives
                            /\ \A c \in Payloads : Crc(c) \in U32

At(b, p) == b[p + 1]

\* read_u32(b, p) == sig, with a read past the end answering FALSE.
HasSig(b, p, sig) == p < Len(b) /\ At(b, p).sig = sig

\* read_u32(b, p) == v, where no structure but a word can be meant.
HasWord(b, p, v) == HasSig(b, p, "WORD") /\ At(b, p).v = v

Slice(b, from, to) == SubSeq(b, from + 1, to)

\* The bytes of a cell, where the structures are directory headers.
CellSize(b, p) == IF At(b, p).sig = "CENTRAL" THEN At(b, p).len ELSE 1

\* The number of bytes in the cells of b at the positions ps, each byte told by
\* its cell and its place in it.
BytesIn(b, ps) == UNION {{p} \X (1 .. CellSize(b, p)) : p \in ps}
SizeOf(b, ps) == Cardinality(BytesIn(b, ps))

\* Mutants: the CRC is left zero; the offset is one short.
LocalHeaderNoCrc(crc, size) ==
  [sig |-> "LOCAL", flags |-> {}, crc |-> 0, csize |-> size,
   usize |-> size, extra |-> 0]
CdHeaderOneShort(name, crc, size, offset) ==
  [sig |-> "CENTRAL", name |-> name, flags |-> {}, method |-> 0,
   crc |-> crc, csize |-> size, usize |-> size, offset |-> offset - 1,
   len |-> CdHeaderLen(name)]

\* The headers write_local_header and write_cd_header produce: flags 0, stored.
LocalHeader(crc, size) ==
  [sig |-> "LOCAL", flags |-> {}, crc |-> crc, csize |-> size,
   usize |-> size, extra |-> 0]
CdHeader(name, crc, size, offset) ==
  [sig |-> "CENTRAL", name |-> name, flags |-> {}, method |-> 0,
   crc |-> crc, csize |-> size, usize |-> size, offset |-> offset,
   len |-> CdHeaderLen(name)]

\* The EOCD record insert and remove end their output with: no comment.
Eocd(count, cdsize, cdoffset) ==
  [sig |-> "EOCD", count |-> count, cdsize |-> cdsize,
   cdoffset |-> cdoffset, comment |-> 0]
=============================================================================
