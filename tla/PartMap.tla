------------------------------ MODULE PartMap ------------------------------
(***************************************************************************)
(* central_dir_parser.c: what the downloader makes of the central          *)
(* directory.  An entry passes through the 32-bit fields and the ZIP64     *)
(* extra field of its header (write_central_directory writes them, the     *)
(* parser reads them back), and build_part_map works out which entries     *)
(* start in a part and which file continues into it.                       *)
(***************************************************************************)
EXTENDS BurstFormat, CdFetch, Sequences

(***************************************************************************)
(* A directory header: three 32-bit fields, and the values that did not    *)
(* fit them in the order uncompressed size, compressed size, offset.       *)
(***************************************************************************)

Field32(v) == IF v > MAX32 THEN MAX32 ELSE v

\* build_zip64_extra_field: the values that do not fit.
Overflow(v) == IF v > MAX32 THEN <<v>> ELSE <<>>

\* Mutant of Zip64Extra: the compressed size first.
CompressedFirst(e) ==
  Overflow(e.compressed_size) \o Overflow(e.uncompressed_size) \o Overflow(e.local_header_offset)

Zip64Extra(e) ==
  Overflow(e.uncompressed_size) \o Overflow(e.compressed_size) \o Overflow(e.local_header_offset)

\* A field that holds 0xFFFFFFFF takes a value of the extra field.
Takes(field) == IF field = MAX32 THEN 1 ELSE 0

\* parse_zip64_extra_field: the value a field takes is the first that the
\* fields before it have not taken, if there is one.
Zip64Value(field, taken, extra) ==
  IF field = MAX32 /\ taken < Len(extra) THEN extra[taken + 1] ELSE field

\* parse_central_directory: the file_metadata of an entry.
ParsedEntry(e) ==
  LET usize == Field32(e.uncompressed_size)
      csize == Field32(e.compressed_size)
      extra == Zip64Extra(e)
      local_header_offset ==
        Zip64Value(Field32(e.local_header_offset), Takes(usize) + Takes(csize), extra)
  IN [id |-> e.id, kind |-> e.kind, name_len |-> e.name_len,
      uncompressed_size |-> Zip64Value(usize, 0, extra),
      compressed_size |-> Zip64Value(csize, Takes(usize), extra),
      local_header_offset |-> local_header_offset,
      uses_zip64_descriptor |-> csize = MAX32 \/ usize = MAX32,
      part_index |-> local_header_offset \div part_size]

\* The descriptor the stream processor will step over for a parsed entry.
ParsedDescriptorSize(entry) ==
  IF entry.uses_zip64_descriptor THEN DATA_DESCRIPTOR_ZIP64_SIZE ELSE DATA_DESCRIPTOR_SIZE

(***************************************************************************)
(* build_part_map, for the sequence "parsed" of parsed entries.            *)
(***************************************************************************)

\* parts[p].entries.
EntriesOf(parsed, p) == {i \in DOMAIN parsed : parsed[i].part_index = p}

\* The order qsort leaves the entries in; glibc's merge sort keeps the order
\* of equal offsets, which only a lost ZIP64 value can produce.
SortedBefore(parsed, j, i) ==
  \/ parsed[j].local_header_offset < parsed[i].local_header_offset
  \/ parsed[j].local_header_offset = parsed[i].local_header_offset /\ j < i

\* The entry at index k, from 0.
EntryAt(parsed, p, k) ==
  CHOOSE i \in EntriesOf(parsed, p) :
    k = Cardinality({j \in EntriesOf(parsed, p) : SortedBefore(parsed, j, i)})

\* Where the file's data is taken to end: a header without a name, the
\* compressed data and a small descriptor.
EstimatedEnd(entry) ==
  entry.local_header_offset + 30 + entry.compressed_size + DATA_DESCRIPTOR_SIZE

\* parts[p].continuing_file, as an index, 0 for none: the first file that
\* starts before the part and is taken to end behind its start.
ContinuingFile(parsed, p) ==
  LET spanning == {i \in DOMAIN parsed : /\ parsed[i].local_header_offset < p * part_size
                                         /\ EstimatedEnd(parsed[i]) > p * part_size}
  IN IF p = 0 \/ spanning = {} THEN 0 ELSE Min(spanning)
=============================================================================
