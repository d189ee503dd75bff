------------------------------ MODULE CdFetch ------------------------------
(***************************************************************************)
(* What the downloader knows after its first request: the tail of the      *)
(* archive is in memory, the end records give the offset of the central    *)
(* directory, and cd_fetch.c works out which ranges are still missing and  *)
(* which parts of the archive are already in memory (body segments).  The  *)
(* download part size may be a multiple of the 8 MiB alignment unit; the   *)
(* tail request always asks for 8 MiB.                                     *)
(***************************************************************************)
EXTENDS Integers, FiniteSets, FiniteSetsExt

CONSTANTS
  part_size,  \* downloader->part_size, --part-size on the command line
  TAIL_SIZE   \* 8388608, the suffix length burst_downloader_fetch_cd_part asks for

ASSUME CdFetchAssumption ==
  /\ TAIL_SIZE \in Nat \ {0}
  /\ part_size \in Nat \ {0}
  /\ part_size % TAIL_SIZE = 0

\* First byte a suffix range request returns.
InitialStart(archive_size) ==
  IF archive_size > TAIL_SIZE THEN archive_size - TAIL_SIZE ELSE 0

RoundedDown(archive_size) == Max({1, archive_size \div part_size})  \* mutant

\* build_part_map
NumParts(archive_size) == Max({1, (archive_size + part_size - 1) \div part_size})

\* Mutant: the partial part next to the tail buffer is left out.
WholePartsOnly(central_dir_offset, initial_start) ==
  {[start |-> p * part_size, end |-> (p + 1) * part_size - 1,
    body_data_size |-> Max({0, central_dir_offset - p * part_size})] :
     p \in (central_dir_offset \div part_size)..((initial_start \div part_size) - 1)}

\* The aligned ranges between the part that holds the start of the directory
\* and the tail buffer, with the body data each of them starts with.
calculate_cd_fetch_ranges(central_dir_offset, initial_start) ==
  LET parts == IF central_dir_offset >= initial_start
               THEN {}
               ELSE (central_dir_offset \div part_size)..((initial_start - 1) \div part_size)
      PartRange(p) ==
        LET start == p * part_size
            end == Min({start + part_size - 1, initial_start - 1})
        IN [start |-> start, end |-> end,
            body_data_size |-> IF start < central_dir_offset
                               THEN Min({central_dir_offset, end + 1}) - start
                               ELSE 0]
  IN {PartRange(p) : p \in parts}

\* Bytes of the central directory assemble_cd_buffer copies: from each range
\* that has a buffer and from the tail buffer, what overlaps
\* [central_dir_offset, cd_end).
assemble_cd_buffer(ranges, central_dir_offset, cd_end, initial_start, initial_size) ==
  LET Copied(first, end) ==
        Max({first, central_dir_offset})..(Min({end, cd_end}) - 1)
  IN (UNION {Copied(r.start, r.end + 1) : r \in ranges})
       \cup Copied(initial_start, initial_start + initial_size)

\* Body data in memory: what comes before the directory in the first range
\* that has any (assemble_cd_buffer), and in the tail buffer
\* (add_tail_buffer_segment).
RangeSegments(central_dir_offset, initial_start) ==
  LET body == {r \in calculate_cd_fetch_ranges(central_dir_offset, initial_start) :
                 r.body_data_size > 0}
      first == CHOOSE r \in body : \A q \in body : r.start <= q.start
  IN IF body = {}
     THEN {}
     ELSE {[archive_offset |-> first.start, size |-> first.body_data_size]}

TailSegmentAlways(central_dir_offset, initial_start, initial_size) ==  \* mutant
  {[archive_offset |-> initial_start,
    size |-> Min({central_dir_offset, initial_start + initial_size}) - initial_start]}

TailSegment(central_dir_offset, initial_start, initial_size) ==
  IF initial_start >= central_dir_offset
  THEN {}
  ELSE {[archive_offset |-> initial_start,
         size |-> Min({central_dir_offset, initial_start + initial_size}) - initial_start]}

\* Where the body data of a part ends: parts do not reach into the directory.
PartBodyEnd(p, central_dir_offset) == Min({(p + 1) * part_size, central_dir_offset})

HasBody(p, central_dir_offset) == p * part_size < PartBodyEnd(p, central_dir_offset)

\* part_has_full_body_data: the parts whose body data one segment covers.
CoveredParts(archive_size, central_dir_offset, segments) ==
  {p \in 0..(NumParts(archive_size) - 1) :
     /\ HasBody(p, central_dir_offset)
     /\ \E s \in segments :
          /\ s.archive_offset <= p * part_size
          /\ s.archive_offset + s.size >= PartBodyEnd(p, central_dir_offset)}

\* The parts that need no request once the directory is there.
PartsInMemory(archive_size, central_dir_offset) ==
  LET initial_start == InitialStart(archive_size)
  IN CoveredParts(archive_size, central_dir_offset,
       RangeSegments(central_dir_offset, initial_start)
         \cup TailSegment(central_dir_offset, initial_start, archive_size - initial_start))
=============================================================================
