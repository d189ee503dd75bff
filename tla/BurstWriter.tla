---------------------------- MODULE BurstWriter ----------------------------
(***************************************************************************)
(* The archive writer (src/src/writer): main's loop over the collected     *)
(* entries, burst_writer_add_file / _symlink / _directory, and             *)
(* burst_writer_finalize.  What is written is the set of placed structures *)
(* "layout"; "pos" is the write position, current_offset + buffer_used in  *)
(* the code.  Compressed bytes, checksums and timestamps are abstracted:   *)
(* how large a compressed frame is, and how much an fread returns, is      *)
(* chosen from the sets FrameSizes and ReadSizes.                          *)
(***************************************************************************)
EXTENDS BurstFormat, Sequences

CONSTANTS
  NameLens,         \* lengths of entry names
  TargetLens,       \* lengths of symlink targets
  FrameSizes,       \* compressed sizes compress_chunk may return
  ReadSizes,        \* bytes one fread may return
  ZSTD_CHUNK_SIZE,  \* what add_file asks fread for (128 KiB in the code)
  MaxEntries,       \* bound: entries main has collected
  MaxFrames         \* bound: frames of one file

ASSUME WriterAssumption ==
  /\ NameLens \subseteq Nat \ {0}
  /\ TargetLens \subseteq Nat \ {0}
  /\ FrameSizes \subseteq Nat \ {0}
  /\ ZSTD_CHUNK_SIZE \in Nat \ {0}
  /\ ReadSizes \subseteq 1..ZSTD_CHUNK_SIZE
  /\ MaxEntries \in Nat
  /\ MaxFrames \in Nat

\* What the 8 MiB part and PATH_MAX guarantee in the program: headers,
\* symlink targets and frames are small next to a part, and the extra field
\* of a padding header fits its 16-bit length.
ASSUME PartIsLarge ==
  /\ PART_SIZE <= SIZE_T
  /\ \A n \in NameLens :
       /\ LfhLen(n) + PADDING_LFH_MIN_SIZE + DATA_DESCRIPTOR_ZIP64_SIZE <= PART_SIZE
       /\ LfhLen(n) + DATA_DESCRIPTOR_ZIP64_SIZE <= UINT16
       /\ \A t \in TargetLens :
            /\ LfhLen(n) + t + PADDING_LFH_MIN_SIZE <= PART_SIZE
            /\ LfhLen(n) + t <= UINT16
  /\ \A f \in FrameSizes :
       START_OF_PART_SIZE + f + BURST_MIN_SKIPPABLE_FRAME_SIZE <= PART_SIZE
  /\ START_OF_PART_SIZE + DATA_DESCRIPTOR_ZIP64_SIZE + PADDING_LFH_MIN_SIZE <= PART_SIZE

VARIABLES
  phase,              \* "adding", "file" (inside add_file), "cd", "done", "failed"
  pos,                \* write position
  layout,             \* the structures written so far
  files,              \* writer->files[0 .. num_files-1], in order
  cur,                \* the file add_file is working on
  attempts,           \* process_entry calls so far
  next_cdfh,          \* write_central_directory's loop index
  central_dir_start,
  first_cdfh_offset   \* the offset stored in the BRST comment

finalizeVars == <<next_cdfh, central_dir_start, first_cdfh_offset>>
vars == <<phase, pos, layout, files, cur, attempts, finalizeVars>>

\* bytes_read is what the last fread returned; a short read was the last one.
OpenFile(name_len, local_header_offset, compressed_start_offset) ==
  [name_len |-> name_len, local_header_offset |-> local_header_offset,
   compressed_start_offset |-> compressed_start_offset,
   total_uncompressed |-> 0, bytes_read |-> ZSTD_CHUNK_SIZE, frames |-> 0]
NoFile == OpenFile(0, 0, 0)

BURST_EOCD_NO_CDFH_IN_TAIL == 16777215

(***************************************************************************)
(* Alignment decisions (alignment.c).                                      *)
(***************************************************************************)

\* Mutants of alignment_decide: no case for a frame that ends on the
\* boundary, and no room for a padding frame after the frame.
DecideWithoutExactFit(current_offset, frame_size, at_file_end) ==
  LET space_required == IF at_file_end THEN frame_size + DATA_DESCRIPTOR_SIZE ELSE frame_size
  IN IF SpaceUntilBoundary(current_offset) >= space_required
     THEN "WRITE_FRAME"
     ELSE "PAD_THEN_METADATA"

DecideWithoutRoomForPadding(current_offset, frame_size, at_file_end) ==
  LET space_required == IF at_file_end THEN frame_size + DATA_DESCRIPTOR_SIZE ELSE frame_size
      space == SpaceUntilBoundary(current_offset)
  IN IF space = space_required /\ ~at_file_end
     THEN "WRITE_FRAME_THEN_METADATA"
     ELSE IF space >= space_required THEN "WRITE_FRAME" ELSE "PAD_THEN_METADATA"

alignment_decide(current_offset, frame_size, at_file_end) ==
  LET space_required == IF at_file_end THEN frame_size + DATA_DESCRIPTOR_SIZE ELSE frame_size
      space == SpaceUntilBoundary(current_offset)
  IN IF space = space_required
     THEN IF at_file_end THEN "WRITE_FRAME" ELSE "WRITE_FRAME_THEN_METADATA"
     ELSE IF space >= space_required + BURST_MIN_SKIPPABLE_FRAME_SIZE
          THEN "WRITE_FRAME"
          ELSE "PAD_THEN_METADATA"

\* A padding frame asked to fill less than its own 8-byte header would not
\* be small but huge: padding_size is an unsigned difference.
PaddingSize(space) == (space - 8) % SIZE_T

PaddingFrame(at, id) ==
  Structure("Pad", at, BURST_MIN_SKIPPABLE_FRAME_SIZE + PaddingSize(SpaceUntilBoundary(at)),
            id, 0, 0)

StartOfPart(at, id, uncompressed_offset) ==
  Structure("SOP", at, START_OF_PART_SIZE, id, uncompressed_offset, 0)

(***************************************************************************)
(* check_alignment_and_pad and write_padding_lfh: before an entry's header *)
(* that, with what must follow it, needs "needed" bytes.                   *)
(***************************************************************************)

SpaceNeeded(lfh_len, content_size, has_data_descriptor) ==
  lfh_len + content_size + PADDING_LFH_MIN_SIZE
    + (IF has_data_descriptor THEN DATA_DESCRIPTOR_ZIP64_SIZE ELSE 0)

NeedsPaddingLfh(needed) == SpaceUntilBoundary(pos) < needed

\* write_padding_lfh refuses a gap smaller than its minimal header.
CanPlaceEntry(needed) ==
  NeedsPaddingLfh(needed) => SpaceUntilBoundary(pos) >= PADDING_LFH_MIN_SIZE

PaddingLfhLen(target_size) ==
  PADDING_LFH_MIN_SIZE + ((target_size - PADDING_LFH_MIN_SIZE) % UINT16)

PosAfterPadding(needed) ==
  IF NeedsPaddingLfh(needed) THEN pos + PaddingLfhLen(SpaceUntilBoundary(pos)) ELSE pos

PaddingLfh(needed) ==
  IF NeedsPaddingLfh(needed)
  THEN {Structure("PadLFH", pos, PaddingLfhLen(SpaceUntilBoundary(pos)), attempts + 1, 0, 0)}
  ELSE {}

\* Mutant of FileEntry: the two sizes in each other's place.
SwappedSizes(id, kind, name_len, offset, csize, usize) ==
  [id |-> id, kind |-> kind, name_len |-> name_len, local_header_offset |-> offset,
   compressed_size |-> usize, uncompressed_size |-> csize]

FileEntry(id, kind, name_len, offset, csize, usize) ==
  [id |-> id, kind |-> kind, name_len |-> name_len, local_header_offset |-> offset,
   compressed_size |-> csize, uncompressed_size |-> usize]

(***************************************************************************)
(* process_entry: one call per collected entry.                            *)
(***************************************************************************)

NextEntry == phase = "adding" /\ attempts < MaxEntries

\* Directories and empty files: a header and nothing else.  An empty file
\* asks for room for a descriptor it will not write.
AddHeaderOnly(kind, name_len) ==
  LET lfh_len == LfhLen(name_len)
      needed == SpaceNeeded(lfh_len, 0, kind = "empty")
      at == PosAfterPadding(needed)
      id == attempts + 1
  IN /\ NextEntry
     /\ CanPlaceEntry(needed)
     /\ layout' = layout \cup PaddingLfh(needed)
                         \cup {Structure("LFH", at, lfh_len, id, 0, 0)}
     /\ pos' = at + lfh_len
     /\ files' = Append(files, FileEntry(id, kind, name_len, at, 0, 0))
     /\ attempts' = id
     /\ UNCHANGED <<phase, cur, finalizeVars>>

AddSymlink(name_len, target_len) ==
  LET lfh_len == LfhLen(name_len)
      needed == SpaceNeeded(lfh_len, target_len, FALSE)
      at == PosAfterPadding(needed)
      id == attempts + 1
  IN /\ NextEntry
     /\ CanPlaceEntry(needed)
     /\ layout' = layout \cup PaddingLfh(needed)
                         \cup {Structure("LFH", at, lfh_len, id, 0, 0),
                               Structure("Content", at + lfh_len, target_len, id, 0, target_len)}
     /\ pos' = at + lfh_len + target_len
     /\ files' = Append(files, FileEntry(id, "symlink", name_len, at, target_len, target_len))
     /\ attempts' = id
     /\ UNCHANGED <<phase, cur, finalizeVars>>

\* add_file up to its read loop, for a file with data.
BeginFile(name_len) ==
  LET lfh_len == LfhLen(name_len)
      needed == SpaceNeeded(lfh_len, 0, TRUE)
      at == PosAfterPadding(needed)
      id == attempts + 1
  IN /\ NextEntry
     /\ CanPlaceEntry(needed)
     /\ layout' = layout \cup PaddingLfh(needed)
                         \cup {Structure("LFH", at, lfh_len, id, 0, 0)}
     /\ pos' = at + lfh_len
     /\ cur' = OpenFile(name_len, at, at + lfh_len)
     /\ attempts' = id
     /\ phase' = "file"
     /\ UNCHANGED <<files, finalizeVars>>

\* The entry cannot be opened or built (nothing is written), or the gap
\* before the boundary is too small for a padding header.  main goes on.
SkipEntry ==
  /\ NextEntry
  /\ attempts' = attempts + 1
  /\ UNCHANGED <<phase, pos, layout, files, cur, finalizeVars>>

\* Mutant of UncompressedBefore: the bytes of the frame counted twice.
UncompressedAfter(total_uncompressed, bytes_read) == total_uncompressed

\* What the frames before this one hold; the code has already added
\* bytes_read to its total when it writes the Start-of-Part frame.
UncompressedBefore(total_uncompressed, bytes_read) == total_uncompressed - bytes_read

\* One iteration of the read loop: bytes_read bytes compressed to frame_size.
WriteFrame(bytes_read, frame_size) ==
  LET at_eof == bytes_read < ZSTD_CHUNK_SIZE
      action == alignment_decide(pos, frame_size, at_eof)
      boundary == alignment_next_boundary(pos)
      total_uncompressed == cur.total_uncompressed + bytes_read
      FrameAt(at) ==
        Structure("Frame", at, frame_size, attempts, cur.total_uncompressed, bytes_read)
  IN /\ phase = "file"
     /\ cur.bytes_read = ZSTD_CHUNK_SIZE
     /\ cur.frames < MaxFrames
     /\ \/ /\ action = "WRITE_FRAME"
           /\ layout' = layout \cup {FrameAt(pos)}
           /\ pos' = pos + frame_size
        \/ /\ action = "WRITE_FRAME_THEN_METADATA"
           /\ layout' = layout \cup {FrameAt(pos),
                                     StartOfPart(pos + frame_size, attempts, total_uncompressed)}
           /\ pos' = pos + frame_size + START_OF_PART_SIZE
        \/ LET pad == PaddingFrame(pos, attempts)
               next == pos + pad.len
           IN /\ action = "PAD_THEN_METADATA"
              /\ layout' = layout \cup {pad,
                 StartOfPart(next, attempts, UncompressedBefore(total_uncompressed, bytes_read)),
                 FrameAt(next + START_OF_PART_SIZE)}
              /\ pos' = next + START_OF_PART_SIZE + frame_size
     /\ cur' = [cur EXCEPT !.total_uncompressed = total_uncompressed,
                           !.bytes_read = bytes_read,
                           !.frames = @ + 1]
     /\ UNCHANGED <<phase, files, attempts, finalizeVars>>

\* Mutant of NeedsTrailingPadding: room for the descriptor only.
DescriptorOnly(space, descriptor_size) ==
  space < descriptor_size + BURST_MIN_SKIPPABLE_FRAME_SIZE

\* The descriptor and a minimal next header have to fit before the boundary.
NeedsTrailingPadding(space, descriptor_size) ==
  space < descriptor_size + PADDING_LFH_MIN_SIZE + BURST_MIN_SKIPPABLE_FRAME_SIZE

\* After the read loop: sizes, trailing alignment, data descriptor.
EndFile ==
  LET csize == pos - cur.compressed_start_offset
      usize == cur.total_uncompressed
      descriptor_size == DescriptorSize(csize, usize)
      pads == NeedsTrailingPadding(SpaceUntilBoundary(pos), descriptor_size)
      pad == PaddingFrame(pos, attempts)
      at == IF pads THEN pos + pad.len + START_OF_PART_SIZE ELSE pos
  IN /\ phase = "file"
     /\ layout' = layout
          \cup (IF pads THEN {pad, StartOfPart(pos + pad.len, attempts, usize)} ELSE {})
          \cup {Structure("DD", at, descriptor_size, attempts, 0, 0)}
     /\ pos' = at + descriptor_size
     /\ files' = Append(files, FileEntry(attempts, "file", cur.name_len,
                                         cur.local_header_offset, csize, usize))
     /\ cur' = NoFile
     /\ phase' = "adding"
     /\ UNCHANGED <<attempts, finalizeVars>>

\* A read or compression error: add_file returns -1 and what it wrote stays.
AbortFile ==
  /\ phase = "file"
  /\ cur' = NoFile
  /\ phase' = "adding"
  /\ UNCHANGED <<pos, layout, files, attempts, finalizeVars>>

(***************************************************************************)
(* burst_writer_finalize.                                                  *)
(***************************************************************************)

\* build_zip64_extra_field
Zip64ExtraLen(e) ==
  LET field(v) == IF v > MAX32 THEN 8 ELSE 0
      data_size == field(e.uncompressed_size) + field(e.compressed_size)
                     + field(e.local_header_offset)
  IN IF data_size = 0 THEN 0 ELSE 4 + data_size

\* What write_central_directory writes for an entry.
CdfhLen(e) == 46 + e.name_len + 15 + Zip64ExtraLen(e)

\* Mutant of calculate_cdfh_size: the ZIP64 field without its own header.
NoZip64Header(e) ==
  46 + e.name_len + 15
    + (IF e.uncompressed_size > MAX32 THEN 8 ELSE 0)
    + (IF e.compressed_size > MAX32 THEN 8 ELSE 0)
    + (IF e.local_header_offset > MAX32 THEN 8 ELSE 0)

\* What find_first_cdfh_in_tail believes write_central_directory wrote.
calculate_cdfh_size(e) ==
  LET need_zip64 == \/ e.compressed_size > MAX32
                    \/ e.uncompressed_size > MAX32
                    \/ e.local_header_offset > MAX32
  IN 46 + e.name_len + 15
       + (IF need_zip64 THEN 4 ELSE 0)
       + (IF e.uncompressed_size > MAX32 THEN 8 ELSE 0)
       + (IF e.compressed_size > MAX32 THEN 8 ELSE 0)
       + (IF e.local_header_offset > MAX32 THEN 8 ELSE 0)

\* Its walk: the offset at which it expects the header of files[i].
CdfhOffsets ==
  LET offset[i \in 1..Len(files)] ==
        IF i = 1 THEN central_dir_start
        ELSE offset[i - 1] + calculate_cdfh_size(files[i - 1])
  IN offset

find_first_cdfh_in_tail(final_archive_size) ==
  LET tail_start == final_archive_size - PART_SIZE
      inTail == {i \in 1..Len(files) : CdfhOffsets[i] >= tail_start}
  IN IF final_archive_size <= PART_SIZE \/ central_dir_start >= tail_start
     THEN 0
     ELSE IF inTail = {}
          THEN BURST_EOCD_NO_CDFH_IN_TAIL
          ELSE CdfhOffsets[CHOOSE i \in inTail : \A j \in inTail : i <= j] - tail_start

\* Mutant of BeginFinalize: the loop over the entries starts at zero.
FinalizeFromZero ==
  /\ phase = "adding"
  /\ phase' = IF files = <<>> THEN "failed" ELSE "cd"
  /\ central_dir_start' = pos
  /\ next_cdfh' = 0
  /\ UNCHANGED <<pos, layout, files, cur, attempts, first_cdfh_offset>>

\* All entries processed.  Without a single success main gives up.
BeginFinalize ==
  /\ phase = "adding"
  /\ phase' = IF files = <<>> THEN "failed" ELSE "cd"
  /\ central_dir_start' = pos
  /\ next_cdfh' = 1
  /\ UNCHANGED <<pos, layout, files, cur, attempts, first_cdfh_offset>>

WriteCentralHeader ==
  LET entry == files[next_cdfh]
  IN /\ phase = "cd"
     /\ next_cdfh <= Len(files)
     /\ layout' = layout \cup {Structure("CDFH", pos, CdfhLen(entry), entry.id, 0, 0)}
     /\ pos' = pos + CdfhLen(entry)
     /\ next_cdfh' = next_cdfh + 1
     /\ UNCHANGED <<phase, files, cur, attempts, central_dir_start, first_cdfh_offset>>

WriteEndRecords ==
  LET size == EOCD64_SIZE + LOCATOR_SIZE + EOCD_SIZE
  IN /\ phase = "cd"
     /\ next_cdfh > Len(files)
     /\ first_cdfh_offset' = find_first_cdfh_in_tail(pos + size)
     /\ layout' = layout \cup {Structure("End", pos, size, 0, 0, 0)}
     /\ pos' = pos + size
     /\ phase' = "done"
     /\ UNCHANGED <<files, cur, attempts, next_cdfh, central_dir_start>>

(***************************************************************************)
(* Specification.                                                          *)
(***************************************************************************)

Init ==
  /\ phase = "adding"
  /\ pos = 0
  /\ layout = {}
  /\ files = <<>>
  /\ cur = NoFile
  /\ attempts = 0
  /\ next_cdfh = 1
  /\ central_dir_start = 0
  /\ first_cdfh_offset = 0

Next ==
  \/ \E n \in NameLens : BeginFile(n)
  \/ \E n \in NameLens : \E kind \in {"empty", "dir"} : AddHeaderOnly(kind, n)
  \/ \E n \in NameLens : \E t \in TargetLens : AddSymlink(n, t)
  \/ SkipEntry
  \/ \E r \in ReadSizes : \E f \in FrameSizes : WriteFrame(r, f)
  \/ EndFile
  \/ AbortFile
  \/ BeginFinalize
  \/ WriteCentralHeader
  \/ WriteEndRecords

Spec == Init /\ [][Next]_vars

(***************************************************************************)
(* Properties.                                                             *)
(***************************************************************************)

EntryKinds == {"file", "empty", "dir", "symlink"}

FileEntries ==
  [id : Nat, kind : EntryKinds, name_len : Nat, local_header_offset : Nat,
   compressed_size : Nat, uncompressed_size : Nat]

OpenFiles ==
  [name_len : Nat, local_header_offset : Nat, compressed_start_offset : Nat,
   total_uncompressed : Nat, bytes_read : Nat, frames : Nat]

\* The state of the writer is well formed: positions and sizes are naturals,
\* the directory only holds complete entries (struct burst_writer).
TypeOK ==
  /\ phase \in {"adding", "file", "cd", "done", "failed"}
  /\ pos \in Nat
  /\ layout \subseteq Structures
  /\ files \in Seq(FileEntries)
  /\ cur \in OpenFiles
  /\ attempts \in Nat
  /\ next_cdfh \in Nat \ {0}
  /\ central_dir_start \in Nat

\* Where the entries end: the central directory may cross boundaries freely.
DataEnd == IF phase \in {"adding", "file"} THEN pos ELSE central_dir_start

\* The alignment rule that lets parts be restored independently: whatever
\* sequence of entries, frames, exact fits and errors add_file, add_symlink
\* and add_directory went through, every part boundary below the central
\* directory is the first byte of a local header or a Start-of-Part frame.
AlignmentRule ==
  \A k \in 0..(DataEnd \div PART_SIZE) :
    k * PART_SIZE < DataEnd =>
      \E s \in layout : s.at = k * PART_SIZE /\ s.kind \in EntryPoints

\* No header, frame, symlink target or data descriptor is cut by a boundary,
\* although add_file decides with a 16-byte descriptor (alignment_decide)
\* and may then write a 24-byte one.
NoStructureCutByBoundary ==
  \A s \in layout :
    s.kind \notin {"CDFH", "End"} => s.at + s.len <= alignment_next_boundary(s.at)

\* The uncompressed offset in a Start-of-Part frame separates the frames of
\* its file: those before it hold bytes below the offset, those after it
\* bytes at or above it, so a part can be written at the right place without
\* reading earlier parts (the three places add_file writes such a frame).
StartOfPartOffsets ==
  \A s, f \in layout :
    s.kind = "SOP" /\ f.kind = "Frame" /\ f.id = s.id =>
      /\ f.at < s.at => f.uoff + f.ulen <= s.uoff
      /\ s.at < f.at => s.uoff <= f.uoff

\* Entries whose data was cut short by an error have no directory entry.
Recorded(id) == \E i \in 1..Len(files) : files[i].id = id
SomeFileAborted ==
  \E s \in layout : s.kind = "LFH" /\ ~Recorded(s.id) /\ ~(phase = "file" /\ s.id = attempts)

\* "sufficient free space to the next boundary exists for a minimal local
\* file header" after every entry (the contract above burst_writer_add_file),
\* as long as no file failed half-way: write_padding_lfh never refuses.
RoomForNextHeader ==
  phase = "adding" /\ ~SomeFileAborted => SpaceUntilBoundary(pos) >= PADDING_LFH_MIN_SIZE

\* A directory entry leads a reader to its data: its offset is that of its
\* own header (populate_entry_metadata, after the padding), and its frames
\* lie in the compressed_size bytes after it and add up to its
\* uncompressed_size.
EntriesLocateData ==
  \A i \in 1..Len(files) :
    LET e == files[i]
        data == e.local_header_offset + LfhLen(e.name_len)
        frames == {s \in layout : s.kind = "Frame" /\ s.id = e.id}
    IN /\ \E s \in layout : /\ s.kind = "LFH" /\ s.id = e.id
                            /\ s.at = e.local_header_offset
                            /\ s.at + s.len = data
       /\ \A f \in frames : /\ data <= f.at
                            /\ f.at + f.len <= data + e.compressed_size
                            /\ f.uoff + f.ulen <= e.uncompressed_size
       /\ e.kind = "file" /\ e.uncompressed_size > 0 =>
            \E f \in frames : f.uoff + f.ulen = e.uncompressed_size

\* The BRST comment names the first directory header that lies wholly in the
\* last PART_SIZE bytes; find_first_cdfh_in_tail walks sizes it computes
\* itself and has to agree with what write_central_directory wrote.
FirstCdfhInTail ==
  phase = "done" /\ pos > PART_SIZE /\ central_dir_start < pos - PART_SIZE =>
    LET tail_start == pos - PART_SIZE
        inTail == {s \in layout : s.kind = "CDFH" /\ s.at >= tail_start}
    IN IF inTail = {}
       THEN first_cdfh_offset = BURST_EOCD_NO_CDFH_IN_TAIL
       ELSE /\ \E s \in inTail : s.at = tail_start + first_cdfh_offset
            /\ \A s \in inTail : s.at >= tail_start + first_cdfh_offset
=============================================================================
