-------------------------- MODULE StreamProcessor --------------------------
(***************************************************************************)
(* stream_processor.c with frame_parser.c: one processor per part reads    *)
(* the part's bytes in the chunks the S3 client delivers, recognizes the   *)
(* structures in them and writes the output files.  It only has the        *)
(* directory (cd_files) to tell whose data it reads.  The bytes are those  *)
(* BurstWriter wrote: a position is recognized as a structure when one     *)
(* starts there, and as nothing the parser knows otherwise.  A step is one *)
(* round of the loop in part_processor_process_data; the processors of     *)
(* different parts run on different threads and share the output files.    *)
(***************************************************************************)
EXTENDS BurstWriter, PartMap

CONSTANTS
  ChunkSizes,     \* how much data one body callback may bring
  ReadOnlyNames,  \* lengths of the names of entries archived without write permission
  Root,           \* geteuid() = 0: permissions do not stop an open
  FoundModes,     \* what the restore may find in the place of an entry
  StaleSize       \* size of the files an earlier restore has left behind

Modes == {"absent", "writable", "readonly"}

ASSUME ProcessorAssumption ==
  /\ ChunkSizes \subseteq Nat \ {0}
  /\ ReadOnlyNames \subseteq NameLens
  /\ Root \in BOOLEAN
  /\ FoundModes \subseteq Modes
  /\ StaleSize \in Nat

VARIABLES
  cd_files,  \* cd_result->files: the parsed directory
  place,     \* place[i]: the directories in the path of cd_files[i], and what was found there
  proc,      \* proc[p]: part_processor_state of part p
  out        \* out[i]: the output file of cd_files[i]

\* at is the archive offset of the byte that is read next, received that of
\* the first byte that has not arrived; what lies between them while the
\* processor waits is frame_buffer.  file is an index of cd_files, 0 for none.
NewProcessor(parsed, p) ==
  [state |-> IF ContinuingFile(parsed, p) = 0 THEN "EXPECT_LOCAL_HEADER" ELSE "CONTINUING_FILE",
   at |-> p * part_size, received |-> p * part_size, next_entry_idx |-> 0,
   file |-> 0, uncompressed_offset |-> 0,
   symlink_bytes_read |-> 0, symlink_source |-> 0, error |-> "none", finalized |-> FALSE]

\* The paths of the entries.  collect_files_recursive adds a directory
\* before what is in it, with the longer name; what lies in a directory is
\* only found where the directory is.
Places(parsed) ==
  {t \in [DOMAIN parsed -> [dirs : SUBSET DOMAIN parsed, found : FoundModes]] :
     \A i \in DOMAIN parsed : \A d \in t[i].dirs :
       /\ d < i /\ parsed[d].kind = "dir" /\ parsed[d].name_len < parsed[i].name_len
       /\ t[d].dirs = {e \in t[i].dirs : e < d}
       /\ t[i].found # "absent" => t[d].found # "absent"}

\* unix_mode, for the one who restores.
ArchivedMode(e) == IF e.name_len \in ReadOnlyNames THEN "readonly" ELSE "writable"

\* finished: it was closed (a directory: made), for files with the size of
\* the directory; written: which uncompressed range of which entry was
\* written at which offset.
OutputFile(e, found) ==
  [size |-> IF e.kind \in {"file", "empty"} /\ found # "absent" THEN StaleSize ELSE 0,
   mode |-> found, finished |-> FALSE, written |-> {}]

Processors == DOMAIN proc

\* A part in memory is handed over up to the directory, any other is
\* requested whole.
PartDataEnd(p) ==
  IF p \in PartsInMemory(pos, central_dir_start)
  THEN PartBodyEnd(p, central_dir_start)
  ELSE Min({(p + 1) * part_size, pos})

(***************************************************************************)
(* parse_next_frame.                                                       *)
(***************************************************************************)

Recognized == {"LFH", "PadLFH", "Frame", "Pad", "SOP", "DD", "CDFH"}
Unknown(at) == Structure("Unknown", at, 4, 0, 0, 0)

FrameAtPosition(at) ==
  LET here == {s \in layout : s.at = at /\ s.kind \in Recognized}
  IN IF here = {} THEN Unknown(at) ELSE CHOOSE s \in here : TRUE

\* Mutant of BytesNeeded: whatever the frame, its signature is enough.
SignatureOnly(s, state) == 4

\* Bytes that have to be there before the frame is handled: the signature of
\* a data descriptor or a directory header, the fixed part of a local header
\* (all of it where it is consumed), all of a frame.
BytesNeeded(s, state) ==
  IF s.kind \in {"DD", "CDFH", "Unknown"} THEN 4
  ELSE IF s.kind \in {"LFH", "PadLFH"} /\ state # "EXPECT_LOCAL_HEADER" THEN 30
  ELSE s.len

NoEntryLeft(p) == proc[p].next_entry_idx >= Cardinality(EntriesOf(cd_files, p))

\* The loop goes on: there are bytes, and enough to handle the frame s that
\* they begin.
Ready(p, s) ==
  LET q == proc[p]
  IN /\ q.at < q.received
     /\ \/ q.state = "READING_SYMLINK"
        \/ q.state = "EXPECT_LOCAL_HEADER" /\ NoEntryLeft(p)
        \/ /\ q.state \in {"CONTINUING_FILE", "EXPECT_LOCAL_HEADER", "PROCESSING_FRAMES"}
           /\ q.received - q.at >= BytesNeeded(s, q.state)

(***************************************************************************)
(* Output files.                                                           *)
(***************************************************************************)

Regular(i) == i # 0 /\ cd_files[i].kind \in {"file", "empty"}

\* The directory entry i lies in takes no new names.
InLockedDirectory(i) ==
  /\ ~Root
  /\ \E d \in place[i].dirs : /\ out[d].mode = "readonly"
                              /\ \A e \in place[i].dirs : e <= d

\* Mutant of CanMake: what is there already is an error (no test for EEXIST).
OnlyIfAbsent(i) == out[i].mode = "absent" /\ ~InLockedDirectory(i)

\* mkdir, or open with O_CREAT.
CanMake(i) == out[i].mode = "absent" => ~InLockedDirectory(i)

\* ensure_directory_exists for the path, then mkdir for a directory, nothing
\* yet for a symlink; a file is opened with O_WRONLY, whether another part
\* or an earlier restore has left it or not.
CanOpen(i) ==
  /\ \A d \in place[i].dirs : CanMake(d)
  /\ cd_files[i].kind # "symlink" => CanMake(i)
  /\ Regular(i) /\ out[i].mode = "readonly" => Root

Made(o) == IF o.mode = "absent" THEN [o EXCEPT !.mode = "writable"] ELSE o

\* The directories of the path are made as far as they are missing, and a
\* new file is writable; a directory gets its mode when its header is read.
Opened(i) ==
  [j \in DOMAIN out |->
     IF j = i /\ cd_files[i].kind = "dir"
     THEN [out[j] EXCEPT !.mode = ArchivedMode(cd_files[j]), !.finished = TRUE]
     ELSE IF j \in place[i].dirs \/ (j = i /\ Regular(i)) THEN Made(out[j])
     ELSE out[j]]

\* Mutant of Closed: the file keeps the size the writes gave it.
ClosedWithoutTruncate(q) ==
  IF Regular(q.file) THEN [out EXCEPT ![q.file].finished = TRUE] ELSE out

\* close_output_file: a file gets its size and its mode.  A symlink is made
\* from what was read of its target; where that fails there is a warning.
Closed(q) ==
  IF Regular(q.file)
  THEN [out EXCEPT ![q.file].size = cd_files[q.file].uncompressed_size,
                   ![q.file].mode = ArchivedMode(cd_files[q.file]),
                   ![q.file].finished = TRUE]
  ELSE IF q.file # 0 /\ cd_files[q.file].kind = "symlink"
  THEN [out EXCEPT ![q.file].finished = TRUE,
                   ![q.file].written =
                     IF InLockedDirectory(q.file) THEN @
                     ELSE {[id |-> q.symlink_source, uoff |-> 0,
                            ulen |-> q.symlink_bytes_read, at |-> 0]}]
  ELSE out

WithoutFile(q) ==
  [q EXCEPT !.file = 0, !.uncompressed_offset = 0, !.symlink_bytes_read = 0, !.symlink_source = 0]

(***************************************************************************)
(* Handlers, one per state and kind of frame; s is the frame at the        *)
(* processor's position.                                                   *)
(***************************************************************************)

Handles(p, s, state, kinds) ==
  /\ proc[p].state = state
  /\ s.kind \in kinds
  /\ ~(state = "EXPECT_LOCAL_HEADER" /\ NoEntryLeft(p))

Becomes(p, q) == proc' = [proc EXCEPT ![p] = q]

Fails(p, code) ==
  /\ Becomes(p, [proc[p] EXCEPT !.state = "ERROR", !.error = code])
  /\ UNCHANGED out

Past(p, s) == [proc[p] EXCEPT !.at = @ + s.len]

\* open_output_file for entry i, then the frame that named it is consumed.
Opens(p, s, i, offset, state, next_entry_idx) ==
  IF CanOpen(i)
  THEN /\ Becomes(p, [Past(p, s) EXCEPT !.file = i, !.uncompressed_offset = offset,
                                     !.state = state, !.next_entry_idx = next_entry_idx])
       /\ out' = Opened(i)
  ELSE Fails(p, "IO")

\* Mutant of SopOffset: the data of a continuing file starts at its beginning.
FromTheStart(s) == 0
\* The uncompressed offset a Start-of-Part frame holds.
SopOffset(s) == s.uoff

ContinueFile(p, s) ==
  /\ Handles(p, s, "CONTINUING_FILE", {"SOP"})
  /\ Opens(p, s, ContinuingFile(cd_files, p), SopOffset(s),
           "PROCESSING_FRAMES", proc[p].next_entry_idx)

\* handle_local_header: whatever the header's own name is, it is taken for
\* that of the part's next entry.
OpenEntry(p, s) ==
  LET i == EntryAt(cd_files, p, proc[p].next_entry_idx)
  IN /\ Handles(p, s, "EXPECT_LOCAL_HEADER", {"LFH"})
     /\ Opens(p, s, i, 0,
              IF cd_files[i].kind = "symlink" THEN "READING_SYMLINK" ELSE "PROCESSING_FRAMES",
              proc[p].next_entry_idx + 1)

\* All entries of the part were seen: the rest of its bytes is ignored.
StopAtLastEntry(p) ==
  /\ proc[p].state = "EXPECT_LOCAL_HEADER"
  /\ NoEntryLeft(p)
  /\ Becomes(p, [proc[p] EXCEPT !.state = "DONE", !.at = proc[p].received])
  /\ UNCHANGED out

SkipPadding(p, s) ==
  /\ \/ Handles(p, s, "EXPECT_LOCAL_HEADER", {"Pad", "PadLFH"})
     \/ Handles(p, s, "PROCESSING_FRAMES", {"Pad"})
  /\ Becomes(p, Past(p, s))
  /\ UNCHANGED out

ReachDirectory(p, s) ==
  /\ \/ Handles(p, s, "EXPECT_LOCAL_HEADER", {"CDFH"})
     \/ Handles(p, s, "PROCESSING_FRAMES", {"CDFH"})
  /\ Becomes(p, [WithoutFile(proc[p]) EXCEPT !.state = "DONE", !.at = proc[p].received])
  /\ out' = Closed(proc[p])

\* do_write_encoded, and do_write_unencoded where the file system or the
\* frame does not allow it: the frame's data at the given offset.
Written(i, s, offset) ==
  [out EXCEPT ![i].size = Max({@, offset + s.ulen}),
              ![i].written = @ \cup {[id |-> s.id, uoff |-> s.uoff, ulen |-> s.ulen, at |-> offset]}]

WriteData(p, s) ==
  LET q == proc[p]
  IN /\ Handles(p, s, "PROCESSING_FRAMES", {"Frame"})
     /\ Regular(q.file)
     /\ \/ /\ Becomes(p, [Past(p, s) EXCEPT !.uncompressed_offset = @ + s.ulen])
           /\ out' = Written(q.file, s, q.uncompressed_offset)
        \/ Fails(p, "BTRFS_WRITE")

\* A part larger than 8 MiB holds Start-of-Part frames in its middle.
StartOfPartInFile(p, s) ==
  /\ Handles(p, s, "PROCESSING_FRAMES", {"SOP"})
  /\ IF proc[p].at % PART_SIZE = 0
     THEN /\ Becomes(p, [Past(p, s) EXCEPT
                           !.uncompressed_offset = SopOffset(s)])
          /\ UNCHANGED out
     ELSE Fails(p, "INVALID_FRAME")

\* The descriptor is stepped over as soon as its signature is there: the
\* position may then lie behind the bytes received, and the rest of the
\* descriptor is read as a new frame when it arrives.
EndOfFile(p, s) ==
  LET q == proc[p]
      end == q.at + ParsedDescriptorSize(cd_files[q.file])
  IN /\ Handles(p, s, "PROCESSING_FRAMES", {"DD"})
     /\ Becomes(p, [WithoutFile(q) EXCEPT !.at = Min({end, q.received}),
                                          !.state = "EXPECT_LOCAL_HEADER"])
     /\ out' = Closed(q)

\* Mutant of NextHeader: the header is looked at again in the same state.
HeaderLeftAlone(p, s) ==
  /\ Handles(p, s, "PROCESSING_FRAMES", {"LFH", "PadLFH"})
  /\ out' = Closed(proc[p])
  /\ Becomes(p, WithoutFile(proc[p]))

\* The file had no descriptor; the header is read again in the next round.
NextHeader(p, s) ==
  /\ Handles(p, s, "PROCESSING_FRAMES", {"LFH", "PadLFH"})
  /\ out' = Closed(proc[p])
  /\ Becomes(p, [WithoutFile(proc[p]) EXCEPT !.state = "EXPECT_LOCAL_HEADER"])

\* The target is copied as far as it has arrived.
ReadSymlink(p) ==
  LET q == proc[p]
      size == cd_files[q.file].uncompressed_size
      n == Min({q.received - q.at, size - q.symlink_bytes_read})
      sources == {s \in layout : s.kind = "Content" /\ s.at = q.at}
      read == [q EXCEPT !.at = @ + n, !.symlink_bytes_read = @ + n,
                        !.symlink_source = IF q.symlink_bytes_read > 0 \/ sources = {} THEN @
                                           ELSE (CHOOSE s \in sources : TRUE).id]
  IN /\ q.state = "READING_SYMLINK"
     /\ IF read.symlink_bytes_read >= size
        THEN /\ Becomes(p, [WithoutFile(read) EXCEPT !.state = "EXPECT_LOCAL_HEADER"])
             /\ out' = Closed(read)
        ELSE Becomes(p, read) /\ UNCHANGED out

\* Everything else is an error.
RejectFrame(p, s) ==
  /\ \/ Handles(p, s, "CONTINUING_FILE", (Recognized \ {"SOP"}) \cup {"Unknown"})
     \/ Handles(p, s, "EXPECT_LOCAL_HEADER", {"Frame", "SOP", "DD", "Unknown"})
     \/ Handles(p, s, "PROCESSING_FRAMES", {"Unknown"})
     \/ Handles(p, s, "PROCESSING_FRAMES", {"Frame"}) /\ ~Regular(proc[p].file)
  /\ Fails(p, "INVALID_FRAME")

(***************************************************************************)
(* The callbacks of a part's request, or the loop over the parts in        *)
(* memory: chunks, then part_processor_finalize.                           *)
(***************************************************************************)

Open(p) == proc[p].state # "ERROR" /\ ~proc[p].finalized

\* The next call of part_processor_process_data.
ReceiveChunk(p, n) ==
  LET q == proc[p]
      size == IF p \in PartsInMemory(pos, central_dir_start) THEN part_size ELSE n
  IN /\ Open(p)
     /\ q.state # "DONE"
     /\ q.received < PartDataEnd(p)
     /\ Becomes(p, [q EXCEPT !.received = Min({@ + size, PartDataEnd(p)})])
     /\ UNCHANGED out

\* A processor that is done returns at once from the remaining calls.
FinalizePart(p) ==
  LET q == proc[p]
      closed == WithoutFile(q)
  IN /\ Open(p)
     /\ q.state = "DONE" \/ q.received = PartDataEnd(p)
     /\ out' = Closed(q)
     /\ Becomes(p, IF q.at < q.received
                   THEN [closed EXCEPT !.state = "ERROR", !.error = "UNEXPECTED_EOF"]
                   ELSE [closed EXCEPT !.state = "DONE", !.finalized = TRUE])

\* part_processor_process_data works off what it has before it returns.
PartSteps(p) ==
  LET s == FrameAtPosition(proc[p].at)
  IN \/ /\ Ready(p, s)
        /\ \/ ContinueFile(p, s) \/ OpenEntry(p, s) \/ StopAtLastEntry(p)
           \/ SkipPadding(p, s) \/ ReachDirectory(p, s) \/ WriteData(p, s)
           \/ StartOfPartInFile(p, s) \/ EndOfFile(p, s) \/ NextHeader(p, s)
           \/ ReadSymlink(p) \/ RejectFrame(p, s)
     \/ /\ ~Ready(p, s)
        /\ (\E n \in ChunkSizes : ReceiveChunk(p, n)) \/ FinalizePart(p)
=============================================================================
