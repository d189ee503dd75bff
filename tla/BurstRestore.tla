---------------------------- MODULE BurstRestore ----------------------------
(***************************************************************************)
(* The whole path of the data: BurstWriter writes an archive, the          *)
(* downloader parses its directory and the processors of its parts         *)
(* restore the files, in any interleaving.  Which bytes reach a processor  *)
(* is what Extract and DownloadCoordinator show: every part once, from its *)
(* start to its end.                                                       *)
(***************************************************************************)
EXTENDS StreamProcessor

CONSTANT RestoreDamaged  \* restore archives with a file that failed half-way, too

ASSUME RestoreAssumption ==
  /\ RestoreDamaged \in BOOLEAN
  /\ TAIL_SIZE = PART_SIZE

restoreVars == <<vars, cd_files, place, proc, out>>

NotStarted == proc = <<>>

\* The directory is parsed and every part gets its processor; what the
\* output directory holds by then is anybody's choice.  Archives of one part
\* take another path (Extract).
BeginRestore ==
  LET parsed == [i \in DOMAIN files |-> ParsedEntry(files[i])]
  IN /\ phase = "done"
     /\ NotStarted
     /\ NumParts(pos) > 1
     /\ RestoreDamaged \/ ~SomeFileAborted
     /\ cd_files' = parsed
     /\ proc' = [p \in 0..(NumParts(pos) - 1) |-> NewProcessor(parsed, p)]
     /\ \E t \in Places(parsed) :
          /\ place' = t
          /\ out' = [i \in DOMAIN files |-> OutputFile(files[i], t[i].found)]
     /\ UNCHANGED vars

\* Entries that are skipped leave nothing in the archive.
WriterSteps ==
  /\ \/ \E n \in NameLens : BeginFile(n)
     \/ \E n \in NameLens : \E kind \in {"empty", "dir"} : AddHeaderOnly(kind, n)
     \/ \E n \in NameLens : \E t \in TargetLens : AddSymlink(n, t)
     \/ \E r \in ReadSizes : \E f \in FrameSizes : WriteFrame(r, f)
     \/ EndFile \/ AbortFile \/ BeginFinalize \/ WriteCentralHeader \/ WriteEndRecords
  /\ UNCHANGED <<cd_files, place, proc, out>>

RestoreSteps ==
  /\ \E p \in Processors : PartSteps(p)
  /\ UNCHANGED <<vars, cd_files, place>>

RestoreInit ==
  /\ Init
  /\ cd_files = <<>>
  /\ place = <<>>
  /\ proc = <<>>
  /\ out = <<>>

RestoreNext == WriterSteps \/ BeginRestore \/ RestoreSteps

\* The threads of the S3 client go on delivering the data of every part.
RestoreSpec ==
  RestoreInit /\ [][RestoreNext]_restoreVars /\ WF_restoreVars(RestoreSteps)

(***************************************************************************)
(* Properties.                                                             *)
(***************************************************************************)

States == {"CONTINUING_FILE", "EXPECT_LOCAL_HEADER", "PROCESSING_FRAMES", "READING_SYMLINK",
           "DONE", "ERROR"}

\* Every processor stays within the bytes of its part and within the part's
\* entries, and has a file exactly while it reads one (part_processor_state).
RestoreTypeOK ==
  \A p \in Processors :
    LET q == proc[p]
    IN /\ q.state \in States
       /\ q.error \in {"none", "INVALID_FRAME", "IO", "BTRFS_WRITE", "UNEXPECTED_EOF"}
       /\ p * part_size <= q.at /\ q.at <= q.received /\ q.received <= PartDataEnd(p)
       /\ q.next_entry_idx \in 0..Cardinality(EntriesOf(cd_files, p))
       /\ q.file \in 0..Len(cd_files)
       /\ q.state # "ERROR" => (q.file # 0) = (q.state \in {"PROCESSING_FRAMES", "READING_SYMLINK"})

\* A size of exactly 0xFFFFFFFF is stored without a ZIP64 field, and the
\* marker means one to the parser.
AtFieldLimit(e) == e.uncompressed_size = MAX32 \/ e.compressed_size = MAX32
NoneAtFieldLimit == \A i \in DOMAIN files : ~AtFieldLimit(files[i])

\* What write_central_directory stores comes back from parse_zip64_extra_field
\* with the same sizes and offset, whichever of the three overflow 32 bits,
\* and the processor will step over as large a descriptor as add_file wrote;
\* except for a size of exactly 0xFFFFFFFF.
ParsedAsWritten ==
  \A i \in DOMAIN cd_files :
    LET e == files[i]
        c == cd_files[i]
    IN \/ AtFieldLimit(e)
       \/ /\ c.uncompressed_size = e.uncompressed_size
          /\ c.compressed_size = e.compressed_size
          /\ c.local_header_offset = e.local_header_offset
          /\ ParsedDescriptorSize(c) = DescriptorSize(e.compressed_size, e.uncompressed_size)

\* Whatever the parts, the chunks and the order of the processors, data is
\* written to the file it was read from and at the offset it had there,
\* although a processor knows neither from the frame it writes: the file is
\* the part's next entry or its continuing file, the offset a running sum or
\* that of the last Start-of-Part frame.
WritesInPlace ==
  NoneAtFieldLimit =>
    \A i \in DOMAIN out : \A w \in out[i].written :
      w.id = cd_files[i].id /\ w.at = w.uoff

DataOf(id) ==
  {[id |-> s.id, uoff |-> s.uoff, ulen |-> s.ulen, at |-> s.uoff] :
     s \in {t \in layout : t.id = id /\ t.kind \in {"Frame", "Content"}}}

\* Entry i was without write permission before it was restored, or is
\* archived without.
ReadOnlyEver(i) == place[i].found = "readonly" \/ ArchivedMode(cd_files[i]) = "readonly"

\* Its path goes through a directory that may refuse a new name.
InReadOnlyDirectory(i) == ~Root /\ \E d \in place[i].dirs : ReadOnlyEver(d)

\* A symlink that cannot be made is a warning and no error.
Restored(i) ==
  /\ out[i].finished
  /\ \/ out[i].written = DataOf(files[i].id)
     \/ files[i].kind = "symlink" /\ InReadOnlyDirectory(i)
  /\ files[i].kind = "file" \/ files[i].kind = "empty" =>
       /\ out[i].size = files[i].uncompressed_size
       /\ out[i].mode = ArchivedMode(files[i])

AllFinalized == Processors # {} /\ \A p \in Processors : proc[p].finalized

\* When part_processor_finalize has succeeded for every part (the restore
\* returns 0), every file has its data, its size and its mode, whatever was
\* there before; ftruncate by the part that closes the file first must not
\* cost what the others wrote.
SuccessMeansRestored ==
  AllFinalized /\ NoneAtFieldLimit => \A i \in DOMAIN files : Restored(i)

\* build_part_map has missed the file whose Start-of-Part frame begins the
\* part.
ContinuationMissed(p) ==
  FrameAtPosition(p * part_size).kind = "SOP" /\ ContinuingFile(cd_files, p) = 0

\* The processor has left a file in the middle of its data descriptor.
InsideDescriptor(p) ==
  \E s \in layout : s.kind = "DD" /\ s.at < proc[p].at /\ proc[p].at < s.at + s.len

\* The entry a processor opens next, or could not open.
EntryToOpen(p) ==
  IF ContinuingFile(cd_files, p) # 0 /\ proc[p].at = p * part_size
  THEN ContinuingFile(cd_files, p)
  ELSE EntryAt(cd_files, p, proc[p].next_entry_idx)

\* Why a file or directory may refuse to be opened without Root: it lies in
\* a read-only directory, an earlier restore left it read-only, or it is
\* read-only and data of several parts, of which one may close it before
\* another opens it.
OpenRefused(i) ==
  /\ ~Root
  /\ \/ InReadOnlyDirectory(i)
     \/ Regular(i) /\ place[i].found = "readonly"
     \/ /\ Regular(i) /\ ArchivedMode(cd_files[i]) = "readonly"
        /\ \E r \in Processors : ContinuingFile(cd_files, r) = i

\* How a good archive can be refused, a write that fails apart: build_part_map
\* missed the file that continues into the part, a chunk ended inside a data
\* descriptor (run restore_chunks), or the permissions of one of the entry's
\* directories or of the entry itself.  Every other structure may be cut
\* anywhere by the chunks, no part ends with bytes in its buffer, and a file
\* that nobody else restores is never refused for the mode this restore gives
\* it.
FailuresExplained ==
  NoneAtFieldLimit =>
    \A p \in Processors :
      /\ proc[p].error = "INVALID_FRAME" => ContinuationMissed(p) \/ InsideDescriptor(p)
      /\ proc[p].error = "IO" => OpenRefused(EntryToOpen(p))
      /\ proc[p].error # "UNEXPECTED_EOF"

\* "data arrives in arbitrary-sized chunks from S3 callbacks. It buffers
\* partial frames that span callback boundaries": no frame of a good archive
\* is taken for something else because of where the chunks end.
FramesRecognized ==
  NoneAtFieldLimit =>
    \A p \in Processors : proc[p].error = "INVALID_FRAME" => ContinuationMissed(p)

\* Every part comes to an end: no handler leaves the loop of
\* part_processor_process_data where it was.
EveryPartEnds ==
  ~NotStarted ~> \A p \in Processors : proc[p].finalized \/ proc[p].error # "none"
=============================================================================
