# TLA+ models of BURST

BURST archives are ZIP files whose data is cut at every 8 MiB part boundary so
that the parts can be downloaded from S3 and restored independently. This
directory holds TLA+ models of the program that writes them
(`src/src/writer`) and of the one that restores them (`src/src/downloader`),
the TLC configurations that check the models on small instances, and TLAPS
proofs of their safety properties for every value of the constants. One model follows the
data all the way: what the writer writes is what the restore reads.

## The system

| Component | State | Operations | Properties that make it correct |
| --- | --- | --- | --- |
| Archive writer (`burst_writer.c`, `alignment.c`, `zip_structures.c`, `entry_processor.c`) | write position, list of file entries, the open file's totals | `add_file`, `add_symlink`, `add_directory`, `finalize` | every boundary starts a local header or a Start-of-Part frame; nothing is cut; Start-of-Part offsets are right; directory entries and the BRST comment point where they should |
| Entry collection (`writer/main.c`) | list of paths | walk, then one `process_entry` per path; failures are skipped | an archive without an entry is not finalized |
| Extraction driver (`downloader/main.c`) | tail buffer, directory buffer, body segments | tail request, end records, directory ranges, parse, restore | the parser gets the whole directory; every byte reaches the processor of its part |
| Range arithmetic (`cd_fetch.c`, first half) | none | `calculate_cd_fetch_ranges`, `assemble_cd_buffer`, `add_tail_buffer_segment` | no gap between the ranges and the tail |
| Directory range coordinator (`cd_fetch.c:317-709`) | ranges in flight, buffers | main loop and finish callbacks | all ranges or an error |
| Concurrent coordinator (`s3_operations.c`) | parts in flight, next part, cancel flag, first error | start loop of main, `s3_stream_finish_callback` | returns; 0 only when every part was processed; no request left running |
| Hybrid coordinator (`cd_fetch.c:712-1751`) | ranges and parts dispatched and complete, two queues, flight counter | `hybrid_coordinator_run`, `hybrid_dispatch_next`, two finish callbacks | early parts are described by the partial directory; no work is left behind |
| Blocking requests (`s3_operations.c:20-545`) | request context, completion flag | request, callbacks, `wait_for_completion` with a timeout | a late callback finds its context |
| Stream processor (`stream_processor.c`, `frame_parser.c`) | state, partial structure, open file | `process_data`, `finalize`, one handler per frame type | the files written are those archived, however the data is cut into chunks |
| Directory parser (`central_dir_parser.c`) | files, part map | parse, `build_part_map` | the file that continues into a part is found |
| Output files (`stream_processor.c`, `btrfs_writer.c`) | descriptor, size, mode | open, encoded or plain write, close | size, mode and owner at the end |
| S3 client set-up, compression wrapper, profiling, `parts_calculation.c` | | | not modelled: library configuration, a library call, counters, and code only a unit test calls |

The writer and the downloader only share the archive. Within the downloader,
the main thread and the callbacks that the AWS S3 client makes on its own
threads share a coordinator, protected by a mutex that the code releases while
it starts requests and, in the hybrid coordinator, while it parses the
directory. What is hard: the arithmetic at the boundaries (exact fits, gaps
smaller than a header, 16- or 24-byte descriptors), entries that fail half-way,
callbacks that interleave with main's start loop, signals, failed starts,
timeouts that race a late answer, state read before an unlock and used after it,
structures cut by the chunks that arrive, and output files that several parts
write at the same time. `PROJECT.json` lists each hazard
with its line.

## Modules

| Module | Models | Extends |
| --- | --- | --- |
| `BurstFormat` | sizes of the structures, boundary arithmetic | |
| `BurstWriter` | the writer and main's loop over the entries | `BurstFormat` |
| `BurstWriterProofs` | boundary arithmetic, inductive invariants `AlignInv`, `OrderInv`, `LocateInv`, `CommentInv`, seven theorems | `BurstWriter` |
| `WriterTilingProofs` | inductive invariant `TileInv`: the archive as a reader meets it | `BurstWriterProofs` |
| `CdFetch` | range arithmetic, body segments, parts in memory | |
| `AllOrError` | abstract: what a coordinator promises its caller | |
| `DownloadCoordinator` | `burst_downloader_extract_concurrent` | `CdFetch` |
| `HybridCoordinator` | `hybrid_coordinator_run` and its callbacks | `CdFetch` |
| `TailRequest` | a blocking request with its timeout | |
| `RangeFetch` | `burst_downloader_fetch_cd_ranges` | `CdFetch` |
| `Extract` | `burst_downloader_extract` | `TailRequest`, `RangeFetch` |
| `PartMap` | directory fields, entries and continuing file of a part | `BurstFormat`, `CdFetch` |
| `StreamProcessor` | `part_processor_process_data` and the output files | `BurstWriter`, `PartMap` |
| `BurstRestore` | writer, directory and the processors of all parts together | `StreamProcessor` |
| `CdFetchProofs` | lemmas on parts, ranges and body segments | `CdFetch` |
| `DownloadProofs` | inductive invariant `CoordInv`, five theorems, one a refinement | `DownloadCoordinator`, `CdFetchProofs` |
| `HybridProofs` | inductive invariant `HybridInv`, four theorems | `HybridCoordinator`, `CdFetchProofs` |
| `ExtractProofs` | inductive invariant `ExtractInv`, seven theorems, one a refinement | `Extract`, `CdFetchProofs` |
| `RestoreProofs` | inductive invariant `RestoreInv`, two theorems; what a processor finds at a position | `BurstRestore`, `WriterTilingProofs`, `CdFetchProofs` |
| `RestoreDeliveryProofs` | inductive invariants `DeliveryInv`, `PassedInv`, four theorems | `RestoreProofs` |
| `MC...` | instances for TLC | the module they instantiate |

**BurstWriter.** `pos` is `current_offset + buffer_used`, `files` is
`writer->files`, `layout` is the set of structures written, each with its place
and, for frames, its uncompressed range. Header sizes are those of the format;
the part size and the 32-bit limit of a ZIP field are constants. `BeginFile`,
`WriteFrame` and `EndFile` are the three stretches of `burst_writer_add_file`
(up to the read loop, one iteration, after it); `AbortFile` is any of its error
returns in between. `AddHeaderOnly` is `add_directory`, and `add_file` for an
empty file; `AddSymlink` is `add_symlink`; `SkipEntry` an entry for which
nothing is written. `BeginFinalize`, `WriteCentralHeader` and `WriteEndRecords`
are `burst_writer_finalize`. The size a frame compresses to, and how much an
`fread` returns, is chosen freely from a set. A short read is taken to be the
last one of its file; if it was an error, the file ends in `AbortFile`. Unsigned
differences that could wrap (`PaddingSize`, the 16-bit extra field of a padding
header) are taken modulo their width, with 2^30 for 2^64.

**CdFetch** is the arithmetic that three modules share. Archive offsets are
bytes; small part sizes make every alignment of directory, tail and parts occur.

**DownloadCoordinator** and **HybridCoordinator.** A step is one critical
section of the coordinator's mutex, or a call made outside it. `running` holds
the requests whose finish callback is still to come, `starting` the requests
callbacks are about to make without the mutex, `relocking` (hybrid) the
callbacks that have made one and will lock again, `storing` (concurrent) those
that have made one and have yet to store its handle in `ctx->meta_request` and
test it (`s3_operations.c:903-907`): the request is live by then, and may finish
first. A notify only reaches a
waiting thread (`notified`); waking without one is an action of its own. Whether
a request, a start, a parse or the processing of a part succeeds is open. The
body callbacks, which hand data to the part's processor, are part of the finish
step: nothing of the coordinator changes before it.

**AllOrError** is the abstract specification of a coordinator: items are done one
by one, the call returns success only when every needed item was done and nothing
failed, failure only when something failed, touches nothing after it returned,
and does return. `DownloadCoordinator` implements it (`PartsAllOrError`, and
`EventuallyReturns` for the return), and so does `RangeFetch` within `Extract`
(`RangesAllOrError`, the safety part: the function need not be called at all).
`HybridCoordinator` does not: see `hybrid_success` below.

**TailRequest** is the protocol of `get_object_size`, `test_range_get` and
`fetch_cd_part`: a context is allocated, a request made with it as user data, and
`wait_for_completion` tests `request_complete`, waits once, and reads it again
after the unlock. The finish callback takes the mutex in one step and leaves it in
another. After a failure the context is freed and the request, if any, goes on.

**RangeFetch** has the shape of `DownloadCoordinator`, with the differences of the
code: main and the callbacks draw ranges from one counter. `range_storing` is
its `storing` (`cd_fetch.c:578-582`).

**Extract.** Apart from the two calls above, a step is one stage of
`burst_downloader_extract`, and every stage may fail. `fed` records each byte
handed to a processor with the offset the processor takes it for. The concurrent
coordinator appears by its result, which `DownloadCoordinator` justifies
(`SuccessMeansAllParts`). The hybrid path ends where the hybrid coordinator takes
over.

**PartMap.** An entry goes through what `write_central_directory` stores (32-bit
fields with a marker, ZIP64 values in order) and what the parser reads back;
`ContinuingFile` is `build_part_map`'s search with its estimate of a file's end.

**StreamProcessor.** One record per part stands for `part_processor_state`. The
bytes are positions in the writer's `layout`: `parse_next_frame` recognizes the
structure that starts at the position, if one does. `at` is the next byte to read
and `received` the end of what has arrived, so that the frame buffer is what lies
between. A step is one round of the loop; `PartSteps` lets the loop work off what
it has before the next chunk arrives, as the call does. `out` holds the output
files, shared by all parts: size, mode, whether it was closed, and which
uncompressed range of which entry was written where.

Permissions are modelled as far as one who is not root meets them. `place` gives
every entry its path, as the set of the directory entries of the archive it goes
through (they come before it in the archive, as `collect_files_recursive` adds
them), and what the restore finds in its place: nothing, or a file or directory
with or without write permission, with the size an earlier restore left.
`CanOpen` and `Opened` are `open_output_file`: missing directories of the path are
made writable (`ensure_directory_exists`), a directory gets its archived mode at
its own header, a file is opened for writing whoever left it, and nothing can be
made in a directory whose mode is read-only by then. `Closed` sets size and mode of
a file; a symlink that cannot be made is a warning, as in the code.

**BurstRestore** runs `BurstWriter` to the end and then the processors of its
parts in any interleaving. Parts in memory are handed over whole and up to the
directory, the others in chunks and with the directory's bytes. Archives with one
part are left to `Extract`; those with a file that failed half-way are restored
only when `RestoreDamaged` says so.

## What TLC checks

| Run | Instance | Shows |
| --- | --- | --- |
| `writer` | parts of 192 bytes, two names, one symlink target, frames of 30, 52 and 116 bytes, two entries of up to three frames, 32-bit limit 100 | `AlignmentRule`, `NoStructureCutByBoundary`, `StartOfPartOffsets`, `RoomForNextHeader`, `EntriesLocateData`, `FirstCdfhInTail` |
| `download` | archives of two to four parts, directory anywhere, two parallel downloads | `InFlightIsExact`, `SuccessMeansAllParts`, `EveryRequestFinished`, `PartsAllOrError` (refinement), `EventuallyReturns` |
| `hybrid` | three or four parts, one to three directory ranges, every set of entries and every partial directory, two parallel requests | `InFlightIsExact`, `EarlyPartsAreKnown`, `NoWorkStranded`, `EventuallyReturns` |
| `extract` | tail of 4 bytes, parts of 8, archives that fit the tail or have two to four parts, two parallel ranges | `TailIsComplete`, `DirectoryInMemory`, `OneBodySegment`, `AllDataRestored`, `BytesInPlace`, `RangesAllOrError` (refinement), `EventuallyReturns` |
| `restore` | units of 288 bytes, download parts of two units, two entries of up to two frames of 160 bytes, two name lengths, the shorter archived read-only, any path, any of absent, writable and read-only found (files of 500 bytes), not root, chunks of 75, 32-bit limit 100 | `ParsedAsWritten`, `WritesInPlace`, `SuccessMeansRestored`, `FailuresExplained`, `EveryPartEnds` |

Each also checks its type invariant, which for the coordinators includes the
limit on parallel requests. Deadlock is not checked because all the programs end;
that they do end is `EventuallyReturns` and `EveryPartEnds`.

`FailuresExplained` lists how a good archive can be refused, failing writes apart.
A frame is taken for invalid when the part map missed the file that continues into
the part, or when a chunk ended inside a data descriptor, which is stepped over once
its signature has arrived; that the second contradicts the header file is the run
`restore_chunks`. An open is refused, to one who is not root, when the path goes
through a directory that was found or is archived read-only, when the file itself
was found read-only, or when it is archived read-only and spans parts, so that
another part may have finished it. All of these happen in the run, the missed file
in `restore_continuing`. What the
property excludes is the rest: that a file is refused for a mode
its own part sets, that parents made on the way get in the way, that any other
structure cut by a chunk is misread, or that bytes are left in the buffer. The properties of `restore` exclude
files whose compressed or uncompressed size is exactly 0xFFFFFFFF: the writer
stores such a size in the 32-bit field without a ZIP64 value, the parser takes it
for the marker, and then reads the other ZIP64 values of the entry one place off
and expects a descriptor of the wrong size.

*Bounds.* 192 bytes is the room of three to four structures, so headers, frames
and descriptors meet a boundary at many distances: frames that end exactly on
it, that would leave less than a padding frame before it, and files that end too
close to it for a descriptor or for the next header; a limit of 100 makes ZIP64
descriptors and ZIP64 directory fields occur beside ordinary ones. Two entries
suffice for what one entry leaves to the next (the proofs cover any number). Two
parallel requests and four parts give main and two callbacks work at the same
time and leave work to be picked up later. Parts of twice the tail size are what
`--part-size 16` gives. In `restore`, download parts of two units put Start-of-Part
frames at the start and in the middle of a part; a chunk of 75 bytes cuts headers,
frames and descriptors; the limit of 100 lies between, below and at the sizes that
occur; and archives reach three download parts, so that two
parts of a file and the parts of two files are restored at the same time. Two
entries are a directory and what lies in it, or two entries beside each other.

*Fairness.* Weak fairness of the main thread's steps and of the callbacks'. The
S3 client calls the finish callback of every request, failed and cancelled ones
included, and no thread is suspended for ever. Spurious wake-ups may happen but
are not required. For the tail request nothing is asked of S3: the timed wait ends,
and that is why `burst_downloader_extract` returns even if no answer comes. In
`restore` the client's threads go on delivering the data of the parts, without
preferring any.

Seven runs state what a comment or a document says, and TLC finds it violated:

| Run | Claim | What happens |
| --- | --- | --- |
| `download_callback` | "Wait for S3 downloads to complete", then "Cleanup: destroy all part contexts" (`s3_operations.c:1147`, `:1177`) | main destroys a context in which a callback has yet to store the request it started |
| `hybrid_success` | "Wait for all work to complete" (`cd_fetch.c:1597`) | main returns 0 while a callback is parsing the directory and no late part was requested |
| `extract_one_part` | the single-part path is for archives that fit the tail (`main.c:111`) | it is taken for larger ones when `--part-size` is above 8 |
| `extract_late_callback` | "Wait for request to complete", then "Clean up request context" (`s3_operations.c:206`, `:69`) | after a timeout or a wake-up without a notify the context is freed under a running request |
| `restore_chunks` | chunks are "arbitrary-sized", partial frames are buffered (`stream_processor.h:23`) | a chunk that ends inside a data descriptor has the part refused |
| `restore_continuing` | the estimate of a file's end is conservative (`central_dir_parser.c:576`) | it leaves out the name: a file's last frames are skipped and the restore succeeds |
| `restore_aborted` | each local header corresponds to the part's next entry (`central_dir_parser.h:37`) | the header of a file that failed while it was archived does not: its data goes to another file |

Further observations that have no run of their own:

* Main's start loop sets `next_part_to_start` to its own index plus one
  (`s3_operations.c:1128`), although a callback may have started that part: the part
  is then requested twice, the second context replaces the first, and two processors
  write the same files. The coordinator's properties hold all the same, and count
  both requests.
* The window of `download_callback` exists twice more: for the range contexts
  (`cd_fetch.c:578`; `ContextOutlivesRequest` includes them) and in the hybrid
  coordinator, whose `hybrid_dispatch_next` locks the mutex again after the request
  it started may have finished (`cd_fetch.c:1249`).
* Without privileges (`README.md:53` says that this is possible) a read-only file
  that spans parts may not be restored even into an empty directory, nor anything in
  a directory archived read-only whose header comes first. A file or directory is
  then an I/O error, a symlink only a warning (`stream_processor.c:890`).
* After a file that failed half-way there may be no room for a padding header, and
  every later entry is then refused (`burst_writer.c:249` promises the room; `RoomForNextHeader` excepts such
  files).
* A file's compressed size leaves out the trailing padding and Start-of-Part frame,
  contrary to `burst_writer.c:438`.
* Main's start loop in `extract_concurrent` goes on after a callback recorded an error
  (`s3_operations.c:592` says fail-fast).

## What is proved

Every safety property the runs check is a theorem, for every value of the
constants, the refinements in their safety part: 29 theorems in all. A run shows
each of them on a small instance first. Some theorems have a hypothesis; each is
named below, with the run that shows the property false without it.

*Assumptions.* Of the writer and the restore `FormatAssumption`,
`WriterAssumption`, `PartIsLarge`, `ProcessorAssumption` and `RestoreAssumption`.
`PartIsLarge` says that headers, symlink targets and frames are small next to a
part and that a padding header's extra field fits 16 bits; in the program 8 MiB
parts, 128 KiB frames and `PATH_MAX` give it. Of the coordinators and the driver
that the download part is a multiple of the tail (`CdFetchAssumption`) and that at
least one request may run at a time. Number of entries, frames, parts, ranges and
parallel requests is open.

**Writer** (`BurstWriter!Spec`)

* `TypeCorrect`, `AlignmentRuleHolds`, `NoStructureCut` rest on `AlignInv`: the
  type invariant, the rule stated for every multiple of the part size below the
  end of the data (`Rule`), that no structure is longer than the space before
  the next boundary (`Uncut`), and `MidFile`: inside `add_file` at least 8 bytes
  are left before the boundary. Without `MidFile` the invariant is not
  inductive: a padding frame asked to fill less than its own header would wrap.
  It is why `alignment_decide` insists on room for a padding frame after a frame.
* `RoomForNextHeaderHolds` and `StartOfPartOffsetsHold` rest on `OrderInv`, which
  adds that structures and ids lie behind the position and the call counter
  (`Behind`, `EntriesBehind`), that the open file has a header and no directory
  entry yet (`OpenFileHasHeader`: how a failed file is recognized later), and
  that the offsets of the open file do not exceed what was read
  (`OffsetsReached`).
* `EntriesLocateDataHolds` adds to that what the totals of the open file are
  totals of (`OpenFileLocated`): they become the directory entry when the file is
  closed.
* `FirstCdfhInTailHolds` relates two computations of the same offsets: the
  recursive `CdfhOffsets`, evaluated before a header is written, and the headers
  then written one by one. `CommentInv` says how far the second has followed the
  first; that the recursive function exists and takes the expected step is proved
  from its definition by looking at the least index where it would not
  (`LeastNatural`).

**Concurrent coordinator** (`DownloadCoordinator!Spec`). `CoordInv` says who has
a part that the shared counter has passed (`NoneSkipped`: unless there was an
error it is processed, requested, or about to be), that main's loop index stays
behind that counter although main sets it back (`IndexBehind`), and that main
waits with nothing in flight only when the counter has reached every part
(`WaitsForAll`). `InFlightIsExact` counts callbacks, not parts, because a part may
be requested twice (main's start loop, below); `SuccessIsComplete` holds all the same.
`AllRequestsFinished` says that no request and no start is left when main stops
waiting. It does not say that no callback is left: the one that made the last
request may still be storing its handle (run `download_callback`).
`ImplementsAllOrError` maps each step to an abstract step or a stutter.

**Hybrid coordinator** (`HybridCoordinator!Spec`). `HybridInv` tracks every item
that was dispatched (`Flight`: it is away, or complete, or there was an error),
ties the directory to its last range (`DirectoryFollows`), and says that the
dispatcher finds nothing to do whenever nothing is in flight (`NothingLeft`),
from which `NothingStranded` follows. `EarlyQueueIsKnown` is arithmetic on the
partial directory: the entry that precedes a part in file order is in it, too.

**Driver** (`Extract!Spec`). `ExtractInv` joins the invariants of the tail request,
the range coordinator and the stages. The arithmetic underneath is in
`CdFetchProofs`: the ranges and the tail leave no gap, each part's body bytes make
up one segment, and the parts in memory are those that start in it.
`ExtractRestoresAll` and `ExtractBytesInPlace` have a hypothesis, `SizesAllowed`:
no archive is larger than the tail and no larger than a part. With the default
part size there is none (`DefaultPartSize`); with a larger one the run
`extract_one_part` shows what happens.

**Restore** (`BurstRestore!RestoreSpec`). `RestoreContainsWriter` shows that every
behaviour of the composition is one of the writer, so that the writer's theorems
hold in it. `DirectoryRoundTrip` is about the ZIP64 extra field: the values are
where the parser looks for them in all eight combinations of overflows, unless a
size is the marker itself. `ProcessorsStayInPart` needs `RestoreInv`: a processor
that reads a symlink target has not read more than its size (or the difference
computed next would be negative), one that continues a file has one to continue,
and for every index below the number of a part's entries `EntryAt` names an entry
(`EntryAtExists`, by counting).

*What the restore delivers* (`RestoreDeliveryProofs`). The argument has three
stages.

1. `TileInv`, of the writer: the structures below the directory lie one behind
   the other without a gap, in the order of the entries, each behind the header of
   its entry; a header follows what ends an entry; the offset of a frame or
   Start-of-Part frame is what the frames before it hold (`Chain`). What belongs
   to a directory entry fits its kind, the descriptor has the size the entry
   implies, and later entries lie behind it (`EntriesKept`). The tiling is why a
   reader that steps over a structure stands at another one. No comment states it;
   `AlignmentRule` and `EntriesLocateData` do not imply it.
2. `DeliveryInv`, of the processors: while the structures ahead are what a
   processor takes them for, it stands at a header and has counted exactly the
   headers of its part before it (`next_entry_idx`), or at a structure of the file
   it has open with the offset the frames before hold, or inside a symlink target
   (`Placement`); and its error, if any, is one of the known ones
   (`Explained`). `Permitted` says where a missing write permission comes from: it
   was found, or this restore has set it, and to a file only once a part has begun
   it (`Begun`: it continues into a part, or a part has counted its header). A
   processor that comes to a header has not begun its entry, and no other part
   counts the same entry, so a refused open has one of the causes of `OpenRefused`
   (`WhyRefused`, `RefusalKnown`). `OutputsOK` says what an output file holds meanwhile: only its
   own data at its own offsets, and its final size once it is finished. Other
   parts may have the file open at the same time, so each handler is shown both to
   keep its own placement and only to let the files grow (`OutputsGrow`).
   `DataWrittenInPlace` and `RefusalsExplained` follow.
3. `PassedInv`: every frame of its part that a processor has passed is stored in
   its file, and every entry it has passed is finished or is the one it has open
   (`Delivered`). When all parts are finalized every piece of the archive has been
   passed by the processor of its part, and `SuccessRestores` follows.

These theorems have hypotheses, because the code has the exceptions:

* `~SomeFileAborted`: no file failed half-way while it was archived. The header
  such a file leaves has no directory entry, and the run `restore_aborted` shows
  data going to another file.
* `NoDataMissed`, of `SuccessRestores`: `build_part_map` found the file whose
  Start-of-Part frame begins a part, or the part holds no frame of it. The run
  `restore_continuing` shows the silent loss otherwise. `ShortNamesRestore`
  replaces this by a condition on the input: the estimate of a file's end leaves
  out the name and the 15 bytes of extra field, and this can hide data only if the
  name is longer than a Start-of-Part frame and a data frame together (24 bytes
  and the frame). The run has a name of 60 bytes and frames of 30.
* `NoneAtFieldLimit`, within the properties: no size is exactly 0xFFFFFFFF.

Each inductive invariant has one lemma per action or group of actions. The
boundary arithmetic (division, unique quotients, space after a step) is proved once
in `BurstWriterProofs`.

*Only model-checked.* Liveness (`EventuallyReturns`, `EveryPartEnds`), the
liveness of `AllOrError` under the refinement included, which is outside the
prover's reach; and the seven violations, which are counterexamples.

## Not modelled

* Failures of the output file and the 64 KiB write buffer (a short write leaves the
  buffer as it was, and the next flush repeats the bytes that did get out), and an
  allocation failure in the middle of a padding header: the writer would go on with
  the next entry.
* Ranges the server answers with fewer bytes than asked for, without an error, and
  an object that is replaced between two requests.
* In `restore`: a request that fails between two chunks (the coordinators show that
  it is reported), allocation failures, and failures of the file system other than
  for write permission: search permission, files of other owners, something of
  another kind in the place of an entry, a full disk, too many open files, failing
  `ftruncate` and `chmod` calls. The output directory itself takes new names, and
  the parents of an entry are in the archive; those `ensure_directory_exists` makes
  without one stay writable.
* Owners, times, checksums, names and the contents of frames.
* The value of `meta_request`: a finish callback that records an error also cancels
  the requests it finds stored (`s3_operations.c:763-767`); in the model a request
  may end in any way at any time, cancelled ones included.
* The test build's forced padding (`BURST_TEST_FORCE_PADDING_LFH`).
* S3 client set-up, the Zstandard wrapper, profiling and `parts_calculation.c`:
  library configuration, a library call, counters, and code that only a unit test
  calls.

## Plan

Done: all the modules above, the runs, the two refinements with their proofs, and
the proofs of every safety property. What is left, in this order:

1. The write buffer with output errors, as a module of its own: after a short
   write main goes on with the next entry, and `TileInv` no longer holds of the
   file.
2. Ranges answered with fewer bytes than asked for (`assemble_cd_buffer` skips
   them), as an outcome of `RangeFetch`.
