------------------------------ MODULE Extract ------------------------------
(***************************************************************************)
(* burst_downloader_extract (downloader/main.c): fetch the tail, read the  *)
(* end records, fetch and assemble the rest of the central directory if    *)
(* the tail does not hold it, parse it, and restore the archive's parts    *)
(* from memory or by download.  The tail is fetched by TailRequest and the *)
(* ranges of the directory by RangeFetch, step by step; any other stage of *)
(* the function is one step.  Each may fail, and then the function returns *)
(* -1.  "fed" pairs every byte that was handed to a part processor: the    *)
(* archive offset the processor takes it for, and the one it really comes  *)
(* from.  The concurrent coordinator is here by what DownloadCoordinator   *)
(* shows of its return value; handing over to the hybrid coordinator ends  *)
(* the behaviour, and what happens from there on is the subject of         *)
(* HybridCoordinator.                                                      *)
(***************************************************************************)
EXTENDS TailRequest, RangeFetch

CONSTANT ArchiveSizes  \* sizes of the archives considered

ASSUME ExtractAssumption == ArchiveSizes \subseteq Nat \ {0}

VARIABLES
  cd_end,     \* what the end records say, with archive_size and central_dir_offset
  first_cdfh_offset_in_tail,  \* the BRST comment: "none", "none_in_tail", "in_tail"
  stage,
  cd_data,    \* archive offsets of the bytes the directory parser is given
  segments,   \* body_segments: data of parts that is in memory
  fed,        \* <<offset processed as, offset it came from>>
  result

archive == <<archive_size, central_dir_offset, cd_end, first_cdfh_offset_in_tail>>
driver == <<stage, cd_data, segments, fed, result>>
vars == <<archive, driver, tailVars, rangeVars>>

initial_size == archive_size - initial_start
num_parts == NumParts(archive_size)
Parts == 0..(num_parts - 1)

\* goto cleanup with result still -1
Fail == stage' = "returned" /\ UNCHANGED <<cd_data, segments, fed, result>>

Proceed(next) == stage' = next /\ UNCHANGED <<cd_data, segments, fed, result>>

\* burst_downloader_fetch_cd_part has returned.
FetchTail ==
  /\ stage = "tail"
  /\ \/ tail_main = "failed" /\ Fail
     \/ tail_main = "succeeded" /\ Proceed("eocd")

\* The directory is in the tail, or it starts before it; then the comment
\* decides whether the hybrid path is tried.
ParseEocd ==
  /\ stage = "eocd"
  /\ \/ Fail
     \/ central_dir_offset >= initial_start /\ Proceed("parse")
     \/ /\ central_dir_offset < initial_start
        /\ \/ first_cdfh_offset_in_tail = "in_tail" /\ cd_ranges # {} /\ Proceed("partial")
           \/ ~(first_cdfh_offset_in_tail = "in_tail" /\ cd_ranges # {}) /\ Proceed("ranges")

\* The hybrid coordinator takes over for good, or the partial directory
\* cannot be used: then the sequential path is taken.
TryHybrid ==
  /\ stage = "partial"
  /\ Proceed("ranges") \/ Proceed("hybrid")

\* burst_downloader_fetch_cd_ranges has returned: assemble_cd_buffer.
AssembleRanges ==
  /\ stage = "ranges"
  /\ range_main = "returned"
  /\ \/ Fail
     \/ /\ range_error = 0
        /\ cd_data' = assemble_cd_buffer({RangeAt(i) : i \in range_buffers}, central_dir_offset,
                                         cd_end, initial_start, initial_size)
        /\ segments' = RangeSegments(central_dir_offset, initial_start)
        /\ stage' = "parse"
        /\ UNCHANGED <<fed, result>>

\* Without an assembled buffer the parser is given the tail from the
\* directory on.
ParseDirectory ==
  /\ stage = "parse"
  /\ \/ Fail
     \/ /\ cd_data' = IF central_dir_offset < initial_start
                      THEN cd_data
                      ELSE central_dir_offset..(archive_size - 1)
        /\ stage' = "extract"
        /\ UNCHANGED <<segments, fed, result>>

\* process_single_part_archive: the initial buffer is taken for part 0.
SinglePart ==
  {<<i, initial_start + i>> : i \in 0..(Min({central_dir_offset, initial_size}) - 1)}

UpToTwoParts == num_parts <= 2  \* mutant
IsSinglePart == num_parts <= 1

ExtractSinglePart ==
  /\ stage = "extract"
  /\ IsSinglePart
  /\ \/ Fail
     \/ /\ fed' = SinglePart
        /\ result' = 0
        /\ stage' = "returned"
        /\ UNCHANGED <<cd_data, segments>>

\* add_tail_buffer_segment
AddTailSegment ==
  /\ stage = "extract"
  /\ ~IsSinglePart
  /\ \/ Fail
     \/ /\ segments' = segments \cup TailSegment(central_dir_offset, initial_start, initial_size)
        /\ stage' = "concurrent"
        /\ UNCHANGED <<cd_data, fed, result>>

\* A part in memory is read from a segment that holds its first byte, from
\* the segment's start on; the others are requested whole.
Downloaded(p) == {<<b, b>> : b \in (p * part_size)..(Min({(p + 1) * part_size, archive_size}) - 1)}

FromSegment(p, s) ==
  LET start == p * part_size
      end == Min({PartBodyEnd(p, central_dir_offset), s.archive_offset + s.size})
  IN {<<b, b>> : b \in start..(end - 1)}

ExtractConcurrent ==
  LET covered == CoveredParts(archive_size, central_dir_offset, segments)
      Holding(p) == {s \in segments : /\ s.archive_offset <= p * part_size
                                      /\ p * part_size < s.archive_offset + s.size}
  IN /\ stage = "concurrent"
     /\ \/ Fail
        \/ /\ \E from \in [covered -> segments] :
                /\ \A p \in covered : from[p] \in Holding(p)
                /\ fed' = UNION ({Downloaded(p) : p \in Parts \ covered}
                                   \cup {FromSegment(p, from[p]) : p \in covered})
           /\ result' = 0
           /\ stage' = "returned"
           /\ UNCHANGED <<cd_data, segments>>

(***************************************************************************)
(* Specification.                                                          *)
(***************************************************************************)

\* An archive with entries, a directory and end records that fit the tail.
Init ==
  /\ archive_size \in ArchiveSizes
  /\ central_dir_offset \in 1..(archive_size - 1)
  /\ cd_end \in (central_dir_offset + 1)..(archive_size - 1)
  /\ cd_end >= initial_start
  /\ first_cdfh_offset_in_tail \in
       IF central_dir_offset < initial_start
       THEN {"none", "none_in_tail", "in_tail"}
       ELSE {"none"}
  /\ stage = "tail"
  /\ cd_data = {}
  /\ segments = {}
  /\ fed = {}
  /\ result = -1
  /\ TailInit
  /\ RangeInit

DriverSteps ==
  /\ \/ FetchTail \/ ParseEocd \/ TryHybrid \/ AssembleRanges \/ ParseDirectory
     \/ ExtractSinglePart \/ AddTailSegment \/ ExtractConcurrent
  /\ UNCHANGED <<archive, tailVars, rangeVars>>

\* The request of the tail, and what is left of it when the caller gave up.
TailSteps(steps) ==
  /\ steps
  /\ UNCHANGED <<archive, driver, rangeVars>>

RangeSteps(steps) ==
  /\ steps
  /\ UNCHANGED <<archive, driver, tailVars>>

MainSteps ==
  \/ DriverSteps
  \/ TailSteps(TailMainSteps)
  \/ stage = "ranges" /\ RangeSteps(RangeMainSteps)
RangeCallbacks == RangeSteps(RangeCallbackSteps)

Next ==
  \/ MainSteps
  \/ TailSteps(TailWakes)
  \/ TailSteps(TailCallbackSteps)
  \/ RangeSteps(RangeMainWakesSpuriously)
  \/ RangeCallbacks

\* The main thread is not suspended for ever and its timed wait ends.  The
\* S3 client ends every range request with a finish callback; nothing is
\* asked of it for the tail request, except that it leaves a mutex it holds.
Fairness ==
  /\ WF_vars(MainSteps)
  /\ WF_vars(RangeCallbacks)
  /\ WF_vars(TailSteps(LeaveFinishCallback))

Spec == Init /\ [][Next]_vars /\ Fairness

(***************************************************************************)
(* Properties.                                                             *)
(***************************************************************************)

Offsets == 0..(archive_size - 1)

\* Every stage is reached with the data it needs, and with nothing outside
\* the archive (the local variables of burst_downloader_extract).
TypeOK ==
  /\ stage \in {"tail", "eocd", "partial", "hybrid", "ranges", "parse", "extract",
               "concurrent", "returned"}
  /\ cd_data \subseteq Offsets
  /\ segments \subseteq [archive_offset : Offsets, size : 1..archive_size]
  /\ fed \subseteq Offsets \X Offsets
  /\ result \in {0, -1}
  /\ ranges_in_flight \in 0..max_concurrent
  /\ range_running \subseteq RangeIndexes /\ range_starting \subseteq RangeIndexes

\* Wherever the directory starts and ends, the ranges that
\* calculate_cd_fetch_ranges picks and the tail leave no gap in the buffer
\* the parser is given: assemble_cd_buffer fills an uninitialized buffer and
\* does not notice one.
DirectoryInMemory ==
  stage \in {"extract", "concurrent"} => central_dir_offset..(cd_end - 1) \subseteq cd_data

\* The tail is read only after its request ended without an error: neither
\* a timeout that races the finish callback nor a wait that ends for no
\* reason (wait_for_completion waits once) lets half a buffer through.
TailIsComplete ==
  stage \notin {"tail", "returned"} => tail_request # "running" /\ tail_error = 0

\* burst_downloader_fetch_cd_ranges is an AllOrError of its ranges: it
\* returns 0 only with every buffer stored, and stores none after it
\* returned, whichever of main and the callbacks started a range.
RangesAllOrError == Ranges!Safety

\* burst_downloader_extract returns (or hands over to the hybrid
\* coordinator), even if the S3 client never answers the tail request.
EventuallyReturns == <>(stage \in {"returned", "hybrid"})

\* "Clean up request context", and for the directory ranges "Wait for all to
\* complete" and "Cleanup contexts": the context a request has for its user
\* data is there as long as a callback may come, or is running, that uses it.
ContextOutlivesRequest ==
  /\ tail_context = "freed" => tail_request \notin {"running", "finishing"}
  /\ range_main = "returned" => range_running \cup range_starting \cup range_storing = {}

\* "At most one segment from CD fetch (the first range)", and none beside it
\* from the tail: a part in memory is read from the segment that covers it,
\* although find_body_segment_for_offset only looks at its first byte.
OneBodySegment == Cardinality(segments) <= 1

\* When the function returns 0 on the sequential path, every byte of file
\* data was handed to the processor of its part: from the tail buffer, from
\* a directory range or by download.
AllDataRestored ==
  stage = "returned" /\ result = 0 => \A b \in 0..(central_dir_offset - 1) : <<b, b>> \in fed

\* Every byte handed to a processor is the byte of the archive that the
\* processor takes it for.  process_single_part_archive takes the tail
\* buffer for part 0: "Used when the entire archive fits within the 8 MiB
\* tail buffer".
BytesInPlace == \A f \in fed : f[1] = f[2]
=============================================================================
